---------------------------- MODULE ConfigManager ----------------------------
(***************************************************************************)
(* ConfigManager (src/config/ConfigManager.cpp): what it stores of each      *)
(* setting, a section with a key, and what its operations do to it.          *)
(*                                                                          *)
(* A text is [form, text]: how it reads, and what it says.  Its form is      *)
(* "boolean", "digits", "negative", "decimal", "quoted" (in double quotes,   *)
(* which the text leaves out), "huge" (too many digits for 64 bits), "plain" *)
(* (anything else) or "empty".  A number in a file keeps its form when other  *)
(* characters follow: stoll and stod ignore them.  On the command line such a *)
(* text is plain, and so is one in quotes, which are part of what it says.   *)
(***************************************************************************)
EXTENDS Integers, Sequences

CONSTANTS
  Settings,  \* pairs of a section and a key
  None       \* no entry, no override, no text

VARIABLES
  values,         \* m_values
  currentSection  \* of loadTomlFile

configVars == <<values, currentSection>>

(* ConfigValue; the text of a number stands for the number. *)
Value(type, text) == [type |-> type, text |-> text]
Malformed == Value("malformed", "")

(* TieredConfigValue; the default of an entry that an override creates is the *)
(* first alternative of ConfigValue.                                         *)
Entry(default) == [default |-> default, file |-> None, cli |-> None]
NewEntry == Entry(Value("bool", "false"))

Effective_FileFirst(entry) ==                                      \* mutant
  IF entry.file # None THEN entry.file ELSE IF entry.cli # None THEN entry.cli ELSE entry.default
Effective(entry) ==
  IF entry.cli # None THEN entry.cli ELSE IF entry.file # None THEN entry.file ELSE entry.default

(* get<T>: nullopt when there is no entry, an exception for another type.    *)
Get(setting) == IF values[setting] = None THEN None ELSE Effective(values[setting])
GetThrows(setting, type) == Get(setting) # None /\ Get(setting).type # type

-----------------------------------------------------------------------------
ConfigInit == values = [s \in Settings |-> None] /\ currentSection = "global"

(* A module is [name, options], options a function from keys to defaults. *)
RegisterModule(module) ==
  /\ values' = [s \in Settings |->
                  IF s[1] = module.name /\ s[2] \in DOMAIN module.options
                  THEN Entry(module.options[s[2]]) ELSE values[s]]
  /\ UNCHANGED currentSection

Override(setting, tier, value) ==
  values' = [values EXCEPT ![setting] =
               [(IF @ = None THEN NewEntry ELSE @) EXCEPT ![tier] = value]]

(* The type of a value in a file, where text must be quoted. *)
OfFile(t) ==
  CASE t.form = "boolean" -> Value("bool", t.text)
    [] t.form = "quoted" -> Value("string", t.text)
    [] t.form = "decimal" -> Value("double", t.text)
    [] t.form \in {"digits", "negative"} -> Value("int", t.text)
    [] OTHER -> Malformed

(* The type of a value on the command line, where only digits are a number. *)
OfCommandLine(t) ==
  CASE t.form = "boolean" -> Value("bool", t.text)
    [] t.form = "digits" -> Value("int", t.text)
    [] t.form = "huge" -> Malformed
    [] OTHER -> Value("string", t.text)

(* One line of loadTomlFile: a section, an assignment, or one it ignores: a  *)
(* comment, an empty one, one without "=", so a section with a comment too.  *)
LineThrows(line) == line.kind = "assign" /\ OfFile(line.value) = Malformed
LoadLine_FreshSection(line) ==                                     \* mutant
  /\ ~LineThrows(line)
  /\ \/ line.kind = "section" /\ currentSection' = line.name /\ UNCHANGED values
     \/ line.kind = "ignored" /\ UNCHANGED configVars
     \/ /\ line.kind = "assign"
        /\ Override(<<currentSection, line.key>>, "file", OfFile(line.value))
        /\ currentSection' = "global"
LoadLine(line) ==
  /\ ~LineThrows(line)
  /\ \/ line.kind = "section" /\ currentSection' = line.name /\ UNCHANGED values
     \/ line.kind = "ignored" /\ UNCHANGED configVars
     \/ /\ line.kind = "assign"
        /\ Override(<<currentSection, line.key>>, "file", OfFile(line.value))
        /\ UNCHANGED currentSection

(* One argument of parseCLI: [help, dash, setting, value, itself], where dash *)
(* tells whether it starts with one, setting is None without a ".", value is *)
(* what follows its "=" or None, and itself what it is as a value.  Without  *)
(* "=" it takes the next one for its value, even if it names no setting.     *)
TakesNext(argv, i) == argv[i].value = None /\ i < Len(argv) /\ ~argv[i + 1].dash
ValueOf(argv, i) ==
  IF TakesNext(argv, i) THEN argv[i + 1].itself
  ELSE IF argv[i].value = None THEN [form |-> "empty", text |-> ""] ELSE argv[i].value
Sets(argv, i) == argv[i].setting # None /\ ValueOf(argv, i).form # "empty"
ArgumentThrows(argv, i) == Sets(argv, i) /\ OfCommandLine(ValueOf(argv, i)) = Malformed
ParseArgument(argv, i) ==
  /\ ~argv[i].help /\ ~ArgumentThrows(argv, i)
  /\ IF Sets(argv, i) THEN Override(argv[i].setting, "cli", OfCommandLine(ValueOf(argv, i)))
                      ELSE UNCHANGED values
  /\ UNCHANGED currentSection
Following_Next(argv, i) == i + 1                                   \* mutant
Following(argv, i) == IF TakesNext(argv, i) THEN i + 2 ELSE i + 1
=============================================================================
