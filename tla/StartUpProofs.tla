----------------------------- MODULE StartUpProofs -----------------------------
(***************************************************************************)
(* Proofs about StartUp: for every file, every command line and every order  *)
(* of registration, each setting ends up with what was written last of it.   *)
(***************************************************************************)
EXTENDS StartUp, FiniteSetTheorems, TLAPS

(* What is stored of a setting as far as start-up has come: registrations     *)
(* that are done, lines before l and arguments before a.                     *)
Registered(s) == Named(s) # {} /\ \E r \in Registrations \ pending : r[1] = s[1]
RegisteredEntry(s) == IF Registered(s) THEN Entry(DefaultOf(s)) ELSE None

Default(s) == IF Named(s) = {} THEN Value("bool", "false") ELSE DefaultOf(s)
FileBefore(s, l) == {i \in FileAssigns(s) : i < l}
FileTier(s, l) ==
  IF FileBefore(s, l) = {} THEN None ELSE OfFile(file[Latest(FileBefore(s, l))].value)
CliBefore(s, a) == {i \in CommandLineAssigns(s) : i < a}
CliTier(s, a) ==
  IF CliBefore(s, a) = {} THEN None ELSE OfCommandLine(WrittenValue(Latest(CliBefore(s, a))))
Stored(s, l, a) ==
  /\ values[s] \in Entries \cup {None}
  /\ values[s] = None <=> Named(s) = {} /\ FileBefore(s, l) = {} /\ CliBefore(s, a) = {}
  /\ values[s] # None =>
       /\ values[s].default = Default(s)
       /\ values[s].file = FileTier(s, l) /\ (values[s].file = None <=> FileBefore(s, l) = {})
       /\ values[s].cli = CliTier(s, a) /\ (values[s].cli = None <=> CliBefore(s, a) = {})
AllStored(l, a) == \A s \in Settings : Stored(s, l, a)

Inputs ==
  /\ file \in Seq(FileLine) /\ argv \in Seq(CommandLineArgument)
  /\ phase \in Phases /\ at \in Nat /\ DOMAIN values = Settings
RegisterInv ==
  phase = "register" =>
    /\ \A s \in Settings : values[s] = RegisteredEntry(s)
    /\ currentSection = "global" /\ at = 1 /\ argv = <<>> /\ pending \subseteq Registrations
LoadInv ==
  phase = "load" =>
    /\ AllStored(at, 1) /\ currentSection = SectionOf(at)
    /\ at \in 1 .. Len(file) + 1 /\ argv = <<>>
ParseInv ==
  phase = "parse" =>
    /\ AllStored(Len(file) + 1, at)
    /\ at \in 1 .. Len(argv) + 1
    /\ at <= Len(argv) => ~IsTaken(at)
DoneInv ==
  phase \in {"validate", "listen", "serving"} => AllStored(Len(file) + 1, Len(argv) + 1)
ConfigInv == Inputs /\ RegisterInv /\ LoadInv /\ ParseInv /\ DoneInv

-----------------------------------------------------------------------------
(* The last position of some that all come before another, and that one.     *)
LEMMA LatestAdded ==
  ASSUME NEW S \in SUBSET Nat, NEW n \in Nat, \A j \in S : j < n
  PROVE  Latest(S \cup {n}) = n
<1> DEFINE P(i) == i \in S \cup {n} /\ \A j \in S \cup {n} : j <= i
<1>1. P(n)
  OBVIOUS
<1>2. Latest(S \cup {n}) = CHOOSE i \in S \cup {n} : \A j \in S \cup {n} : j <= i
  BY DEF Latest
<1>3. P(Latest(S \cup {n}))
  BY <1>1, <1>2
<1>4. Latest(S \cup {n}) \in Nat /\ n <= Latest(S \cup {n})
  BY <1>3
<1> QED
  BY <1>3, <1>4

(* A setting that a module names has the default of that module. *)
LEMMA OneDefault ==
  ASSUME NEW s, NEW m \in Modules, m.name = s[1], s[2] \in DOMAIN m.options
  PROVE  Named(s) # {} /\ DefaultOf(s) = m.options[s[2]]
<1>1. Named(s) = {m}
  BY ModulesAssumption DEF Named
<1>2. (CHOOSE n \in Named(s) : TRUE) = m
  BY <1>1
<1> QED
  BY <1>1, <1>2 DEF DefaultOf

(* Texts become values. *)
LEMMA TextsToValues ==
  ASSUME NEW t \in Texts
  PROVE  OfFile(t) \in Values /\ OfCommandLine(t) \in Values
BY StringsAssumption DEF OfFile, OfCommandLine, Texts, Forms, Values, Value, Malformed, Types

LEMMA Defaults ==
  ASSUME NEW s \in Settings
  PROVE  Default(s) \in Values
<1>1. CASE Named(s) = {}
  BY <1>1, StringsAssumption DEF Default, Value, Values, Types
<1>2. CASE Named(s) # {}
  <2>1. PICK m \in Modules : m.name = s[1] /\ s[2] \in DOMAIN m.options
    BY <1>2 DEF Named
  <2>2. DefaultOf(s) = m.options[s[2]]
    BY <2>1, OneDefault
  <2> QED
    BY <1>2, <2>1, <2>2, ModulesAssumption DEF Default, Values
<1> QED
  BY <1>1, <1>2

-----------------------------------------------------------------------------
(* Which arguments are taken: the one after i is exactly if i may take it and *)
(* is not taken itself.                                                      *)
LEMMA TakenNext ==
  ASSUME NEW i \in Nat \ {0}, argv \in Seq(CommandLineArgument), i < Len(argv)
  PROVE  IsTaken(i + 1) <=>
           argv[i].value = None /\ ~argv[i].help /\ ~argv[i + 1].dash /\ ~IsTaken(i)
<1> DEFINE May == argv[i].value = None /\ ~argv[i].help /\ ~argv[i + 1].dash
<1>1. IsFiniteSet(Row(i)) /\ i + 1 \notin Row(i)
  <2>1. IsFiniteSet(1 .. i)
    BY FS_Interval
  <2> QED
    BY <2>1, FS_Subset DEF Row
<1>2. Cardinality(Row(i)) \in Nat
  BY <1>1, FS_CardinalityType
<1>3. CASE May
  <2>1. Row(i + 1) = Row(i) \cup {i + 1}
    BY <1>3 DEF Row
  <2>2. Cardinality(Row(i + 1)) = Cardinality(Row(i)) + 1
    BY <1>1, <2>1, FS_AddElement
  <2> QED
    BY <1>2, <1>3, <2>2 DEF IsTaken
<1>4. CASE ~May
  <2>1. Row(i + 1) = {i + 1}
    BY <1>4 DEF Row
  <2>2. Cardinality(Row(i + 1)) = 1
    BY <2>1, FS_Singleton
  <2> QED
    BY <1>4, <2>2 DEF IsTaken
<1> QED
  BY <1>3, <1>4

LEMMA FirstNotTaken == ~IsTaken(1)
<1>1. Row(1) = {1}
  BY DEF Row
<1>2. Cardinality(Row(1)) = 1
  BY <1>1, FS_Singleton
<1> QED
  BY <1>2 DEF IsTaken

(* Of an argument that is not taken, the code reads the value that is written. *)
LEMMA ReadsWritten ==
  ASSUME NEW i \in DOMAIN argv, argv \in Seq(CommandLineArgument), ~IsTaken(i), ~argv[i].help
  PROVE  /\ WrittenValue(i) = ValueOf(argv, i) /\ ValueOf(argv, i) \in Texts
         /\ TakesNext(argv, i) <=> i < Len(argv) /\ IsTaken(i + 1)
<1>1. i \in Nat \ {0} /\ i <= Len(argv) /\ argv[i] \in CommandLineArgument
  OBVIOUS
<1>2. i < Len(argv) => argv[i + 1] \in CommandLineArgument
  BY <1>1
<1>3. TakesNext(argv, i) <=> i < Len(argv) /\ IsTaken(i + 1)
  BY <1>1, TakenNext DEF TakesNext
<1>4. WrittenValue(i) = ValueOf(argv, i)
  BY <1>1, <1>3 DEF WrittenValue, ValueOf, TakesNext
<1>5. ValueOf(argv, i) \in Texts
  BY <1>1, <1>2, StringsAssumption DEF ValueOf, TakesNext, CommandLineArgument, Bare, Texts, Forms
<1> QED
  BY <1>3, <1>4, <1>5

(* The next argument to be parsed is not taken either. *)
LEMMA NextNotTaken ==
  ASSUME NEW i \in DOMAIN argv, argv \in Seq(CommandLineArgument), ~IsTaken(i), ~argv[i].help
  PROVE  /\ Following(argv, i) \in i + 1 .. Len(argv) + 1
         /\ Following(argv, i) <= Len(argv) => ~IsTaken(Following(argv, i))
<1>1. i \in Nat \ {0} /\ i <= Len(argv) /\ Len(argv) \in Nat
  OBVIOUS
<1>2. CASE TakesNext(argv, i)
  <2>1. i < Len(argv) /\ IsTaken(i + 1) /\ Following(argv, i) = i + 2
    BY <1>1, <1>2, ReadsWritten DEF Following
  <2>2. i + 2 <= Len(argv) => ~IsTaken(i + 2)
    <3>1. SUFFICES ASSUME i + 2 <= Len(argv) PROVE ~IsTaken((i + 1) + 1)
      BY <1>1
    <3> QED
      BY <1>1, <2>1, <3>1, TakenNext
  <2> QED
    BY <1>1, <2>1, <2>2
<1>3. CASE ~TakesNext(argv, i)
  <2>1. Following(argv, i) = i + 1
    BY <1>3 DEF Following
  <2>2. i + 1 <= Len(argv) => ~IsTaken(i + 1)
    BY <1>1, <1>3, ReadsWritten
  <2> QED
    BY <1>1, <2>1, <2>2
<1> QED
  BY <1>2, <1>3

(* Of the arguments before the next one only this one is new. *)
LEMMA ArgumentParsed ==
  ASSUME NEW i \in DOMAIN argv, argv \in Seq(CommandLineArgument), ~IsTaken(i), ~argv[i].help,
         NEW s \in Settings
  PROVE  CliBefore(s, Following(argv, i)) =
           CliBefore(s, i) \cup (IF Sets(argv, i) /\ argv[i].setting = s THEN {i} ELSE {})
<1>1. i \in Nat \ {0} /\ i <= Len(argv) /\ DOMAIN argv = 1 .. Len(argv) /\ Len(argv) \in Nat
  OBVIOUS
<1>2. s # None
  BY SettingsAssumption, NoneAssumption
<1>3. i \in CommandLineAssigns(s) <=> Sets(argv, i) /\ argv[i].setting = s
  BY <1>2, ReadsWritten DEF CommandLineAssigns, Sets
<1>4. CASE TakesNext(argv, i)
  <2>1. Following(argv, i) = i + 2 /\ i + 1 \notin CommandLineAssigns(s)
    BY <1>1, <1>4, ReadsWritten DEF Following, CommandLineAssigns
  <2>2. CliBefore(s, i + 2) = CliBefore(s, i) \cup (CommandLineAssigns(s) \cap {i})
    BY <1>1, <2>1 DEF CliBefore, CommandLineAssigns
  <2> QED
    BY <1>1, <1>3, <2>1, <2>2
<1>5. CASE ~TakesNext(argv, i)
  <2>1. Following(argv, i) = i + 1
    BY <1>5 DEF Following
  <2>2. CliBefore(s, i + 1) = CliBefore(s, i) \cup (CommandLineAssigns(s) \cap {i})
    BY <1>1 DEF CliBefore, CommandLineAssigns
  <2> QED
    BY <1>1, <1>3, <2>1, <2>2
<1> QED
  BY <1>4, <1>5

(* A line adds itself to what is assigned, and a section header decides what  *)
(* the lines below it are in.                                                *)
LEMMA LineLoaded ==
  ASSUME NEW i \in DOMAIN file, file \in Seq(FileLine), NEW s
  PROVE  /\ FileBefore(s, i + 1) =
              FileBefore(s, i) \cup (IF file[i].kind = "assign" /\ <<SectionOf(i), file[i].key>> = s
                                     THEN {i} ELSE {})
         /\ SectionOf(i + 1) = IF file[i].kind = "section" THEN file[i].name ELSE SectionOf(i)
<1>1. i \in Nat \ {0} /\ i <= Len(file) /\ DOMAIN file = 1 .. Len(file) /\ Len(file) \in Nat
  OBVIOUS
<1>2. FileBefore(s, i + 1) = FileBefore(s, i) \cup (FileAssigns(s) \cap {i})
  BY <1>1 DEF FileBefore, FileAssigns
<1> DEFINE Headers(n) == {j \in 1 .. n - 1 : file[j].kind = "section"}
<1>3. CASE file[i].kind = "section"
  <2>1. Headers(i + 1) = Headers(i) \cup {i} /\ Headers(i) \in SUBSET Nat /\ \A j \in Headers(i) : j < i
    BY <1>1, <1>3
  <2>2. Latest(Headers(i + 1)) = i
    BY <1>1, <2>1, LatestAdded
  <2>3. SectionOf(i + 1) = file[i].name
    BY <2>1, <2>2 DEF SectionOf
  <2> QED
    BY <1>2, <1>3, <2>3 DEF FileAssigns
<1>4. CASE file[i].kind # "section"
  <2>1. Headers(i + 1) = Headers(i)
    BY <1>1, <1>4
  <2>2. SectionOf(i + 1) = SectionOf(i)
    BY <2>1 DEF SectionOf
  <2> QED
    BY <1>2, <1>4, <2>2 DEF FileAssigns
<1> QED
  BY <1>3, <1>4

-----------------------------------------------------------------------------
(* The steps of main. *)

LEMMA InitHolds == Init => ConfigInv
<1> SUFFICES ASSUME Init PROVE ConfigInv
  OBVIOUS
<1>1. \A s \in Settings : values[s] = RegisteredEntry(s)
  BY DEF Init, ConfigInit, RegisteredEntry, Registered
<1>2. Inputs
  BY DEF Init, ConfigInit, Inputs, Phases
<1> QED
  BY <1>1, <1>2 DEF Init, ConfigInit, ConfigInv, RegisterInv, LoadInv, ParseInv, DoneInv

(* What is read does not change while it is being read. *)
LEMMA ReadKept ==
  ASSUME UNCHANGED <<file, argv>>, NEW s, NEW l, NEW a
  PROVE  /\ FileBefore(s, l)' = FileBefore(s, l) /\ FileTier(s, l)' = FileTier(s, l)
         /\ CliBefore(s, a)' = CliBefore(s, a) /\ CliTier(s, a)' = CliTier(s, a)
         /\ IsTaken(a)' = IsTaken(a) /\ SectionOf(l)' = SectionOf(l)
<1>1. FileBefore(s, l)' = FileBefore(s, l) /\ SectionOf(l)' = SectionOf(l)
  BY DEF FileBefore, FileAssigns, SectionOf
<1>2. FileTier(s, l)' = FileTier(s, l)
  BY <1>1 DEF FileTier
<1>3. \A i : IsTaken(i)' = IsTaken(i) /\ WrittenValue(i)' = WrittenValue(i)
  BY DEF IsTaken, Row, WrittenValue
<1>4. CliBefore(s, a)' = CliBefore(s, a)
  BY <1>3 DEF CliBefore, CommandLineAssigns
<1>5. CliTier(s, a)' = CliTier(s, a)
  BY <1>3, <1>4 DEF CliTier
<1> QED
  BY <1>1, <1>2, <1>3, <1>4, <1>5

(* A step that changes neither what is stored nor what is read.              *)
LEMMA StoredKept ==
  ASSUME UNCHANGED <<values, file, argv>>, NEW l, NEW a, AllStored(l, a)
  PROVE  AllStored(l, a)'
<1> SUFFICES ASSUME NEW s \in Settings PROVE Stored(s, l, a)'
  BY DEF AllStored
<1>1. Stored(s, l, a) /\ Default(s)' = Default(s) /\ Named(s)' = Named(s)
  BY DEF AllStored, Default, DefaultOf, Named
<1>2. /\ FileBefore(s, l)' = FileBefore(s, l) /\ FileTier(s, l)' = FileTier(s, l)
      /\ CliBefore(s, a)' = CliBefore(s, a) /\ CliTier(s, a)' = CliTier(s, a)
  BY ReadKept
<1> QED
  BY <1>1, <1>2 DEF Stored

LEMMA ExitKeeps ==
  ASSUME ConfigInv, NEW code, Exit(code)
  PROVE  ConfigInv'
BY DEF ConfigInv, Exit, configVars, Inputs, RegisterInv, LoadInv, ParseInv, DoneInv, Phases

LEMMA RegisterKeeps ==
  ASSUME ConfigInv, Register
  PROVE  ConfigInv'
<1> USE DEF Register, ConfigInv
<1>1. PICK r \in pending, m \in Modules :
         m.name = r[1] /\ RegisterModule(m) /\ pending' = pending \ {r}
  OBVIOUS
<1>2. r \in Registrations /\ pending' \subseteq Registrations
  BY <1>1 DEF RegisterInv
<1>3. ASSUME NEW s \in Settings
      PROVE  values'[s] = RegisteredEntry(s)'
  <2>1. values[s] = RegisteredEntry(s)
    BY DEF RegisterInv
  <2>2. CASE s[1] = m.name /\ s[2] \in DOMAIN m.options
    <3>1. values'[s] = Entry(DefaultOf(s)) /\ Named(s) # {}
      BY <1>1, <2>2, OneDefault DEF RegisterModule
    <3>2. Registered(s)'
      BY <1>1, <1>2, <2>2, <3>1 DEF Registered, Named, RegisterInv
    <3> QED
      BY <3>1, <3>2 DEF RegisteredEntry, DefaultOf, Named
  <2>3. CASE ~(s[1] = m.name /\ s[2] \in DOMAIN m.options)
    <3>1. values'[s] = values[s]
      BY <1>1, <2>3 DEF RegisterModule
    <3>2. Named(s) # {} => s[1] # m.name
      BY <2>3, ModulesAssumption DEF Named
    <3>3. Registered(s)' <=> Registered(s)
      BY <1>1, <1>2, <3>2 DEF Registered, Named, RegisterInv
    <3> QED
      BY <2>1, <3>1, <3>3 DEF RegisteredEntry, DefaultOf, Named
  <2> QED
    BY <2>2, <2>3
<1>4. Inputs'
  BY <1>1 DEF Inputs, RegisterModule
<1> QED
  BY <1>1, <1>2, <1>3, <1>4 DEF RegisterInv, RegisterModule, LoadInv, ParseInv, DoneInv

LEMMA LoadKeeps ==
  ASSUME ConfigInv, Load
  PROVE  ConfigInv'
<1>1. CASE Exit(1)
  BY <1>1, ExitKeeps
<1>2. CASE /\ LoadLine(file[at]) /\ at' = at + 1
           /\ UNCHANGED <<phase, exitCode, pending, file, argv, tlsSettings, listeningPort>>
  <2>1. PICK l \in Nat : l = at
    BY DEF ConfigInv, Inputs
  <2>2. /\ l \in DOMAIN file /\ file \in Seq(FileLine) /\ file[l] \in FileLine
        /\ DOMAIN values = Settings
        /\ AllStored(l, 1) /\ currentSection = SectionOf(l) /\ LoadLine(file[l])
    BY <1>2, <2>1 DEF Load, ConfigInv, Inputs, LoadInv
  <2>3. currentSection' = SectionOf(l + 1)'
    BY <1>2, <2>2, LineLoaded, ReadKept DEF LoadLine, configVars
  <2>4. ASSUME NEW s \in Settings
        PROVE  Stored(s, l + 1, 1)'
    <3>1. Stored(s, l, 1) /\ Default(s)' = Default(s) /\ Named(s)' = Named(s)
      BY <2>2 DEF AllStored, Default, DefaultOf, Named
    <3>2. /\ FileBefore(s, l + 1)' = FileBefore(s, l + 1) /\ FileTier(s, l + 1)' = FileTier(s, l + 1)
          /\ CliBefore(s, 1)' = CliBefore(s, 1) /\ CliTier(s, 1)' = CliTier(s, 1)
      BY <1>2, ReadKept
    <3>3. CASE file[l].kind = "assign" /\ <<SectionOf(l), file[l].key>> = s
      <4>1. FileBefore(s, l + 1) = FileBefore(s, l) \cup {l}
        BY <2>2, <3>3, LineLoaded
      <4>2. Latest(FileBefore(s, l + 1)) = l
        <5>1. FileBefore(s, l) \in SUBSET Nat /\ \A j \in FileBefore(s, l) : j < l
          BY <2>2 DEF FileBefore, FileAssigns
        <5> QED
          BY <4>1, <5>1, LatestAdded
      <4>3. FileTier(s, l + 1) = OfFile(file[l].value)
        BY <4>1, <4>2 DEF FileTier
      <4>4. OfFile(file[l].value) \in Values /\ OfFile(file[l].value) # None
        BY <2>2, <3>3, TextsToValues, NoneAssumption DEF FileLine
      <4>5. values'[s] = [(IF values[s] = None THEN NewEntry ELSE values[s])
                            EXCEPT !.file = OfFile(file[l].value)]
        BY <2>2, <3>3 DEF LoadLine, Override
      <4>6. CASE values[s] = None
        <5>1. values'[s] = [default |-> Default(s), file |-> OfFile(file[l].value), cli |-> None]
          BY <3>1, <4>5, <4>6 DEF NewEntry, Entry, Stored, Default
        <5>2. values'[s] \in Entries /\ values'[s] # None
          BY <4>4, <5>1, Defaults, NoneAssumption DEF Entries
        <5>3. CliBefore(s, 1) = {} /\ CliTier(s, 1) = None
          BY <3>1, <4>6 DEF Stored, CliTier
        <5> QED
          BY <3>2, <4>1, <4>3, <4>4, <5>1, <5>2, <5>3 DEF Stored
      <4>7. CASE values[s] # None
        <5>1. values[s] \in Entries
          BY <3>1, <4>7 DEF Stored
        <5>2. /\ values'[s].default = Default(s) /\ values'[s].file = OfFile(file[l].value)
              /\ values'[s].cli = values[s].cli /\ values'[s] \in Entries
          BY <3>1, <4>4, <4>5, <4>7, <5>1 DEF Entries, Stored
        <5>3. values'[s] # None
          BY <5>2, NoneAssumption
        <5> QED
          BY <3>1, <3>2, <4>1, <4>3, <4>4, <4>7, <5>2, <5>3 DEF Stored
      <4> QED
        BY <4>6, <4>7
    <3>4. CASE ~(file[l].kind = "assign" /\ <<SectionOf(l), file[l].key>> = s)
      <4>1. FileBefore(s, l + 1) = FileBefore(s, l)
        BY <2>2, <3>4, LineLoaded
      <4>2. FileTier(s, l + 1) = FileTier(s, l)
        BY <4>1 DEF FileTier
      <4>3. values'[s] = values[s]
        BY <2>2, <3>4 DEF LoadLine, Override, configVars
      <4> QED
        BY <3>1, <3>2, <4>1, <4>2, <4>3 DEF Stored
    <3> QED
      BY <3>3, <3>4
  <2>5. at' = l + 1 /\ phase' = "load" /\ argv' = <<>> /\ DOMAIN values' = Settings
    BY <1>2, <2>1, <2>2 DEF Load, ConfigInv, LoadInv, LoadLine, Override, configVars
  <2>6. AllStored(at, 1)' /\ (currentSection = SectionOf(at))'
    BY <2>3, <2>4, <2>5 DEF AllStored
  <2> QED
    BY <1>2, <2>1, <2>2, <2>5, <2>6 DEF ConfigInv, Inputs, RegisterInv, LoadInv, ParseInv, DoneInv
<1> QED
  BY <1>1, <1>2 DEF Load

LEMMA OpenFileKeeps ==
  ASSUME ConfigInv, OpenFile
  PROVE  ConfigInv'
<1>1. /\ file' \in Seq(FileLine) /\ argv' = <<>> /\ at' = 1 /\ pending = {}
      /\ UNCHANGED <<values, currentSection>> /\ currentSection = "global" /\ phase' = "load"
      /\ \A s \in Settings : values[s] = RegisteredEntry(s)
  BY InputsAssumption DEF OpenFile, configVars, ConfigInv, RegisterInv
<1>2. ASSUME NEW s \in Settings
      PROVE  Stored(s, 1, 1)'
  <2>1. FileBefore(s, 1)' = {} /\ CliBefore(s, 1)' = {}
    BY <1>1 DEF FileBefore, FileAssigns, CliBefore, CommandLineAssigns
  <2>2. FileTier(s, 1)' = None /\ CliTier(s, 1)' = None
    BY <2>1 DEF FileTier, CliTier
  <2>3. Registered(s) <=> Named(s) # {}
    BY <1>1, ModulesAssumption DEF Registered, Named
  <2>4. CASE Named(s) = {}
    <3>1. values'[s] = None /\ Named(s)' = {}
      BY <1>1, <2>3, <2>4 DEF RegisteredEntry, Named
    <3> QED
      BY <2>1, <3>1 DEF Stored
  <2>5. CASE Named(s) # {}
    <3>1. /\ values'[s] = [default |-> Default(s), file |-> None, cli |-> None]
          /\ Default(s)' = Default(s) /\ Named(s)' # {}
      BY <1>1, <2>3, <2>5 DEF RegisteredEntry, Entry, Default, DefaultOf, Named
    <3>2. values'[s] \in Entries /\ values'[s] # None
      BY <3>1, Defaults, NoneAssumption DEF Entries
    <3> QED
      BY <2>1, <2>2, <3>1, <3>2 DEF Stored
  <2> QED
    BY <2>4, <2>5
<1>3. SectionOf(1)' = "global"
  <2>1. {j \in 1 .. 1 - 1 : file'[j].kind = "section"} = {}
    OBVIOUS
  <2> QED
    BY <2>1 DEF SectionOf
<1>4. AllStored(at, 1)' /\ (currentSection = SectionOf(at))'
  BY <1>1, <1>2, <1>3 DEF AllStored
<1>5. Inputs' /\ at' \in 1 .. Len(file') + 1
  BY <1>1 DEF ConfigInv, Inputs, Phases
<1> QED
  BY <1>1, <1>4, <1>5 DEF ConfigInv, RegisterInv, LoadInv, ParseInv, DoneInv

LEMMA StartParsingKeeps ==
  ASSUME ConfigInv, StartParsing
  PROVE  ConfigInv'
<1>1. /\ argv' \in Seq(CommandLineArgument) /\ at' = 1 /\ phase' = "parse"
      /\ UNCHANGED <<values, file>> /\ AllStored(Len(file) + 1, 1)
  <2>1. at = Len(file) + 1
    BY DEF ConfigInv, Inputs, LoadInv, StartParsing
  <2> QED
    BY <2>1, InputsAssumption DEF StartParsing, configVars, ConfigInv, LoadInv
<1>2. ASSUME NEW s \in Settings, NEW l, l = Len(file) + 1
      PROVE  Stored(s, l, 1)'
  <2>1. Stored(s, l, 1) /\ Default(s)' = Default(s) /\ Named(s)' = Named(s)
    BY <1>1, <1>2 DEF AllStored, Default, DefaultOf, Named
  <2>2. FileBefore(s, l)' = FileBefore(s, l)
    BY <1>1 DEF FileBefore, FileAssigns, SectionOf
  <2>3. FileTier(s, l)' = FileTier(s, l)
    BY <1>1, <2>2 DEF FileTier
  <2>4. CliBefore(s, 1)' = {} /\ CliTier(s, 1)' = None
    BY <1>1 DEF CliTier, CliBefore, CommandLineAssigns
  <2>5. argv = <<>>
    BY DEF ConfigInv, LoadInv, StartParsing
  <2>6. CliBefore(s, 1) = {} /\ CliTier(s, 1) = None
    BY <2>5 DEF CliTier, CliBefore, CommandLineAssigns
  <2> QED
    BY <1>1, <2>1, <2>2, <2>3, <2>4, <2>6 DEF Stored
<1>3. AllStored(Len(file) + 1, at)'
  BY <1>1, <1>2 DEF AllStored
<1>4. ~IsTaken(at)'
  <2>1. Row(1)' = {1}
    BY DEF Row
  <2>2. Cardinality(Row(1)') = 1
    BY <2>1, FS_Singleton
  <2> QED
    BY <1>1, <2>2 DEF IsTaken
<1>5. Inputs' /\ at' \in 1 .. Len(argv') + 1
  BY <1>1 DEF ConfigInv, Inputs, Phases
<1> QED
  BY <1>1, <1>3, <1>4, <1>5 DEF ConfigInv, RegisterInv, LoadInv, ParseInv, DoneInv

LEMMA ParseKeeps ==
  ASSUME ConfigInv, Parse
  PROVE  ConfigInv'
<1>1. CASE Exit(0) \/ Exit(1)
  BY <1>1, ExitKeeps
<1>2. CASE /\ ParseArgument(argv, at) /\ at' = Following(argv, at)
           /\ UNCHANGED <<phase, exitCode, pending, file, argv, tlsSettings, listeningPort>>
  <2>1. PICK n \in Nat : n = at
    BY DEF ConfigInv, Inputs
  <2>2. PICK l : l = Len(file) + 1
    OBVIOUS
  <2>3. /\ n \in DOMAIN argv /\ argv \in Seq(CommandLineArgument) /\ DOMAIN values = Settings
        /\ AllStored(l, n) /\ ~IsTaken(n) /\ ParseArgument(argv, n) /\ ~argv[n].help
    BY <1>2, <2>1, <2>2 DEF Parse, ParseArgument, ConfigInv, Inputs, ParseInv
  <2>4. PICK m : m = Following(argv, n)
    OBVIOUS
  <2>5. m \in n + 1 .. Len(argv) + 1 /\ (m <= Len(argv) => ~IsTaken(m))
    BY <2>3, <2>4, NextNotTaken
  <2>6. ASSUME NEW s \in Settings
        PROVE  Stored(s, l, m)'
    <3>1. Stored(s, l, n) /\ Default(s)' = Default(s) /\ Named(s)' = Named(s)
      BY <2>3 DEF AllStored, Default, DefaultOf, Named
    <3>2. /\ FileBefore(s, l)' = FileBefore(s, l) /\ FileTier(s, l)' = FileTier(s, l)
          /\ CliBefore(s, m)' = CliBefore(s, m) /\ CliTier(s, m)' = CliTier(s, m)
      BY <1>2, ReadKept
    <3> DEFINE new == OfCommandLine(ValueOf(argv, n))
    <3>3. CASE Sets(argv, n) /\ argv[n].setting = s
      <4>1. CliBefore(s, m) = CliBefore(s, n) \cup {n}
        BY <2>3, <2>4, <3>3, ArgumentParsed
      <4>2. Latest(CliBefore(s, m)) = n
        <5>1. CliBefore(s, n) \in SUBSET Nat /\ \A j \in CliBefore(s, n) : j < n
          BY <2>3 DEF CliBefore, CommandLineAssigns
        <5> QED
          BY <4>1, <5>1, LatestAdded
      <4>3. CliTier(s, m) = new /\ new \in Values /\ new # None
        <5>1. WrittenValue(n) = ValueOf(argv, n) /\ ValueOf(argv, n) \in Texts
          BY <2>3, ReadsWritten
        <5> QED
          BY <4>1, <4>2, <5>1, TextsToValues, NoneAssumption DEF CliTier
      <4> HIDE DEF new
      <4>4. values'[s] = [(IF values[s] = None THEN NewEntry ELSE values[s]) EXCEPT !.cli = new]
        BY <2>3, <3>3 DEF ParseArgument, Override, new
      <4>5. CASE values[s] = None
        <5>1. values'[s] = [default |-> Default(s), file |-> None, cli |-> new]
          BY <3>1, <4>4, <4>5 DEF NewEntry, Entry, Stored, Default
        <5>2. values'[s] \in Entries /\ values'[s] # None
          BY <4>3, <5>1, Defaults, NoneAssumption DEF Entries
        <5>3. FileBefore(s, l) = {} /\ FileTier(s, l) = None
          BY <3>1, <4>5 DEF Stored, FileTier
        <5> QED
          BY <3>2, <4>1, <4>3, <5>1, <5>2, <5>3 DEF Stored
      <4>6. CASE values[s] # None
        <5>1. values[s] \in Entries
          BY <3>1, <4>6 DEF Stored
        <5>2. /\ values'[s].default = Default(s) /\ values'[s].cli = new
              /\ values'[s].file = values[s].file /\ values'[s] \in Entries
          BY <3>1, <4>3, <4>4, <4>6, <5>1 DEF Entries, Stored
        <5>3. values'[s] # None
          BY <5>2, NoneAssumption
        <5> QED
          BY <3>1, <3>2, <4>1, <4>3, <4>6, <5>2, <5>3 DEF Stored
      <4> QED
        BY <4>5, <4>6
    <3>4. CASE ~(Sets(argv, n) /\ argv[n].setting = s)
      <4>1. CliBefore(s, m) = CliBefore(s, n)
        <5>1. CliBefore(s, m) = CliBefore(s, n) \cup {}
          BY <2>3, <2>4, <3>4, ArgumentParsed
        <5> QED
          BY <5>1
      <4>2. CliTier(s, m) = CliTier(s, n)
        BY <4>1 DEF CliTier
      <4>3. values'[s] = values[s]
        BY <2>3, <3>4 DEF ParseArgument, Override
      <4> QED
        BY <3>1, <3>2, <4>1, <4>2, <4>3 DEF Stored
    <3> QED
      BY <3>3, <3>4
  <2>7. /\ at' = m /\ phase' = "parse" /\ argv' = argv /\ file' = file
        /\ DOMAIN values' = Settings /\ l = Len(file') + 1
    BY <1>2, <2>1, <2>2, <2>3, <2>4 DEF Parse, ParseArgument, Override
  <2>8. AllStored(Len(file) + 1, at)'
    BY <2>6, <2>7 DEF AllStored
  <2>9. IsTaken(m)' = IsTaken(m)
    BY <1>2, ReadKept
  <2>10. (at <= Len(argv) => ~IsTaken(at))'
    BY <2>5, <2>7, <2>9
  <2>11. Inputs' /\ at' \in 1 .. Len(argv') + 1
    BY <2>3, <2>5, <2>7 DEF ConfigInv, Inputs, Phases
  <2> QED
    BY <2>7, <2>8, <2>10, <2>11 DEF ConfigInv, RegisterInv, LoadInv, ParseInv, DoneInv
<1> QED
  BY <1>1, <1>2 DEF Parse

(* What follows the reading leaves all that is stored alone. *)
LEMMA LaterKeeps ==
  ASSUME ConfigInv, EndParsing \/ Validate \/ ReadPort \/ Listen
  PROVE  ConfigInv'
<1>1. CASE Exit(1)
  BY <1>1, ExitKeeps
<1>2. CASE ~Exit(1)
  <2>1. UNCHANGED <<configVars, file, argv, at, pending>> /\ phase' \in {"validate", "listen", "serving"}
    BY <1>2 DEF EndParsing, Validate, ReadPort, Listen
  <2>2. PICK l, a : l = Len(file) + 1 /\ a = Len(argv) + 1
    OBVIOUS
  <2>3. AllStored(l, a)
    BY <2>2 DEF EndParsing, Validate, ReadPort, Listen, ConfigInv, Inputs, ParseInv, DoneInv
  <2>4. AllStored(l, a)'
    BY <2>1, <2>3, StoredKept DEF configVars
  <2>5. AllStored(Len(file) + 1, Len(argv) + 1)'
    BY <2>1, <2>2, <2>4 DEF AllStored
  <2> QED
    BY <2>1, <2>5
    DEF configVars, ConfigInv, Inputs, RegisterInv, LoadInv, ParseInv, DoneInv, Phases
<1> QED
  BY <1>1, <1>2


LEMMA NextKeeps ==
  ASSUME ConfigInv, [Next]_vars
  PROVE  ConfigInv'
<1>1. CASE Started \/ UNCHANGED vars
  <2>1. UNCHANGED <<values, currentSection, phase, pending, file, argv, at>>
    BY <1>1 DEF Started, vars, configVars, mainVars
  <2>2. PICK l, a, f, n : l = at /\ a = at /\ f = Len(file) + 1 /\ n = Len(argv) + 1
    OBVIOUS
  <2>3. /\ phase = "load" => AllStored(l, 1) /\ currentSection = SectionOf(l)
        /\ phase = "parse" => AllStored(f, a) /\ (a <= Len(argv) => ~IsTaken(a))
        /\ phase \in {"validate", "listen", "serving"} => AllStored(f, n)
    BY <2>2 DEF ConfigInv, LoadInv, ParseInv, DoneInv
  <2>4. /\ phase = "load" => AllStored(l, 1)' /\ currentSection = SectionOf(l)'
        /\ phase = "parse" => AllStored(f, a)' /\ (a <= Len(argv) => ~IsTaken(a)')
        /\ phase \in {"validate", "listen", "serving"} => AllStored(f, n)'
    BY <2>1, <2>3, StoredKept, ReadKept
  <2>5. /\ phase = "load" => AllStored(at, 1)' /\ currentSection = SectionOf(at)'
        /\ phase = "parse" => AllStored(Len(file) + 1, at)' /\ (at <= Len(argv) => ~IsTaken(at)')
        /\ phase \in {"validate", "listen", "serving"} => AllStored(Len(file) + 1, Len(argv) + 1)'
    BY <2>1, <2>2, <2>4 DEF AllStored
  <2>6. RegisterInv'
    BY <2>1 DEF ConfigInv, RegisterInv, RegisteredEntry, Registered, DefaultOf, Named
  <2> QED
    BY <2>1, <2>5, <2>6 DEF ConfigInv, Inputs, LoadInv, ParseInv, DoneInv
<1> QED
  BY <1>1, RegisterKeeps, OpenFileKeeps, LoadKeeps, StartParsingKeeps, ParseKeeps, LaterKeeps DEF Next

(* At every moment of the start-up, each setting holds its default, the value *)
(* of its last place among the lines loaded so far and that of its last place *)
(* among the arguments parsed so far (ConfigManager.cpp:9-15, 42-144).       *)
THEOREM ConfigInvCorrect == Spec => []ConfigInv
<1>1. ConfigInv /\ [Next]_vars => ConfigInv'
  BY NextKeeps
<1> QED
  BY <1>1, InitHolds, PTL DEF Spec

LEMMA StoredIsWritten ==
  ASSUME Inputs, NEW s \in Settings, Stored(s, Len(file) + 1, Len(argv) + 1)
  PROVE  Get(s) = Written(s)
<1>1. FileBefore(s, Len(file) + 1) = FileAssigns(s)
  BY DEF FileBefore, FileAssigns, Inputs
<1>2. CliBefore(s, Len(argv) + 1) = CommandLineAssigns(s)
  BY DEF CliBefore, CommandLineAssigns, Inputs
<1>3. CASE values[s] = None
  BY <1>1, <1>2, <1>3 DEF Stored, Get, Written, DefaultOf
<1>4. CASE values[s] # None
  <2>1. /\ values[s].cli = None <=> CommandLineAssigns(s) = {}
        /\ values[s].file = None <=> FileAssigns(s) = {}
        /\ values[s].cli = CliTier(s, Len(argv) + 1) /\ values[s].file = FileTier(s, Len(file) + 1)
    BY <1>1, <1>2, <1>4 DEF Stored
  <2>2. /\ CommandLineAssigns(s) # {} =>
             values[s].cli = OfCommandLine(WrittenValue(Latest(CommandLineAssigns(s))))
        /\ FileAssigns(s) # {} => values[s].file = OfFile(file[Latest(FileAssigns(s))].value)
    BY <1>1, <1>2, <2>1 DEF CliTier, FileTier
  <2>3. CommandLineAssigns(s) = {} /\ FileAssigns(s) = {} => values[s].default = DefaultOf(s)
    BY <1>1, <1>2, <1>4 DEF Stored, Default
  <2> QED
    BY <1>4, <2>1, <2>2, <2>3 DEF Get, Effective, Written
<1> QED
  BY <1>3, <1>4

(* However long the file and the command line are, and whichever order the   *)
(* modules are registered in, a setting has the value of its last place on   *)
(* the command line, else in the file, else its default.                    *)
THEOREM AsWritten == Spec => []ConfiguredAsWritten
<1>1. ConfigInv => ConfiguredAsWritten
  BY StoredIsWritten DEF ConfigInv, DoneInv, AllStored, ConfiguredAsWritten
<1> QED
  BY <1>1, ConfigInvCorrect, PTL

-----------------------------------------------------------------------------
(* Whether the server runs. *)

(* What is read so far is in order. *)
LinesOK(l) ==
  \A i \in DOMAIN file : i < l /\ file[i].kind = "assign" => OfFile(file[i].value) # Malformed
ArgumentOK(i) ==
  ~IsTaken(i) =>
    /\ ~argv[i].help
    /\ argv[i].setting # None /\ WrittenValue(i).form # "empty" =>
         OfCommandLine(WrittenValue(i)) # Malformed
ArgumentsOK(a) == \A i \in DOMAIN argv : i < a => ArgumentOK(i)

ReadInOrder ==
  /\ phase = "load" => LinesOK(at)
  /\ phase \in {"parse", "validate", "listen", "serving"} => LinesOK(Len(file) + 1)
  /\ phase = "parse" => ArgumentsOK(at)
  /\ phase \in {"validate", "listen", "serving"} => ArgumentsOK(Len(argv) + 1)
Checked ==
  /\ phase \in {"listen", "serving"} =>
       /\ PathsOK
       /\ tlsSettings = [certPath |-> Written(CertPath).text, keyPath |-> Written(KeyPath).text]
  /\ phase \in {"listen", "serving"} /\ listeningPort # None => Has(Port, "int")
  /\ phase = "serving" => listeningPort # None
Ended ==
  /\ phase = "exited" <=> exitCode # None
  /\ exitCode \in {None, 0, 1}
  /\ phase \notin {"listen", "serving", "exited"} => listeningPort = None
  /\ exitCode = 1 /\ listeningPort = None => ~(WellFormed /\ PathsOK /\ Has(Port, "int"))
  /\ exitCode = 0 => \E i \in DOMAIN argv : argv[i].help
ServesInv == ConfigInv /\ ReadInOrder /\ Checked /\ Ended

(* What is read does not change: neither does what it says. *)
LEMMA SaysSame ==
  ASSUME UNCHANGED <<file, argv>>
  PROVE  /\ WellFormed' <=> WellFormed
         /\ PathsOK' <=> PathsOK
         /\ Has(Port, "int")' <=> Has(Port, "int")
         /\ \A s : Written(s)' = Written(s)
         /\ \A l : LinesOK(l)' <=> LinesOK(l)
         /\ \A a : ArgumentsOK(a)' <=> ArgumentsOK(a)
<1>1. \A i : IsTaken(i)' = IsTaken(i) /\ WrittenValue(i)' = WrittenValue(i)
  BY DEF IsTaken, Row, WrittenValue
<1>2. \A s : CommandLineAssigns(s)' = CommandLineAssigns(s)
  BY <1>1 DEF CommandLineAssigns
<1>3. \A s : FileAssigns(s)' = FileAssigns(s)
  BY DEF FileAssigns, SectionOf
<1>4. \A s : Written(s)' = Written(s)
  BY <1>1, <1>2, <1>3 DEF Written, DefaultOf, Named
<1>5. WellFormed' <=> WellFormed
  BY <1>1, <1>2 DEF WellFormed
<1>6. PathsOK' <=> PathsOK
  BY <1>4 DEF PathsOK, Has
<1>7. Has(Port, "int")' <=> Has(Port, "int")
  BY <1>4 DEF Has
<1>8. \A l : LinesOK(l)' <=> LinesOK(l)
  BY DEF LinesOK
<1>9. \A a : ArgumentsOK(a)' <=> ArgumentsOK(a)
  BY <1>1 DEF ArgumentsOK, ArgumentOK
<1> QED
  BY <1>4, <1>5, <1>6, <1>7, <1>8, <1>9

(* main returns: for help, or because what was read is not in order. *)
LEMMA ExitServes ==
  ASSUME ServesInv, NEW code \in {0, 1}, Exit(code), exitCode = None,
         code = 0 => \E i \in DOMAIN argv : argv[i].help,
         code = 1 /\ listeningPort = None => ~(WellFormed /\ PathsOK /\ Has(Port, "int"))
  PROVE  ServesInv'
<1>1. ConfigInv'
  BY ExitKeeps DEF ServesInv
<1>2. UNCHANGED <<file, argv, listeningPort>> /\ phase' = "exited" /\ exitCode' = code
  BY DEF Exit
<1>3. Ended'
  BY <1>2, SaysSame, NoneAssumption DEF Ended
<1> QED
  BY <1>1, <1>2, <1>3 DEF ServesInv, ReadInOrder, Checked

(* A setting that a schema has is written somewhere. *)
LEMMA SchemaWritten ==
  ASSUME ConfigInv, phase \in {"validate", "listen"}, NEW s \in {CertPath, KeyPath, Port}
  PROVE  Get(s) = Written(s) /\ Get(s) # None
<1>1. s \in Settings /\ Named(s) # {}
  BY SchemaAssumption DEF Named
<1>2. Stored(s, Len(file) + 1, Len(argv) + 1)
  BY <1>1 DEF ConfigInv, DoneInv, AllStored
<1>3. Get(s) = Written(s)
  BY <1>1, <1>2, StoredIsWritten DEF ConfigInv
<1>4. values[s] \in Entries
  BY <1>1, <1>2 DEF Stored
<1>5. Get(s) # None
  <2>1. values[s].default \in Values /\ values[s] # None
    BY <1>4, NoneAssumption DEF Entries
  <2> QED
    BY <2>1, NoneAssumption DEF Get, Effective
<1> QED
  BY <1>3, <1>5

LEMMA LoadServes ==
  ASSUME ServesInv, Load
  PROVE  ServesInv'
<1>1. PICK n \in Nat : n = at /\ n \in DOMAIN file /\ phase = "load" /\ file \in Seq(FileLine)
  BY DEF Load, ServesInv, ConfigInv, Inputs, LoadInv
<1>2. CASE LineThrows(file[n]) /\ Exit(1)
  <2>1. ~WellFormed BY <1>1, <1>2 DEF LineThrows, WellFormed
  <2>2. exitCode = None BY <1>1 DEF ServesInv, Ended
  <2> QED BY <1>2, <2>1, <2>2, ExitServes
<1>3. CASE /\ LoadLine(file[n]) /\ at' = n + 1
           /\ UNCHANGED <<phase, exitCode, pending, file, argv, tlsSettings, listeningPort>>
  <2>1. ConfigInv' BY LoadKeeps DEF ServesInv
  <2>2. LinesOK(n) /\ (file[n].kind = "assign" => OfFile(file[n].value) # Malformed)
    BY <1>1, <1>3 DEF ServesInv, ReadInOrder, LoadLine, LineThrows
  <2>3. LinesOK(n + 1) BY <1>1, <2>2 DEF LinesOK
  <2>4. LinesOK(at)' BY <1>3, <2>3 DEF LinesOK
  <2>5. ReadInOrder' BY <1>1, <1>3, <2>4 DEF ReadInOrder
  <2>6. Checked' BY <1>1, <1>3 DEF Checked
  <2>7. Ended' BY <1>1, <1>3, NoneAssumption DEF ServesInv, Ended
  <2> QED BY <2>1, <2>5, <2>6, <2>7 DEF ServesInv
<1> QED BY <1>1, <1>2, <1>3 DEF Load

LEMMA ParseServes ==
  ASSUME ServesInv, Parse
  PROVE  ServesInv'
<1>1. PICK n \in Nat : n = at /\ n \in DOMAIN argv
  BY DEF Parse, ServesInv, ConfigInv, Inputs, ParseInv
<1>2. /\ argv \in Seq(CommandLineArgument) /\ phase = "parse" /\ ~IsTaken(n)
      /\ exitCode = None /\ listeningPort = None
  BY <1>1 DEF Parse, ServesInv, ConfigInv, Inputs, ParseInv, Ended
<1>3. ~argv[n].help => WrittenValue(n) = ValueOf(argv, n)
  BY <1>1, <1>2, ReadsWritten
<1>4. CASE argv[n].help /\ Exit(0)
  BY <1>1, <1>2, <1>4, ExitServes
<1>5. CASE ~argv[n].help /\ ArgumentThrows(argv, n) /\ Exit(1)
  <2>1. /\ argv[n].setting # None /\ WrittenValue(n).form # "empty"
        /\ OfCommandLine(WrittenValue(n)) = Malformed
    BY <1>3, <1>5 DEF ArgumentThrows, Sets
  <2>2. argv[n].setting \in Settings
    <3>1. argv[n] \in CommandLineArgument BY <1>1, <1>2
    <3> QED BY <2>1, <3>1 DEF CommandLineArgument, Bare
  <2>3. n \in CommandLineAssigns(argv[n].setting)
    BY <1>1, <1>2, <2>1 DEF CommandLineAssigns
  <2>4. ~WellFormed BY <1>1, <2>1, <2>2, <2>3 DEF WellFormed
  <2> QED BY <1>2, <1>5, <2>4, ExitServes
<1>6. CASE /\ ParseArgument(argv, n) /\ at' = Following(argv, n)
           /\ UNCHANGED <<phase, exitCode, pending, file, argv, tlsSettings, listeningPort>>
  <2>1. ConfigInv' BY ParseKeeps DEF ServesInv
  <2>2. PICK m : m = Following(argv, n) OBVIOUS
  <2>3. ~argv[n].help /\ ~ArgumentThrows(argv, n) BY <1>6 DEF ParseArgument
  <2>4. ArgumentOK(n) BY <1>3, <2>3 DEF ArgumentOK, ArgumentThrows, Sets
  <2>5. \A i \in DOMAIN argv : i < m => i < n \/ i = n \/ IsTaken(i)
    BY <1>1, <1>2, <2>2, <2>3, ReadsWritten DEF Following
  <2>6. ArgumentsOK(n) BY <1>1, <1>2 DEF ServesInv, ReadInOrder
  <2>7. ArgumentsOK(m) BY <2>4, <2>5, <2>6 DEF ArgumentsOK, ArgumentOK
  <2>8. LinesOK(Len(file) + 1)' /\ ArgumentsOK(m)'
    BY <1>2, <1>6, <2>7, SaysSame DEF ServesInv, ReadInOrder
  <2>9. ReadInOrder' BY <1>2, <1>6, <2>2, <2>8 DEF ReadInOrder, ArgumentsOK
  <2>10. Checked' BY <1>2, <1>6 DEF Checked
  <2>11. Ended' BY <1>2, <1>6, NoneAssumption DEF ServesInv, Ended
  <2> QED BY <2>1, <2>9, <2>10, <2>11 DEF ServesInv
<1> QED BY <1>1, <1>4, <1>5, <1>6 DEF Parse

(* Between the reading of the file and that of the command line. *)
LEMMA TurnServes ==
  ASSUME ServesInv, Register \/ OpenFile \/ StartParsing \/ EndParsing
  PROVE  ServesInv'
<1>1. ConfigInv'
  BY RegisterKeeps, OpenFileKeeps, StartParsingKeeps, LaterKeeps DEF ServesInv
<1>2. /\ UNCHANGED <<exitCode, listeningPort, tlsSettings>> /\ exitCode = None
      /\ phase' \in {"register", "load", "parse", "validate"} /\ listeningPort = None
  BY DEF Register, OpenFile, StartParsing, EndParsing, ServesInv, Ended
<1>3. Checked' /\ Ended'
  BY <1>2, NoneAssumption DEF Checked, Ended
<1>4. CASE Register BY <1>1, <1>3, <1>4 DEF Register, ServesInv, ReadInOrder
<1>5. CASE OpenFile
  <2>1. LinesOK(at)' BY <1>1, <1>5 DEF OpenFile, LinesOK, ServesInv, ConfigInv, Inputs, RegisterInv
  <2> QED BY <1>1, <1>3, <1>5, <2>1 DEF OpenFile, ServesInv, ReadInOrder
<1>6. CASE StartParsing
  <2>1. /\ phase = "load" /\ file \in Seq(FileLine) /\ at > Len(file) /\ at \in Nat
        /\ UNCHANGED file /\ phase' = "parse" /\ at' = 1 /\ argv' \in Seq(CommandLineArgument)
    BY <1>6, InputsAssumption DEF StartParsing, ServesInv, ConfigInv, Inputs
  <2>2. LinesOK(at) BY <2>1 DEF ServesInv, ReadInOrder
  <2>3. LinesOK(Len(file) + 1)' BY <2>1, <2>2 DEF LinesOK
  <2>4. ArgumentsOK(at)' BY <2>1 DEF ArgumentsOK
  <2> QED BY <1>1, <1>3, <2>1, <2>3, <2>4 DEF ServesInv, ReadInOrder
<1>7. CASE EndParsing
  <2>1. /\ phase = "parse" /\ argv \in Seq(CommandLineArgument) /\ at > Len(argv) /\ at \in Nat
        /\ UNCHANGED <<file, argv>> /\ phase' = "validate"
    BY <1>7 DEF EndParsing, ServesInv, ConfigInv, Inputs
  <2>2. LinesOK(Len(file) + 1) /\ ArgumentsOK(at) BY <2>1 DEF ServesInv, ReadInOrder
  <2>3. ArgumentsOK(Len(argv) + 1) BY <2>1, <2>2 DEF ArgumentsOK
  <2>4. LinesOK(Len(file) + 1)' /\ ArgumentsOK(Len(argv) + 1)'
    BY <2>1, <2>2, <2>3, SaysSame DEF ArgumentsOK, LinesOK
  <2> QED BY <1>1, <1>3, <2>1, <2>4 DEF ServesInv, ReadInOrder
<1> QED BY <1>4, <1>5, <1>6, <1>7

(* The checks before the server listens. *)
LEMMA CheckServes ==
  ASSUME ServesInv, Validate \/ ReadPort \/ Listen
  PROVE  ServesInv'
<1>1. phase \in {"validate", "listen"} /\ exitCode = None
  BY DEF Validate, ReadPort, Listen, ServesInv, Ended
<1>2. \A s \in {CertPath, KeyPath, Port} : Get(s) = Written(s) /\ Get(s) # None
  BY <1>1, SchemaWritten DEF ServesInv
<1>3. ConfigInv' BY LaterKeeps DEF ServesInv
<1>4. ASSUME UNCHANGED <<file, argv>>, phase' \in {"listen", "serving"} PROVE ReadInOrder'
  <2>1. LinesOK(Len(file) + 1) /\ ArgumentsOK(Len(argv) + 1)
    BY <1>1 DEF ServesInv, ReadInOrder
  <2> QED BY <1>4, <2>1, SaysSame DEF ReadInOrder, LinesOK, ArgumentsOK
<1>5. CASE Validate
  <2> DEFINE settings == [certPath |-> TextOr(CertPath, "./server.crt"),
                          keyPath |-> TextOr(KeyPath, "./server.key")]
             bad == \/ GetThrows(CertPath, "string") \/ GetThrows(KeyPath, "string")
                    \/ ~({settings.certPath, settings.keyPath} \subseteq ExistingPaths)
  <2>1. settings = [certPath |-> Written(CertPath).text, keyPath |-> Written(KeyPath).text]
    BY <1>2 DEF TextOr
  <2>2. bad <=> ~PathsOK
    BY <1>2, <2>1 DEF GetThrows, PathsOK, Has
  <2>3. CASE bad /\ Exit(1) BY <1>1, <2>2, <2>3, ExitServes
  <2>4. CASE /\ ~bad /\ phase' = "listen" /\ tlsSettings' = settings
             /\ UNCHANGED <<configVars, exitCode, pending, file, argv, at, listeningPort>>
    <3>1. listeningPort = None BY <1>5 DEF Validate, ServesInv, Ended
    <3>2. Checked' BY <2>1, <2>2, <2>4, <3>1, SaysSame DEF Checked
    <3>3. Ended' BY <1>1, <2>4, <3>1, NoneAssumption DEF Ended
    <3> QED BY <1>3, <1>4, <2>4, <3>2, <3>3 DEF ServesInv
  <2> QED BY <1>5, <2>3, <2>4 DEF Validate
<1>6. CASE ReadPort
  <2>1. phase = "listen" /\ PathsOK BY <1>6 DEF ReadPort, ServesInv, Checked
  <2>2. GetThrows(Port, "int") <=> ~Has(Port, "int") BY <1>2 DEF GetThrows, Has
  <2>3. CASE GetThrows(Port, "int") /\ Exit(1) BY <1>1, <2>2, <2>3, ExitServes
  <2>4. CASE /\ ~GetThrows(Port, "int")
             /\ UNCHANGED <<configVars, phase, exitCode, pending, file, argv, at, tlsSettings>>
    <3>1. Checked' BY <2>1, <2>2, <2>4, SaysSame DEF ServesInv, Checked
    <3>2. Ended' BY <1>1, <2>1, <2>4, NoneAssumption DEF Ended
    <3> QED BY <1>3, <1>4, <2>1, <2>4, <3>1, <3>2 DEF ServesInv
  <2> QED BY <1>6, <2>3, <2>4 DEF ReadPort
<1>7. CASE Listen
  <2>1. phase = "listen" /\ listeningPort # None BY <1>7 DEF Listen
  <2>2. CASE Exit(1) BY <1>1, <2>1, <2>2, ExitServes
  <2>3. CASE /\ phase' = "serving"
             /\ UNCHANGED <<configVars, exitCode, pending, file, argv, at, tlsSettings, listeningPort>>
    <3>1. Checked' BY <2>1, <2>3, SaysSame DEF ServesInv, Checked
    <3>2. Ended' BY <1>1, <2>1, <2>3, NoneAssumption DEF Ended
    <3> QED BY <1>3, <1>4, <2>3, <3>1, <3>2 DEF ServesInv
  <2> QED BY <1>7, <2>2, <2>3 DEF Listen
<1> QED BY <1>5, <1>6, <1>7

LEMMA ServesInit == Init => ServesInv
  BY InitHolds, NoneAssumption DEF Init, ServesInv, ReadInOrder, Checked, Ended

LEMMA ServesStep == ServesInv /\ [Next]_vars => ServesInv'
<1> SUFFICES ASSUME ServesInv, [Next]_vars PROVE ServesInv'
  OBVIOUS
<1>1. CASE Started \/ UNCHANGED vars
  <2>1. UNCHANGED <<phase, exitCode, file, argv, at, tlsSettings, listeningPort>>
    BY <1>1 DEF Started, vars, mainVars
  <2>2. ConfigInv' BY NextKeeps DEF ServesInv
  <2>3. ReadInOrder' BY <2>1, SaysSame DEF ServesInv, ReadInOrder, LinesOK, ArgumentsOK
  <2>4. Checked' BY <2>1, SaysSame DEF ServesInv, Checked
  <2>5. Ended' BY <2>1, SaysSame DEF ServesInv, Ended
  <2> QED BY <2>2, <2>3, <2>4, <2>5 DEF ServesInv
<1> QED BY <1>1, TurnServes, LoadServes, ParseServes, CheckServes DEF Next

(* Whatever the file and the command line hold, the server runs only if they  *)
(* are well formed and of the types that are read, with the certificate and  *)
(* the key it has checked; and it ends with an error before it has a port     *)
(* only if they are not (main.cpp:67-108).                                   *)
THEOREM ServesAsConfigured == Spec => []ServesIfConfigured
<1>1. ServesInv => ServesIfConfigured
  <2> SUFFICES ASSUME ServesInv PROVE ServesIfConfigured
    OBVIOUS
  <2>1. ASSUME phase = "serving"
        PROVE  WellFormed /\ \A i \in DOMAIN argv : argv[i].help => IsTaken(i)
    <3>1. LinesOK(Len(file) + 1) /\ ArgumentsOK(Len(argv) + 1)
      BY <2>1 DEF ServesInv, ReadInOrder
    <3>2. file \in Seq(FileLine) /\ argv \in Seq(CommandLineArgument)
      BY DEF ServesInv, ConfigInv, Inputs
    <3>3. \A i \in DOMAIN file : file[i].kind = "assign" => OfFile(file[i].value) # Malformed
      BY <3>1, <3>2 DEF LinesOK
    <3>4. \A i \in DOMAIN argv : ArgumentOK(i)
      BY <3>1, <3>2 DEF ArgumentsOK
    <3>5. \A s \in Settings, i \in DOMAIN argv :
            i \in CommandLineAssigns(s) => OfCommandLine(WrittenValue(i)) # Malformed
      BY <3>4, SettingsAssumption, NoneAssumption DEF ArgumentOK, CommandLineAssigns
    <3> QED BY <3>3, <3>4, <3>5 DEF WellFormed, ArgumentOK
  <2> QED BY <2>1 DEF ServesInv, Checked, Ended, ServesIfConfigured
<1> QED
  BY <1>1, ServesInit, ServesStep, PTL DEF Spec

-----------------------------------------------------------------------------
(* Types.  A value that is stored is not malformed, and an int stands for a   *)
(* number, so that the port it is cut to is one.                             *)

Sound(v) == v \in [type : Types, text : STRING] /\ (v.type = "int" => IsNumber(v.text))
SoundEntry(e) ==
  /\ e \in [default : Values, file : Values \cup {None}, cli : Values \cup {None}]
  /\ Sound(e.default) /\ (e.file = None \/ Sound(e.file)) /\ (e.cli = None \/ Sound(e.cli))
AllSound == \A s \in Settings : values[s] = None \/ SoundEntry(values[s])
RestOK ==
  /\ file \in Files \cup {<<>>} /\ argv \in CommandLines \cup {<<>>}
  /\ exitCode \in {None, 0, 1} /\ ((phase = "exited") = (exitCode # None))
  /\ pending \subseteq Registrations
  /\ at \in 1 .. Len(file) + Len(argv) + 1
  /\ listeningPort = None \/ listeningPort \in PortNumbers
TypeInv == ConfigInv /\ AllSound /\ RestOK

LEMMA SoundValues ==
  ASSUME NEW t \in Texts
  PROVE  /\ OfFile(t) # Malformed /\ (t.form \in {"digits", "negative"} => IsNumber(t.text)) =>
              Sound(OfFile(t))
         /\ OfCommandLine(t) # Malformed /\ (t.form = "digits" => IsNumber(t.text)) =>
              Sound(OfCommandLine(t))
BY StringsAssumption
   DEF OfFile, OfCommandLine, Texts, Forms, Value, Malformed, Types, Sound

LEMMA SoundIsValue ==
  ASSUME NEW v, Sound(v)
  PROVE  IsValue(v) /\ v \in Values
BY DEF Sound, IsValue, Value, Values

LEMMA SoundNew == SoundEntry(NewEntry)
<1>1. Sound(Value("bool", "false"))
  BY StringsAssumption DEF Sound, Value, Types
<1> QED
  BY <1>1, SoundIsValue DEF SoundEntry, NewEntry, Entry

LEMMA SoundDefault ==
  ASSUME NEW v, Sound(v)
  PROVE  SoundEntry(Entry(v))
BY SoundIsValue DEF SoundEntry, Entry

LEMMA OverrideSound ==
  ASSUME DOMAIN values = Settings, AllSound, NEW setting, NEW tier \in {"file", "cli"},
         NEW v, Sound(v), Override(setting, tier, v)
  PROVE  AllSound'
<1> SUFFICES ASSUME NEW s \in Settings PROVE values'[s] = None \/ SoundEntry(values'[s])
  BY DEF AllSound
<1>1. values[s] = None \/ SoundEntry(values[s])
  BY DEF AllSound
<1>2. CASE s # setting
  BY <1>1, <1>2 DEF Override
<1>3. CASE s = setting
  <2> DEFINE e == IF values[s] = None THEN NewEntry ELSE values[s]
  <2>1. SoundEntry(e)
    BY <1>1, SoundNew
  <2>2. values'[s] = [e EXCEPT ![tier] = v]
    BY <1>3 DEF Override
  <2> HIDE DEF e
  <2>3. v \in Values
    BY SoundIsValue
  <2>4. SoundEntry([e EXCEPT ![tier] = v])
    BY <2>1, <2>3 DEF SoundEntry
  <2> QED
    BY <2>2, <2>4
<1> QED
  BY <1>2, <1>3

LEMMA SoundEffective ==
  ASSUME AllSound, NEW s \in Settings
  PROVE  Get(s) = None \/ Sound(Get(s))
BY DEF AllSound, SoundEntry, Get, Effective

LEMMA RegisterSound ==
  ASSUME TypeInv, Register
  PROVE  AllSound'
<1>1. PICK r \in pending, m \in Modules : m.name = r[1] /\ RegisterModule(m)
  BY DEF Register
<1>2. ASSUME NEW s \in Settings PROVE values'[s] = None \/ SoundEntry(values'[s])
  <2>1. CASE s[1] = m.name /\ s[2] \in DOMAIN m.options
    <3>1. m.options[s[2]] \in [type : Types, text : STRING]
      BY <2>1, ModulesAssumption
    <3>2. Sound(m.options[s[2]])
      BY <2>1, <3>1, NumbersAssumption DEF Sound
    <3>3. values'[s] = Entry(m.options[s[2]])
      BY <1>1, <2>1 DEF RegisterModule
    <3> QED
      BY <3>2, <3>3, SoundDefault
  <2>2. CASE ~(s[1] = m.name /\ s[2] \in DOMAIN m.options)
    BY <1>1, <2>2 DEF RegisterModule, TypeInv, AllSound
  <2> QED
    BY <2>1, <2>2
<1> QED
  BY <1>2 DEF AllSound

LEMMA LoadSound ==
  ASSUME TypeInv, Load, ~Exit(1)
  PROVE  AllSound'
<1>1. /\ phase = "load" /\ at <= Len(file) /\ LoadLine(file[at])
  BY DEF Load
<1>2. /\ file \in Files /\ at \in DOMAIN file /\ file[at] \in FileLine /\ DOMAIN values = Settings
  <2>1. file \in Seq(FileLine) /\ at \in 1 .. Len(file) + 1
    BY <1>1 DEF TypeInv, ConfigInv, Inputs, LoadInv
  <2>2. file # <<>>
    BY <1>1, <2>1
  <2> QED
    BY <1>1, <2>1, <2>2 DEF TypeInv, RestOK, ConfigInv, Inputs
<1>3. CASE UNCHANGED values
  BY <1>3 DEF TypeInv, AllSound
<1>4. CASE file[at].kind = "assign"
  <2> DEFINE line == file[at]
  <2>1. /\ ~LineThrows(line)
        /\ Override(<<currentSection, line.key>>, "file", OfFile(line.value))
    BY <1>1, <1>4 DEF LoadLine
  <2>2. line.value \in Texts /\ OfFile(line.value) # Malformed
    BY <1>2, <1>4, <2>1 DEF FileLine, LineThrows
  <2>3. line.value.form \in {"digits", "negative"} => IsNumber(line.value.text)
    BY <1>2, <1>4, NumbersAssumption
  <2>4. Sound(OfFile(line.value))
    BY <2>2, <2>3, SoundValues
  <2> HIDE DEF line
  <2> QED
    BY <1>2, <2>1, <2>4, OverrideSound DEF TypeInv
<1> QED
  BY <1>1, <1>3, <1>4 DEF LoadLine, configVars

LEMMA ParseSound ==
  ASSUME TypeInv, Parse, phase' # "exited"
  PROVE  AllSound'
<1>1. phase = "parse" /\ at <= Len(argv) /\ ParseArgument(argv, at)
  BY DEF Parse, Exit
<1>2. /\ argv \in CommandLines /\ argv \in Seq(CommandLineArgument) /\ DOMAIN values = Settings
      /\ at \in 1 .. Len(argv)
  <2>1. argv \in Seq(CommandLineArgument) /\ at \in 1 .. Len(argv) + 1
    BY <1>1 DEF TypeInv, ConfigInv, Inputs, ParseInv
  <2>2. argv # <<>>
    BY <1>1, <2>1
  <2> QED
    BY <1>1, <2>1, <2>2 DEF TypeInv, RestOK, ConfigInv, Inputs
<1>3. CASE ~Sets(argv, at)
  BY <1>1, <1>3 DEF ParseArgument, TypeInv, AllSound
<1>4. CASE Sets(argv, at)
  <2> DEFINE t == ValueOf(argv, at)
  <2>1. /\ Override(argv[at].setting, "cli", OfCommandLine(t)) /\ OfCommandLine(t) # Malformed
        /\ t.form # "empty"
    BY <1>1, <1>4 DEF ParseArgument, ArgumentThrows, Sets
  <2>2. \E i \in DOMAIN argv : t \in {argv[i].value, argv[i].itself} \ {None}
    <3>1. CASE TakesNext(argv, at)
      <4>1. at + 1 \in DOMAIN argv /\ t = argv[at + 1].itself
        BY <1>2, <3>1 DEF TakesNext, ValueOf
      <4>2. t \in Texts
        <5>1. argv[at + 1] \in CommandLineArgument
          BY <1>2, <4>1
        <5> QED
          BY <4>1, <5>1 DEF CommandLineArgument, Bare
      <4> QED
        BY <4>1, <4>2, NoneAssumption
    <3>2. CASE ~TakesNext(argv, at)
      <4>1. argv[at].value # None
        BY <2>1, <3>2 DEF ValueOf
      <4>2. t = argv[at].value
        BY <3>2, <4>1 DEF ValueOf
      <4>3. at \in DOMAIN argv
        BY <1>2
      <4> QED
        BY <4>1, <4>2, <4>3
    <3> QED
      BY <3>1, <3>2
  <2>3. PICK i \in DOMAIN argv : t \in {argv[i].value, argv[i].itself} \ {None}
    BY <2>2
  <2>4. t \in Texts
    <3>1. argv[i] \in CommandLineArgument
      BY <1>2
    <3>2. argv[i].value \in Texts \cup {None} /\ argv[i].itself \in Texts
      BY <3>1 DEF CommandLineArgument, Bare
    <3> QED
      BY <2>3, <3>2
  <2>5. t.form = "digits" => IsNumber(t.text)
    BY <1>2, <2>3, NumbersAssumption
  <2>6. Sound(OfCommandLine(t))
    BY <2>1, <2>4, <2>5, SoundValues
  <2> HIDE DEF t
  <2> QED
    BY <1>2, <2>1, <2>6, OverrideSound DEF TypeInv
<1> QED
  BY <1>3, <1>4

LEMMA CutPortInRange ==
  ASSUME AllSound, ~GetThrows(Port, "int")
  PROVE  CutPort \in PortNumbers
<1>1. Port \in Settings
  BY SchemaAssumption
<1>2. IsNumber(TextOr(Port, "5222"))
  <2>1. CASE Get(Port) = None
    BY <2>1, NumbersAssumption DEF TextOr
  <2>2. CASE Get(Port) # None
    <3>1. Sound(Get(Port)) /\ Get(Port).type = "int"
      BY <1>1, <2>2, SoundEffective DEF GetThrows
    <3> QED
      BY <2>2, <3>1 DEF TextOr, Sound
  <2> QED
    BY <2>1, <2>2
<1> DEFINE n == NumberOf[TextOr(Port, "5222")]
<1>3. n \in Int
  BY <1>2 DEF IsNumber
<1> HIDE DEF n
<1> DEFINE cut == n % 65536
<1>4. cut \in PortNumbers
  BY <1>3 DEF PortNumbers
<1>5. CutPort = cut
  BY DEF CutPort, n
<1> HIDE DEF cut
<1> QED
  BY <1>4, <1>5

LEMMA ValuesKeptSound == AllSound /\ UNCHANGED values => AllSound'
  BY DEF AllSound

LEMMA StepSound ==
  ASSUME TypeInv, [Next]_vars
  PROVE  AllSound'
<1>1. CASE Register
  BY <1>1, RegisterSound
<1>2. CASE Load
  BY <1>2, LoadSound, ValuesKeptSound DEF TypeInv, Exit, configVars
<1>3. CASE Parse
  BY <1>3, ParseSound, ValuesKeptSound DEF Parse, TypeInv, Exit, configVars
<1>4. CASE OpenFile \/ StartParsing \/ EndParsing \/ Validate \/ ReadPort \/ Listen \/ Started \/ UNCHANGED vars
  BY <1>4, ValuesKeptSound
  DEF TypeInv, OpenFile, StartParsing, EndParsing, Validate, ReadPort, Listen, Started, Exit,
      configVars, vars
<1> QED
  BY <1>1, <1>2, <1>3, <1>4 DEF Next

LEMMA ExitRestOK ==
  ASSUME RestOK, NEW code \in {0, 1}, Exit(code)
  PROVE  RestOK'
BY NoneAssumption DEF RestOK, Exit

LEMMA StepRestOK ==
  ASSUME TypeInv, [Next]_vars
  PROVE  RestOK'
<1>1. /\ RestOK /\ ConfigInv /\ file \in Seq(FileLine) /\ argv \in Seq(CommandLineArgument)
      /\ Len(file) \in Nat /\ Len(argv) \in Nat /\ at \in Nat
  BY DEF TypeInv, ConfigInv, Inputs
<1>2. CASE Register
  BY <1>1, <1>2 DEF Register, RestOK
<1>3. CASE OpenFile
  <2>1. /\ file' \in Files /\ at' = 1 /\ argv' = argv /\ Len(file') \in Nat
        /\ phase = "register" /\ phase' = "load" /\ UNCHANGED <<exitCode, pending, listeningPort>>
    BY <1>1, <1>3, InputsAssumption DEF OpenFile, ConfigInv, RegisterInv
  <2>2. at' \in 1 .. Len(file') + Len(argv') + 1
    BY <1>1, <2>1
  <2> QED
    BY <1>1, <2>1, <2>2 DEF RestOK
<1>4. CASE Load
  <2>1. CASE Exit(1)
    BY <1>1, <2>1, ExitRestOK
  <2>2. CASE ~Exit(1)
    <3>1. /\ at <= Len(file) /\ at' = at + 1
          /\ UNCHANGED <<phase, exitCode, pending, file, argv, listeningPort>>
      BY <1>4, <2>2 DEF Load
    <3>2. at' \in 1 .. Len(file') + Len(argv') + 1
      BY <1>1, <3>1
    <3> QED
      BY <1>1, <3>1, <3>2 DEF RestOK
  <2> QED
    BY <2>1, <2>2
<1>5. CASE StartParsing
  <2>1. /\ argv' \in CommandLines /\ at' = 1 /\ file' = file /\ Len(argv') \in Nat
        /\ phase = "load" /\ phase' = "parse" /\ UNCHANGED <<exitCode, pending, listeningPort>>
    BY <1>5, InputsAssumption DEF StartParsing
  <2>2. at' \in 1 .. Len(file') + Len(argv') + 1
    BY <1>1, <2>1
  <2> QED
    BY <1>1, <2>1, <2>2 DEF RestOK
<1>6. CASE Parse
  <2>1. CASE Exit(0) \/ Exit(1)
    BY <1>1, <2>1, ExitRestOK
  <2>2. CASE ~(Exit(0) \/ Exit(1))
    <3>1. /\ phase = "parse" /\ at <= Len(argv) /\ at' = Following(argv, at)
          /\ UNCHANGED <<phase, exitCode, pending, file, argv, listeningPort>>
      BY <1>6, <2>2 DEF Parse
    <3>2. at \in 1 .. Len(argv) + 1
      BY <1>1, <3>1 DEF ConfigInv, ParseInv
    <3>3. at' \in 1 .. Len(argv) + 1
      BY <1>1, <3>1, <3>2 DEF Following, TakesNext
    <3>4. at' \in 1 .. Len(file') + Len(argv') + 1
      BY <1>1, <3>1, <3>3
    <3> QED
      BY <1>1, <3>1, <3>4 DEF RestOK
  <2> QED
    BY <2>1, <2>2
<1>7. CASE EndParsing
  BY <1>1, <1>7 DEF EndParsing, RestOK
<1>8. CASE Validate
  BY <1>1, <1>8, ExitRestOK DEF Validate, RestOK
<1>9. CASE ReadPort
  <2>1. CASE Exit(1)
    BY <1>1, <2>1, ExitRestOK
  <2>2. CASE ~Exit(1)
    <3>1. /\ ~GetThrows(Port, "int") /\ listeningPort' = CutPort
          /\ UNCHANGED <<phase, exitCode, pending, file, argv, at>>
      BY <1>9, <2>2 DEF ReadPort
    <3>2. listeningPort' \in PortNumbers
      BY <3>1, CutPortInRange DEF TypeInv
    <3> QED
      BY <1>1, <3>1, <3>2 DEF RestOK
  <2> QED
    BY <2>1, <2>2
<1>10. CASE Listen
  BY <1>1, <1>10, ExitRestOK DEF Listen, RestOK
<1>11. CASE Started \/ UNCHANGED vars
  BY <1>1, <1>11 DEF Started, RestOK, vars, mainVars
<1> QED
  BY <1>2, <1>3, <1>4, <1>5, <1>6, <1>7, <1>8, <1>9, <1>10, <1>11 DEF Next

(* Whatever is written anywhere, a setting holds values of a type and none    *)
(* that is malformed, main ends with an exit code exactly when it ends, and   *)
(* the port is one (ConfigManager.hpp:17-60, main.cpp:63-108).                *)
THEOREM TypeCorrect == Spec => []TypeOK
<1>1. Init => TypeInv
  <2> SUFFICES ASSUME Init PROVE TypeInv
    OBVIOUS
  <2>1. AllSound
    BY DEF Init, ConfigInit, AllSound
  <2>2. RestOK
    BY NoneAssumption DEF Init, RestOK
  <2> QED
    BY <2>1, <2>2, InitHolds DEF TypeInv
<1>2. TypeInv /\ [Next]_vars => TypeInv'
  BY NextKeeps, StepSound, StepRestOK DEF TypeInv
<1>3. TypeInv => TypeOK
  <2> SUFFICES ASSUME TypeInv PROVE TypeOK
    OBVIOUS
  <2>1. ASSUME NEW s \in Settings, values[s] # None
        PROVE  /\ DOMAIN values[s] = {"default", "file", "cli"}
               /\ IsValue(values[s].default)
               /\ \A tier \in {"file", "cli"} : values[s][tier] = None \/ IsValue(values[s][tier])
    BY <2>1, SoundIsValue DEF TypeInv, AllSound, SoundEntry
  <2>2. \A i \in DOMAIN file : file[i].kind \in {"section", "assign", "ignored"}
    <3> SUFFICES ASSUME NEW i \in DOMAIN file PROVE file[i].kind \in {"section", "assign", "ignored"}
      OBVIOUS
    <3>1. file[i] \in FileLine
      BY DEF TypeInv, ConfigInv, Inputs
    <3> QED
      BY <3>1 DEF FileLine
  <2>3. \A i \in DOMAIN argv : argv[i].help \in BOOLEAN /\ argv[i].dash \in BOOLEAN
    <3> SUFFICES ASSUME NEW i \in DOMAIN argv PROVE argv[i].help \in BOOLEAN /\ argv[i].dash \in BOOLEAN
      OBVIOUS
    <3>1. argv[i] \in CommandLineArgument
      BY DEF TypeInv, ConfigInv, Inputs
    <3> QED
      BY <3>1 DEF CommandLineArgument, Bare
  <2> QED
    BY <2>1, <2>2, <2>3 DEF TypeOK, TypeInv, RestOK, ConfigInv, Inputs
<1> QED
  BY <1>1, <1>2, <1>3, PTL DEF Spec
=============================================================================
