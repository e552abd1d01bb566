------------------------------- MODULE StartUp -------------------------------
(***************************************************************************)
(* main() up to the running server (src/main.cpp:63-108): registration of    *)
(* the modules, the file, the command line, the checks, the TLS settings and *)
(* the port.  What follows is in ClientConnectionManager.                    *)
(***************************************************************************)
EXTENDS ConfigManager, FiniteSets

CONSTANTS
  Modules,        \* the schemas
  Registrations,  \* module names, once per translation unit that includes the header
  Files,          \* what ./config.toml may hold, as lines; <<>> if there is none
  CommandLines,   \* what argv may hold after the name of the program
  ExistingPaths,
  NumberOf        \* from the texts of numbers to numbers

Types == {"bool", "int", "double", "string"}
Forms == {"boolean", "digits", "negative", "decimal", "quoted", "huge", "plain", "empty"}
Texts == [form : Forms, text : STRING]
Bare == {t \in Texts : t.form # "quoted"}
FileLine ==
  [kind : {"section"}, name : STRING] \cup [kind : {"ignored"}]
    \cup [kind : {"assign"}, key : STRING, value : Texts]
CommandLineArgument ==
  [help : BOOLEAN, dash : BOOLEAN, setting : Settings \cup {None},
   value : Bare \cup {None}, itself : Bare]

Values == [type : Types \cup {"malformed"}, text : STRING]
Entries == [default : Values, file : Values \cup {None}, cli : Values \cup {None}]

ASSUME SettingsAssumption == Settings \subseteq STRING \X STRING
ASSUME NoneAssumption == None \notin Texts \cup Values \cup Entries \cup (STRING \X STRING) \cup {0, 1}
ASSUME StringsAssumption == {"", "false"} \subseteq STRING  \* which provers do not know
ASSUME ModulesAssumption ==
  /\ \A m \in Modules : \A key \in DOMAIN m.options : m.options[key] \in [type : Types, text : STRING]
  /\ \A m, n \in Modules : m.name = n.name => m = n
  /\ {r[1] : r \in Registrations} = {m.name : m \in Modules}
ASSUME InputsAssumption == Files \subseteq Seq(FileLine) /\ CommandLines \subseteq Seq(CommandLineArgument)

(* A text that becomes a number stands for one; other texts need not. *)
IsNumber(text) == NumberOf[text] \in Int
ASSUME NumbersAssumption ==
  /\ IsNumber("5222")
  /\ \A m \in Modules : \A key \in DOMAIN m.options :
       m.options[key].type = "int" => IsNumber(m.options[key].text)
  /\ \A lines \in Files : \A i \in DOMAIN lines :
       lines[i].kind = "assign" /\ lines[i].value.form \in {"digits", "negative"} =>
         IsNumber(lines[i].value.text)
  /\ \A arguments \in CommandLines : \A i \in DOMAIN arguments :
       \A t \in {arguments[i].value, arguments[i].itself} \ {None} :
         t.form = "digits" => IsNumber(t.text)

VARIABLES
  phase, exitCode,
  pending,        \* registrations that the registry still has to hand over
  file, argv,     \* what is read ...
  at,             \* ... and how far: the next line or argument
  tlsSettings,    \* g_tlsSettings
  listeningPort

mainVars == <<phase, exitCode, pending, file, argv, at, tlsSettings, listeningPort>>
vars == <<configVars, mainVars>>

CertPath == <<"tls", "cert_path">>
KeyPath == <<"tls", "key_path">>
Port == <<"c2s", "port">>
PortNumbers == 0 .. 65535

(* The schemas of the two modules (TlsConfig.hpp, ClientConnectionManager.hpp). *)
ASSUME SchemaAssumption ==
  \A s \in {CertPath, KeyPath, Port} :
    s \in Settings /\ \E m \in Modules : m.name = s[1] /\ s[2] \in DOMAIN m.options

Phases == {"register", "load", "parse", "validate", "listen", "serving", "exited"}
IsValue(v) == v.type \in Types /\ v = Value(v.type, v.text)
TypeOK ==
  /\ \A s \in Settings :
       values[s] # None =>
         /\ DOMAIN values[s] = {"default", "file", "cli"}
         /\ IsValue(values[s].default)
         /\ \A tier \in {"file", "cli"} : values[s][tier] = None \/ IsValue(values[s][tier])
  /\ phase \in Phases /\ exitCode \in {None, 0, 1}
  /\ (phase = "exited") = (exitCode # None)
  /\ pending \subseteq Registrations
  /\ \A i \in DOMAIN file : file[i].kind \in {"section", "assign", "ignored"}
  /\ \A i \in DOMAIN argv : argv[i].help \in BOOLEAN /\ argv[i].dash \in BOOLEAN
  /\ at \in 1 .. Len(file) + Len(argv) + 1
  /\ listeningPort = None \/ listeningPort \in PortNumbers

Init ==
  /\ ConfigInit
  /\ phase = "register" /\ exitCode = None /\ pending = Registrations
  /\ file = <<>> /\ argv = <<>> /\ at = 1
  /\ tlsSettings = [certPath |-> "./server.crt", keyPath |-> "./server.key"]
  /\ listeningPort = None

-----------------------------------------------------------------------------
Exit(code) ==
  /\ phase' = "exited" /\ exitCode' = code
  /\ UNCHANGED <<configVars, pending, file, argv, at, tlsSettings, listeningPort>>

(* registerAllDiscoveredModules: the order of the registry is the order in    *)
(* which the translation units are initialized, so any.                      *)
Register ==
  /\ phase = "register"
  /\ \E r \in pending, m \in Modules :
       m.name = r[1] /\ RegisterModule(m) /\ pending' = pending \ {r}
  /\ UNCHANGED <<phase, exitCode, file, argv, at, tlsSettings, listeningPort>>

OpenFile_Early ==                                                  \* mutant
  /\ phase = "register" /\ Cardinality(pending) <= 1
  /\ phase' = "load" /\ file' \in Files
  /\ UNCHANGED <<configVars, exitCode, pending, argv, at, tlsSettings, listeningPort>>
OpenFile ==
  /\ phase = "register" /\ pending = {}
  /\ phase' = "load" /\ file' \in Files
  /\ UNCHANGED <<configVars, exitCode, pending, argv, at, tlsSettings, listeningPort>>

(* An exception leaves main with 1. *)
Load ==
  /\ phase = "load" /\ at <= Len(file)
  /\ \/ LineThrows(file[at]) /\ Exit(1)
     \/ /\ LoadLine(file[at]) /\ at' = at + 1
        /\ UNCHANGED <<phase, exitCode, pending, file, argv, tlsSettings, listeningPort>>

StartParsing ==
  /\ phase = "load" /\ at > Len(file)
  /\ phase' = "parse" /\ argv' \in CommandLines /\ at' = 1
  /\ UNCHANGED <<configVars, exitCode, pending, file, tlsSettings, listeningPort>>

Parse ==
  /\ phase = "parse" /\ at <= Len(argv)
  /\ \/ argv[at].help /\ Exit(0)
     \/ ~argv[at].help /\ ArgumentThrows(argv, at) /\ Exit(1)
     \/ /\ ParseArgument(argv, at) /\ at' = Following(argv, at)
        /\ UNCHANGED <<phase, exitCode, pending, file, argv, tlsSettings, listeningPort>>

EndParsing ==
  /\ phase = "parse" /\ at > Len(argv)
  /\ phase' = "validate"
  /\ UNCHANGED <<configVars, exitCode, pending, file, argv, at, tlsSettings, listeningPort>>

(* Both paths are read before either is looked for; an empty one exists      *)
(* nowhere, so initializeTlsSettings does not throw here.                    *)
TextOr(setting, default) == IF Get(setting) = None THEN default ELSE Get(setting).text
Validate_OnlyCertificate ==                                        \* mutant
  LET settings == [certPath |-> TextOr(CertPath, "./server.crt"),
                   keyPath |-> TextOr(KeyPath, "./server.key")]
      bad == \/ GetThrows(CertPath, "string") \/ GetThrows(KeyPath, "string")
             \/ settings.certPath \notin ExistingPaths
  IN  /\ phase = "validate"
      /\ \/ bad /\ Exit(1)
         \/ /\ ~bad /\ phase' = "listen" /\ tlsSettings' = settings
            /\ UNCHANGED <<configVars, exitCode, pending, file, argv, at, listeningPort>>
Validate ==
  LET settings == [certPath |-> TextOr(CertPath, "./server.crt"),
                   keyPath |-> TextOr(KeyPath, "./server.key")]
      bad == \/ GetThrows(CertPath, "string") \/ GetThrows(KeyPath, "string")
             \/ ~({settings.certPath, settings.keyPath} \subseteq ExistingPaths)
  IN  /\ phase = "validate"
      /\ \/ bad /\ Exit(1)
         \/ /\ ~bad /\ phase' = "listen" /\ tlsSettings' = settings
            /\ UNCHANGED <<configVars, exitCode, pending, file, argv, at, listeningPort>>

(* The port is cut to 16 bits. *)
CutPort_Whole == NumberOf[TextOr(Port, "5222")]                     \* mutant
CutPort == NumberOf[TextOr(Port, "5222")] % 65536
ReadPort ==
  /\ phase = "listen" /\ listeningPort = None
  /\ \/ GetThrows(Port, "int") /\ Exit(1)
     \/ /\ ~GetThrows(Port, "int") /\ listeningPort' = CutPort
        /\ UNCHANGED <<configVars, phase, exitCode, pending, file, argv, at, tlsSettings>>

(* The constructor of the manager listens or throws. *)
Listen ==
  /\ phase = "listen" /\ listeningPort # None
  /\ \/ Exit(1)
     \/ /\ phase' = "serving"
        /\ UNCHANGED <<configVars, exitCode, pending, file, argv, at, tlsSettings, listeningPort>>

Started == phase \in {"serving", "exited"} /\ UNCHANGED vars

Next ==
  \/ Register \/ OpenFile \/ Load \/ StartParsing \/ Parse \/ EndParsing \/ Validate \/ ReadPort
  \/ Listen \/ Started

Spec == Init /\ [][Next]_vars

-----------------------------------------------------------------------------
(* What the file and the command line say, read as a whole.                 *)

Latest(positions) == CHOOSE i \in positions : \A j \in positions : j <= i

SectionOf(i) ==
  LET headers == {j \in 1 .. i - 1 : file[j].kind = "section"}
  IN  IF headers = {} THEN "global" ELSE file[Latest(headers)].name
FileAssigns(s) ==
  {i \in DOMAIN file : file[i].kind = "assign" /\ <<SectionOf(i), file[i].key>> = s}

(* Of the arguments in a row that may take the next one, every second does.  *)
Row(i) == {j \in 1 .. i : /\ \A k \in j .. i - 1 : argv[k].value = None /\ ~argv[k].help
                         /\ \A k \in j + 1 .. i : ~argv[k].dash}
IsTaken(i) == Cardinality(Row(i)) % 2 = 0
WrittenValue(i) ==
  IF argv[i].value # None THEN argv[i].value
  ELSE IF i < Len(argv) /\ IsTaken(i + 1) THEN argv[i + 1].itself
  ELSE [form |-> "empty", text |-> ""]
CommandLineAssigns(s) ==
  {i \in DOMAIN argv : ~IsTaken(i) /\ argv[i].setting = s /\ WrittenValue(i).form # "empty"}

Named(s) == {m \in Modules : m.name = s[1] /\ s[2] \in DOMAIN m.options}
DefaultOf(s) == IF Named(s) = {} THEN None ELSE (CHOOSE m \in Named(s) : TRUE).options[s[2]]

Written(s) ==
  IF CommandLineAssigns(s) # {} THEN OfCommandLine(WrittenValue(Latest(CommandLineAssigns(s))))
  ELSE IF FileAssigns(s) # {} THEN OfFile(file[Latest(FileAssigns(s))].value)
  ELSE DefaultOf(s)

(* After start-up a setting has the value of its last place on the command   *)
(* line, else of its last place in the file, else its default, however the   *)
(* modules are registered, sections are spread over the file and arguments   *)
(* take one another; one that is nowhere has none, which get reports with    *)
(* nullopt (ConfigManager.cpp:9-15, 42-144, ConfigManager.hpp:48, 243-256).  *)
ConfiguredAsWritten ==
  phase \in {"validate", "listen", "serving"} => \A s \in Settings : Get(s) = Written(s)

Has(s, type) == Written(s) = None \/ Written(s).type = type
WellFormed ==
  /\ \A i \in DOMAIN file : file[i].kind = "assign" => OfFile(file[i].value) # Malformed
  /\ \A s \in Settings, i \in DOMAIN argv :
       i \in CommandLineAssigns(s) => OfCommandLine(WrittenValue(i)) # Malformed
PathsOK ==
  /\ Has(CertPath, "string") /\ Has(KeyPath, "string")
  /\ \A s \in {CertPath, KeyPath} : Written(s) # None => Written(s).text \in ExistingPaths

(* The server runs exactly if nothing it was told is malformed or of another *)
(* type, its certificate and key exist and the port can be had; and it uses  *)
(* the paths it has checked (main.cpp:67-108, TlsConfig.cpp:9-16).           *)
ServesIfConfigured ==
  /\ phase = "serving" =>
       /\ WellFormed /\ PathsOK /\ Has(Port, "int")
       /\ tlsSettings = [certPath |-> Written(CertPath).text, keyPath |-> Written(KeyPath).text]
       /\ \A i \in DOMAIN argv : argv[i].help => IsTaken(i)
  /\ exitCode = 1 /\ listeningPort = None => ~(WellFormed /\ PathsOK /\ Has(Port, "int"))
  /\ exitCode = 0 => \E i \in DOMAIN argv : argv[i].help

(* The server listens on the port it was told, which fails for one that does  *)
(* not fit 16 bits (main.cpp:101).                                           *)
ListensOnConfiguredPort ==
  phase = "serving" => listeningPort = NumberOf[Get(Port).text]

(* A setting that nobody registered or set makes get throw, as it does for   *)
(* one of another type (the comment of get, ConfigManager.hpp:237-241).      *)
MissingSettingThrows ==
  phase = "validate" =>
    \A s \in Settings, type \in Types : values[s] = None => GetThrows(s, type)
=============================================================================
