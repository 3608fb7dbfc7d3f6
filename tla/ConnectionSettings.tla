------------------------- MODULE ConnectionSettings -------------------------
(***************************************************************************)
(* The connection settings of the six client languages: an env file and the  *)
(* environment of the process are merged, the texts are converted, and the   *)
(* settings are handed to the MQTT client or refused.                        *)
(*   python  connection_settings.py      go    ConnectionSettings.go           *)
(*   dotnet  MqttConnectionSettings.cs   rust  conn/src/lib.rs                 *)
(*   ts      mqttConnectionSettings.ts   c     mqtt_setup.c                    *)
(* The table of mqttclients/README.md says what they should agree on.         *)
(*                                                                         *)
(* A process may load settings more than once (the tests do).  The loaders    *)
(* that write the file into the environment carry it from one load to the     *)
(* next.                                                                    *)
(***************************************************************************)
EXTENDS Integers, Sequences, FiniteSets

CONSTANTS
  Loaders,    \* the languages a run considers
  StartEnvs,  \* environments a process may start with
  Files,      \* env files the first load may name
  LaterFiles, \* env files a later load may name instead of the same one
  MaxLoads    \* bound: loads in one process

Absent == "absent"   \* a variable that is not set, a line that is not there

TextNames == {"MQTT_HOST_NAME", "MQTT_CLIENT_ID", "MQTT_USERNAME", "MQTT_PASSWORD",
              "MQTT_KEY_FILE_PASSWORD"}
IntNames  == {"MQTT_TCP_PORT", "MQTT_KEEP_ALIVE_IN_SECONDS"}
BoolNames == {"MQTT_USE_TLS", "MQTT_CLEAN_SESSION"}
Names     == TextNames \cup IntNames \cup BoolNames

(* The texts a variable may hold, by what the converters tell apart: decimal   *)
(* numbers (in and out of sixteen bits), a number with a tail, quotes, truth   *)
(* values in the spellings of the languages, other words, a value with an      *)
(* equals sign, nothing.                                                    *)
Number == [t \in {"0", "30", "60", "1883", "8883", "70000", "-1"} |->
             CASE t = "0" -> 0 [] t = "30" -> 30 [] t = "60" -> 60 [] t = "1883" -> 1883
               [] t = "8883" -> 8883 [] t = "70000" -> 70000 [] t = "-1" -> -1]
Quoted == [t \in {"\"1883\"", "\"false\""} |-> IF t = "\"1883\"" THEN "1883" ELSE "false"]
Texts  == DOMAIN Number \cup DOMAIN Quoted
          \cup {"", "12abc", "true", "True", "false", "1", "yes", "broker", "user", "p=q", "p"}

EnvFile == [exists: BOOLEAN, text: [Names -> Texts \cup {Absent}]]

Settings ==
  [text: [TextNames -> Texts], int: [IntNames -> SUBSET Int], bool: [BoolNames -> BOOLEAN]]

ASSUME LoadAssumption ==
  /\ Loaders \subseteq {"python", "dotnet", "ts", "go", "rust", "c"}
  /\ StartEnvs \subseteq [Names -> Texts \cup {Absent}]
  /\ Files \subseteq EnvFile
  /\ LaterFiles \subseteq EnvFile
  /\ MaxLoads \in Nat

VARIABLES
  loader,    \* the language
  startEnv,  \* the environment the process started with
  environ,   \* its environment now
  file,      \* the file of the last load
  outcome,   \* how the last load ended
  settings,  \* {s} once a load returned settings s
  loads      \* loads so far

settingsVars == <<loader, startEnv, environ, file, outcome, settings, loads>>

SettingsTypeOK ==
  /\ loader \in Loaders
  /\ startEnv \in StartEnvs
  /\ environ \in [Names -> Texts \cup {Absent}]
  /\ file \in EnvFile
  /\ outcome \in {"none", "loaded", "rejected", "crashed"}
  /\ settings \in SUBSET Settings /\ Cardinality(settings) <= 1
  /\ loads \in 0..MaxLoads

-----------------------------------------------------------------------------
(* Reading.  Over(a, b): the variables of a, and those of b that a lacks.     *)
Over(a, b) == [n \in Names |-> IF a[n] # Absent THEN a[n] ELSE b[n]]

Unquoted(t) == IF t \in DOMAIN Quoted THEN Quoted[t] ELSE t

(* A line of the file.  .NET splits at every '=' and keeps a line of exactly   *)
(* two non-empty parts; C's strtok ends the value at the next '=' or quote.    *)
FileText(l, t) ==
  CASE l = "dotnet" -> IF t \in {"", "p=q"} THEN Absent ELSE t
    [] l = "c"      -> IF t = "p=q" THEN "p" ELSE Unquoted(t)
    [] OTHER        -> Unquoted(t)

Lines(l, f) == [n \in Names |-> IF f.exists THEN FileText(l, f.text[n]) ELSE Absent]

EnvironAfter_Writes(l, f, e) == Over(Lines(l, f), e)

(* What the reader does to the environment of the process.                   *)
EnvironAfter(l, f, e) ==
  CASE l \in {"dotnet", "c"}       -> Over(Lines(l, f), e)
    [] l \in {"ts", "go", "rust"} -> Over(e, Lines(l, f))
    [] l = "python"               -> e

Source_Environ(l, f, e) == EnvironAfter(l, f, e)

(* Where the settings are taken from.                                       *)
Source(l, f, e) ==
  CASE l = "python" -> Over(Lines(l, f), e)
    [] l = "ts"     -> Lines(l, f)
    [] OTHER        -> EnvironAfter(l, f, e)

-----------------------------------------------------------------------------
(* Converting.                                                              *)
Atoi(t) == IF t \in DOMAIN Number THEN Number[t]
           ELSE IF t = "12abc" THEN 12 ELSE IF t = "1" THEN 1 ELSE 0

Whole(t) == t \in DOMAIN Number \cup {"1"}

UInt16Max == 65535

IntAccepts_Any(l, t) == TRUE

IntAccepts(l, t) ==
  CASE l \in {"python", "dotnet", "go"} -> Whole(t)
    [] l = "rust" -> Whole(t) /\ Atoi(t) \in 0..UInt16Max
    [] l = "c"    -> Atoi(t) # 0 \/ t = "0"
    [] l = "ts"   -> TRUE

(* {} is NaN; Number('') is 0; Go's keep alive is a uint16.                   *)
IntValue(l, n, t) ==
  CASE l = "ts" -> IF Whole(t) THEN {Atoi(t)} ELSE IF t = "" THEN {0} ELSE {}
    [] l = "go" /\ n = "MQTT_KEEP_ALIVE_IN_SECONDS" -> {Atoi(t) % (UInt16Max + 1)}
    [] OTHER -> {Atoi(t)}

(* .NET compares CLEAN_SESSION with "true" and checks nothing; TypeScript      *)
(* takes any non-empty text for true.                                        *)
BoolAccepts(l, n, t) ==
  CASE l \in {"python", "c"} -> t \in {"true", "false"}
    [] l = "dotnet" -> n = "MQTT_CLEAN_SESSION" \/ t \in {"true", "True", "false"}
    [] l = "go"     -> t \in {"true", "True", "1", "false", "0"}
    [] l = "rust"   -> t \in {"true", "True", "false"}
    [] l = "ts"     -> TRUE

BoolValue(l, n, t) ==
  CASE l = "ts" -> t # ""
    [] l = "dotnet" /\ n = "MQTT_CLEAN_SESSION" -> t = "true"
    [] OTHER -> t \in {"true", "True", "1"}

(* A variable for which the loader uses its default.                        *)
Defaulted(l, t) == t = Absent \/ (t = "" /\ l \in {"dotnet", "go"})

IntDefault == [n \in IntNames |-> IF n = "MQTT_TCP_PORT" THEN 8883 ELSE 30]

BoolDefault(l, n) == ~(l = "dotnet" /\ n = "MQTT_CLEAN_SESSION")

HasHost(l, t) ==
  CASE l = "go" -> TRUE
    [] l \in {"dotnet", "ts"} -> t \notin {"", Absent}
    [] OTHER -> t # Absent

(* The Python and TypeScript loaders refuse a password without a user name.   *)
Credentials(l, user, password) ==
  CASE l = "python" -> password = Absent \/ user # Absent
    [] l = "ts"     -> password \in {"", Absent} \/ user \notin {"", Absent}
    [] OTHER        -> TRUE

Opens(l, f) == f.exists \/ l \notin {"ts", "rust"}

Accepts(l, f, e) ==
  LET s == Source(l, f, e) IN
  /\ Opens(l, f)
  /\ HasHost(l, s["MQTT_HOST_NAME"])
  /\ Credentials(l, s["MQTT_USERNAME"], s["MQTT_PASSWORD"])
  /\ \A n \in IntNames : Defaulted(l, s[n]) \/ IntAccepts(l, s[n])
  /\ \A n \in BoolNames : Defaulted(l, s[n]) \/ BoolAccepts(l, n, s[n])

TextValue(l, n, t) ==
  IF t = Absent \/ (l = "ts" /\ n = "MQTT_KEY_FILE_PASSWORD") THEN "" ELSE t

SettingsOf(l, f, e) ==
  LET s == Source(l, f, e) IN
  [text |-> [n \in TextNames |-> TextValue(l, n, s[n])],
   int  |-> [n \in IntNames |->
               IF Defaulted(l, s[n]) THEN {IntDefault[n]} ELSE IntValue(l, n, s[n])],
   bool |-> [n \in BoolNames |->
               IF Defaulted(l, s[n]) THEN BoolDefault(l, n) ELSE BoolValue(l, n, s[n])]]

(* setenv(name, NULL, 1) of a line without a value ends the C program.        *)
Crashes(l, f) == l = "c" /\ f.exists /\ \E n \in Names : f.text[n] = ""

-----------------------------------------------------------------------------
SettingsInit ==
  /\ loader \in Loaders
  /\ startEnv \in StartEnvs
  /\ environ = startEnv
  /\ file = [exists |-> FALSE, text |-> [n \in Names |-> Absent]]
  /\ outcome = "none"
  /\ settings = {}
  /\ loads = 0

Begin(f) ==
  /\ loads < MaxLoads
  /\ outcome \in {"none", "loaded"}
  /\ loads' = loads + 1
  /\ file' = f
  /\ UNCHANGED <<loader, startEnv>>

Load(f) ==
  /\ Begin(f)
  /\ ~Crashes(loader, f)
  /\ Accepts(loader, f, environ)
  /\ environ' = EnvironAfter(loader, f, environ)
  /\ outcome' = "loaded"
  /\ settings' = {SettingsOf(loader, f, environ)}

Reject(f) ==
  /\ Begin(f)
  /\ ~Crashes(loader, f)
  /\ ~Accepts(loader, f, environ)
  /\ environ' = EnvironAfter(loader, f, environ)
  /\ outcome' = "rejected"
  /\ settings' = {}

Crash(f) ==
  /\ Begin(f)
  /\ Crashes(loader, f)
  /\ outcome' = "crashed"
  /\ settings' = {}
  /\ UNCHANGED environ

Named == IF loads = 0 THEN Files ELSE {file} \cup LaterFiles

SettingsNext == \E f \in Named : Load(f) \/ Reject(f) \/ Crash(f)

SettingsSpec == SettingsInit /\ [][SettingsNext]_settingsVars

-----------------------------------------------------------------------------
(* mqttclients/README.md:9-20, the table: what a variable stands for when it   *)
(* has the type of its row, and its default when it is not set; but for .NET,  *)
(* whose session is clean only if the variable says so                        *)
(* (MqttConnectionSettings.cs:95).                                           *)
Documented(l, s) ==
  [text |-> [n \in TextNames |-> IF s[n] = Absent THEN "" ELSE s[n]],
   int  |-> [n \in IntNames |-> IF s[n] = Absent THEN {IntDefault[n]} ELSE {Atoi(s[n])}],
   bool |-> [n \in BoolNames |->
               IF s[n] = Absent THEN l # "dotnet" \/ n = "MQTT_USE_TLS" ELSE s[n] = "true"]]

(* A file every language should understand: plain texts of the right types,    *)
(* the required host, a user with the password, nothing set twice.            *)
Portable(f, e) ==
  LET s == Over(f.text, e) IN
  /\ f.exists
  /\ \A n \in Names : f.text[n] = Absent \/ e[n] = Absent
  /\ s["MQTT_HOST_NAME"] \notin {Absent, ""}
  /\ s["MQTT_PASSWORD"] # Absent => s["MQTT_USERNAME"] # Absent
  /\ \A n \in TextNames : s[n] \in {Absent, "broker", "user", "p"}
  /\ \A n \in IntNames : s[n] = Absent \/ (Whole(s[n]) /\ Atoi(s[n]) \in 0..UInt16Max)
  /\ \A n \in BoolNames : s[n] \in {Absent, "true", "false"}

(* A portable file gives the documented settings wherever its variables come   *)
(* from: file, environment or default.  Not in TypeScript, which reads "false"  *)
(* as true and drops the password of the key file.                            *)
LoadsAsDocumented ==
  loads = 1 /\ loader # "ts" /\ Portable(file, startEnv) =>
    outcome = "loaded" /\ settings = {Documented(loader, Over(file.text, startEnv))}

(* Texts that atoi finds a number at the start of.                            *)
StartsWithNumber(t) == Whole(t) \/ t = "12abc"

(* mqttclients/README.md:26: "When a variable does not match the type ... we   *)
(* will generate an error".  What the Python and Rust loaders load, the         *)
(* numbers of the .NET loader and the truth values of C are what the text says; *)
(* C's atoi goes no further than to read 12abc as 12.  Go's uint16 and          *)
(* TypeScript's Number take other texts for numbers.                          *)
NothingMisread ==
  LET given == Source(loader, file, startEnv)
      IntsRead(s) == \A n \in IntNames :
        given[n] \notin {Absent, ""} => Whole(given[n]) /\ s.int[n] = {Atoi(given[n])}
      StartsRead(s) == \A n \in IntNames :
        given[n] # Absent => StartsWithNumber(given[n]) /\ s.int[n] = {Atoi(given[n])}
      BoolsRead(s) == \A n \in BoolNames :
        given[n] # Absent => given[n] \in {"true", "True", "false"}
                             /\ s.bool[n] = (given[n] # "false")
  IN loads = 1 => \A s \in settings :
       /\ loader \in {"python", "rust", "dotnet"} => IntsRead(s)
       /\ loader = "c" => StartsRead(s)
       /\ loader \in {"python", "rust", "c"} => BoolsRead(s)

(* What an earlier load left in the environment plays no part in the last one:  *)
(* the loaders of Python and TypeScript take nothing back from it, and those of *)
(* .NET and C write their file over it, so that only a variable is stale that   *)
(* the last file no longer names.  (Go and Rust keep what is there.)            *)
NothingLeft ==
  \/ loader \in {"python", "ts"}
  \/ /\ loader \in {"dotnet", "c"}
     /\ \A n \in Names : Lines(loader, file)[n] # Absent \/ environ[n] = startEnv[n]

(* Then a second load in the same process gives what a fresh process would get  *)
(* from the second file, whether it loads or is rejected.                      *)
ReloadIsFresh ==
  NothingLeft =>
    /\ outcome = "loaded" => settings = {SettingsOf(loader, file, startEnv)}
    /\ outcome = "rejected" => ~Accepts(loader, file, startEnv)
=============================================================================
