------------------------ MODULE MCConnectionSettings ------------------------
(* Instances of ConnectionSettings for TLC: a plain file or environment, and   *)
(* variations of one or two of its variables.                                *)
EXTENDS ConnectionSettings

Nothing == [n \in Names |-> Absent]
Plain   == [Nothing EXCEPT !["MQTT_HOST_NAME"] = "broker"]
NoFile  == [exists |-> FALSE, text |-> Nothing]

With(text) == [exists |-> TRUE, text |-> text]

(* base with the variables n and m set to texts of S.                        *)
Varied(base, N, S) ==
  {[base EXCEPT ![n] = t, ![m] = u] : n \in N, m \in N, t \in S, u \in S}

StartEnvironments ==
  {Nothing, Plain, [Nothing EXCEPT !["MQTT_TCP_PORT"] = "1883"],
   [Plain EXCEPT !["MQTT_USE_TLS"] = "false", !["MQTT_CLIENT_ID"] = "user"]}
    \cup {[Nothing EXCEPT !["MQTT_KEEP_ALIVE_IN_SECONDS"] = t] : t \in {"", "70000", "yes"}}

(* Every text in any two typed variables; plain texts in any two others.      *)
EnvFiles ==
  {With(v) : v \in Varied(Plain, IntNames \cup BoolNames, Texts \cup {Absent})}
    \cup {With(v) : v \in Varied(Plain, TextNames \ {"MQTT_HOST_NAME"}, {Absent, "", "user", "p", "p=q"})}
    \cup {With(v) : v \in Varied(Plain, {"MQTT_TCP_PORT", "MQTT_USERNAME"}, {"1883", "user"})}
    \cup {With(Nothing), NoFile}

(* What the env file may have become by the second load.                      *)
EditedFiles ==
  {With(Plain), NoFile, With([Plain EXCEPT !["MQTT_PASSWORD"] = "p"]),
   With([Plain EXCEPT !["MQTT_TCP_PORT"] = "60", !["MQTT_USERNAME"] = "user"])}
=============================================================================
