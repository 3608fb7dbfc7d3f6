------------------------------ MODULE CSample ------------------------------
(***************************************************************************)
(* The life of a C sample: the main thread, the network thread of libmosquitto *)
(* that runs the callbacks, and a user who may press Ctrl-C.  They share the   *)
(* flag keep_running of mqtt_setup.c.                                        *)
(*   consumer, server, client, starter, producer: the main.c of the telemetry  *)
(*   consumer, the command server and client, getting started and the          *)
(*   telemetry producer.                                                    *)
(* What the programs send and receive is left out (see CommandServer and        *)
(* CCommand for the command scenario).                                       *)
(***************************************************************************)
EXTENDS Naturals

CONSTANTS
  Kinds,     \* the programs a run considers
  MaxOpens   \* bound: network connections of a run

ASSUME SampleAssumption ==
  /\ Kinds \subseteq {"consumer", "server", "client", "starter", "producer"}
  /\ MaxOpens \in Nat

VARIABLES
  program,        \* the program
  idSet,          \* MQTT_CLIENT_ID is set
  keep_running,   \* mqtt_setup.c:18
  main,           \* the main thread
  mosq,           \* its client object: "none", "live" or "freed"
  result,         \* its result, the exit code of the program: "ok" or "error"
  net,            \* the network thread
  link,           \* the connection: "down", "opening" (CONNACK to come) or "up"
  disconnecting,  \* mosquitto_disconnect was called
  subscribing,    \* a SUBSCRIBE was sent over this connection
  refused,        \* history: the broker refused a connection
  opens           \* connections so far

sampleVars == <<program, idSet, keep_running, main, mosq, result, net, link,
                disconnecting, subscribing, refused, opens>>

Subscribes == program # "producer"
Publishes  == program \in {"starter", "producer"}

SampleTypeOK ==
  /\ program \in Kinds
  /\ main \in {"init", "settings", "create", "configure", "connect", "start", "run",
               "disconnect", "stop", "destroy", "cleanup", "done", "crashed"}
  /\ mosq \in {"none", "live", "freed"}
  /\ result \in {"ok", "error"}
  /\ net \in {"none", "idle", "refused", "connected", "ended"}
  /\ link \in {"down", "opening", "up"}
  /\ idSet \in BOOLEAN /\ keep_running \in BOOLEAN
  /\ disconnecting \in BOOLEAN /\ subscribing \in BOOLEAN /\ refused \in BOOLEAN
  /\ opens \in 0..MaxOpens
  /\ net = "none" => link # "up"
  /\ subscribing => link = "up"

SampleInit ==
  /\ program \in Kinds
  /\ idSet \in BOOLEAN
  /\ keep_running = TRUE
  /\ main = "init" /\ mosq = "none" /\ result = "ok"
  /\ net = "none" /\ link = "down"
  /\ disconnecting = FALSE /\ subscribing = FALSE /\ refused = FALSE
  /\ opens = 0

constants == <<program, idSet>>

-----------------------------------------------------------------------------
(* The main thread.                                                         *)
Advance(from, to) == main = from /\ main' = to

(* mqtt_client_init: first sig_handler, then the settings and the library, the    *)
(* client object, and last its version, callbacks, user and certificates.         *)
Initialise ==
  /\ \/ Advance("init", "settings") \/ Advance("settings", "create")
     \/ Advance("configure", "connect")
  /\ UNCHANGED <<constants, keep_running, mosq, result, net, link, disconnecting, subscribing,
                 refused, opens>>

Create ==
  /\ Advance("create", "configure")
  /\ mosq' = "live"
  /\ UNCHANGED <<constants, keep_running, result, net, link, disconnecting, subscribing,
                 refused, opens>>

(* It returns NULL, and frees the client object if there is one.                 *)
InitFails ==
  /\ \/ Advance("settings", "cleanup") \/ Advance("create", "cleanup")
     \/ Advance("configure", "cleanup")
  /\ mosq' = IF mosq = "live" THEN "freed" ELSE mosq
  /\ result' = "error"
  /\ UNCHANGED <<constants, keep_running, net, link, disconnecting, subscribing, refused,
                 opens>>

Connect ==
  /\ Advance("connect", "start")
  /\ opens < MaxOpens
  /\ link' = "opening"
  /\ opens' = opens + 1
  /\ UNCHANGED <<constants, keep_running, mosq, result, net, disconnecting, subscribing,
                 refused>>

StartLoop ==
  /\ Advance("start", "run")
  /\ net' = "idle"
  /\ UNCHANGED <<constants, keep_running, mosq, result, link, disconnecting, subscribing,
                 refused, opens>>

(* mosquitto_connect_bind_v5 or mosquitto_loop_start fails.                   *)
SetupFails ==
  /\ Advance("connect", "disconnect") \/ Advance("start", "disconnect")
  /\ result' = "error"
  /\ UNCHANGED <<constants, keep_running, mosq, net, link, disconnecting, subscribing,
                 refused, opens>>

(* One turn of the loop; the busy loops of consumer and server do nothing.     *)
PublishTurn ==
  /\ main = "run"
  /\ keep_running
  /\ Publishes
  /\ program = "producer" => idSet
  /\ result' \in {"ok", "error"}
  /\ UNCHANGED <<constants, keep_running, main, mosq, net, link, disconnecting, subscribing,
                 refused, opens>>

Leave ==
  /\ Advance("run", "disconnect")
  /\ ~keep_running
  /\ UNCHANGED <<constants, keep_running, mosq, result, net, link, disconnecting, subscribing,
                 refused, opens>>

Disconnect_Missing ==
  /\ Advance("disconnect", "stop")
  /\ UNCHANGED <<constants, keep_running, mosq, result, net, link, disconnecting, subscribing,
                 refused, opens>>

Disconnect ==
  /\ Advance("disconnect", "stop")
  /\ disconnecting' = TRUE
  /\ UNCHANGED <<constants, keep_running, mosq, result, net, link, subscribing, refused,
                 opens>>

StopLoop_NoJoin ==
  /\ Advance("stop", "destroy")
  /\ UNCHANGED <<constants, keep_running, mosq, result, net, link, disconnecting, subscribing,
                 refused, opens>>

(* mosquitto_loop_stop(mosq, false) joins the network thread, if there is one.  *)
StopLoop ==
  /\ Advance("stop", "destroy")
  /\ net \in {"none", "ended"}
  /\ UNCHANGED <<constants, keep_running, mosq, result, net, link, disconnecting, subscribing,
                 refused, opens>>

Destroy ==
  /\ Advance("destroy", "cleanup")
  /\ mosq' = "freed"
  /\ UNCHANGED <<constants, keep_running, result, net, link, disconnecting, subscribing,
                 refused, opens>>

Exit ==
  /\ Advance("cleanup", "done")
  /\ UNCHANGED <<constants, keep_running, mosq, result, net, link, disconnecting, subscribing,
                 refused, opens>>

(* strlen(NULL) of a client id that is not set: in main of the producer, in     *)
(* the callback of the server.                                              *)
Crash ==
  /\ ~idSet
  /\ \/ program = "producer" /\ main = "run"
     \/ program = "server" /\ net = "connected"
  /\ main' = "crashed"
  /\ UNCHANGED <<constants, keep_running, mosq, result, net, link, disconnecting, subscribing,
                 refused, opens>>

MainThread ==
  \/ Initialise \/ Create \/ InitFails \/ Connect \/ StartLoop \/ SetupFails \/ PublishTurn
  \/ Leave \/ Disconnect \/ StopLoop \/ Destroy \/ Exit \/ Crash

-----------------------------------------------------------------------------
(* The network thread and its callbacks.                                     *)
Alive == main \notin {"done", "crashed"}

(* A CONNACK that accepts the connection: on_connect only logs.               *)
Accepted ==
  /\ Alive /\ net = "idle"
  /\ link = "opening"
  /\ link' = "up"
  /\ net' = IF Subscribes THEN "connected" ELSE "idle"
  /\ UNCHANGED <<constants, keep_running, main, mosq, result, disconnecting, subscribing,
                 refused, opens>>

(* A CONNACK that refuses it: on_connect clears the flag ...                  *)
Refused ==
  /\ Alive /\ net = "idle"
  /\ link = "opening"
  /\ keep_running' = FALSE
  /\ refused' = TRUE
  /\ net' = "refused"
  /\ UNCHANGED <<constants, main, mosq, result, link, disconnecting, subscribing, opens>>

RefusedDisconnect_Retry ==
  /\ Alive /\ net = "refused"
  /\ link' = "down"
  /\ net' = IF Subscribes THEN "connected" ELSE "idle"
  /\ UNCHANGED <<constants, keep_running, main, mosq, result, disconnecting, subscribing,
                 refused, opens>>

(* ... and disconnects.                                                     *)
RefusedDisconnect ==
  /\ Alive /\ net = "refused"
  /\ disconnecting' = TRUE
  /\ link' = "down"
  /\ net' = IF Subscribes THEN "connected" ELSE "idle"
  /\ UNCHANGED <<constants, keep_running, main, mosq, result, subscribing, refused, opens>>

(* The rest of on_connect_with_subscribe.                                    *)
InCallback ==
  /\ Alive /\ net = "connected"
  /\ program = "server" => idSet
  /\ net' = "idle"

SubscribeOnConnect_Once ==
  /\ InCallback
  /\ keep_running
  /\ subscribing' = (link = "up" /\ opens = 1)
  /\ UNCHANGED <<constants, keep_running, main, mosq, result, link, disconnecting, refused,
                 opens>>

(* The SUBSCRIBE goes out over this connection, if it still stands.            *)
SubscribeOnConnect ==
  /\ InCallback
  /\ keep_running
  /\ subscribing' = (link = "up")
  /\ UNCHANGED <<constants, keep_running, main, mosq, result, link, disconnecting, refused,
                 opens>>

(* The SUBSCRIBE is refused.  The disconnect that follows may be refused in its      *)
(* turn, which is only logged: main() will disconnect.                          *)
SubscribeFails ==
  /\ InCallback
  /\ keep_running
  /\ keep_running' = FALSE
  /\ disconnecting' \in {TRUE, disconnecting}
  /\ UNCHANGED <<constants, main, mosq, result, link, subscribing, refused, opens>>

SkipSubscribe ==
  /\ InCallback
  /\ ~keep_running
  /\ UNCHANGED <<constants, keep_running, main, mosq, result, link, disconnecting, subscribing,
                 refused, opens>>

(* libmosquitto: the connection is lost, and opened again unless the program   *)
(* disconnects.                                                            *)
LinkLost ==
  /\ Alive /\ net \notin {"none", "ended"}
  /\ link # "down"
  /\ link' = "down"
  /\ subscribing' = FALSE
  /\ UNCHANGED <<constants, keep_running, main, mosq, result, net, disconnecting, refused,
                 opens>>

Reconnect ==
  /\ Alive /\ net = "idle"
  /\ link = "down"
  /\ ~disconnecting
  /\ opens < MaxOpens
  /\ link' = "opening"
  /\ opens' = opens + 1
  /\ UNCHANGED <<constants, keep_running, main, mosq, result, net, disconnecting,
                 subscribing, refused>>

NetEnds ==
  /\ Alive /\ net = "idle"
  /\ disconnecting
  /\ net' = "ended"
  /\ link' = "down"
  /\ subscribing' = FALSE
  /\ UNCHANGED <<constants, keep_running, main, mosq, result, disconnecting, refused, opens>>

Callbacks ==
  \/ RefusedDisconnect \/ SubscribeOnConnect \/ SubscribeFails \/ SkipSubscribe \/ NetEnds

NetworkThread == Accepted \/ Refused \/ Callbacks \/ LinkLost \/ Reconnect

(* Ctrl-C: sig_handler, installed by mqtt_client_init.                        *)
Interrupt ==
  /\ Alive /\ main # "init"
  /\ keep_running
  /\ keep_running' = FALSE
  /\ UNCHANGED <<constants, main, mosq, result, net, link, disconnecting, subscribing,
                 refused, opens>>

SampleNext == MainThread \/ NetworkThread \/ Interrupt

SampleSpec == SampleInit /\ [][SampleNext]_sampleVars

(* Both threads are scheduled.  Nothing makes a broker answer or a user press   *)
(* Ctrl-C.                                                                 *)
SampleFairness ==
  /\ WF_sampleVars(MainThread) /\ WF_sampleVars(Leave) /\ WF_sampleVars(Crash)
  /\ WF_sampleVars(Callbacks)

SampleFairSpec == SampleSpec /\ SampleFairness

-----------------------------------------------------------------------------
(* main.c of every subscribing sample (telemetry_consumer l.52-54): "if the    *)
(* connection drops and is automatically resumed by the client, then the       *)
(* subscriptions will be recreated".  While the program runs and is connected, *)
(* it has subscribed over this very connection.                             *)
SubscribedWhileConnected ==
  Subscribes /\ link = "up" /\ net = "idle" /\ keep_running => subscribing

(* The client object is freed only when no callback can run any more, is freed   *)
(* before the program ends, on every path through mqtt_client_init too, and is    *)
(* there as long as main() calls it.                                         *)
NoCallbackAfterDestroy ==
  /\ mosq = "freed" => net \in {"none", "ended"}
  /\ main \in {"cleanup", "done"} => mosq # "live"
  /\ main \in {"configure", "connect", "start", "run", "disconnect", "stop", "destroy"} =>
       mosq = "live"

(* mqtt_callbacks.c:38-40: "If the connection fails for any reason, we don't    *)
(* want to keep on retrying": a sample whose connection was refused opens no    *)
(* other, even before its main thread has seen keep_running.                  *)
RefusedOnce == [][refused /\ link = "down" => link' = "down"]_sampleVars

(* However keep_running was cleared, and whatever the network does, the        *)
(* program ends.                                                           *)
StopsWhenAsked == ~keep_running ~> ~Alive
=============================================================================
