------------------------------ MODULE PySample ------------------------------
(***************************************************************************)
(* The life of a Python sample: the main thread, which waits on flags guarded  *)
(* by conditions, and the network thread of paho, whose callbacks set them.     *)
(*   consumer, producer, starter, receiver, invoker: telemetry_consumer.py,     *)
(*   telemetry_producer.py, getting_started.py, command_receiver.py and          *)
(*   command_invoker.py.                                                     *)
(* What the programs send and receive in the command scenario is in            *)
(* CommandServer and PyCommand.                                              *)
(***************************************************************************)
EXTENDS Naturals

CONSTANTS
  Kinds,     \* the programs a run considers
  MaxOpens   \* bound: network connections of a run

ASSUME SampleAssumption ==
  /\ Kinds \subseteq {"consumer", "producer", "starter", "receiver", "invoker"}
  /\ MaxOpens \in Nat

VARIABLES
  kind,              \* the program
  main,              \* where main() is
  exit,              \* why it leaves: "none" while it does not
  connected_prop, connection_error, subscribed_prop, published_prop, received_prop,
  net,               \* the network thread; "lost": the connection is gone, on_disconnect to come
  link,              \* the connection: "down", "opening" (CONNACK to come) or "up"
  sub,               \* the broker's view of the subscription, over this connection
  out,               \* getting_started: its message
  disconnecting,     \* disconnect() was called
  refused,           \* history: the broker refused a connection main was waiting for
  troubled,          \* history: why a subscribed program may hear nothing
  opens              \* connections so far

flags   == <<connected_prop, connection_error, subscribed_prop, published_prop, received_prop>>
mainVars == <<main, exit>>
history == <<refused, troubled>>
vars == <<kind, mainVars, flags, net, link, sub, out, disconnecting, history, opens>>

Subscribes == kind # "producer"

(* on_connect of command_receiver and command_invoker declares                 *)
(* connection_error global; elsewhere it assigns a local of that name.          *)
DeclaresError == kind \in {"receiver", "invoker"}

TypeOK ==
  /\ kind \in Kinds
  /\ main \in {"connect", "loop", "waitConnected", "subscribe", "waitSubscribed", "attach",
               "run", "publish", "waitPublished", "waitReceived", "disconnect",
               "waitDisconnected", "end"}
  /\ exit \in {"none", "failed", "refused", "timeout", "user", "ok"}
  /\ connected_prop \in BOOLEAN /\ connection_error \in BOOLEAN
  /\ subscribed_prop \in BOOLEAN /\ published_prop \in BOOLEAN /\ received_prop \in BOOLEAN
  /\ net \in {"none", "idle", "lost", "ended"}
  /\ link \in {"down", "opening", "up"}
  /\ sub \in {"none", "asked", "granted"}
  /\ out \in {"none", "queued", "sent"}
  /\ disconnecting \in BOOLEAN /\ refused \in BOOLEAN
  /\ troubled \subseteq {"lost", "denied", "died"}
  /\ opens \in 0..MaxOpens
  /\ sub # "none" => link # "down"
  /\ connected_prop /\ net # "lost" => link = "up" \/ net = "ended"

Init ==
  /\ kind \in Kinds
  /\ main = "connect" /\ exit = "none"
  /\ connected_prop = FALSE /\ connection_error = FALSE /\ subscribed_prop = FALSE
  /\ published_prop = FALSE /\ received_prop = FALSE
  /\ net = "none" /\ link = "down" /\ sub = "none" /\ out = "none"
  /\ disconnecting = FALSE /\ refused = FALSE /\ troubled = {}
  /\ opens = 0

-----------------------------------------------------------------------------
(* The main thread.                                                         *)
Goto(from, to) == main = from /\ main' = to /\ UNCHANGED <<kind, exit, flags, history>>

(* Where an exception takes main(): to the finally block, or out of a program   *)
(* that is not inside its try.                                              *)
Guarded ==
  \/ kind \in {"consumer", "producer"}
  \/ kind \in {"receiver", "invoker"} /\ main \notin {"connect", "loop", "waitConnected"}

Leave(why) ==
  /\ exit' = why
  /\ main' = IF Guarded THEN "disconnect" ELSE "end"
  /\ UNCHANGED <<kind, flags, net, link, sub, out, disconnecting, history, opens>>

Connect ==
  /\ Goto("connect", "loop")
  /\ opens < MaxOpens
  /\ link' = "opening" /\ opens' = opens + 1
  /\ UNCHANGED <<net, sub, out, disconnecting>>

ConnectRaises == main = "connect" /\ Leave("failed")

LoopStart ==
  /\ Goto("loop", "waitConnected")
  /\ net' = "idle"
  /\ UNCHANGED <<link, sub, out, disconnecting, opens>>

(* wait_for_connected: an error comes before a connection.                     *)
WaitConnected ==
  /\ Goto("waitConnected", IF Subscribes THEN "subscribe" ELSE "run")
  /\ connected_prop /\ ~connection_error
  /\ UNCHANGED <<net, link, sub, out, disconnecting, opens>>

RaiseConnectionError == main = "waitConnected" /\ connection_error /\ Leave("refused")

ConnectTimesOut ==
  /\ main = "waitConnected"
  /\ ~connected_prop /\ ~connection_error
  /\ Leave("timeout")

(* subscribe() sends nothing when there is no socket; its result is not read.   *)
Subscribe ==
  /\ Goto("subscribe", "waitSubscribed")
  /\ sub' = IF link = "down" THEN "none" ELSE "asked"
  /\ UNCHANGED <<net, link, out, disconnecting, opens>>

AfterSubscribed ==
  CASE kind = "consumer" -> "run"
    [] kind = "starter"  -> "publish"
    [] OTHER             -> "attach"

WaitSubscribed_NoCheck ==
  /\ Goto("waitSubscribed", AfterSubscribed)
  /\ UNCHANGED <<net, link, sub, out, disconnecting, opens>>

WaitSubscribed ==
  /\ Goto("waitSubscribed", AfterSubscribed)
  /\ subscribed_prop
  /\ UNCHANGED <<net, link, sub, out, disconnecting, opens>>

SubscribeTimesOut == main = "waitSubscribed" /\ ~subscribed_prop /\ Leave("timeout")

(* message_callback_add.                                                    *)
Attach ==
  /\ Goto("attach", "run")
  /\ UNCHANGED <<net, link, sub, out, disconnecting, opens>>

(* The program proper of an invoker ends when a command times out.             *)
RunRaises == kind = "invoker" /\ main = "run" /\ Leave("failed")

Publish ==
  /\ Goto("publish", "waitPublished")
  /\ out' = IF link = "down" THEN "none" ELSE "queued"
  /\ UNCHANGED <<net, link, sub, disconnecting, opens>>

WaitPublished ==
  /\ Goto("waitPublished", "waitReceived")
  /\ published_prop
  /\ UNCHANGED <<net, link, sub, out, disconnecting, opens>>

WaitReceived_NoCheck ==
  /\ main = "waitReceived" /\ main' = "disconnect" /\ exit' = "ok"
  /\ UNCHANGED <<kind, flags, net, link, sub, out, disconnecting, history, opens>>

WaitReceived ==
  /\ main = "waitReceived" /\ main' = "disconnect" /\ exit' = "ok"
  /\ received_prop
  /\ UNCHANGED <<kind, flags, net, link, sub, out, disconnecting, history, opens>>

StarterTimesOut ==
  /\ \/ main = "waitPublished" /\ ~published_prop
     \/ main = "waitReceived" /\ ~received_prop
  /\ Leave("timeout")

(* KeyboardInterrupt.                                                       *)
Interrupt ==
  /\ main \notin {"disconnect", "waitDisconnected", "end"}
  /\ Leave("user")

(* Within the finally block it ends the program.                              *)
InterruptAgain ==
  /\ main \in {"disconnect", "waitDisconnected"} /\ main' = "end"
  /\ UNCHANGED <<kind, exit, flags, net, link, sub, out, disconnecting, history, opens>>

Disconnect ==
  /\ Goto("disconnect", "waitDisconnected")
  /\ disconnecting' = TRUE
  /\ UNCHANGED <<net, link, sub, out, opens>>

End_NoTimeout ==
  /\ Goto("waitDisconnected", "end")
  /\ ~connected_prop
  /\ UNCHANGED <<net, link, sub, out, disconnecting, opens>>

(* wait_for_disconnected(5): its result is not read.                           *)
End ==
  /\ Goto("waitDisconnected", "end")
  /\ UNCHANGED <<net, link, sub, out, disconnecting, opens>>

MainThread ==
  \/ Connect \/ ConnectRaises \/ LoopStart
  \/ WaitConnected \/ RaiseConnectionError \/ ConnectTimesOut
  \/ Subscribe \/ WaitSubscribed \/ SubscribeTimesOut \/ Attach \/ RunRaises
  \/ Publish \/ WaitPublished \/ WaitReceived \/ StarterTimesOut
  \/ Disconnect \/ End

-----------------------------------------------------------------------------
(* The network thread and its callbacks.                                     *)
Alive == main # "end"

Callback == Alive /\ net = "idle" /\ UNCHANGED <<kind, mainVars, disconnecting, opens>>

(* on_connect with rc 0.                                                    *)
OnConnect ==
  /\ Callback
  /\ link = "opening" /\ link' = "up"
  /\ connected_prop' = TRUE
  /\ UNCHANGED <<connection_error, subscribed_prop, published_prop, received_prop, net, sub,
                 out, history>>

OnConnectRefused_Local ==
  /\ Callback
  /\ link = "opening" /\ link' = "down"
  /\ net' = "lost"
  /\ refused' = (refused \/ main = "waitConnected")
  /\ sub' = "none"
  /\ UNCHANGED <<flags, out, troubled>>

(* on_connect with another rc; paho then closes the connection.               *)
OnConnectRefused ==
  /\ Callback
  /\ link = "opening" /\ link' = "down"
  /\ connection_error' = (connection_error \/ DeclaresError)
  /\ net' = "lost"
  /\ refused' = (refused \/ main = "waitConnected")
  /\ sub' = "none"
  /\ UNCHANGED <<connected_prop, subscribed_prop, published_prop, received_prop, out, troubled>>

(* on_subscribe does not read the granted QoS: a subscription that is denied    *)
(* is acknowledged like any other.                                          *)
OnSubscribe ==
  /\ Callback
  /\ link = "up" /\ sub = "asked"
  /\ subscribed_prop' = TRUE
  /\ \/ sub' = "granted" /\ UNCHANGED troubled
     \/ sub' = "none" /\ troubled' = troubled \cup {"denied"}
  /\ UNCHANGED <<connected_prop, connection_error, published_prop, received_prop, net, link,
                 out, refused>>

(* A message of QoS 0 is published once it is written.                        *)
OnPublish ==
  /\ Callback
  /\ link = "up" /\ out = "queued"
  /\ out' = "sent"
  /\ published_prop' = TRUE
  /\ UNCHANGED <<connected_prop, connection_error, subscribed_prop, received_prop, net, link,
                 sub, history>>

(* The topic filter is sample/+: the message may be that of another client.    *)
OnMessage ==
  /\ Callback
  /\ kind = "starter"
  /\ link = "up" /\ sub = "granted"
  /\ received_prop' = TRUE
  /\ UNCHANGED <<connected_prop, connection_error, subscribed_prop, published_prop, net, link,
                 sub, out, history>>

(* A callback raises (payload.decode, or a property that is not there), and the  *)
(* thread of paho ends with it.                                              *)
CallbackRaises ==
  /\ Callback
  /\ kind \in {"consumer", "receiver", "invoker"}
  /\ kind # "consumer" => main = "run"
  /\ link = "up" /\ sub = "granted"
  /\ net' = "ended"
  /\ troubled' = troubled \cup {"died"}
  /\ UNCHANGED <<flags, link, sub, out, refused>>

(* The connection is lost, or closed by paho after disconnect() ...            *)
LinkLost ==
  /\ Callback
  /\ link # "down" /\ link' = "down"
  /\ net' = "lost"
  /\ sub' = "none" /\ out' = "none"
  /\ troubled' = troubled \cup {"lost"}
  /\ UNCHANGED <<flags, refused>>

(* ... and on_disconnect runs.                                               *)
OnDisconnect ==
  /\ Alive /\ net = "lost"
  /\ net' = IF disconnecting THEN "ended" ELSE "idle"
  /\ connected_prop' = FALSE
  /\ UNCHANGED <<kind, mainVars, connection_error, subscribed_prop, published_prop,
                 received_prop, link, sub, out, disconnecting, history, opens>>

(* The broker drops a client whose thread is gone.                             *)
KeepAliveEnds ==
  /\ Alive /\ net = "ended"
  /\ link # "down" /\ link' = "down"
  /\ sub' = "none" /\ out' = "none"
  /\ UNCHANGED <<kind, mainVars, flags, net, disconnecting, history, opens>>

(* paho opens the connection again unless the program disconnects.             *)
Reconnect ==
  /\ Alive /\ net = "idle"
  /\ link = "down" /\ ~disconnecting
  /\ opens < MaxOpens
  /\ link' = "opening" /\ opens' = opens + 1
  /\ UNCHANGED <<kind, mainVars, flags, net, sub, out, disconnecting, history>>

NetEnds ==
  /\ Alive /\ net = "idle"
  /\ link = "down" /\ disconnecting
  /\ net' = "ended"
  /\ UNCHANGED <<kind, mainVars, flags, link, sub, out, disconnecting, history, opens>>

Broker  == OnConnect \/ OnConnectRefused \/ OnSubscribe \/ OnMessage \/ CallbackRaises
           \/ LinkLost \/ KeepAliveEnds
NetworkThread == Broker \/ OnPublish \/ OnDisconnect \/ Reconnect \/ NetEnds

Next == MainThread \/ Interrupt \/ InterruptAgain \/ NetworkThread

Spec == Init /\ [][Next]_vars

(* The main thread is scheduled, and a wait with a timeout ends.  Nothing else   *)
(* is sure to happen.                                                       *)
FairSpec == Spec /\ WF_vars(MainThread)

-----------------------------------------------------------------------------
(* on_connect, command_receiver.py:33-43 and command_invoker.py:35-45, and       *)
(* wait_for_connected: a program whose connection was refused while it waited    *)
(* says so.  It does not go on with a later connection, nor call it a timeout.    *)
RefusalIsRaised ==
  DeclaresError /\ refused =>
    main = "waitConnected" \/ exit \in {"refused", "user"}

(* A program that subscribes and runs is subscribed, unless its subscription     *)
(* was denied, its connection lost or its network thread killed: the wait for     *)
(* the SUBACK is worth its name although subscribe()'s result is not read.       *)
RunsSubscribed ==
  Subscribes /\ main = "run" /\ troubled = {} => sub = "granted" /\ link = "up"

(* getting_started.py ends well only with a subscription that was granted,       *)
(* although on_subscribe does not look: its own message, or another's, came back. *)
StarterWasSubscribed ==
  kind = "starter" /\ exit = "ok" =>
    published_prop /\ (sub = "granted" \/ "lost" \in troubled)

(* A program that is not running waits for no callback for ever: connected or     *)
(* not, with a network thread or without, main() goes on or ends.                *)
WaitsEnd ==
  \A w \in {"waitConnected", "waitSubscribed", "waitPublished", "waitReceived",
            "waitDisconnected"} : main = w ~> main # w
=============================================================================
