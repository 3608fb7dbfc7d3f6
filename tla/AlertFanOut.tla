---------------------------- MODULE AlertFanOut ----------------------------
(***************************************************************************)
(* The alert scenario: a control tower publishes weather alerts to one topic  *)
(* and every vehicle of the fleet listens to it over a persistent session.    *)
(*   control_tower/Worker.cs, AlertSender.cs    the sender                    *)
(*   vehicle/Worker.cs, AlertConsumer.cs        a vehicle                     *)
(* A vehicle connects, then attaches its handler, then subscribes: between     *)
(* the first two steps its MQTT client receives messages it has no handler     *)
(* for, and acknowledges them.  It does not reconnect when its connection is   *)
(* lost; a new run of its program resumes the session at the broker.          *)
(***************************************************************************)
EXTENDS Naturals, FiniteSets

CONSTANTS
  Vehicles,
  MaxAlerts,  \* bound: alerts the operator sends
  MaxRuns     \* bound: runs of the program of a vehicle

ASSUME FleetAssumption == MaxAlerts \in Nat /\ MaxRuns \in Nat

Alerts == 1..MaxAlerts

VARIABLES
  tower,       \* the loop of the control tower: "sending" or "stopped"
  sent,        \* alerts it has sent
  expired,     \* alerts older than their MessageExpiryInterval
  subscribed,  \* vehicles the broker keeps a subscription for
  inbox,       \* per vehicle: alerts its session holds until acknowledged
  pc,          \* per vehicle: where ExecuteAsync is
  link,        \* vehicles that are connected
  runs,        \* per vehicle: runs so far
  unacked,     \* per vehicle: alerts handled and not yet acknowledged
  handled,     \* history, per vehicle: alerts OnAlert was called with
  owed         \* history, per vehicle: alerts its session was given to keep

towerVars   == <<tower, sent>>
vehicleVars == <<pc, link, runs, unacked, handled>>
brokerVars  == <<expired, subscribed, inbox, owed>>
vars == <<towerVars, brokerVars, vehicleVars>>

TypeOK ==
  /\ tower \in {"sending", "stopped"}
  /\ sent \in 0..MaxAlerts
  /\ expired \subseteq 1..sent
  /\ subscribed \subseteq Vehicles /\ link \subseteq Vehicles
  /\ inbox \in [Vehicles -> SUBSET (1..sent)]
  /\ pc \in [Vehicles -> {"down", "connected", "attached", "listening"}]
  /\ runs \in [Vehicles -> 0..MaxRuns]
  /\ unacked \in [Vehicles -> SUBSET (1..sent)]
  /\ handled \in [Vehicles -> SUBSET (1..sent)]
  /\ owed \in [Vehicles -> SUBSET (1..sent)]

Init ==
  /\ tower = "sending"
  /\ sent = 0
  /\ expired = {}
  /\ subscribed = {} /\ link = {}
  /\ pc = [v \in Vehicles |-> "down"]
  /\ runs = [v \in Vehicles |-> 0]
  /\ inbox = [v \in Vehicles |-> {}]
  /\ unacked = [v \in Vehicles |-> {}]
  /\ handled = [v \in Vehicles |-> {}]
  /\ owed = [v \in Vehicles |-> {}]

-----------------------------------------------------------------------------
(* The control tower.                                                       *)

Added(f, a) == [v \in Vehicles |-> IF v \in subscribed THEN f[v] \cup {a} ELSE f[v]]

(* The broker keeps the alert for every session with a subscription, whether  *)
(* its vehicle is connected or not.                                         *)
FanOut(a) ==
  /\ sent' = a
  /\ inbox' = Added(inbox, a)
  /\ owed' = Added(owed, a)
  /\ UNCHANGED <<expired, subscribed, vehicleVars>>

SendAlert ==
  /\ tower = "sending"
  /\ sent < MaxAlerts
  /\ FanOut(sent + 1)
  /\ UNCHANGED tower

(* The publish throws and the worker ends; the broker may have the alert.     *)
SendThrows ==
  /\ tower = "sending"
  /\ sent < MaxAlerts
  /\ tower' = "stopped"
  /\ FanOut(sent + 1) \/ UNCHANGED <<sent, brokerVars, vehicleVars>>

(* The operator answers anything but "y".                                    *)
TheEnd ==
  /\ tower = "sending"
  /\ sent > 0
  /\ tower' = "stopped"
  /\ UNCHANGED <<sent, brokerVars, vehicleVars>>

-----------------------------------------------------------------------------
(* A vehicle: ExecuteAsync.                                                 *)
Connect(v) ==
  /\ pc[v] = "down"
  /\ runs[v] < MaxRuns
  /\ runs' = [runs EXCEPT ![v] = @ + 1]
  /\ pc' = [pc EXCEPT ![v] = "connected"]
  /\ link' = link \cup {v}
  /\ UNCHANGED <<towerVars, brokerVars, unacked, handled>>

Attach(v) ==
  /\ pc[v] = "connected"
  /\ pc' = [pc EXCEPT ![v] = "attached"]
  /\ UNCHANGED <<towerVars, brokerVars, link, runs, unacked, handled>>

(* SubscribeAsync: the broker takes the subscription ...                      *)
Subscribe(v) ==
  /\ pc[v] = "attached"
  /\ v \in link \ subscribed
  /\ subscribed' = subscribed \cup {v}
  /\ UNCHANGED <<towerVars, expired, inbox, owed, vehicleVars>>

(* ... and its acknowledgement ends the call.                                *)
Subscribed(v) ==
  /\ pc[v] = "attached"
  /\ v \in link \cap subscribed
  /\ pc' = [pc EXCEPT ![v] = "listening"]
  /\ UNCHANGED <<towerVars, brokerVars, link, runs, unacked, handled>>

(* The connection is lost.  DisconnectedAsync logs and the program goes on;   *)
(* a SubscribeAsync under way or still to come throws and ends it.            *)
LoseLink(v) ==
  /\ v \in link
  /\ link' = link \ {v}
  /\ unacked' = [unacked EXCEPT ![v] = {}]
  /\ pc' = [pc EXCEPT ![v] = IF @ = "listening" THEN @ ELSE "down"]
  /\ UNCHANGED <<towerVars, brokerVars, runs, handled>>

(* The program is stopped.                                                  *)
Stop(v) ==
  /\ pc[v] # "down"
  /\ pc' = [pc EXCEPT ![v] = "down"]
  /\ link' = link \ {v}
  /\ unacked' = [unacked EXCEPT ![v] = {}]
  /\ UNCHANGED <<towerVars, brokerVars, runs, handled>>

-----------------------------------------------------------------------------
(* A vehicle: the messages its MQTT client receives.                         *)
Handles_AfterSubscribe(v) == pc[v] = "listening"
Handles_WrongTopic(v)     == FALSE

(* The handler of AlertConsumer is attached, and the topic is the one of its  *)
(* pattern.                                                                *)
Handles(v) == pc[v] \in {"attached", "listening"}

Receives(v, a) == v \in link /\ a \in inbox[v] \ unacked[v]

(* The handler runs, then MQTTnet acknowledges the message.                  *)
Alert(v, a) ==
  /\ Receives(v, a)
  /\ Handles(v)
  /\ handled' = [handled EXCEPT ![v] = @ \cup {a}]
  /\ unacked' = [unacked EXCEPT ![v] = @ \cup {a}]
  /\ UNCHANGED <<towerVars, brokerVars, pc, link, runs>>

Acknowledge_First(v, a) ==
  /\ Receives(v, a)
  /\ inbox' = [inbox EXCEPT ![v] = @ \ {a}]
  /\ UNCHANGED <<towerVars, expired, subscribed, owed, vehicleVars>>

Acknowledge(v, a) ==
  /\ v \in link
  /\ a \in unacked[v]
  /\ unacked' = [unacked EXCEPT ![v] = @ \ {a}]
  /\ inbox' = [inbox EXCEPT ![v] = @ \ {a}]
  /\ UNCHANGED <<towerVars, expired, subscribed, owed, pc, link, runs, handled>>

(* With no handler MQTTnet acknowledges the message all the same.             *)
Unheard(v, a) ==
  /\ Receives(v, a)
  /\ ~Handles(v)
  /\ inbox' = [inbox EXCEPT ![v] = @ \ {a}]
  /\ UNCHANGED <<towerVars, expired, subscribed, owed, vehicleVars>>

-----------------------------------------------------------------------------
(* Time at the broker.                                                      *)

(* WithMessageExpiryInterval(300): an alert not delivered by then is dropped.  *)
AlertExpires(a) ==
  /\ a \in 1..sent \ expired
  /\ expired' = expired \cup {a}
  /\ inbox' = [v \in Vehicles |-> IF a \in unacked[v] THEN inbox[v] ELSE inbox[v] \ {a}]
  /\ UNCHANGED <<towerVars, subscribed, owed, vehicleVars>>

(* WithSessionExpiryInterval(3600): so is the session of an absent vehicle.    *)
SessionExpires(v) ==
  /\ v \in subscribed \ link
  /\ subscribed' = subscribed \ {v}
  /\ inbox' = [inbox EXCEPT ![v] = {}]
  /\ owed' = [owed EXCEPT ![v] = {}]
  /\ UNCHANGED <<towerVars, expired, vehicleVars>>

Operate(v) == Connect(v) \/ Attach(v) \/ Subscribe(v) \/ Subscribed(v) \/ LoseLink(v) \/ Stop(v)
Deliver(v, a) == Alert(v, a) \/ Acknowledge(v, a) \/ Unheard(v, a)

Next ==
  \/ SendAlert \/ SendThrows \/ TheEnd
  \/ \E v \in Vehicles : Operate(v) \/ SessionExpires(v)
  \/ \E v \in Vehicles, a \in Alerts : Deliver(v, a)
  \/ \E a \in Alerts : AlertExpires(a)

Spec == Init /\ [][Next]_vars

(* A program goes on from one statement to the next, and the broker delivers   *)
(* over a connection that is up.  Nothing makes an operator send an alert, or   *)
(* a user start or stop a vehicle.                                          *)
Fairness ==
  \A v \in Vehicles :
    /\ WF_vars(Attach(v)) /\ WF_vars(Subscribe(v)) /\ WF_vars(Subscribed(v))
    /\ \A a \in Alerts : WF_vars(Deliver(v, a))

FairSpec == Spec /\ Fairness

-----------------------------------------------------------------------------
(* In its first run a vehicle misses no alert: nothing is subscribed before    *)
(* the handler is attached.  (A later run finds the subscription of the first   *)
(* one at the broker, and its alerts may come before the handler is there.)     *)
FirstRunMissesNothing ==
  \A v \in Vehicles : runs[v] <= 1 => owed[v] \subseteq inbox[v] \cup handled[v] \cup expired

(* Nothing leaves the session of a vehicle, over all its runs and whether it is    *)
(* there or not, before OnAlert had it, but for three causes: the alert is too     *)
(* old, the session itself ended, or the vehicle was started again, is connected    *)
(* and has no handler yet (Worker.cs:32-36), which loses what MQTTnet is given.     *)
HandledBeforeForgotten ==
  [][\A v \in Vehicles, a \in Alerts :
       a \in inbox[v] \ inbox'[v] =>
         \/ a \in handled[v] \cup expired' \/ v \notin subscribed'
         \/ runs[v] > 1 /\ pc[v] = "connected"]_vars

(* A vehicle that stays connected comes to handle every alert its session is   *)
(* given, or the alert expires.                                             *)
AlertsArriveWhileConnected ==
  \A v \in Vehicles, a \in Alerts :
    v \in link /\ pc[v] = "listening" /\ a \in inbox[v]
      ~> a \in handled[v] \cup expired \/ v \notin link
=============================================================================
