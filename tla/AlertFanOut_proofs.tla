------------------------- MODULE AlertFanOut_proofs -------------------------
(***************************************************************************)
(* Proofs about AlertFanOut, for every fleet and every bound: the state is     *)
(* well typed, a vehicle misses no alert in its first run, and no alert leaves    *)
(* the inbox of a vehicle that listens before it was handled.                 *)
(***************************************************************************)
EXTENDS AlertFanOut, TLAPS

(* What a vehicle has not missed.                                           *)
Accounted(v) == owed[v] \subseteq inbox[v] \cup handled[v] \cup expired

(* The step before a first run's subscription: no session, no alerts.         *)
Unknown(v) == v \notin subscribed /\ inbox[v] = {} /\ owed[v] = {}

FirstRun(v) ==
  /\ runs[v] = 0 => pc[v] = "down" /\ Unknown(v)
  /\ runs[v] <= 1 /\ pc[v] = "connected" => Unknown(v)
  /\ runs[v] <= 1 => Accounted(v)
  /\ unacked[v] \subseteq handled[v]
  /\ v \in link => pc[v] # "down"

IndInv == TypeOK /\ \A v \in Vehicles : FirstRun(v)

(* The initial state satisfies the invariant.                                *)
LEMMA Initially == Init => IndInv
BY FleetAssumption DEF Init, IndInv, TypeOK, FirstRun, Accounted, Unknown

-----------------------------------------------------------------------------
(* The control tower: an alert is owed only to a session that keeps it.        *)
LEMMA TowerKeeps ==
  ASSUME IndInv, SendAlert \/ SendThrows \/ TheEnd
  PROVE  IndInv'
<1>1. TypeOK /\ \A v \in Vehicles : FirstRun(v) BY DEF IndInv
<1>2. ASSUME sent < MaxAlerts, FanOut(sent + 1), tower' \in {"sending", "stopped"}
      PROVE  IndInv'
  <2>1. sent \in Nat /\ sent' = sent + 1 /\ sent' \in 0..MaxAlerts
        /\ 1..sent \subseteq 1..sent' /\ sent + 1 \in 1..sent'
    BY <1>1, <1>2, FleetAssumption DEF TypeOK, FanOut
  <2>2. TypeOK'
    BY <1>1, <1>2, <2>1 DEF TypeOK, FanOut, Added, vehicleVars
  <2>3. ASSUME NEW v \in Vehicles PROVE FirstRun(v)'
    <3>1. CASE v \in subscribed
      BY <1>1, <1>2, <3>1 DEF FirstRun, Accounted, Unknown, TypeOK, FanOut, Added, vehicleVars
    <3>2. CASE v \notin subscribed
      BY <1>1, <1>2, <3>2 DEF FirstRun, Accounted, Unknown, TypeOK, FanOut, Added, vehicleVars
    <3> QED BY <3>1, <3>2
  <2> QED BY <2>2, <2>3 DEF IndInv
<1>3. ASSUME UNCHANGED <<sent, brokerVars, vehicleVars>>, tower' \in {"sending", "stopped"}
      PROVE  IndInv'
  BY <1>1, <1>3 DEF IndInv, TypeOK, FirstRun, Accounted, Unknown, brokerVars, vehicleVars
<1> QED BY <1>1, <1>2, <1>3 DEF SendAlert, SendThrows, TheEnd, TypeOK

(* The program of a vehicle: it subscribes only with its handler attached.      *)
LEMMA VehicleKeeps ==
  ASSUME IndInv, NEW w \in Vehicles, Operate(w)
  PROVE  IndInv'
<1>1. TypeOK /\ \A v \in Vehicles : FirstRun(v) BY DEF IndInv
<1>2. CASE Connect(w)
  <2>1. runs[w] \in Nat /\ runs[w] + 1 \in 0..MaxRuns
    BY <1>1, <1>2, FleetAssumption DEF TypeOK, Connect
  <2>2. TypeOK'
    BY <1>1, <1>2, <2>1 DEF TypeOK, Connect, towerVars, brokerVars
  <2>3. ASSUME NEW v \in Vehicles PROVE FirstRun(v)'
    <3>1. CASE v = w
      BY <1>1, <1>2, <2>1, <3>1
         DEF FirstRun, Accounted, Unknown, TypeOK, Connect, towerVars, brokerVars
    <3>2. CASE v # w
      BY <1>1, <1>2, <3>2
         DEF FirstRun, Accounted, Unknown, TypeOK, Connect, towerVars, brokerVars
    <3> QED BY <3>1, <3>2
  <2> QED BY <2>2, <2>3 DEF IndInv
<1>3. CASE Attach(w) \/ Subscribed(w)
  BY <1>1, <1>3 DEF IndInv, TypeOK, FirstRun, Accounted, Unknown, Attach, Subscribed,
                    towerVars, brokerVars
<1>4. CASE Subscribe(w)
  BY <1>1, <1>4 DEF IndInv, TypeOK, FirstRun, Accounted, Unknown, Subscribe,
                    towerVars, vehicleVars
<1>5. CASE LoseLink(w) \/ Stop(w)
  BY <1>1, <1>5, ZenonT(60) DEF IndInv, TypeOK, FirstRun, Accounted, Unknown, LoseLink, Stop,
                    towerVars, brokerVars
<1> QED BY <1>2, <1>3, <1>4, <1>5 DEF Operate

(* Messages: with a handler an alert is acknowledged only once handled, and in   *)
(* a first run there is nothing to hear before the handler is attached.         *)
LEMMA DeliveryKeeps ==
  ASSUME IndInv, NEW w \in Vehicles, NEW a \in Alerts, Deliver(w, a)
  PROVE  IndInv'
<1>1. TypeOK /\ \A v \in Vehicles : FirstRun(v) BY DEF IndInv
<1>2. CASE Alert(w, a)
  BY <1>1, <1>2 DEF IndInv, TypeOK, FirstRun, Accounted, Unknown, Alert, Receives,
                    towerVars, brokerVars
<1>3. CASE Acknowledge(w, a)
  BY <1>1, <1>3 DEF IndInv, TypeOK, FirstRun, Accounted, Unknown, Acknowledge, towerVars
<1>4. CASE Unheard(w, a)
  <2>1. pc[w] = "connected" /\ inbox[w] # {}
    BY <1>1, <1>4 DEF TypeOK, FirstRun, Unheard, Receives, Handles
  <2>2. ~(runs[w] <= 1)
    BY <1>1, <2>1 DEF FirstRun, Unknown
  <2> QED
    BY <1>1, <1>4, <2>1, <2>2 DEF IndInv, TypeOK, FirstRun, Accounted, Unknown, Unheard,
                                  towerVars, vehicleVars
<1> QED BY <1>2, <1>3, <1>4 DEF Deliver

(* Time at the broker.                                                      *)
LEMMA ExpiryKeeps ==
  ASSUME IndInv,
         (\E a \in Alerts : AlertExpires(a)) \/ (\E v \in Vehicles : SessionExpires(v))
  PROVE  IndInv'
<1>1. TypeOK /\ \A v \in Vehicles : FirstRun(v) BY DEF IndInv
<1>2. ASSUME NEW a \in Alerts, AlertExpires(a) PROVE IndInv'
  BY <1>1, <1>2 DEF IndInv, TypeOK, FirstRun, Accounted, Unknown, AlertExpires,
                    towerVars, vehicleVars
<1>3. ASSUME NEW w \in Vehicles, SessionExpires(w) PROVE IndInv'
  BY <1>1, <1>3 DEF IndInv, TypeOK, FirstRun, Accounted, Unknown, SessionExpires,
                    towerVars, vehicleVars
<1> QED BY <1>2, <1>3

(* The invariant is kept by every step.                                      *)
LEMMA Inductive == IndInv /\ [Next]_vars => IndInv'
<1> SUFFICES ASSUME IndInv, [Next]_vars PROVE IndInv'
  OBVIOUS
<1>1. CASE UNCHANGED vars
  BY <1>1 DEF IndInv, TypeOK, FirstRun, Accounted, Unknown, vars, towerVars, brokerVars,
              vehicleVars
<1> QED BY <1>1, TowerKeeps, VehicleKeeps, DeliveryKeeps, ExpiryKeeps DEF Next

-----------------------------------------------------------------------------
(* Every variable keeps its type.                                            *)
THEOREM TypeCorrect == Spec => []TypeOK
<1>1. IndInv => TypeOK BY DEF IndInv
<1> QED BY <1>1, Initially, Inductive, PTL DEF Spec

(* vehicle/Worker.cs:36-43 and AlertConsumer.cs:17-32: whatever the tower, the   *)
(* network and the other vehicles do, a vehicle misses no alert in its first     *)
(* run, since it attaches its handler before it subscribes.                     *)
THEOREM FirstRunIsSafe == Spec => []FirstRunMissesNothing
<1>1. IndInv => FirstRunMissesNothing
  BY DEF IndInv, FirstRun, Accounted, FirstRunMissesNothing
<1> QED BY <1>1, Initially, Inductive, PTL DEF Spec

(* AlertConsumer.cs:17-32: in every run of every vehicle an alert stays in the     *)
(* session until OnAlert had it, it is too old or the session ends; but for what    *)
(* is delivered to a vehicle that was started again and has no handler yet, which   *)
(* is acknowledged and lost.                                                   *)
THEOREM AlertsAreHandledFirst == Spec => HandledBeforeForgotten
<1> DEFINE Kept(v, a) == a \in inbox[v] \ inbox'[v] =>
                           \/ a \in handled[v] \cup expired' \/ v \notin subscribed'
                           \/ runs[v] > 1 /\ pc[v] = "connected"
<1>1. ASSUME IndInv, Next, NEW v \in Vehicles, NEW a \in Alerts PROVE Kept(v, a)
  <2>0. TypeOK /\ FirstRun(v)
    BY <1>1 DEF IndInv
  <2>1. CASE SendAlert \/ SendThrows \/ TheEnd
    BY <2>0, <2>1 DEF TypeOK, SendAlert, SendThrows, TheEnd, FanOut, Added, brokerVars
  <2>2. CASE \E w \in Vehicles : Operate(w)
    BY <2>2 DEF Operate, Connect, Attach, Subscribe, Subscribed, LoseLink, Stop, brokerVars
  <2>3. CASE \E w \in Vehicles : SessionExpires(w)
    BY <2>0, <2>3 DEF TypeOK, SessionExpires
  <2>4. ASSUME NEW w \in Vehicles, NEW b \in Alerts, Deliver(w, b) PROVE Kept(v, a)
    <3>1. CASE Alert(w, b)
      BY <3>1 DEF Alert, brokerVars
    <3>2. CASE Acknowledge(w, b)
      BY <2>0, <3>2 DEF TypeOK, FirstRun, Acknowledge
    <3>3. CASE Unheard(w, b)
      <4>1. CASE v # w
        BY <2>0, <3>3, <4>1 DEF TypeOK, Unheard
      <4>2. CASE v = w
        <5>1. pc[v] = "connected" /\ inbox[v] # {}
          BY <2>0, <3>3, <4>2 DEF TypeOK, FirstRun, Unheard, Receives, Handles
        <5>2. runs[v] > 1
          BY <2>0, <5>1 DEF TypeOK, FirstRun, Unknown
        <5> QED
          BY <5>1, <5>2
      <4> QED
        BY <4>1, <4>2
    <3> QED
      BY <2>4, <3>1, <3>2, <3>3 DEF Deliver
  <2>5. CASE \E b \in Alerts : AlertExpires(b)
    BY <2>0, <2>5 DEF TypeOK, AlertExpires
  <2> QED
    BY <1>1, <2>1, <2>2, <2>3, <2>4, <2>5 DEF Next
<1>2. IndInv /\ [Next]_vars => [\A v \in Vehicles, a \in Alerts : Kept(v, a)]_vars
  BY <1>1
<1> QED
  BY <1>2, Initially, Inductive, PTL DEF Spec, HandledBeforeForgotten
=============================================================================
