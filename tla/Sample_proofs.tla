---------------------------- MODULE Sample_proofs ---------------------------
(***************************************************************************)
(* Proofs about the lives of the samples and the settings they start with.       *)
(*   PySample, for every choice of programs and every number of connections:     *)
(*     its types, and what the flags of a sample are worth to its main thread.   *)
(*   AppSample, also for every period, life of a token and delay: its types,      *)
(*     what a successful exit means, and that WithJWT renews in time.            *)
(*   ConnectionSettings, for every set of languages, files, environments and      *)
(*     loads: its types, what a portable file, a text of the wrong type and a    *)
(*     second load come to.                                                    *)
(* The three systems share nothing; the lives of the C samples are in           *)
(* CCommand_proofs.                                                          *)
(***************************************************************************)
EXTENDS PySample, AppSample, ConnectionSettings, FiniteSetTheorems, TLAPS

(* A SUBACK is enough for as long as nothing is lost, denied or killed.         *)
Acknowledged ==
  /\ subscribed_prop /\ troubled = {} => sub = "granted" /\ link = "up"
  /\ Subscribes /\ main \in {"attach", "run"} => subscribed_prop
  /\ net = "lost" => link = "down"
  /\ net = "ended" /\ troubled = {} => link = "down"

(* A refusal while main() waits leaves it nowhere to go but out.                *)
Refusal ==
  DeclaresError /\ refused =>
    /\ connection_error
    /\ main = "waitConnected" \/ (main = "end" /\ exit \in {"refused", "user"})

(* Until main() has started the network thread no callback ran, and until it    *)
(* subscribes there is no SUBACK.                                            *)
Early ==
  /\ main \in {"connect", "loop"} => net = "none" /\ ~refused /\ ~connected_prop
  /\ main \in {"connect", "loop", "waitConnected", "subscribe"} =>
       sub = "none" /\ ~subscribed_prop

(* getting_started has no callback that ends its network thread, so a grant is   *)
(* given up only with the connection; a message proves the grant.              *)
Returned ==
  /\ sub = "granted" => link = "up"
  /\ kind = "starter" /\ net \in {"lost", "ended"} => link = "down"
  /\ kind = "starter" /\ received_prop => sub = "granted" \/ "lost" \in troubled
  /\ kind = "starter" /\ main = "waitReceived" => published_prop
  /\ kind = "starter" /\ exit = "ok" => published_prop /\ received_prop

IndInv == TypeOK /\ Acknowledged /\ Refusal /\ Early /\ Returned

(* The initial states satisfy the inductive invariant.                        *)
LEMMA InitHolds == Init => IndInv
<1> SUFFICES ASSUME Init PROVE IndInv
  OBVIOUS
<1>1. TypeOK
  <2>1. opens \in 0..MaxOpens
    BY SampleAssumption DEF Init
  <2>2. /\ connected_prop \in BOOLEAN /\ connection_error \in BOOLEAN
        /\ subscribed_prop \in BOOLEAN /\ published_prop \in BOOLEAN
        /\ received_prop \in BOOLEAN /\ disconnecting \in BOOLEAN /\ refused \in BOOLEAN
    BY Zenon DEF Init
  <2> QED BY <2>1, <2>2 DEF Init, TypeOK
<1>2. Acknowledged /\ Refusal /\ Early /\ Returned
  BY DEF Init, Acknowledged, Refusal, Early, Returned
<1> QED BY <1>1, <1>2 DEF IndInv

(* Every step of the main thread, and every Ctrl-C, keeps it.                  *)
LEMMA MainKeeps == IndInv /\ (MainThread \/ Interrupt \/ InterruptAgain) => IndInv'
<1> SUFFICES ASSUME IndInv, MainThread \/ Interrupt \/ InterruptAgain PROVE IndInv'
  OBVIOUS
<1> USE SampleAssumption
    DEF IndInv, TypeOK, Acknowledged, Refusal, Early, Returned, Subscribes, DeclaresError, flags,
        history, Goto, Leave, Guarded
<1>1. CASE Connect BY <1>1 DEF Connect
<1>2. CASE ConnectRaises BY <1>2 DEF ConnectRaises
<1>3. CASE LoopStart BY <1>3 DEF LoopStart
<1>4. CASE WaitConnected BY <1>4 DEF WaitConnected
<1>5. CASE RaiseConnectionError BY <1>5 DEF RaiseConnectionError
<1>6. CASE ConnectTimesOut BY <1>6 DEF ConnectTimesOut
<1>7. CASE Subscribe BY <1>7 DEF Subscribe
<1>8. CASE WaitSubscribed BY <1>8 DEF WaitSubscribed, AfterSubscribed
<1>9. CASE SubscribeTimesOut BY <1>9 DEF SubscribeTimesOut
<1>10. CASE Attach BY <1>10 DEF Attach
<1>11. CASE RunRaises BY <1>11 DEF RunRaises
<1>12. CASE Publish BY <1>12 DEF Publish
<1>13. CASE WaitPublished BY <1>13 DEF WaitPublished
<1>14. CASE WaitReceived BY <1>14 DEF WaitReceived
<1>15. CASE StarterTimesOut BY <1>15 DEF StarterTimesOut
<1>16. CASE Disconnect BY <1>16 DEF Disconnect
<1>17. CASE End BY <1>17 DEF End
<1>18. CASE Interrupt BY <1>18 DEF Interrupt
<1>19. CASE InterruptAgain BY <1>19 DEF InterruptAgain
<1> QED
  BY <1>1, <1>2, <1>3, <1>4, <1>5, <1>6, <1>7, <1>8, <1>9, <1>10, <1>11, <1>12, <1>13, <1>14,
     <1>15, <1>16, <1>17, <1>18, <1>19 DEF MainThread

(* Every step of the network thread keeps it.                                 *)
LEMMA NetworkKeeps == IndInv /\ NetworkThread => IndInv'
<1> SUFFICES ASSUME IndInv, NetworkThread PROVE IndInv'
  OBVIOUS
<1> USE SampleAssumption
    DEF IndInv, TypeOK, Acknowledged, Refusal, Early, Returned, Subscribes, DeclaresError, flags,
        history, mainVars, Alive, Callback
<1>1. CASE OnConnect BY <1>1 DEF OnConnect
<1>2. CASE OnConnectRefused BY <1>2 DEF OnConnectRefused
<1>3. CASE OnSubscribe
  <2>1. CASE sub' = "granted" /\ UNCHANGED troubled BY <1>3, <2>1 DEF OnSubscribe
  <2>2. CASE sub' = "none" /\ troubled' = troubled \cup {"denied"}
    <3>1. troubled' # {} /\ troubled' \subseteq {"lost", "denied", "died"}
      BY <2>2
    <3> QED BY <1>3, <2>2, <3>1 DEF OnSubscribe
  <2> QED BY <1>3, <2>1, <2>2 DEF OnSubscribe
<1>4. CASE OnMessage BY <1>4 DEF OnMessage
<1>5. CASE CallbackRaises BY <1>5 DEF CallbackRaises
<1>6. CASE LinkLost BY <1>6 DEF LinkLost
<1>7. CASE KeepAliveEnds BY <1>7 DEF KeepAliveEnds
<1>8. CASE OnPublish BY <1>8 DEF OnPublish
<1>9. CASE OnDisconnect
  <2>1. net' = "idle" \/ net' = "ended"
    BY <1>9 DEF OnDisconnect
  <2>2. connected_prop' = FALSE /\ connected_prop' \in BOOLEAN
    BY <1>9, Zenon DEF OnDisconnect
  <2>3. TypeOK' BY <1>9, <2>1, <2>2 DEF OnDisconnect
  <2>4. Acknowledged' BY <1>9, <2>1, <2>2 DEF OnDisconnect
  <2>5. Refusal' BY <1>9, <2>1, <2>2 DEF OnDisconnect
  <2>6. Early' BY <1>9, <2>1, <2>2 DEF OnDisconnect
  <2>7. Returned' BY <1>9, <2>1, <2>2 DEF OnDisconnect
  <2> QED BY <2>3, <2>4, <2>5, <2>6, <2>7
<1>10. CASE Reconnect BY <1>10 DEF Reconnect
<1>11. CASE NetEnds BY <1>11 DEF NetEnds
<1> QED
  BY <1>1, <1>2, <1>3, <1>4, <1>5, <1>6, <1>7, <1>8, <1>9, <1>10, <1>11
  DEF NetworkThread, Broker

(* IndInv is an invariant of the program.                                     *)
THEOREM Invariance == Spec => []IndInv
<1>1. IndInv /\ [Next]_vars => IndInv'
  <2> SUFFICES ASSUME IndInv, [Next]_vars PROVE IndInv'
    OBVIOUS
  <2>1. CASE Next BY <2>1, MainKeeps, NetworkKeeps DEF Next
  <2>2. CASE UNCHANGED vars
    BY <2>2 DEF vars, mainVars, flags, history, IndInv, TypeOK, Acknowledged, Refusal, Early,
                Returned, Subscribes, DeclaresError
  <2> QED BY <2>1, <2>2
<1> QED BY <1>1, InitHolds, PTL DEF Spec

(* Type correctness: also, the broker knows no subscription of a connection     *)
(* that is gone, and connected_prop is down once on_disconnect has run.          *)
THEOREM TypeCorrect == Spec => []TypeOK
BY Invariance, PTL DEF IndInv

(* wait_for_connected of command_receiver and command_invoker: a refusal is      *)
(* never taken for a timeout, nor forgotten for a later connection.             *)
THEOREM RefusalsAreRaised == Spec => []RefusalIsRaised
<1>1. IndInv => RefusalIsRaised
  BY DEF IndInv, Refusal, RefusalIsRaised
<1> QED BY <1>1, Invariance, PTL

(* wait_for_subscribed: a program that subscribes and runs is subscribed, but     *)
(* for a denial, a lost connection or a dead network thread.                   *)
THEOREM RunningIsSubscribed == Spec => []RunsSubscribed
<1>1. IndInv => RunsSubscribed
  BY DEF IndInv, Acknowledged, RunsSubscribed
<1> QED BY <1>1, Invariance, PTL

(* getting_started.py: a run that ends well had its subscription granted and its  *)
(* message published, although on_subscribe does not look at the grant and       *)
(* received_prop may be set by another client's message.                       *)
THEOREM StarterEndsSubscribed == Spec => []StarterWasSubscribed
<1>1. IndInv => StarterWasSubscribed
  BY DEF IndInv, Returned, StarterWasSubscribed
<1> QED BY <1>1, Invariance, PTL

-----------------------------------------------------------------------------
Flags  == ref \in BOOLEAN /\ closed \in BOOLEAN /\ asked \in BOOLEAN

States ==
  /\ prog \in Programs
  /\ phase \in {"start", "polling", "connecting", "subscribing", "publishing", "sleeping", "run",
                "over", "leaving", "ended"}
  /\ connection \in {"none", "opening", "up", "down", "ended"}
  /\ ending \in {"none", "ok", "error", "killed"}

Counts == nones \in Nat /\ losses \in 0..MaxLosses

(* The flags stay Boolean, whatever happens.                                  *)
LEMMA FlagsStay == Flags /\ [AppNext]_appVars => Flags'
<1> SUFFICES ASSUME Flags, [AppNext]_appVars PROVE Flags'
  OBVIOUS
<1> USE DEF Flags
<1>1. CASE Start
  <2>1. ref' = (prog \in Ts) /\ closed' = closed /\ asked' = asked
    BY <1>1 DEF Start
  <2>2. (prog \in Ts) \in BOOLEAN
    OBVIOUS
  <2>3. ref' \in BOOLEAN
    BY <2>1, <2>2, Zenon
  <2> QED
    BY <2>1, <2>3, Zenon
<1>2. CASE StartFails \/ Connected \/ Subscribed \/ Published \/ CallFails \/ Wake \/ ConnectFails
  BY <1>2, Zenon DEF StartFails, Connected, Subscribed, Published, CallFails, Wake, ConnectFails
<1>3. CASE Forget \/ NodeExits \/ Done \/ Receive \/ RustDisconnect
  BY <1>3, Zenon DEF Forget, NodeExits, Done, Receive, RustDisconnect
<1>4. CASE Network
  BY <1>4, Zenon DEF Network, Accepted, Refused, Breaks, Reopen
<1>5. CASE Token
  BY <1>5, Zenon DEF Token, TimerFires, TaskRuns, TimePasses, SessionExpires, programVars
<1>6. CASE Ask
  BY <1>6, Zenon DEF Ask
<1>7. CASE UNCHANGED appVars
  BY <1>7, Zenon DEF appVars, programVars
<1> QED
  BY <1>1, <1>2, <1>3, <1>4, <1>5, <1>6, <1>7 DEF AppNext, Program

(* So do the states of the program and of its connection.                      *)
LEMMA StatesStay == States /\ [AppNext]_appVars => States'
<1> SUFFICES ASSUME States, [AppNext]_appVars PROVE States'
  OBVIOUS
<1> USE DEF States, EndWith
<1>1. CASE Start \/ StartFails \/ Connected \/ Subscribed \/ Published
  BY <1>1 DEF Start, StartFails, Connected, Subscribed, Published, AfterConnect, AfterSubscribe, AfterPublish
<1>2. CASE CallFails \/ Wake \/ ConnectFails
  BY <1>2 DEF CallFails, Wake, ConnectFails, AfterSubscribe, AfterPublish
<1>3. CASE Forget \/ NodeExits \/ Done \/ Receive \/ RustDisconnect
  BY <1>3 DEF Forget, NodeExits, Done, Receive, RustDisconnect
<1>4. CASE Network
  BY <1>4 DEF Network, Accepted, Refused, Breaks, Reopen
<1>5. CASE Token
  BY <1>5 DEF Token, TimerFires, TaskRuns, TimePasses, SessionExpires, programVars
<1>6. CASE Ask
  BY <1>6 DEF Ask
<1>7. CASE UNCHANGED appVars
  BY <1>7 DEF appVars, programVars
<1> QED
  BY <1>1, <1>2, <1>3, <1>4, <1>5, <1>6, <1>7 DEF AppNext, Program

(* And its counters.                                                        *)
LEMMA CountsStay == Counts /\ [AppNext]_appVars => Counts'
<1> SUFFICES ASSUME Counts, [AppNext]_appVars PROVE Counts'
  OBVIOUS
<1> USE AppAssumption DEF Counts
<1>1. CASE Start \/ StartFails \/ Connected \/ Subscribed \/ Published
  BY <1>1 DEF Start, StartFails, Connected, Subscribed, Published
<1>2. CASE CallFails \/ Wake \/ ConnectFails
  BY <1>2 DEF CallFails, Wake, ConnectFails
<1>3. CASE Forget \/ NodeExits \/ Done \/ Receive \/ RustDisconnect
  BY <1>3 DEF Forget, NodeExits, Done, Receive, RustDisconnect
<1>4. CASE Network
  BY <1>4 DEF Network, Accepted, Refused, Breaks, Reopen
<1>5. CASE Token
  BY <1>5 DEF Token, TimerFires, TaskRuns, TimePasses, SessionExpires, programVars
<1>6. CASE Ask
  BY <1>6 DEF Ask
<1>7. CASE UNCHANGED appVars
  BY <1>7 DEF appVars, programVars
<1> QED
  BY <1>1, <1>2, <1>3, <1>4, <1>5, <1>6, <1>7 DEF AppNext, Program

(* And the times of the token.                                              *)
LEMMA TimesStay == JwtTypeOK /\ [AppNext]_appVars => JwtTypeOK'
<1> SUFFICES ASSUME JwtTypeOK, [AppNext]_appVars PROVE JwtTypeOK'
  OBVIOUS
<1> USE JwtAssumption DEF JwtTypeOK
<1>1. CASE Start
  BY <1>1 DEF Start, WithJWT, jwtVars
<1>2. CASE TimerFires
  BY <1>2 DEF TimerFires, RefreshToken
<1>3. ASSUME NEW t \in tasks, Renewed(t) \/ RenewalThrows(t) PROVE JwtTypeOK'
  <2>1. CASE Renewed(t)
    BY <2>1 DEF Renewed
  <2>2. CASE RenewalThrows(t)
    BY <2>2 DEF RenewalThrows
  <2> QED
    BY <1>3, <2>1, <2>2
<1>4. CASE TimePasses
  BY <1>4 DEF TimePasses, Tick
<1>5. CASE UNCHANGED jwtVars
  BY <1>5 DEF jwtVars
<1>6. CASE UNCHANGED appVars
  BY <1>5, <1>6 DEF appVars
<1>7. CASE StartFails \/ Connected \/ Subscribed \/ Published \/ CallFails \/ Wake \/ ConnectFails
  BY <1>5, <1>7 DEF StartFails, Connected, Subscribed, Published, CallFails, Wake, ConnectFails
<1>8. CASE Forget \/ NodeExits \/ Done \/ Receive \/ RustDisconnect \/ Ask \/ SessionExpires
  BY <1>5, <1>8 DEF Forget, NodeExits, Done, Receive, RustDisconnect, Ask, SessionExpires
<1>9. CASE Network
  BY <1>5, <1>9 DEF Network, Accepted, Refused, Breaks, Reopen
<1>10. CASE TaskRuns
  BY <1>3, <1>10 DEF TaskRuns
<1> QED
  BY <1>1, <1>2, <1>4, <1>6, <1>7, <1>8, <1>9, <1>10 DEF AppNext, Program, Token

(* The state of every program is of its type.                                  *)
THEOREM AppTypeCorrect == AppSpec => []AppTypeOK
<1>1. AppInit => Flags /\ States /\ Counts /\ JwtTypeOK
  <2> SUFFICES ASSUME AppInit PROVE Flags /\ States /\ Counts /\ JwtTypeOK
    OBVIOUS
  <2>1. Flags
    BY Zenon DEF AppInit, Flags
  <2>2. States /\ Counts
    BY AppAssumption DEF AppInit, States, Counts
  <2>3. JwtTypeOK
    BY DEF AppInit, JwtInit, JwtTypeOK
  <2> QED
    BY <2>1, <2>2, <2>3
<1>2. Flags /\ States /\ Counts /\ JwtTypeOK => AppTypeOK
  BY Zenon DEF Flags, States, Counts, AppTypeOK
<1> QED
  BY <1>1, <1>2, FlagsStay, StatesStay, CountsStay, TimesStay, PTL DEF AppSpec

-----------------------------------------------------------------------------
(* Why a success is meant: what was lost stays lost but for MQTT.js, what wakes   *)
(* the Rust program is its user or a loss, and a process that is over keeps the   *)
(* connection that it had.                                                    *)
Meant ==
  /\ phase = "start" => losses = 0 /\ connection = "none"
  /\ prog \notin Ts /\ losses # 0 => connection = "down"
  /\ connection = "ended" => asked /\ prog \in Ts
  /\ closed => asked
  /\ nones > 0 => asked \/ losses # 0
  /\ phase = "leaving" => asked /\ prog = "rust"
  /\ ending # "none" => phase = "ended"
  /\ ending = "ok" =>
       \/ asked /\ (prog = "rust" => losses = 0)
       \/ connection = "none" /\ prog \in Ts \cup {"rust"}

(* Meant is inductive.                                                       *)
LEMMA MeantStays == Counts /\ Meant /\ [AppNext]_appVars => Meant'
<1> SUFFICES ASSUME Counts, Meant, [AppNext]_appVars PROVE Meant'
  OBVIOUS
<1> USE AppAssumption DEF Counts, Meant, EndWith, Ts
<1>1. CASE Start \/ StartFails
  BY <1>1 DEF Start, StartFails
<1>2. CASE Connected \/ Subscribed \/ Published
  BY <1>2 DEF Connected, Subscribed, Published, AfterConnect, AfterSubscribe, AfterPublish
<1>3. CASE CallFails
  BY <1>3 DEF CallFails, AfterSubscribe, AfterPublish
<1>4. CASE Wake \/ ConnectFails \/ Forget
  BY <1>4 DEF Wake, ConnectFails, Forget
<1>5. CASE NodeExits \/ Done
  BY <1>5 DEF NodeExits, Done
<1>6. CASE Receive
  BY <1>6 DEF Receive
<1>7. CASE RustDisconnect
  BY <1>7 DEF RustDisconnect
<1>8. CASE Accepted \/ Refused \/ Reopen
  BY <1>8 DEF Accepted, Refused, Reopen
<1>9. CASE Breaks
  BY <1>9 DEF Breaks
<1>10. CASE Token
  BY <1>10 DEF Token, TimerFires, TaskRuns, TimePasses, SessionExpires, Running, programVars
<1>11. CASE Ask
  BY <1>11 DEF Ask
<1>12. CASE UNCHANGED appVars
  BY <1>12 DEF appVars, programVars
<1> QED
  BY <1>1, <1>2, <1>3, <1>4, <1>5, <1>6, <1>7, <1>8, <1>9, <1>10, <1>11, <1>12
     DEF AppNext, Program, Network

(* No program that opened a connection ends with success on its own, and the Rust *)
(* program only when it disconnected from a connection that had never broken; of   *)
(* those that could not start, TypeScript (index.ts:71-73) and Rust (main.rs:56,  *)
(* 70, 83) may report success, Go and .NET never do.                            *)
THEOREM SuccessWasAskedFor == AppSpec => []SuccessIsMeant
<1>1. AppInit => Counts /\ Meant
  BY AppAssumption DEF AppInit, Counts, Meant
<1>2. Meant => SuccessIsMeant
  BY DEF Meant, SuccessIsMeant
<1> QED
  BY <1>1, <1>2, CountsStay, MeantStays, PTL DEF AppSpec

-----------------------------------------------------------------------------
(* When the timer is due, reckoned from the token that the broker knows: one period  *)
(* for every renewal that failed since and one for the next, which has begun if a    *)
(* task is under way.                                                        *)
OneTask == \A t \in tasks : t <= now /\ now <= t + Delay /\ due = t + Period

Before ==
  /\ connection \in {"none", "opening", "up", "down"}
  /\ phase = "start" => connection = "none"
  /\ connection = "none" => phase \in {"start", "ended"}
  /\ connection = "none" => now = 0
  /\ connection \in {"none", "opening"} =>
       tasks = {} /\ misses = 0 /\ issued = 0 /\ now <= Delay /\ due \in {0, Period}

InTime ==
  connection # "down" =>
    IF tasks = {} THEN due <= issued + (misses + 1) * Period
                  ELSE due <= issued + (misses + 1) * Period + Period

Renewals == prog = "jwt" => now <= due /\ OneTask /\ Before /\ InTime

(* Multiplication by a successor, which is all of it that is needed.             *)
LEMMA OneMore ==
  ASSUME NEW m \in Nat, NEW p \in Nat
  PROVE  (m + 1) * p \in Nat /\ (m + 1 + 1) * p = (m + 1) * p + p /\ (0 + 1) * p = p
OBVIOUS

(* Addition keeps the order.                                                  *)
LEMMA Shift ==
  ASSUME NEW a \in Nat, NEW b \in Nat, NEW p \in Nat, a <= b
  PROVE  a + p <= b + p
OBVIOUS

(* The timer fires.                                                         *)
LEMMA FiresInTime ==
  ASSUME JwtTypeOK, Renewals, prog = "jwt", TimerFires
  PROVE  Renewals'
<1> USE JwtAssumption DEF JwtTypeOK
<1>1. /\ due = now /\ due' = now + Period
      /\ tasks' = IF connection = "up" THEN tasks \cup {now} ELSE tasks
      /\ now' = now /\ issued' = issued /\ misses' = misses
      /\ connection' = connection /\ phase' = phase /\ prog' = prog
  BY DEF TimerFires, RefreshToken, programVars
<1>2. tasks = {}
  BY <1>1 DEF Renewals, OneTask
<1>3. now' <= due' /\ OneTask'
  BY <1>1, <1>2 DEF OneTask
<1>4. Before'
  BY <1>1, <1>2 DEF Renewals, Before
<1>5. InTime'
  <2> DEFINE turns == (misses + 1) * Period
  <2>1. turns \in Nat
    BY OneMore
  <2>2. connection # "down" => due' <= issued + turns + Period
    BY <1>1, <1>2, <2>1 DEF Renewals, InTime
  <2>3. connection \notin {"up", "down"} => due' <= issued + turns
    <3>1. CASE connection \in {"none", "opening"}
      BY <1>1, <3>1, OneMore DEF Renewals, Before
    <3> QED
      BY <3>1 DEF Renewals, Before
  <2>4. tasks' = {} <=> connection # "up"
    BY <1>1, <1>2
  <2> QED
    BY <1>1, <2>2, <2>3, <2>4 DEF InTime
<1> QED
  BY <1>1, <1>3, <1>4, <1>5 DEF Renewals

(* A renewal ends, well or badly.                                             *)
LEMMA TaskEndsInTime ==
  ASSUME JwtTypeOK, Renewals, prog = "jwt", UNCHANGED programVars,
         NEW t \in tasks, (connection = "up" /\ Renewed(t)) \/ RenewalThrows(t)
  PROVE  Renewals'
<1> USE JwtAssumption DEF JwtTypeOK
<1>1. /\ tasks' = tasks \ {t} /\ due' = due /\ now' = now
      /\ connection' = connection /\ phase' = phase /\ prog' = prog
  BY DEF Renewed, RenewalThrows, programVars
<1>2. tasks = {t} /\ due = t + Period
  <2>1. \A u \in tasks : u = t
    BY DEF Renewals, OneTask
  <2> QED
    BY <2>1 DEF Renewals, OneTask
<1>3. now' <= due' /\ OneTask'
  BY <1>1, <1>2 DEF Renewals, OneTask
<1>4. Before'
  BY <1>1, <1>2 DEF Renewals, Before
<1>5. CASE Renewed(t)
  <2>1. t <= issued' /\ issued' \in Nat /\ misses' = 0
    BY <1>5 DEF Renewed
  <2>2. (misses' + 1) * Period = Period
    BY <2>1, OneMore
  <2>3. tasks' = {} /\ due' <= issued' + (misses' + 1) * Period
    <3>1. tasks' = {}
      BY <1>1, <1>2
    <3>2. due' = t + Period /\ t \in Nat
      BY <1>1, <1>2
    <3>3. due' <= issued' + Period
      <4>1. Period \in Nat /\ t \in Nat /\ issued' \in Nat /\ t <= issued'
        BY <2>1, <3>2
      <4>2. t + Period <= issued' + Period
        BY <4>1, Shift
      <4> QED
        BY <4>2, <3>2
    <3> QED
      BY <2>2, <3>1, <3>3, Zenon
  <2>4. InTime'
    BY <2>3 DEF InTime
  <2> QED
    BY <1>1, <1>3, <1>4, <2>4 DEF Renewals
<1>6. CASE RenewalThrows(t)
  <2>1. misses' = misses + 1 /\ issued' = issued
    BY <1>6 DEF RenewalThrows
  <2>2. (misses' + 1) * Period = (misses + 1) * Period + Period /\ (misses + 1) * Period \in Nat
    BY <2>1, OneMore
  <2>3. InTime'
    BY <1>1, <1>2, <2>1, <2>2 DEF Renewals, InTime
  <2> QED
    BY <1>1, <1>3, <1>4, <2>3 DEF Renewals
<1> QED
  BY <1>5, <1>6

(* Time passes.                                                             *)
LEMMA TickInTime ==
  ASSUME JwtTypeOK, Renewals, prog = "jwt", TimePasses
  PROVE  Renewals'
<1> USE JwtAssumption DEF JwtTypeOK
<1>1. /\ due > now /\ now' = now + 1 /\ \A t \in tasks : now < t + Delay
      /\ connection = "opening" => now < Delay
      /\ phase \notin {"start", "ended"}
      /\ tasks' = tasks /\ due' = due /\ issued' = issued /\ misses' = misses
      /\ connection' = connection /\ phase' = phase /\ prog' = prog
  BY DEF TimePasses, Running, Tick, programVars
<1>2. now' <= due' /\ OneTask'
  BY <1>1 DEF Renewals, OneTask
<1>3. Before'
  BY <1>1 DEF Renewals, Before
<1>4. InTime'
  BY <1>1 DEF Renewals, InTime
<1> QED
  BY <1>1, <1>2, <1>3, <1>4 DEF Renewals

(* The rest of the program does not touch the token.                            *)
LEMMA RestInTime ==
  ASSUME JwtTypeOK, Renewals, prog = "jwt", UNCHANGED jwtVars, prog' = prog,
         connection' \in {connection, "down"} \/ (connection = "opening" /\ connection' = "up"),
         phase' # "start",
         connection = "none" => connection' = "none" /\ phase' = "ended"
  PROVE  Renewals'
<1>1. OneTask' /\ now' <= due'
  BY DEF Renewals, OneTask, jwtVars
<1>2. Before'
  BY DEF Renewals, Before, jwtVars
<1>3. InTime'
  <2>1. connection' # "down" => connection # "down"
    OBVIOUS
  <2> QED
    BY <2>1 DEF Renewals, InTime, jwtVars
<1> QED
  BY <1>1, <1>2, <1>3 DEF Renewals

(* The options are built, and the timer is due at once.                           *)
LEMMA StartsInTime ==
  ASSUME JwtTypeOK, Renewals, prog = "jwt", Start
  PROVE  Renewals'
<1> USE JwtAssumption DEF JwtTypeOK
<1>1. /\ phase = "start" /\ phase' = "connecting" /\ connection' = "opening" /\ prog' = prog
      /\ issued' = now /\ due' = now /\ now' = now /\ tasks' = tasks /\ misses' = misses
  BY DEF Start, Ts, WithJWT
<1>2. now = 0 /\ tasks = {} /\ misses = 0
  BY <1>1 DEF Renewals, Before
<1>3. (misses' + 1) * Period \in Nat
  BY <1>1, <1>2, OneMore
<1> QED
  BY <1>1, <1>2, <1>3 DEF Renewals, OneTask, Before, InTime

(* Renewals is inductive.                                                     *)
LEMMA RenewalsStay == JwtTypeOK /\ Renewals /\ [AppNext]_appVars => Renewals'
<1> SUFFICES ASSUME JwtTypeOK, Renewals, [AppNext]_appVars, prog = "jwt" PROVE Renewals'
  <2>1. ASSUME [AppNext]_appVars PROVE prog' = prog
    <3>1. CASE Program
      BY <3>1 DEF Program, Start, StartFails, Connected, Subscribed, Published, CallFails, Wake, ConnectFails,
                  Forget, NodeExits, Done, Receive, RustDisconnect
    <3>2. CASE Network
      BY <3>2 DEF Network, Accepted, Refused, Breaks, Reopen
    <3>3. CASE Token
      BY <3>3 DEF Token, TimerFires, TaskRuns, TimePasses, SessionExpires, programVars
    <3>4. CASE Ask
      BY <3>4 DEF Ask
    <3>5. CASE UNCHANGED appVars
      BY <3>5 DEF appVars, programVars
    <3> QED
      BY <2>1, <3>1, <3>2, <3>3, <3>4, <3>5 DEF AppNext
  <2> QED
    BY <2>1 DEF Renewals
<1>1. CASE Start
  BY <1>1, StartsInTime
<1>2. CASE TimerFires
  BY <1>2, FiresInTime
<1>3. CASE TaskRuns
  BY <1>3, TaskEndsInTime DEF TaskRuns
<1>4. CASE TimePasses
  BY <1>4, TickInTime
<1>5. CASE UNCHANGED appVars
  BY <1>5 DEF appVars, programVars, jwtVars, Renewals, OneTask, Before, InTime
<1>6. CASE Connected \/ Subscribed \/ Published \/ CallFails \/ ConnectFails
  <2>1. /\ UNCHANGED jwtVars /\ connection' = connection /\ prog' = prog
        /\ phase \notin {"start", "ended"} /\ phase' # "start"
    BY <1>6 DEF Connected, Subscribed, Published, CallFails, ConnectFails, EndWith, AfterConnect,
                AfterSubscribe, AfterPublish
  <2> QED
    BY <2>1, RestInTime DEF Renewals, Before
<1>7. CASE Wake \/ RustDisconnect
  <2>1. /\ UNCHANGED jwtVars /\ connection' = connection /\ prog' = prog
        /\ phase \notin {"start", "ended"} /\ phase' # "start"
    BY <1>7 DEF Wake, RustDisconnect, EndWith
  <2> QED
    BY <2>1, RestInTime DEF Renewals, Before
<1>11. CASE StartFails
  <2>1. UNCHANGED jwtVars /\ connection' = connection /\ prog' = prog /\ phase' = "ended"
    BY <1>11 DEF StartFails, EndWith, Ts
  <2> QED
    BY <2>1, RestInTime DEF Renewals, Before
<1>8. CASE Accepted \/ Refused \/ Breaks \/ SessionExpires
  <2>1. /\ UNCHANGED jwtVars /\ prog' = prog
        /\ connection' \in {connection, "down"} \/ (connection = "opening" /\ connection' = "up")
        /\ connection # "none" /\ phase # "start" /\ phase' \in {phase, "ended"}
    BY <1>8 DEF Accepted, Refused, Breaks, SessionExpires, EndWith, Renewals, Before
  <2> QED
    BY <2>1, RestInTime DEF Renewals, Before
<1>9. CASE Ask
  <2>1. /\ UNCHANGED jwtVars /\ connection' = connection /\ prog' = prog
        /\ phase \notin {"start", "ended"} /\ phase' # "start"
    BY <1>9 DEF Ask, EndWith, Ts
  <2> QED
    BY <2>1, RestInTime DEF Renewals, Before
<1>10. CASE Forget \/ NodeExits \/ Done \/ Receive \/ Reopen
  BY <1>10 DEF Forget, NodeExits, Done, Receive, Reopen, Ts, Renewals, Before
<1> QED
  BY <1>1, <1>2, <1>3, <1>4, <1>5, <1>6, <1>7, <1>8, <1>9, <1>10, <1>11
     DEF AppNext, Program, Network, Token

(* The renewals come in time: whatever the period and the life of a token, it has not  *)
(* expired while the session stands, unless too many renewals failed in a row.       *)
THEOREM TokenIsRenewed == AppSpec => []TokenOutlivesSession
<1> USE JwtAssumption
<1>1. AppInit => JwtTypeOK /\ Renewals
  <2> SUFFICES ASSUME AppInit PROVE JwtTypeOK /\ Renewals
    OBVIOUS
  <2>1. (misses + 1) * Period \in Nat
    BY OneMore DEF AppInit, JwtInit
  <2> QED
    BY <2>1 DEF AppInit, JwtInit, JwtTypeOK, Renewals, OneTask, Before, InTime
<1>2. JwtTypeOK /\ Renewals => TokenOutlivesSession
  <2> SUFFICES ASSUME JwtTypeOK, Renewals, prog = "jwt", connection = "up",
                      (misses + 1) * Period + Delay < Lifetime
               PROVE  ~Expired
    BY DEF TokenOutlivesSession
  <2> DEFINE turns == (misses + 1) * Period
  <2>1. turns \in Nat
    BY OneMore DEF JwtTypeOK
  <2>2. now <= issued + turns + Delay
    <3>1. CASE tasks = {}
      BY <2>1, <3>1 DEF Renewals, InTime, JwtTypeOK
    <3>2. ASSUME NEW t \in tasks PROVE now <= issued + turns + Delay
      <4>1. now <= t + Delay /\ due = t + Period /\ due <= issued + turns + Period
        BY <3>2 DEF Renewals, OneTask, InTime
      <4> QED
        BY <2>1, <4>1 DEF JwtTypeOK
    <3> QED
      BY <3>1, <3>2
  <2> QED
    BY <2>1, <2>2 DEF Expired, JwtTypeOK
<1> QED
  BY <1>1, <1>2, TimesStay, RenewalsStay, PTL DEF AppSpec

-----------------------------------------------------------------------------
(* ConnectionSettings: what the operators of a language say, one by one.        *)
LEMMA SixLoaders == \A l \in Loaders : l \in {"python", "dotnet", "ts", "go", "rust", "c"}
BY LoadAssumption

LEMMA Numbers ==
  /\ DOMAIN Number = {"0", "30", "60", "1883", "8883", "70000", "-1"}
  /\ \A t \in DOMAIN Number : Number[t] \in Int /\ (Number[t] = 0 => t = "0")
<1>1. DOMAIN Number = {"0", "30", "60", "1883", "8883", "70000", "-1"}
  BY DEF Number
<1>2. /\ Number["0"] = 0 /\ Number["30"] = 30 /\ Number["60"] = 60 /\ Number["1883"] = 1883
      /\ Number["8883"] = 8883 /\ Number["70000"] = 70000 /\ Number["-1"] = -1
  BY DEF Number
<1> QED
  BY <1>1, <1>2

(* atoi has a value for any text, and 0 means 0 where the text is a number.     *)
LEMMA AtoiFacts ==
  \A t : Atoi(t) \in Int /\ (Whole(t) /\ Atoi(t) = 0 => t = "0")
<1> TAKE t
<1>1. CASE t \in DOMAIN Number
  BY <1>1, Numbers DEF Atoi, Whole
<1>2. CASE t \notin DOMAIN Number
  BY <1>2 DEF Atoi, Whole
<1> QED
  BY <1>1, <1>2

LEMMA WholeTexts ==
  \A t : Whole(t) => t \in Texts /\ t \notin {"", "p=q", Absent} /\ t \notin DOMAIN Quoted
<1>1. DOMAIN Quoted = {"\"1883\"", "\"false\""}
  BY DEF Quoted
<1> QED
  BY <1>1, Numbers DEF Whole, Texts, Absent

(* The converters, language by language.                                     *)
LEMMA IntegersRead ==
  \A t :
    /\ IntAccepts("python", t) <=> Whole(t)
    /\ IntAccepts("dotnet", t) <=> Whole(t)
    /\ IntAccepts("go", t) <=> Whole(t)
    /\ IntAccepts("rust", t) <=> Whole(t) /\ Atoi(t) \in 0..UInt16Max
    /\ IntAccepts("c", t) <=> Atoi(t) # 0 \/ t = "0"
BY SMT DEF IntAccepts

LEMMA IntegersMeant ==
  \A n, t :
    /\ IntValue("python", n, t) = {Atoi(t)} /\ IntValue("dotnet", n, t) = {Atoi(t)}
    /\ IntValue("rust", n, t) = {Atoi(t)} /\ IntValue("c", n, t) = {Atoi(t)}
    /\ IntValue("go", n, t) \in {{Atoi(t)}, {Atoi(t) % (UInt16Max + 1)}}
BY SMT DEF IntValue

LEMMA BooleansRead ==
  \A n, t :
    /\ BoolAccepts("python", n, t) <=> t \in {"true", "false"}
    /\ BoolAccepts("c", n, t) <=> t \in {"true", "false"}
    /\ BoolAccepts("rust", n, t) <=> t \in {"true", "True", "false"}
    /\ BoolAccepts("go", n, t) <=> t \in {"true", "True", "1", "false", "0"}
BY SMT DEF BoolAccepts

LEMMA BooleansMeant ==
  \A n, t :
    /\ BoolValue("python", n, t) = (t \in {"true", "True", "1"})
    /\ BoolValue("go", n, t) = (t \in {"true", "True", "1"})
    /\ BoolValue("rust", n, t) = (t \in {"true", "True", "1"})
    /\ BoolValue("c", n, t) = (t \in {"true", "True", "1"})
BY SMT DEF BoolValue

LEMMA SourceOf ==
  \A l, f, e :
    /\ l \in {"python", "dotnet", "c"} => Source(l, f, e) = Over(Lines(l, f), e)
    /\ l \in {"go", "rust"} => Source(l, f, e) = Over(e, Lines(l, f))
    /\ l = "ts" => Source(l, f, e) = Lines(l, f)
BY DEF Source, EnvironAfter

LEMMA EnvironOf ==
  \A l, f, e :
    /\ l \in {"dotnet", "c"} => EnvironAfter(l, f, e) = Over(Lines(l, f), e)
    /\ l \in {"ts", "go", "rust"} => EnvironAfter(l, f, e) = Over(e, Lines(l, f))
    /\ l = "python" => EnvironAfter(l, f, e) = e
BY DEF EnvironAfter

(* A line of a plain text is read as it is.                                   *)
LEMMA PlainText ==
  \A l, t : t \notin {"", "p=q"} /\ t \notin DOMAIN Quoted => FileText(l, t) = t
BY DEF FileText, Unquoted

(* Reading yields texts.                                                     *)
LEMMA ReadingTypes ==
  ASSUME NEW l \in Loaders, NEW f \in EnvFile, NEW e \in [Names -> Texts \cup {Absent}]
  PROVE  /\ EnvironAfter(l, f, e) \in [Names -> Texts \cup {Absent}]
         /\ Source(l, f, e) \in [Names -> Texts \cup {Absent}]
<1>1. \A t \in Texts \cup {Absent} : FileText(l, t) \in Texts \cup {Absent}
  <2>1. \A t \in Texts \cup {Absent} : Unquoted(t) \in Texts \cup {Absent}
    <3>1. DOMAIN Quoted = {"\"1883\"", "\"false\""} /\ Quoted["\"1883\""] = "1883" /\ Quoted["\"false\""] = "false"
      BY DEF Quoted
    <3> QED
      BY <3>1, Numbers DEF Unquoted, Texts
  <2>2. "p" \in Texts
    BY DEF Texts
  <2> QED
    BY <2>1, <2>2 DEF FileText
<1>2. Lines(l, f) \in [Names -> Texts \cup {Absent}]
  <2>1. f.text \in [Names -> Texts \cup {Absent}]
    BY DEF EnvFile
  <2> QED
    BY <1>1, <2>1 DEF Lines
<1>3. \A a, b \in [Names -> Texts \cup {Absent}] : Over(a, b) \in [Names -> Texts \cup {Absent}]
  BY DEF Over
<1> QED
  BY <1>2, <1>3, SixLoaders, SourceOf, EnvironOf

(* Whatever is converted is of the settings' types.                            *)
LEMMA SettingsTypes ==
  ASSUME NEW l \in Loaders, NEW f \in EnvFile, NEW e \in [Names -> Texts \cup {Absent}]
  PROVE  SettingsOf(l, f, e) \in Settings
<1> DEFINE s == Source(l, f, e)
           x == [n \in TextNames |-> TextValue(l, n, s[n])]
           i == [n \in IntNames |-> IF Defaulted(l, s[n]) THEN {IntDefault[n]} ELSE IntValue(l, n, s[n])]
           b == [n \in BoolNames |-> IF Defaulted(l, s[n]) THEN BoolDefault(l, n) ELSE BoolValue(l, n, s[n])]
<1>1. \A n \in Names : s[n] \in Texts \cup {Absent}
  BY ReadingTypes
<1>2. SettingsOf(l, f, e) = [text |-> x, int |-> i, bool |-> b]
  BY DEF SettingsOf
<1>3. x \in [TextNames -> Texts]
  <2>1. \A n \in TextNames : TextValue(l, n, s[n]) \in Texts
    <3>1. "" \in Texts /\ TextNames \subseteq Names
      BY DEF Texts, Names
    <3> HIDE DEF s
    <3> QED
      BY <1>1, <3>1 DEF TextValue
  <2> QED
    BY <2>1
<1>4. i \in [IntNames -> SUBSET Int]
  <2>1. \A n \in IntNames : IntDefault[n] \in Int
    BY DEF IntDefault
  <2>2. \A n, t : IntValue(l, n, t) \in SUBSET Int
    <3> SUFFICES ASSUME NEW n, NEW t PROVE IntValue(l, n, t) \in SUBSET Int
      OBVIOUS
    <3>1. Atoi(t) \in Int
      BY AtoiFacts
    <3>2. Atoi(t) % (UInt16Max + 1) \in Int
      BY <3>1 DEF UInt16Max
    <3> QED
      BY <3>1, <3>2 DEF IntValue
  <2> QED
    BY <2>1, <2>2
<1>5. b \in [BoolNames -> BOOLEAN]
  <2>1. \A n \in BoolNames : BoolDefault(l, n) \in BOOLEAN
    BY DEF BoolDefault
  <2>2. \A n, t : BoolValue(l, n, t) \in BOOLEAN
    <3> SUFFICES ASSUME NEW n, NEW t PROVE BoolValue(l, n, t) \in BOOLEAN
      OBVIOUS
    <3>1. CASE l = "ts"
      BY <3>1, Zenon DEF BoolValue
    <3>2. CASE l # "ts" /\ l = "dotnet" /\ n = "MQTT_CLEAN_SESSION"
      <4>1. BoolValue(l, n, t) = (t = "true")
        BY <3>2 DEF BoolValue
      <4> QED BY <4>1, Zenon
    <3>3. CASE l # "ts" /\ ~(l = "dotnet" /\ n = "MQTT_CLEAN_SESSION")
      <4>1. BoolValue(l, n, t) = (t \in {"true", "True", "1"})
        BY <3>3 DEF BoolValue
      <4>2. (t \in {"true", "True", "1"}) \in BOOLEAN
        OBVIOUS
      <4> QED BY <4>1, <4>2, Zenon
    <3> QED BY <3>1, <3>2, <3>3
  <2> QED
    BY <2>1, <2>2
<1> HIDE DEF x, i, b
<1> QED
  BY <1>2, <1>3, <1>4, <1>5 DEF Settings

-----------------------------------------------------------------------------
(* How a load of the file ends that meets the environment e.                   *)
EndsAs(e) ==
  \/ /\ outcome = "loaded" /\ ~Crashes(loader, file) /\ Accepts(loader, file, e)
     /\ settings = {SettingsOf(loader, file, e)}
  \/ /\ outcome = "rejected" /\ ~Crashes(loader, file) /\ ~Accepts(loader, file, e)
     /\ settings = {}
  \/ outcome = "crashed" /\ Crashes(loader, file) /\ settings = {}

(* The first load meets the environment of the start; and every load ends as if    *)
(* it had, for which nothing is left of an earlier one.                         *)
SettingsInv ==
  /\ SettingsTypeOK
  /\ loads = 0 => environ = startEnv /\ outcome = "none" /\ settings = {}
  /\ loader = "python" => environ = startEnv
  /\ loads > 0 /\ (loads = 1 \/ NothingLeft) => EndsAs(startEnv)

LEMMA SettingsInvInit == SettingsInit => SettingsInv
<1> HAVE SettingsInit
<1>1. file \in EnvFile
  <2>1. file = [exists |-> FALSE, text |-> [n \in Names |-> Absent]]
    BY DEF SettingsInit
  <2> QED
    BY <2>1 DEF EnvFile
<1>2. startEnv \in [Names -> Texts \cup {Absent}] /\ environ = startEnv /\ 0 \in 0..MaxLoads
  BY LoadAssumption DEF SettingsInit
<1>3. Cardinality({}) = 0
  BY FS_EmptySet
<1>4. SettingsTypeOK
  BY <1>1, <1>2, <1>3 DEF SettingsInit, SettingsTypeOK
<1> QED
  BY <1>4 DEF SettingsInit, SettingsInv

(* What is made of a file depends on the environment by way of its source only.   *)
LEMMA SameSource ==
  \A l, f, e1, e2 :
    Source(l, f, e1) = Source(l, f, e2) =>
      /\ Accepts(l, f, e1) <=> Accepts(l, f, e2)
      /\ SettingsOf(l, f, e1) = SettingsOf(l, f, e2)
BY DEF Accepts, SettingsOf

LEMMA LoadKeeps ==
  ASSUME SettingsInv, NEW f \in Named, Load(f) \/ Reject(f) \/ Crash(f)
  PROVE  SettingsInv'
<1>0. SettingsTypeOK /\ f \in EnvFile /\ MaxLoads \in Nat
  BY LoadAssumption DEF SettingsInv, SettingsTypeOK, Named
<1>1. /\ loads < MaxLoads /\ loads' = loads + 1 /\ file' = f
      /\ loader' = loader /\ startEnv' = startEnv
  BY DEF Load, Reject, Crash, Begin
<1>2. environ' = EnvironAfter(loader, f, environ) \/ environ' = environ
  BY DEF Load, Reject, Crash
<1>3. EndsAs(environ)'
      <=> \/ /\ outcome' = "loaded" /\ ~Crashes(loader, f) /\ Accepts(loader, f, environ')
             /\ settings' = {SettingsOf(loader, f, environ')}
          \/ /\ outcome' = "rejected" /\ ~Crashes(loader, f) /\ ~Accepts(loader, f, environ')
             /\ settings' = {}
          \/ outcome' = "crashed" /\ Crashes(loader, f) /\ settings' = {}
  BY <1>1 DEF EndsAs
<1>4. SettingsTypeOK'
  <2>1. environ' \in [Names -> Texts \cup {Absent}]
    BY <1>0, <1>2, ReadingTypes DEF SettingsTypeOK
  <2>2. settings' \in SUBSET Settings /\ Cardinality(settings') <= 1
    <3>1. settings' = {} \/ settings' = {SettingsOf(loader, f, environ)}
      BY DEF Load, Reject, Crash
    <3>2. SettingsOf(loader, f, environ) \in Settings
      BY <1>0, SettingsTypes DEF SettingsTypeOK
    <3>3. Cardinality({}) = 0 /\ Cardinality({SettingsOf(loader, f, environ)}) = 1
      BY FS_EmptySet, FS_Singleton
    <3> QED
      BY <3>1, <3>2, <3>3
  <2>3. outcome' \in {"none", "loaded", "rejected", "crashed"}
    BY DEF Load, Reject, Crash
  <2>4. loads' \in 0..MaxLoads
    BY <1>0, <1>1 DEF SettingsTypeOK
  <2> QED
    BY <1>0, <1>1, <2>1, <2>2, <2>3, <2>4 DEF SettingsTypeOK
<1>5. loader = "python" => environ' = environ
  BY <1>2, EnvironOf
<1>6. ASSUME loads' = 1 \/ NothingLeft'
      PROVE  EndsAs(startEnv)'
  <2>1. \/ /\ outcome' = "loaded" /\ ~Crashes(loader, f) /\ Accepts(loader, f, environ)
           /\ settings' = {SettingsOf(loader, f, environ)}
        \/ /\ outcome' = "rejected" /\ ~Crashes(loader, f) /\ ~Accepts(loader, f, environ)
           /\ settings' = {}
        \/ outcome' = "crashed" /\ Crashes(loader, f) /\ settings' = {}
    BY DEF Load, Reject, Crash
  <2>2. Source(loader, f, environ) = Source(loader, f, startEnv) \/ Crash(f)
    <3>1. CASE loads' = 1 \/ loader = "python"
      <4>1. environ = startEnv
        BY <1>0, <1>1, <3>1 DEF SettingsInv, SettingsTypeOK
      <4> QED
        BY <4>1
    <3>2. CASE loader = "ts"
      BY <3>2, SourceOf
    <3>3. ASSUME Load(f) \/ Reject(f), loader \in {"dotnet", "c"}, NothingLeft'
          PROVE  Source(loader, f, environ) = Source(loader, f, startEnv)
      <4>1. environ' = EnvironAfter(loader, f, environ)
        BY <3>3 DEF Load, Reject
      <4>2. \A n \in Names : Lines(loader, f)[n] # Absent \/ environ'[n] = startEnv[n]
        BY <1>1, <3>3 DEF NothingLeft
      <4>3. environ' = Over(Lines(loader, f), environ)
        BY <3>3, <4>1, EnvironOf
      <4>4. Over(Lines(loader, f), environ) = Over(Lines(loader, f), startEnv)
        BY <4>2, <4>3 DEF Over
      <4>5. \A e : Source(loader, f, e) = Over(Lines(loader, f), e)
        BY <3>3, SourceOf
      <4> QED
        BY <4>4, <4>5
    <3> QED
      BY <1>1, <1>6, <3>1, <3>2, <3>3 DEF NothingLeft
  <2>3. CASE Crash(f)
    BY <1>1, <2>3 DEF EndsAs, Crash
  <2>4. CASE Source(loader, f, environ) = Source(loader, f, startEnv)
    <3>1. /\ Accepts(loader, f, environ) <=> Accepts(loader, f, startEnv)
          /\ SettingsOf(loader, f, environ) = SettingsOf(loader, f, startEnv)
      BY <2>4, SameSource, Zenon
    <3> QED
      BY <1>1, <2>1, <3>1 DEF EndsAs
  <2> QED
    BY <2>2, <2>3, <2>4
<1>7. loads' > 0 /\ loads' # 0
  BY <1>0, <1>1 DEF SettingsTypeOK
<1> QED
  BY <1>1, <1>4, <1>5, <1>6, <1>7 DEF SettingsInv

LEMMA SettingsInvariance == SettingsSpec => []SettingsInv
<1>1. SettingsInv /\ [SettingsNext]_settingsVars => SettingsInv'
  <2> SUFFICES ASSUME SettingsInv, [SettingsNext]_settingsVars PROVE SettingsInv'
    OBVIOUS
  <2>1. CASE SettingsNext
    BY <2>1, LoadKeeps DEF SettingsNext
  <2>2. CASE UNCHANGED settingsVars
    BY <2>2 DEF settingsVars, SettingsInv, SettingsTypeOK, EndsAs, NothingLeft
  <2> QED
    BY <2>1, <2>2
<1> QED
  BY <1>1, SettingsInvInit, PTL DEF SettingsSpec

(* The environment and the settings keep their types: reading and converting     *)
(* make texts, whole numbers and truth values of whatever a file holds.         *)
THEOREM SettingsTypeCorrect == SettingsSpec => []SettingsTypeOK
BY SettingsInvariance, PTL DEF SettingsInv

(* A second load in the same process gives what a fresh process would get from    *)
(* the second file: in Python and TypeScript always, in .NET (l.70) and C, which    *)
(* write their file into the environment, if the second file names what the first  *)
(* one did.                                                                  *)
THEOREM ReloadsAreFresh == SettingsSpec => []ReloadIsFresh
<1>1. SettingsInv => ReloadIsFresh
  <2> SUFFICES ASSUME SettingsInv, NothingLeft, outcome \in {"loaded", "rejected"}
               PROVE  /\ outcome = "loaded" => settings = {SettingsOf(loader, file, startEnv)}
                      /\ outcome = "rejected" => ~Accepts(loader, file, startEnv)
    BY DEF ReloadIsFresh
  <2>1. EndsAs(startEnv)
    BY DEF SettingsInv, SettingsTypeOK
  <2> QED
    BY <2>1 DEF EndsAs
<1> QED
  BY <1>1, SettingsInvariance, PTL

(* "When a variable does not match the type ... we will generate an error"         *)
(* (mqttclients/README.md:26): what Python, Rust and, for numbers, .NET load is   *)
(* what the text says; C reads a number off the start of a text, and takes none      *)
(* for a text that does not start with one.                                      *)
THEOREM NothingIsMisread == SettingsSpec => []NothingMisread
<1>1. ASSUME SettingsInv, loads = 1, NEW s \in settings
      PROVE  LET given == Source(loader, file, startEnv) IN
             /\ loader \in {"python", "rust", "dotnet"} =>
                  \A n \in IntNames :
                    given[n] \notin {Absent, ""} => Whole(given[n]) /\ s.int[n] = {Atoi(given[n])}
             /\ loader = "c" =>
                  \A n \in IntNames :
                    given[n] # Absent => StartsWithNumber(given[n]) /\ s.int[n] = {Atoi(given[n])}
             /\ loader \in {"python", "rust", "c"} =>
                  \A n \in BoolNames :
                    given[n] # Absent => given[n] \in {"true", "True", "false"}
                                         /\ s.bool[n] = (given[n] # "false")
  <2> DEFINE given == Source(loader, file, startEnv)
  <2>1. Accepts(loader, file, startEnv) /\ s = SettingsOf(loader, file, startEnv)
    BY <1>1 DEF SettingsInv, SettingsTypeOK, EndsAs
  <2>2. /\ \A n \in IntNames : Defaulted(loader, given[n]) \/ IntAccepts(loader, given[n])
        /\ \A n \in BoolNames : Defaulted(loader, given[n]) \/ BoolAccepts(loader, n, given[n])
    BY <2>1 DEF Accepts
  <2>3. /\ \A n \in IntNames : s.int[n] = IF Defaulted(loader, given[n]) THEN {IntDefault[n]}
                                          ELSE IntValue(loader, n, given[n])
        /\ \A n \in BoolNames : s.bool[n] = IF Defaulted(loader, given[n]) THEN BoolDefault(loader, n)
                                            ELSE BoolValue(loader, n, given[n])
    BY <2>1 DEF SettingsOf
  <2> HIDE DEF given
  <2>4. ASSUME loader \in {"python", "rust", "dotnet"}, NEW n \in IntNames, given[n] \notin {Absent, ""}
        PROVE  Whole(given[n]) /\ s.int[n] = {Atoi(given[n])}
    <3>1. ~Defaulted(loader, given[n])
      BY <2>4 DEF Defaulted
    <3>2. IntAccepts(loader, given[n])
      BY <2>2, <3>1
    <3>3. s.int[n] = IntValue(loader, n, given[n])
      BY <2>3, <3>1
    <3>4. \E l \in {"python", "rust", "dotnet"} : IntAccepts(l, given[n]) /\ s.int[n] = IntValue(l, n, given[n])
      BY <2>4, <3>2, <3>3, Zenon
    <3>5. \A l \in {"python", "rust", "dotnet"} : IntAccepts(l, given[n]) => Whole(given[n])
      <4>1. IntAccepts("python", given[n]) => Whole(given[n])
        BY IntegersRead, Zenon
      <4>2. IntAccepts("rust", given[n]) => Whole(given[n])
        BY IntegersRead, Zenon
      <4>3. IntAccepts("dotnet", given[n]) => Whole(given[n])
        BY IntegersRead, Zenon
      <4> QED
        BY <4>1, <4>2, <4>3, Zenon
    <3>6. \A l \in {"python", "rust", "dotnet"} : IntValue(l, n, given[n]) = {Atoi(given[n])}
      BY IntegersMeant
    <3> QED
      BY <3>4, <3>5, <3>6
  <2>5. ASSUME loader \in {"python", "rust", "c"}, NEW n \in BoolNames, given[n] # Absent
        PROVE  given[n] \in {"true", "True", "false"} /\ s.bool[n] = (given[n] # "false")
    <3>1. ~Defaulted(loader, given[n])
      BY <2>5 DEF Defaulted
    <3>2. BoolAccepts(loader, n, given[n])
      BY <2>2, <3>1
    <3>3. s.bool[n] = BoolValue(loader, n, given[n])
      BY <2>3, <3>1
    <3>4. given[n] \in {"true", "True", "false"}
      <4>1. CASE loader = "python" BY <3>2, <4>1, BooleansRead
      <4>2. CASE loader = "rust" BY <3>2, <4>2, BooleansRead
      <4>3. CASE loader = "c" BY <3>2, <4>3, BooleansRead
      <4> QED BY <2>5, <4>1, <4>2, <4>3
    <3>5. s.bool[n] = (given[n] \in {"true", "True", "1"})
      <4>1. CASE loader = "python" BY <3>3, <4>1, BooleansMeant, Zenon
      <4>2. CASE loader = "rust" BY <3>3, <4>2, BooleansMeant, Zenon
      <4>3. CASE loader = "c" BY <3>3, <4>3, BooleansMeant, Zenon
      <4> QED BY <2>5, <4>1, <4>2, <4>3, Zenon
    <3>6. (given[n] \in {"true", "True", "1"}) <=> given[n] # "false"
      BY <3>4
    <3>7. (given[n] \in {"true", "True", "1"}) = (given[n] # "false")
      <4>1. (given[n] \in {"true", "True", "1"}) \in BOOLEAN /\ (given[n] # "false") \in BOOLEAN
        OBVIOUS
      <4> QED BY <3>6, <4>1
    <3> QED
      BY <3>4, <3>5, <3>7
  <2>6. ASSUME loader = "c", NEW n \in IntNames, given[n] # Absent
        PROVE  StartsWithNumber(given[n]) /\ s.int[n] = {Atoi(given[n])}
    <3>1. ~Defaulted(loader, given[n])
      BY <2>6 DEF Defaulted
    <3>2. IntAccepts("c", given[n]) /\ s.int[n] = IntValue("c", n, given[n])
      BY <2>2, <2>3, <2>6, <3>1
    <3>3. Atoi(given[n]) # 0 \/ given[n] = "0"
      BY <3>2, IntegersRead, Zenon
    <3>4. StartsWithNumber(given[n])
      <4>1. "0" \in DOMAIN Number
        BY Numbers
      <4> QED
        BY <3>3, <4>1 DEF StartsWithNumber, Whole, Atoi
    <3> QED
      BY <3>2, <3>4, IntegersMeant
  <2> QED
    BY <2>4, <2>5, <2>6 DEF given
<1>2. SettingsInv => NothingMisread
  BY <1>1 DEF NothingMisread
<1> QED
  BY <1>2, SettingsInvariance, PTL
-----------------------------------------------------------------------------
(* The loaders that keep to the table of mqttclients/README.md.                  *)
TableLoaders == {"python", "dotnet", "go", "rust", "c"}
Environments == [Names -> Texts \cup {Absent}]

(* A portable file is read as it stands: its lines are its texts, and as nothing  *)
(* is set twice it does not matter which side wins.                           *)
LEMMA PortableSource ==
  ASSUME NEW l \in TableLoaders, NEW f \in EnvFile,
         NEW e \in Environments, Portable(f, e)
  PROVE  /\ Source(l, f, e) = Over(f.text, e)
         /\ ~Crashes(l, f)
         /\ \A n \in Names : Over(f.text, e)[n] # ""
<1> DEFINE s == Over(f.text, e)
<1>0. f.text \in [Names -> Texts \cup {Absent}]
  BY DEF EnvFile
<1>8. f.exists /\ \A n \in Names : f.text[n] = Absent \/ e[n] = Absent
  BY Zenon DEF Portable
<1>1. \A n \in Names : s[n] = IF f.text[n] # Absent THEN f.text[n] ELSE e[n]
  BY DEF Over
<1>2. \A n \in Names : s[n] \notin {"", "p=q"} /\ s[n] \notin DOMAIN Quoted
  <2>1. DOMAIN Quoted = {"\"1883\"", "\"false\""}
    BY DEF Quoted
  <2>2. /\ \A n \in TextNames : s[n] \in {Absent, "broker", "user", "p"}
        /\ \A n \in IntNames : s[n] = Absent \/ Whole(s[n])
        /\ \A n \in BoolNames : s[n] \in {Absent, "true", "false"}
    BY Zenon DEF Portable
  <2> HIDE DEF s
  <2>3. ASSUME NEW n \in TextNames PROVE s[n] \notin {"", "p=q"} /\ s[n] \notin DOMAIN Quoted
    BY <2>1, <2>2 DEF Absent
  <2>4. ASSUME NEW n \in IntNames PROVE s[n] \notin {"", "p=q"} /\ s[n] \notin DOMAIN Quoted
    BY <2>1, <2>2, WholeTexts DEF Absent
  <2>5. ASSUME NEW n \in BoolNames PROVE s[n] \notin {"", "p=q"} /\ s[n] \notin DOMAIN Quoted
    BY <2>1, <2>2 DEF Absent
  <2> QED
    BY <2>3, <2>4, <2>5 DEF Names
<1>3. \A n \in Names : FileText(l, f.text[n]) = f.text[n]
  <2>1. Absent \notin {"", "p=q"} /\ Absent \notin DOMAIN Quoted
    BY DEF Absent, Quoted
  <2> HIDE DEF s
  <2>2. \A n \in Names : f.text[n] \notin {"", "p=q"} /\ f.text[n] \notin DOMAIN Quoted
    BY <1>1, <1>2, <2>1
  <2> QED
    BY <2>2, PlainText
<1>4. Lines(l, f) = f.text
  BY <1>0, <1>3, <1>8 DEF Lines
<1>5. Over(e, f.text) = s
  BY <1>8 DEF Over
<1>6. Source(l, f, e) = s
  <2>1. CASE l \in {"python", "dotnet", "c"}
    BY <2>1, <1>4, SourceOf DEF TableLoaders
  <2>2. CASE l \in {"go", "rust"}
    BY <2>2, <1>4, <1>5, SourceOf
  <2> QED
    BY <2>1, <2>2 DEF TableLoaders
<1>7. ~Crashes(l, f)
  <2>1. \A n \in Names : f.text[n] # ""
    BY <1>1, <1>2 DEF Absent
  <2> QED
    BY <2>1 DEF Crashes
<1> QED
  BY <1>2, <1>6, <1>7

(* The converters of the five languages agree on texts of the right types.       *)
LEMMA PortableNumbers ==
  \A l \in TableLoaders : \A n, t :
    Whole(t) /\ Atoi(t) \in 0..UInt16Max => IntAccepts(l, t) /\ IntValue(l, n, t) = {Atoi(t)}
<1>0. SUFFICES ASSUME NEW l \in TableLoaders, NEW n, NEW t,
                      Whole(t), Atoi(t) \in 0..UInt16Max
               PROVE  IntAccepts(l, t) /\ IntValue(l, n, t) = {Atoi(t)}
  BY Zenon
<1>1. Atoi(t) # 0 \/ t = "0"
  BY <1>0, AtoiFacts
<1>2. Atoi(t) % (UInt16Max + 1) = Atoi(t)
  <2>1. UInt16Max = 65535
    BY DEF UInt16Max
  <2>2. Atoi(t) \in Int /\ 0 <= Atoi(t) /\ Atoi(t) <= UInt16Max
    <3>1. UInt16Max \in Int
      BY <2>1
    <3> QED
      BY <1>0, <3>1, AtoiFacts
  <2>3. \A x \in Int : 0 <= x /\ x <= 65535 => x % 65536 = x
    OBVIOUS
  <2>4. UInt16Max + 1 = 65536
    BY <2>1
  <2> QED
    BY <2>1, <2>2, <2>3, <2>4
<1>3. IntAccepts(l, t)
  <2>1. CASE l = "python" BY <1>0, <2>1, IntegersRead, Zenon
  <2>2. CASE l = "go" BY <1>0, <2>2, IntegersRead, Zenon
  <2>3. CASE l = "rust" BY <1>0, <2>3, IntegersRead, Zenon
  <2>4. CASE l = "c" BY <1>1, <2>4, IntegersRead, Zenon
  <2>5. CASE l = "dotnet" BY <1>0, <2>5, IntegersRead, Zenon
  <2> QED BY <2>1, <2>2, <2>3, <2>4, <2>5 DEF TableLoaders
<1>4. IntValue(l, n, t) = {Atoi(t)}
  BY <1>2, IntegersMeant DEF TableLoaders
<1> QED
  BY <1>3, <1>4

LEMMA PortableTruths ==
  \A l \in TableLoaders \ {"dotnet"} : \A n, t :
    t \in {"true", "false"} => BoolAccepts(l, n, t) /\ BoolValue(l, n, t) = (t = "true")
<1>0. SUFFICES ASSUME NEW l \in TableLoaders \ {"dotnet"}, NEW n, NEW t, t \in {"true", "false"}
               PROVE  BoolAccepts(l, n, t) /\ BoolValue(l, n, t) = (t = "true")
  BY Zenon
<1>1. BoolAccepts(l, n, t)
  <2>1. CASE l = "python" BY <1>0, <2>1, BooleansRead
  <2>2. CASE l = "go" BY <1>0, <2>2, BooleansRead
  <2>3. CASE l = "rust" BY <1>0, <2>3, BooleansRead
  <2>4. CASE l = "c" BY <1>0, <2>4, BooleansRead
  <2> QED BY <2>1, <2>2, <2>3, <2>4 DEF TableLoaders
<1>2. BoolValue(l, n, t) = (t \in {"true", "True", "1"})
  <2>1. CASE l = "python" BY <2>1, BooleansMeant, Zenon
  <2>2. CASE l = "go" BY <2>2, BooleansMeant, Zenon
  <2>3. CASE l = "rust" BY <2>3, BooleansMeant, Zenon
  <2>4. CASE l = "c" BY <2>4, BooleansMeant, Zenon
  <2> QED BY <2>1, <2>2, <2>3, <2>4, Zenon DEF TableLoaders
<1>3. (t \in {"true", "True", "1"}) = (t = "true")
  <2>1. (t \in {"true", "True", "1"}) <=> (t = "true")
    BY <1>0
  <2>2. (t \in {"true", "True", "1"}) \in BOOLEAN /\ (t = "true") \in BOOLEAN
    OBVIOUS
  <2> QED
    BY <2>1, <2>2
<1> QED
  BY <1>1, <1>2, <1>3, Zenon

LEMMA DotnetTruths ==
  \A n, t :
    t \in {"true", "false"} => BoolAccepts("dotnet", n, t) /\ BoolValue("dotnet", n, t) = (t = "true")
<1>0. SUFFICES ASSUME NEW n, NEW t, t \in {"true", "false"}
               PROVE  BoolAccepts("dotnet", n, t) /\ BoolValue("dotnet", n, t) = (t = "true")
  BY Zenon
<1>1. BoolAccepts("dotnet", n, t)
  BY <1>0, SMT DEF BoolAccepts
<1>2. CASE n = "MQTT_CLEAN_SESSION"
  <2>1. BoolValue("dotnet", n, t) = (t = "true")
    BY <1>2, SMT DEF BoolValue
  <2> QED
    BY <1>1, <2>1, Zenon
<1>3. CASE n # "MQTT_CLEAN_SESSION"
  <2>1. BoolValue("dotnet", n, t) = (t \in {"true", "True", "1"})
    BY <1>3, SMT DEF BoolValue
  <2>2. (t \in {"true", "True", "1"}) <=> (t = "true")
    BY <1>0
  <2>3. (t \in {"true", "True", "1"}) \in BOOLEAN /\ (t = "true") \in BOOLEAN
    OBVIOUS
  <2>4. (t \in {"true", "True", "1"}) = (t = "true")
    BY <2>2, <2>3
  <2> QED
    BY <1>1, <2>1, <2>4, Zenon
<1> QED
  BY <1>2, <1>3

LEMMA PortableDefaults ==
  \A l \in TableLoaders : \A n, t :
    /\ t # "" => (Defaulted(l, t) <=> t = Absent)
    /\ BoolDefault(l, n) = (l # "dotnet" \/ n # "MQTT_CLEAN_SESSION")
<1>1. \A l \in TableLoaders : \A t : t # "" => (Defaulted(l, t) <=> t = Absent)
  BY DEF Defaulted
<1>2. \A l, n : BoolDefault(l, n) = (l # "dotnet" \/ n # "MQTT_CLEAN_SESSION")
  BY SMT DEF BoolDefault
<1> QED
  BY <1>1, <1>2, Zenon

LEMMA PortableLoads ==
  ASSUME NEW l \in TableLoaders, NEW f \in EnvFile,
         NEW e \in Environments, Portable(f, e)
  PROVE  /\ ~Crashes(l, f) /\ Accepts(l, f, e)
         /\ SettingsOf(l, f, e) = Documented(l, Over(f.text, e))
<1> DEFINE s == Over(f.text, e)
<1>1. Source(l, f, e) = s /\ ~Crashes(l, f) /\ \A n \in Names : s[n] # ""
  BY PortableSource
<1>2. /\ s["MQTT_HOST_NAME"] \notin {Absent, ""} /\ f.exists
      /\ s["MQTT_PASSWORD"] # Absent => s["MQTT_USERNAME"] # Absent
      /\ \A n \in IntNames : s[n] = Absent \/ (Whole(s[n]) /\ Atoi(s[n]) \in 0..UInt16Max)
      /\ \A n \in BoolNames : s[n] \in {Absent, "true", "false"}
  BY Zenon DEF Portable
<1> HIDE DEF s
<1>3. IntNames \subseteq Names /\ BoolNames \subseteq Names
  BY DEF Names
<1>4. ASSUME NEW n \in IntNames
      PROVE  /\ s[n] # Absent => IntAccepts(l, s[n]) /\ IntValue(l, n, s[n]) = {Atoi(s[n])}
             /\ Defaulted(l, s[n]) <=> s[n] = Absent
  <2>1. Whole(s[n]) /\ Atoi(s[n]) \in 0..UInt16Max =>
          IntAccepts(l, s[n]) /\ IntValue(l, n, s[n]) = {Atoi(s[n])}
    BY PortableNumbers, Zenon
  <2>3. s[n] # "" => (Defaulted(l, s[n]) <=> s[n] = Absent)
    BY PortableDefaults, Zenon
  <2>2. s[n] # "" /\ (s[n] = Absent \/ (Whole(s[n]) /\ Atoi(s[n]) \in 0..UInt16Max))
    BY <1>1, <1>2, <1>3
  <2> QED
    BY <2>1, <2>2, <2>3, Zenon
<1>5. ASSUME NEW n \in BoolNames
      PROVE  /\ s[n] # Absent => BoolAccepts(l, n, s[n]) /\ BoolValue(l, n, s[n]) = (s[n] = "true")
             /\ Defaulted(l, s[n]) <=> s[n] = Absent
  <2>1. s[n] \in {"true", "false"} =>
          BoolAccepts(l, n, s[n]) /\ BoolValue(l, n, s[n]) = (s[n] = "true")
    <3>1. CASE l = "dotnet" BY <3>1, DotnetTruths, Zenon
    <3>2. CASE l # "dotnet" BY <3>2, PortableTruths
    <3> QED BY <3>1, <3>2, Zenon
  <2>3. s[n] # "" => (Defaulted(l, s[n]) <=> s[n] = Absent)
    BY PortableDefaults, Zenon
  <2>2. s[n] # "" /\ (s[n] # Absent => s[n] \in {"true", "false"})
    BY <1>1, <1>2, <1>3
  <2> QED
    BY <2>1, <2>2, <2>3, Zenon
<1>6. Accepts(l, f, e)
  <2>1. HasHost(l, s["MQTT_HOST_NAME"])
    BY <1>2 DEF HasHost, TableLoaders
  <2>2. Credentials(l, s["MQTT_USERNAME"], s["MQTT_PASSWORD"])
    BY <1>2 DEF Credentials, TableLoaders
  <2>3. Opens(l, f)
    BY <1>2 DEF Opens, TableLoaders
  <2>4. /\ \A n \in IntNames : Defaulted(l, s[n]) \/ IntAccepts(l, s[n])
        /\ \A n \in BoolNames : Defaulted(l, s[n]) \/ BoolAccepts(l, n, s[n])
    BY <1>4, <1>5, Zenon
  <2> QED
    BY <1>1, <2>1, <2>2, <2>3, <2>4, Zenon DEF Accepts
<1>7. [n \in TextNames |-> TextValue(l, n, s[n])] = [n \in TextNames |-> IF s[n] = Absent THEN "" ELSE s[n]]
  BY DEF TextValue, TableLoaders
<1>8. [n \in IntNames |-> IF Defaulted(l, s[n]) THEN {IntDefault[n]} ELSE IntValue(l, n, s[n])]
        = [n \in IntNames |-> IF s[n] = Absent THEN {IntDefault[n]} ELSE {Atoi(s[n])}]
  BY <1>4
<1>9. [n \in BoolNames |-> IF Defaulted(l, s[n]) THEN BoolDefault(l, n) ELSE BoolValue(l, n, s[n])]
        = [n \in BoolNames |-> IF s[n] = Absent THEN l # "dotnet" \/ n = "MQTT_USE_TLS" ELSE s[n] = "true"]
  <2>1. ASSUME NEW n \in BoolNames PROVE BoolDefault(l, n) = (l # "dotnet" \/ n = "MQTT_USE_TLS")
    <3>1. (l # "dotnet" \/ n # "MQTT_CLEAN_SESSION") <=> (l # "dotnet" \/ n = "MQTT_USE_TLS")
      BY DEF BoolNames
    <3>2. (l # "dotnet" \/ n # "MQTT_CLEAN_SESSION") = (l # "dotnet" \/ n = "MQTT_USE_TLS")
      BY <3>1
    <3> QED
      BY <3>2, PortableDefaults, Zenon
  <2>2. \A n \in BoolNames :
          (IF Defaulted(l, s[n]) THEN BoolDefault(l, n) ELSE BoolValue(l, n, s[n]))
            = (IF s[n] = Absent THEN l # "dotnet" \/ n = "MQTT_USE_TLS" ELSE s[n] = "true")
    BY <2>1, <1>5, Zenon
  <2> QED
    BY <2>2, Zenon
<1> QED
  BY <1>1, <1>6, <1>7, <1>8, <1>9, Zenon DEF SettingsOf, Documented, s

(* mqttclients/README.md:9-20: in Python, .NET, Go, Rust and C a file of plain texts *)
(* of the right types loads, and gives the settings of the table, whichever of its *)
(* variables come from the file and whichever from the environment; but for the   *)
(* clean session of .NET, which must be asked for.                             *)
THEOREM PortableFilesLoad == SettingsSpec => []LoadsAsDocumented
<1>1. ASSUME SettingsInv, loads = 1, loader # "ts", Portable(file, startEnv)
      PROVE  outcome = "loaded" /\ settings = {Documented(loader, Over(file.text, startEnv))}
  <2>1. /\ loader \in TableLoaders /\ file \in EnvFile
        /\ startEnv \in Environments
    BY <1>1, SixLoaders, LoadAssumption DEF SettingsInv, SettingsTypeOK, TableLoaders, Environments
  <2>2. /\ ~Crashes(loader, file) /\ Accepts(loader, file, startEnv)
        /\ SettingsOf(loader, file, startEnv) = Documented(loader, Over(file.text, startEnv))
    BY <1>1, <2>1, PortableLoads, Zenon
  <2>3. EndsAs(startEnv)
    BY <1>1 DEF SettingsInv
  <2> QED
    BY <2>2, <2>3 DEF EndsAs
<1>2. SettingsInv => LoadsAsDocumented
  BY <1>1 DEF LoadsAsDocumented
<1> QED
  BY <1>2, SettingsInvariance, PTL
=============================================================================
