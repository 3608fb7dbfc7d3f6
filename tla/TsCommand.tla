----------------------------- MODULE TsCommand -----------------------------
(***************************************************************************)
(* The TypeScript command client (commandClient.ts, deferredPromise.ts), any *)
(* of the command servers and the broker between them.                       *)
(*                                                                         *)
(* Node runs one turn at a time: the message listener is atomic, and          *)
(* invokeAsync is cut at its awaits only.  The listener logs a wrong content  *)
(* type and a wrong correlation id, and resolves the installed promise in     *)
(* both cases; an exception it throws ends the process.                      *)
(***************************************************************************)
EXTENDS CommandServer

CONSTANT CallsOf  \* bound: how many calls each client makes

ASSUME CallsAssumption == CallsOf \in [Clients -> 1..MaxCalls]

VARIABLES
  pc,             \* where invokeAsync of the client stands
  inv,            \* number of the current call, 0 before the first
  correlationId,  \* this.correlationId
  deferred,       \* this.deferredPromise: the call that created it, 0 undefined
  task,           \* per promise: {} while pending, {r} once resolved with r
  outcome,        \* how each call ended
  seen            \* history: calls whose response was handled while they were pending

clientVars == <<pc, inv, correlationId, deferred, task, outcome, seen>>
vars == <<brokerVars, serverVars, clientVars>>

PcValues == {"idle", "subscribing", "publishing", "published", "waiting", "crashed"}
Outcomes == {"none", "pending", "answered", "timedOut", "failed"}

TypeOK ==
  /\ BrokerTypeOK
  /\ ServerTypeOK
  /\ pc \in [Clients -> PcValues]
  /\ inv \in [Clients -> 0..MaxCalls]
  /\ correlationId \in [Clients -> Calls \cup {NoId}]
  /\ deferred \in [Clients -> 0..MaxCalls]
  /\ task \in [Clients -> [1..MaxCalls -> SUBSET Response]]
  /\ outcome \in [Clients -> [1..MaxCalls -> Outcomes]]
  /\ seen \subseteq Calls

Init ==
  /\ BrokerInit
  /\ ServerInit
  /\ pc = [c \in Clients |-> "idle"]
  /\ inv = [c \in Clients |-> 0]
  /\ correlationId = [c \in Clients |-> NoId]
  /\ deferred = [c \in Clients |-> 0]
  /\ task = [c \in Clients |-> [k \in 1..MaxCalls |-> {}]]
  /\ outcome = [c \in Clients |-> [k \in 1..MaxCalls |-> "none"]]
  /\ seen = {}

RequestOf(c) ==
  [id |-> correlationId[c], ctype |-> "protobuf", payload |-> "unlock", reply |-> TRUE]

End(c, how) == outcome' = [outcome EXCEPT ![c][inv[c]] = how]

(***************************************************************************)
(* invokeAsync, one action per stretch between two awaits.                   *)
(***************************************************************************)

NewCorrelation_Once(c) == <<c, 1>>

NewCorrelation(c) == <<c, inv[c] + 1>>

Invoke(c) ==
  /\ pc[c] = "idle"
  /\ inv[c] < CallsOf[c]
  /\ inv' = [inv EXCEPT ![c] = @ + 1]
  /\ correlationId' = [correlationId EXCEPT ![c] = NewCorrelation(c)]
  /\ outcome' = [outcome EXCEPT ![c][inv[c] + 1] = "pending"]
  /\ pc' = [pc EXCEPT ![c] = "subscribing"]
  /\ UNCHANGED <<deferred, task, seen>>
  /\ UNCHANGED <<brokerVars, serverVars>>

Subscribe(c) ==
  /\ pc[c] = "subscribing"
  /\ subscribed' = subscribed \cup {c}
  /\ pc' = [pc EXCEPT ![c] = "publishing"]
  /\ UNCHANGED <<requests, responses, dups, inv, correlationId, deferred, task, outcome, seen>>
  /\ UNCHANGED serverVars

Publish(c) ==
  /\ pc[c] = "publishing"
  /\ requests' = Append(requests, RequestOf(c))
  /\ pc' = [pc EXCEPT ![c] = "published"]
  /\ UNCHANGED <<responses, subscribed, dups, inv, correlationId, deferred, task, outcome, seen>>
  /\ UNCHANGED serverVars

(* The publish resolved: only now is there a promise to resolve (l.81).      *)
Install(c) ==
  /\ pc[c] = "published"
  /\ deferred' = [deferred EXCEPT ![c] = inv[c]]
  /\ pc' = [pc EXCEPT ![c] = "waiting"]
  /\ UNCHANGED <<inv, correlationId, task, outcome, seen>>
  /\ UNCHANGED <<brokerVars, serverVars>>

Complete(c) ==
  /\ pc[c] = "waiting"
  /\ task[c][deferred[c]] # {}
  /\ End(c, "answered")
  /\ pc' = [pc EXCEPT ![c] = "idle"]
  /\ UNCHANGED <<inv, correlationId, deferred, task, seen>>
  /\ UNCHANGED <<brokerVars, serverVars>>

TimeOut_NoCheck(c) ==
  /\ pc[c] = "waiting"
  /\ End(c, "timedOut")
  /\ pc' = [pc EXCEPT ![c] = "idle"]
  /\ UNCHANGED <<inv, correlationId, deferred, task, seen>>
  /\ UNCHANGED <<brokerVars, serverVars>>

TimeOut(c) ==
  /\ pc[c] = "waiting"
  /\ task[c][deferred[c]] = {}
  /\ End(c, "timedOut")
  /\ pc' = [pc EXCEPT ![c] = "idle"]
  /\ UNCHANGED <<inv, correlationId, deferred, task, seen>>
  /\ UNCHANGED <<brokerVars, serverVars>>

(* subscribeAsync or publishAsync rejects.                                   *)
InvokeRejects(c) ==
  /\ pc[c] \in {"subscribing", "publishing", "published"}
  /\ Lossy
  /\ End(c, "failed")
  /\ pc' = [pc EXCEPT ![c] = "idle"]
  /\ UNCHANGED <<inv, correlationId, deferred, task, seen>>
  /\ UNCHANGED <<brokerVars, serverVars>>

(***************************************************************************)
(* The message listener (l.35-53).                                           *)
(***************************************************************************)

Decodes(r) == r.body # "text"

Listens(c) == pc[c] # "crashed" /\ responses[c] # <<>>

Handled(c, r) ==
  seen' = IF r.id = correlationId[c] /\ outcome[c][inv[c]] = "pending"
            THEN seen \cup {r.id} ELSE seen

(* deferredPromise.resolve: the first one counts.  Neither the content type  *)
(* nor the correlation id stops the message (l.37-45 only log).              *)
Receive(c) ==
  LET r == Head(responses[c]) IN
  /\ Listens(c)
  /\ Decodes(r) /\ deferred[c] # 0
  /\ task' = [task EXCEPT ![c][deferred[c]] = IF @ = {} THEN {r} ELSE @]
  /\ Handled(c, r)
  /\ responses' = [responses EXCEPT ![c] = Tail(@)]
  /\ UNCHANGED <<requests, subscribed, dups, pc, inv, correlationId, deferred, outcome>>
  /\ UNCHANGED serverVars

(* fromBytes throws on an error text, `undefined.resolve' before the first   *)
(* promise exists: an uncaught exception in a listener ends the process.      *)
Crash(c) ==
  LET r == Head(responses[c]) IN
  /\ Listens(c)
  /\ ~Decodes(r) \/ deferred[c] = 0
  /\ pc' = [pc EXCEPT ![c] = "crashed"]
  /\ outcome' = IF outcome[c][inv[c]] = "pending"
                  THEN [outcome EXCEPT ![c][inv[c]] = "failed"] ELSE outcome
  /\ Handled(c, r)
  /\ responses' = [responses EXCEPT ![c] = Tail(@)]
  /\ UNCHANGED <<requests, subscribed, dups, inv, correlationId, deferred, task>>
  /\ UNCHANGED serverVars

-----------------------------------------------------------------------------
Step(c) ==
  \/ Invoke(c) \/ Subscribe(c) \/ Publish(c) \/ Install(c)
  \/ Complete(c) \/ TimeOut(c) \/ InvokeRejects(c)
  \/ Receive(c) \/ Crash(c)

Next ==
  \/ \E c \in Clients : Step(c)
  \/ BrokerNext /\ UNCHANGED clientVars
  \/ ServerNext /\ UNCHANGED clientVars

Spec == Init /\ [][Next]_vars

(* Node's event loop runs: awaits resume, timers fire, messages are emitted.  *)
Fairness ==
  \A c \in Clients :
    /\ WF_vars(Subscribe(c)) /\ WF_vars(Publish(c)) /\ WF_vars(Install(c))
    /\ WF_vars(Complete(c) \/ TimeOut(c))
    /\ WF_vars(Receive(c) \/ Crash(c))

FairSpec == Spec /\ Fairness

-----------------------------------------------------------------------------
(* A call is answered with the response to that call.  README.md:26 of the    *)
(* scenario gives the client a new Guid per request to tell them apart, and   *)
(* commandClient.ts:44 reports "correlationId does not match".               *)
OwnResponse ==
  \A c \in Clients, k \in 1..MaxCalls :
    outcome[c][k] = "answered" => \A r \in task[c][k] : r.id = <<c, k>>

AnsweredByItsOwn(c, k) ==
  outcome[c][k] = "answered" /\ \A r \in task[c][k] : r.id = <<c, k>>

(* Nothing stops the response to another call (l.43-45 only logs), but where it *)
(* can come from is limited: it was asked for by another client of the topic,  *)
(* or repeated by the network, or it answers an earlier call of this client    *)
(* that ended without it.  A new Guid per call (l.60) makes the last case       *)
(* impossible for a call that had its own response.                           *)
MixUpHasACause ==
  \A c \in Clients, k \in 1..MaxCalls :
    outcome[c][k] = "answered" =>
      \A r \in task[c][k] :
        \/ r.id = <<c, k>>
        \/ r.id[1] # c
        \/ dups > 0
        \/ \E j \in 1..(k - 1) : r.id = <<c, j>> /\ ~AnsweredByItsOwn(c, j)

(* "Command response timed out" (commandClient.ts:88) is said of a first call  *)
(* only if its response had not come when the timer fired: a response before   *)
(* the promise ends the process.  A later call has the promise of the one      *)
(* before it, which swallows its early response.                             *)
FirstTimeoutIsReal ==
  \A c \in Clients : outcome[c][1] = "timedOut" => <<c, 1>> \notin seen

phaseBar ==
  [c \in Clients |-> [k \in 1..MaxCalls |->
    CASE outcome[c][k] = "none"     -> "new"
      [] outcome[c][k] = "pending"  -> "open"
      [] outcome[c][k] = "answered" ->
           IF \E r \in task[c][k] : r.id # <<c, k>> THEN "mistaken" ELSE "answered"
      [] OTHER                      -> "failed"]]

performedBar == {i \in Calls : executed[i] > 0}

Promise == INSTANCE CommandCall WITH phase <- phaseBar, performed <- performedBar

(* What the clients of one topic keep of the command pattern: a call answered   *)
(* with its own response was performed, a mistaken one shows another call that *)
(* was, and every invocation ends, answered, timed out, rejected or with the    *)
(* process.                                                                  *)
ImplementsCall == Promise!SharedSpec
=============================================================================
