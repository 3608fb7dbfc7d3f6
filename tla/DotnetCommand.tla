--------------------------- MODULE DotnetCommand ---------------------------
(***************************************************************************)
(* The .NET command client (CommandClient.cs, TaskTimeoutExtension.cs and    *)
(* the loop of command_client/Worker.cs), any of the command servers and the *)
(* broker between them.                                                      *)
(*                                                                         *)
(* Two threads share the fields of a client without a lock: InvokeAsync, cut *)
(* at its awaits, and the message handler that MQTTnet awaits one message at *)
(* a time.  The handler compares the correlation id (l.41) and completes the *)
(* TaskCompletionSource (l.48) as two steps; InvokeAsync replaces both       *)
(* fields, the source only after the publish was acknowledged (l.72).        *)
(***************************************************************************)
EXTENDS CommandServer

CONSTANTS
  CallsOf,       \* bound: how many calls each client makes
  CallerRetries  \* does the caller call again after a failed call?  Worker.cs
                 \* does not: the exception ends ExecuteAsync

ASSUME CallerAssumption ==
  /\ CallsOf \in [Clients -> 1..MaxCalls]
  /\ CallerRetries \in BOOLEAN

VARIABLES
  pc,             \* where InvokeAsync of the client stands
  inv,            \* number of the current call, 0 before the first
  correlationId,  \* _correlationId
  tcs,            \* _tcs: the call that created the installed source, 0 the initial one
  task,           \* per source: {} while incomplete, {r} once completed with r
  hand,           \* {r} while the handler is between the check and the completion
  outcome,        \* how each call ended
  straddled,      \* history: calls begun while the handler held a checked response
  spent           \* history: <<call, source>>, the source that the call's response
                  \* was spent on while the call was pending

clientVars == <<pc, inv, correlationId, tcs, task, hand, outcome, straddled, spent>>
vars == <<brokerVars, serverVars, clientVars>>

Ended    == {"idle", "stopped"}
PcValues == {"subscribing", "publishing", "published", "waiting"} \cup Ended
Outcomes == {"none", "pending", "answered", "timedOut", "failed"}

TypeOK ==
  /\ BrokerTypeOK
  /\ ServerTypeOK
  /\ pc \in [Clients -> PcValues]
  /\ inv \in [Clients -> 0..MaxCalls]
  /\ correlationId \in [Clients -> Calls \cup {NullId}]
  /\ tcs \in [Clients -> 0..MaxCalls]
  /\ task \in [Clients -> [0..MaxCalls -> SUBSET Response]]
  /\ hand \in [Clients -> SUBSET Response]
  /\ outcome \in [Clients -> [1..MaxCalls -> Outcomes]]
  /\ straddled \subseteq Calls
  /\ spent \subseteq Calls \X (0..MaxCalls)

Init ==
  /\ BrokerInit
  /\ ServerInit
  /\ pc = [c \in Clients |-> "idle"]
  /\ inv = [c \in Clients |-> 0]
  /\ correlationId = [c \in Clients |-> NullId]
  /\ tcs = [c \in Clients |-> 0]
  /\ task = [c \in Clients |-> [k \in 0..MaxCalls |-> {}]]
  /\ hand = [c \in Clients |-> {}]
  /\ outcome = [c \in Clients |-> [k \in 1..MaxCalls |-> "none"]]
  /\ straddled = {}
  /\ spent = {}

RequestOf(c) ==
  [id |-> correlationId[c], ctype |-> "protobuf", payload |-> "unlock", reply |-> TRUE]

End(c, how) == outcome' = [outcome EXCEPT ![c][inv[c]] = how]

AfterFailure == IF CallerRetries THEN "idle" ELSE "stopped"

(***************************************************************************)
(* InvokeAsync, and the loop of the Worker that calls it.                    *)
(***************************************************************************)

NewCorrelation(c) == <<c, inv[c] + 1>>

(* A new call: the ids are set, SubscribeAsync is on its way (l.59-62).      *)
Invoke(c) ==
  /\ pc[c] = "idle"
  /\ inv[c] < CallsOf[c]
  /\ inv' = [inv EXCEPT ![c] = @ + 1]
  /\ correlationId' = [correlationId EXCEPT ![c] = NewCorrelation(c)]
  /\ outcome' = [outcome EXCEPT ![c][inv[c] + 1] = "pending"]
  /\ pc' = [pc EXCEPT ![c] = "subscribing"]
  /\ straddled' = IF hand[c] = {} THEN straddled ELSE straddled \cup {NewCorrelation(c)}
  /\ UNCHANGED <<tcs, task, hand, spent>>
  /\ UNCHANGED <<brokerVars, serverVars>>

Subscribe(c) ==
  /\ pc[c] = "subscribing"
  /\ subscribed' = subscribed \cup {c}
  /\ pc' = [pc EXCEPT ![c] = "publishing"]
  /\ UNCHANGED <<requests, responses, dups, inv, correlationId, tcs, task, hand, outcome>>
  /\ UNCHANGED <<straddled, spent>>
  /\ UNCHANGED serverVars

(* The request reaches the broker; PublishAsync has not returned yet.        *)
Publish(c) ==
  /\ pc[c] = "publishing"
  /\ requests' = Append(requests, RequestOf(c))
  /\ pc' = [pc EXCEPT ![c] = "published"]
  /\ UNCHANGED <<responses, subscribed, dups, inv, correlationId, tcs, task, hand, outcome>>
  /\ UNCHANGED <<straddled, spent>>
  /\ UNCHANGED serverVars

(* The PUBACK came back and the continuation installs the source of this     *)
(* call (l.72), then awaits it with the timeout (l.73).                      *)
Install(c) ==
  /\ pc[c] = "published"
  /\ tcs' = [tcs EXCEPT ![c] = inv[c]]
  /\ pc' = [pc EXCEPT ![c] = "waiting"]
  /\ UNCHANGED <<inv, correlationId, task, hand, outcome, straddled, spent>>
  /\ UNCHANGED <<brokerVars, serverVars>>

(* WhenAny saw the source complete first.                                    *)
Complete(c) ==
  /\ pc[c] = "waiting"
  /\ task[c][tcs[c]] # {}
  /\ End(c, "answered")
  /\ pc' = [pc EXCEPT ![c] = "idle"]
  /\ UNCHANGED <<inv, correlationId, tcs, task, hand, straddled, spent>>
  /\ UNCHANGED <<brokerVars, serverVars>>

TimeOut_NoCheck(c) ==
  /\ pc[c] = "waiting"
  /\ End(c, "timedOut")
  /\ pc' = [pc EXCEPT ![c] = AfterFailure]
  /\ UNCHANGED <<inv, correlationId, tcs, task, hand, straddled, spent>>
  /\ UNCHANGED <<brokerVars, serverVars>>

TimeOut_Never(c) == FALSE /\ UNCHANGED vars

(* WhenAny saw the delay complete first: TimeoutException.                   *)
TimeOut(c) ==
  /\ pc[c] = "waiting"
  /\ task[c][tcs[c]] = {}
  /\ End(c, "timedOut")
  /\ pc' = [pc EXCEPT ![c] = AfterFailure]
  /\ UNCHANGED <<inv, correlationId, tcs, task, hand, straddled, spent>>
  /\ UNCHANGED <<brokerVars, serverVars>>

(* SubscribeAsync or PublishAsync throws (the connection is gone).           *)
InvokeThrows(c) ==
  /\ pc[c] \in {"subscribing", "publishing", "published"}
  /\ Lossy
  /\ End(c, "failed")
  /\ pc' = [pc EXCEPT ![c] = AfterFailure]
  /\ UNCHANGED <<inv, correlationId, tcs, task, hand, straddled, spent>>
  /\ UNCHANGED <<brokerVars, serverVars>>

(***************************************************************************)
(* The message handler (l.31-55).                                            *)
(***************************************************************************)

(* `new Guid(...)' of correlation data that is not a GUID throws, which ends *)
(* like a mismatch: the message is dropped.                                  *)
Matches_NoCheck(c, r) == r.ctype = "protobuf"
Matches(c, r)         == r.ctype = "protobuf" /\ correlationId[c] = r.id

(* A response for the current call is taken up: the checks passed.           *)
Receive(c) ==
  /\ hand[c] = {}
  /\ responses[c] # <<>>
  /\ Matches(c, Head(responses[c]))
  /\ hand' = [hand EXCEPT ![c] = {Head(responses[c])}]
  /\ responses' = [responses EXCEPT ![c] = Tail(@)]
  /\ UNCHANGED <<requests, subscribed, dups, pc, inv, correlationId, tcs, task, outcome>>
  /\ UNCHANGED <<straddled, spent>>
  /\ UNCHANGED serverVars

(* Another client's response, a stale one, or a wrong content type.          *)
Discard(c) ==
  /\ hand[c] = {}
  /\ responses[c] # <<>>
  /\ ~Matches(c, Head(responses[c]))
  /\ responses' = [responses EXCEPT ![c] = Tail(@)]
  /\ UNCHANGED <<requests, subscribed, dups>>
  /\ UNCHANGED <<serverVars, clientVars>>

(* _tcs.TrySetResult: the source installed NOW, if it is still incomplete.   *)
Spend(c) ==
  spent' = spent \cup {<<r.id, tcs[c]>> : r \in {x \in hand[c] :
             x.id = correlationId[c] /\ outcome[c][inv[c]] = "pending"}}

SetResult(c) ==
  /\ hand[c] # {}
  /\ task' = [task EXCEPT ![c][tcs[c]] = IF @ = {} THEN hand[c] ELSE @]
  /\ hand' = [hand EXCEPT ![c] = {}]
  /\ Spend(c)
  /\ UNCHANGED <<pc, inv, correlationId, tcs, outcome, straddled>>
  /\ UNCHANGED <<brokerVars, serverVars>>

-----------------------------------------------------------------------------
Step(c) ==
  \/ Invoke(c) \/ Subscribe(c) \/ Publish(c) \/ Install(c)
  \/ Complete(c) \/ TimeOut(c) \/ InvokeThrows(c)
  \/ Receive(c) \/ Discard(c) \/ SetResult(c)

Next ==
  \/ \E c \in Clients : Step(c)
  \/ BrokerNext /\ UNCHANGED clientVars
  \/ ServerNext /\ UNCHANGED clientVars

Spec == Init /\ [][Next]_vars

(* The awaits of InvokeAsync resume and its timer fires; MQTTnet runs the     *)
(* handler.  Nothing obliges the user to make a call, or the server to answer.*)
Fairness ==
  \A c \in Clients :
    /\ WF_vars(Subscribe(c)) /\ WF_vars(Publish(c)) /\ WF_vars(Install(c))
    /\ WF_vars(Complete(c) \/ TimeOut(c))
    /\ WF_vars(Receive(c) \/ Discard(c)) /\ WF_vars(SetResult(c))

FairSpec == Spec /\ Fairness

-----------------------------------------------------------------------------
Answered(c, k) == outcome[c][k] = "answered"

(* The response topic is shared by every client of the vehicle; a call is     *)
(* never answered with the response to another client's request (l.41-44).   *)
NoForeignResponse ==
  \A c \in Clients, k \in 1..MaxCalls :
    Answered(c, k) => \A r \in task[c][k] : r.id[1] = c

(* A call that is answered is answered with the response to that call.  The id *)
(* checked at l.41 and the source completed at l.48 belong to the same call,   *)
(* unless the call was begun and its source installed between the two (a        *)
(* caller that retries, a repeated response): only such a call may end with a  *)
(* response to an earlier call of the same client.                            *)
MixUpNeedsTheRace ==
  \A c \in Clients, k \in 1..MaxCalls :
    Answered(c, k) =>
      /\ task[c][k] # {}
      /\ \A r \in task[c][k] :
           \/ r.id = <<c, k>>
           \/ <<c, k>> \in straddled /\ \E j \in 1..(k - 1) : r.id = <<c, j>>

(* A call that timed out although the handler was done with its response in    *)
(* time lost it in the window before l.72: the response was spent on the       *)
(* source of an earlier call, which the new source then replaced.             *)
LostOnlyBeforeInstall ==
  \A c \in Clients, k \in 1..MaxCalls :
    outcome[c][k] = "timedOut" => \A s \in 0..MaxCalls : <<<<c, k>>, s>> \in spent => s < k

(* The promise of the command pattern: a call answered with its own response    *)
(* was performed by the server, a mistaken one shows another call that was, and *)
(* every invocation returns or throws (l.62-73), whatever the broker and the   *)
(* server do.                                                                *)
phaseBar ==
  [c \in Clients |-> [k \in 1..MaxCalls |->
    CASE outcome[c][k] = "none"     -> "new"
      [] outcome[c][k] = "pending"  -> "open"
      [] outcome[c][k] = "answered" ->
           IF \E r \in task[c][k] : r.id # <<c, k>> THEN "mistaken" ELSE "answered"
      [] OTHER                      -> "failed"]]

performedBar == {i \in Calls : executed[i] > 0}

Promise == INSTANCE CommandCall WITH phase <- phaseBar, performed <- performedBar

ImplementsCall == Promise!SharedSpec
=============================================================================
