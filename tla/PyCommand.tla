----------------------------- MODULE PyCommand -----------------------------
(***************************************************************************)
(* The Python command invoker (command_invoker.py, request_ledger.py), any   *)
(* of the command servers and the broker between them.                       *)
(*                                                                         *)
(* The main thread publishes, waits for the PUBACK, registers a Future for    *)
(* the correlation id in the ledger and waits for it; paho's network thread   *)
(* looks the id of a response up in the ledger.  An id that is not there yet  *)
(* (or never will be) and a Future that is already done raise in the network  *)
(* thread, which ends it: the invoker is deaf and mute from then on.          *)
(***************************************************************************)
EXTENDS CommandServer

VARIABLES
  pc,       \* where the main thread of the invoker stands
  inv,      \* number of the current command, 0 before the first
  netUp,    \* is paho's network thread alive?
  pending,  \* the ledger: ids that have a Future; nothing is ever removed
  future,   \* per command: {} while its Future is pending, {r} once it has r
  outcome   \* how each command ended

clientVars == <<pc, inv, netUp, pending, future, outcome>>
vars == <<brokerVars, serverVars, clientVars>>

PcValues == {"subscribing", "attaching", "idle", "publishing", "waiting", "stopped"}
Outcomes == {"none", "pending", "answered", "timedOut", "failed"}

TypeOK ==
  /\ BrokerTypeOK
  /\ ServerTypeOK
  /\ pc \in [Clients -> PcValues]
  /\ inv \in [Clients -> 0..MaxCalls]
  /\ netUp \in [Clients -> BOOLEAN]
  /\ pending \in [Clients -> SUBSET Calls]
  /\ future \in [Clients -> [1..MaxCalls -> SUBSET Response]]
  /\ outcome \in [Clients -> [1..MaxCalls -> Outcomes]]

Init ==
  /\ BrokerInit
  /\ ServerInit
  /\ pc = [c \in Clients |-> "subscribing"]
  /\ inv = [c \in Clients |-> 0]
  /\ netUp = [c \in Clients |-> TRUE]
  /\ pending = [c \in Clients |-> {}]
  /\ future = [c \in Clients |-> [k \in 1..MaxCalls |-> {}]]
  /\ outcome = [c \in Clients |-> [k \in 1..MaxCalls |-> "none"]]

Current_Previous(c) == <<c, inv[c] - 1>>
Current(c) == <<c, inv[c]>>

RequestOf(i) ==
  [id |-> i, ctype |-> "none", payload |-> "placeholder", reply |-> TRUE]

End(c, how) == outcome' = [outcome EXCEPT ![c][inv[c]] = how]

(* An exception of a command leaves the loop; `finally' disconnects.         *)
Stop(c) ==
  /\ pc' = [pc EXCEPT ![c] = "stopped"]
  /\ subscribed' = subscribed \ {c}
  /\ responses' = [responses EXCEPT ![c] = <<>>]

(***************************************************************************)
(* The main thread.                                                         *)
(***************************************************************************)

Subscribe(c) ==
  /\ pc[c] = "subscribing"
  /\ subscribed' = subscribed \cup {c}
  /\ pc' = [pc EXCEPT ![c] = "attaching"]
  /\ UNCHANGED <<requests, responses, dups, inv, netUp, pending, future, outcome>>
  /\ UNCHANGED serverVars

(* message_callback_add, after the SUBACK (l.178-183).                       *)
Attach(c) ==
  /\ pc[c] = "attaching"
  /\ pc' = [pc EXCEPT ![c] = "idle"]
  /\ UNCHANGED <<inv, netUp, pending, future, outcome>>
  /\ UNCHANGED <<brokerVars, serverVars>>

(* send_unlock_command up to the publish; a dead network thread sends nothing.*)
Publish(c) ==
  /\ pc[c] = "idle"
  /\ inv[c] < MaxCalls
  /\ inv' = [inv EXCEPT ![c] = @ + 1]
  /\ outcome' = [outcome EXCEPT ![c][inv[c] + 1] = "pending"]
  /\ requests' = IF netUp[c] THEN Append(requests, RequestOf(<<c, inv[c] + 1>>))
                             ELSE requests
  /\ pc' = [pc EXCEPT ![c] = "publishing"]
  /\ UNCHANGED <<responses, subscribed, dups, netUp, pending, future>>
  /\ UNCHANGED serverVars

(* wait_for_publish returned, acknowledged or after its ten seconds, and      *)
(* get_response_future enters the id in the ledger (l.134-135).              *)
Register(c) ==
  /\ pc[c] = "publishing"
  /\ pending' = [pending EXCEPT ![c] = @ \cup {Current(c)}]
  /\ pc' = [pc EXCEPT ![c] = "waiting"]
  /\ UNCHANGED <<inv, netUp, future, outcome>>
  /\ UNCHANGED <<brokerVars, serverVars>>

(* wait_for_publish raises: the message could not be queued.                 *)
PublishRaises(c) ==
  /\ pc[c] = "publishing"
  /\ PublishMayFail
  /\ End(c, "failed")
  /\ Stop(c)
  /\ UNCHANGED <<requests, dups, inv, netUp, pending, future>>
  /\ UNCHANGED serverVars

Complete_NoWait(c) ==
  /\ pc[c] = "waiting"
  /\ End(c, "answered")
  /\ pc' = [pc EXCEPT ![c] = "idle"]
  /\ UNCHANGED <<inv, netUp, pending, future>>
  /\ UNCHANGED <<brokerVars, serverVars>>

Complete(c) ==
  /\ pc[c] = "waiting"
  /\ future[c][inv[c]] # {}
  /\ End(c, "answered")
  /\ pc' = [pc EXCEPT ![c] = "idle"]
  /\ UNCHANGED <<inv, netUp, pending, future>>
  /\ UNCHANGED <<brokerVars, serverVars>>

TimeOut_Swallowed(c) ==
  /\ pc[c] = "waiting"
  /\ future[c][inv[c]] = {}
  /\ End(c, "timedOut")
  /\ pc' = [pc EXCEPT ![c] = "idle"]
  /\ UNCHANGED <<inv, netUp, pending, future>>
  /\ UNCHANGED <<brokerVars, serverVars>>

(* response_future.result raises TimeoutError.                               *)
TimeOut(c) ==
  /\ pc[c] = "waiting"
  /\ future[c][inv[c]] = {}
  /\ End(c, "timedOut")
  /\ Stop(c)
  /\ UNCHANGED <<requests, dups, inv, netUp, pending, future>>
  /\ UNCHANGED serverVars

(***************************************************************************)
(* The network thread.                                                      *)
(***************************************************************************)

Listens(c) == netUp[c] /\ responses[c] # <<>>

(* Before message_callback_add no callback matches the topic.                *)
Ignore(c) ==
  /\ Listens(c)
  /\ pc[c] \in {"subscribing", "attaching"}
  /\ responses' = [responses EXCEPT ![c] = Tail(@)]
  /\ UNCHANGED <<requests, subscribed, dups>>
  /\ UNCHANGED <<serverVars, clientVars>>

(* A ledger keyed by a running number, which only the uuid makes unique.     *)
Resolvable_Number(c, i) == i[2] \in {j[2] : j \in pending[c]} /\ future[c][i[2]] = {}

(* pending[corr_id].set_result succeeds for a registered, pending Future.    *)
Resolvable(c, i) == i \in pending[c] /\ future[c][i[2]] = {}

Respond(c) ==
  LET r == Head(responses[c]) IN
  /\ Listens(c)
  /\ pc[c] \notin {"subscribing", "attaching"}
  /\ Resolvable(c, r.id)
  /\ future' = [future EXCEPT ![c][r.id[2]] = {r}]
  /\ responses' = [responses EXCEPT ![c] = Tail(@)]
  /\ UNCHANGED <<requests, subscribed, dups, pc, inv, netUp, pending, outcome>>
  /\ UNCHANGED serverVars

(* KeyError or InvalidStateError in respond_to_request.                      *)
NetworkThreadDies(c) ==
  LET r == Head(responses[c]) IN
  /\ Listens(c)
  /\ pc[c] \notin {"subscribing", "attaching"}
  /\ ~Resolvable(c, r.id)
  /\ netUp' = [netUp EXCEPT ![c] = FALSE]
  /\ responses' = [responses EXCEPT ![c] = Tail(@)]
  /\ UNCHANGED <<requests, subscribed, dups, pc, inv, pending, future, outcome>>
  /\ UNCHANGED serverVars

-----------------------------------------------------------------------------
Step(c) ==
  \/ Subscribe(c) \/ Attach(c) \/ Publish(c) \/ Register(c) \/ PublishRaises(c)
  \/ Complete(c) \/ TimeOut(c)
  \/ Ignore(c) \/ Respond(c) \/ NetworkThreadDies(c)

Next ==
  \/ \E c \in Clients : Step(c)
  \/ BrokerNext /\ UNCHANGED clientVars
  \/ ServerNext /\ UNCHANGED clientVars

Spec == Init /\ [][Next]_vars

(* The main thread's waits are bounded and its loop goes on (sleep(2)); paho's *)
(* thread reads what arrives while it lives.                                 *)
Fairness ==
  \A c \in Clients :
    /\ WF_vars(Subscribe(c)) /\ WF_vars(Attach(c))
    /\ WF_vars(Publish(c)) /\ WF_vars(Register(c))
    /\ WF_vars(Complete(c) \/ TimeOut(c))
    /\ WF_vars(Ignore(c) \/ Respond(c) \/ NetworkThreadDies(c))

FairSpec == Spec /\ Fairness

-----------------------------------------------------------------------------
(* The ledger gives a response to the command it belongs to, in whatever      *)
(* order the responses of a server's pool, its duplicates and the responses   *)
(* to other invokers arrive.                                                 *)
OwnResponse ==
  \A c \in Clients, k \in 1..MaxCalls :
    outcome[c][k] = "answered" => future[c][k] # {} /\ \A r \in future[c][k] : r.id = <<c, k>>

phaseBar ==
  [c \in Clients |-> [k \in 1..MaxCalls |->
    CASE outcome[c][k] = "none"     -> "new"
      [] outcome[c][k] = "pending"  -> "open"
      [] outcome[c][k] = "answered" -> "answered"
      [] OTHER                      -> "failed"]]

performedBar == {i \in Calls : executed[i] > 0}

Promise == INSTANCE CommandCall WITH phase <- phaseBar, performed <- performedBar

(* An answered command was performed by the vehicle, and commands are made    *)
(* one at a time, and each of them ends, even when the network thread died    *)
(* under it: the promise of the command pattern.                             *)
ImplementsCall == Promise!CallSpec

(* An invoker whose network thread died does not linger: while it still has    *)
(* commands to send it stops with an error, at the latest in the next one.     *)
DeafInvokerStops ==
  \A c \in Clients : (~netUp[c] /\ inv[c] < MaxCalls) ~> pc[c] = "stopped"
=============================================================================
