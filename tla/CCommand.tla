------------------------------ MODULE CCommand ------------------------------
(***************************************************************************)
(* The C command client (command_client/main.c), any of the command servers  *)
(* and the broker between them.                                              *)
(*                                                                         *)
(* Two threads share the static pending_correlation_id without a lock.  The   *)
(* main thread's loop sends a command when none is pending, waits for it and  *)
(* gives up after the timeout; libmosquitto's network thread runs             *)
(* handle_message, which compares a response's id with the pending one and    *)
(* clears it.  The uuid is sixteen bytes and libuuid writes them one after    *)
(* the other; a torn value equals neither id and is not null, so it behaves    *)
(* like the fresh id it was torn from and adds nothing to the steps below.    *)
(*                                                                         *)
(* Time is kept as ages, which saturate at the timeout: how long ago the last  *)
(* command was sent, and how long ago the loop read the clock it is using.    *)
(***************************************************************************)
EXTENDS CommandServer

CONSTANTS
  CommandTimeout,  \* COMMAND_TIMEOUT_SEC, 10 in the code
  MinRate,         \* COMMAND_MIN_RATE_SEC, 2 in the code
  CallsOf          \* a bound: how many commands each client generates

ASSUME TimingAssumption ==
  /\ CommandTimeout \in Nat /\ MinRate \in Nat
  /\ MinRate < CommandTimeout

ASSUME CallsAssumption == CallsOf \in [Clients -> 1..MaxCalls]

VARIABLES
  pc,        \* where the loop of main stands
  gen,       \* uuids generated so far
  pending,   \* pending_correlation_id
  copied,    \* the correlation data in the property list of the next publish
  age,       \* now - last_command_sent_time
  lag,       \* now - current_time
  due,       \* was current_time > last_command_sent_time + COMMAND_MIN_RATE_SEC?
  clearing,  \* is the network thread between uuid_compare and uuid_clear?
  sent,      \* history: commands given to mosquitto_publish_v5 with success
  answered,  \* history: ids a response matched
  expired    \* history: ids that timed out

loopVars   == <<pc, gen, copied, due>>
clockVars  == <<age, lag>>
clientVars == <<loopVars, clockVars, pending, clearing, sent, answered, expired>>
vars == <<brokerVars, serverVars, clientVars>>

PcValues == {"check", "expire", "rate", "generate", "copy", "publish"}
Ages     == 0..CommandTimeout

TypeOK ==
  /\ BrokerTypeOK
  /\ ServerTypeOK
  /\ pc \in [Clients -> PcValues]
  /\ gen \in [Clients -> 0..MaxCalls]
  /\ pending \in [Clients -> Calls \cup {NullId}]
  /\ copied \in [Clients -> Calls \cup {NullId}]
  /\ age \in [Clients -> Ages] /\ lag \in [Clients -> Ages]
  /\ due \in [Clients -> BOOLEAN]
  /\ clearing \in [Clients -> BOOLEAN]
  /\ sent \in [Clients -> SUBSET Ids]
  /\ answered \in [Clients -> SUBSET Ids]
  /\ expired \in [Clients -> SUBSET Ids]

Init ==
  /\ BrokerInit
  /\ ServerInit
  /\ pc = [c \in Clients |-> "check"]
  /\ gen = [c \in Clients |-> 0]
  /\ pending = [c \in Clients |-> NullId]
  /\ copied = [c \in Clients |-> NullId]
  /\ age = [c \in Clients |-> 0]
  /\ lag = [c \in Clients |-> 0]
  /\ due = [c \in Clients |-> FALSE]
  /\ clearing = [c \in Clients |-> FALSE]
  /\ sent = [c \in Clients |-> {}]
  /\ answered = [c \in Clients |-> {}]
  /\ expired = [c \in Clients |-> {}]

Goto(c, where) == pc' = [pc EXCEPT ![c] = where]

(* A second passes.  The value read from the clock is in use from Check to     *)
(* Prepare.                                                                 *)
Older(a) == IF a = CommandTimeout THEN a ELSE a + 1

Tick ==
  /\ age' = [c \in Clients |-> Older(age[c])]
  /\ lag' = [c \in Clients |-> IF pc[c] \in {"expire", "rate"} THEN Older(lag[c]) ELSE 0]
  /\ UNCHANGED <<loopVars, pending, clearing, sent, answered, expired>>
  /\ UNCHANGED <<brokerVars, serverVars>>

(***************************************************************************)
(* The loop of main (l.188-256).                                            *)
(***************************************************************************)

Expires(c) == age[c] >= CommandTimeout

Check_NoWait(c) ==
  /\ pc[c] = "check"
  /\ Goto(c, "rate")
  /\ due' = [due EXCEPT ![c] = age[c] > MinRate]
  /\ lag' = [lag EXCEPT ![c] = 0]
  /\ UNCHANGED <<gen, copied, age, pending, clearing, sent, answered, expired>>
  /\ UNCHANGED <<brokerVars, serverVars>>

Check_Restarts(c) ==
  /\ pc[c] = "check"
  /\ \/ pending[c] = NullId /\ Goto(c, "rate") /\ UNCHANGED age
     \/ pending[c] # NullId /\ UNCHANGED pc /\ age' = [age EXCEPT ![c] = 0]
  /\ due' = [due EXCEPT ![c] = age[c] > MinRate]
  /\ lag' = [lag EXCEPT ![c] = 0]
  /\ UNCHANGED <<gen, copied, pending, clearing, sent, answered, expired>>
  /\ UNCHANGED <<brokerVars, serverVars>>

(* The clock is read; a pending command that is not over its time keeps the   *)
(* loop here (l.190-198).                                                    *)
Check(c) ==
  /\ pc[c] = "check"
  /\ \/ pending[c] = NullId /\ Goto(c, "rate")
     \/ pending[c] # NullId /\ Expires(c) /\ Goto(c, "expire")
  /\ due' = [due EXCEPT ![c] = age[c] > MinRate]
  /\ lag' = [lag EXCEPT ![c] = 0]
  /\ UNCHANGED <<gen, copied, age, pending, clearing, sent, answered, expired>>
  /\ UNCHANGED <<brokerVars, serverVars>>

(* "Command timed out without a response." (l.201-202).                      *)
Expire(c) ==
  /\ pc[c] = "expire"
  /\ expired' = [expired EXCEPT ![c] = @ \cup ({pending[c]} \ {NullId})]
  /\ pending' = [pending EXCEPT ![c] = NullId]
  /\ Goto(c, "rate")
  /\ UNCHANGED <<gen, copied, due, clockVars, clearing, sent, answered>>
  /\ UNCHANGED <<brokerVars, serverVars>>

(* Too soon after the last command: another turn of the loop.                *)
TooSoon(c) ==
  /\ pc[c] = "rate"
  /\ ~due[c]
  /\ Goto(c, "check")
  /\ lag' = [lag EXCEPT ![c] = 0]
  /\ UNCHANGED <<gen, copied, due, age, pending, clearing, sent, answered, expired>>
  /\ UNCHANGED <<brokerVars, serverVars>>

(* last_command_sent_time = current_time, then the payload is built; malloc   *)
(* or the packing may fail (l.208-229).                                      *)
Prepare(c) ==
  /\ pc[c] = "rate"
  /\ due[c]
  /\ age' = [age EXCEPT ![c] = lag[c]]
  /\ due' = [due EXCEPT ![c] = FALSE]
  /\ lag' = [lag EXCEPT ![c] = 0]
  /\ \/ Goto(c, "generate")
     \/ AllocMayFail /\ Goto(c, "check")
  /\ UNCHANGED <<gen, copied, pending, clearing, sent, answered, expired>>
  /\ UNCHANGED <<brokerVars, serverVars>>

NewUuid_Previous(c) == <<c, gen[c]>>
NewUuid(c)          == <<c, gen[c] + 1>>

Generate(c) ==
  /\ pc[c] = "generate"
  /\ gen[c] < CallsOf[c]
  /\ gen' = [gen EXCEPT ![c] = @ + 1]
  /\ pending' = [pending EXCEPT ![c] = NewUuid(c)]
  /\ Goto(c, "copy")
  /\ UNCHANGED <<copied, due, clockVars, clearing, sent, answered, expired>>
  /\ UNCHANGED <<brokerVars, serverVars>>

(* mosquitto_property_add_binary copies whatever the static holds now.        *)
Copy(c) ==
  /\ pc[c] = "copy"
  /\ copied' = [copied EXCEPT ![c] = pending[c]]
  /\ \/ Goto(c, "publish")
     \/ AllocMayFail /\ Goto(c, "check")
  /\ UNCHANGED <<gen, due, clockVars, pending, clearing, sent, answered, expired>>
  /\ UNCHANGED <<brokerVars, serverVars>>

RequestOf(i) == [id |-> i, ctype |-> "protobuf", payload |-> "unlock", reply |-> TRUE]

(* A failed publish leaves the id pending (CONTINUE_IF_ERROR).  The property    *)
(* list is of no use any more.                                               *)
Publish(c) ==
  /\ pc[c] = "publish"
  /\ \/ /\ requests' = Append(requests, RequestOf(copied[c]))
        /\ sent' = [sent EXCEPT ![c] = @ \cup {copied[c]}]
     \/ /\ PublishMayFail
        /\ UNCHANGED <<requests, sent>>
  /\ Goto(c, "check")
  /\ copied' = [copied EXCEPT ![c] = NullId]
  /\ UNCHANGED <<responses, subscribed, dups, gen, due, clockVars>>
  /\ UNCHANGED <<serverVars, pending, clearing, answered, expired>>

(***************************************************************************)
(* The network thread: on_connect_with_subscribe and handle_message.         *)
(***************************************************************************)

Subscribe(c) ==
  /\ c \notin subscribed
  /\ subscribed' = subscribed \cup {c}
  /\ UNCHANGED <<requests, responses, dups>>
  /\ UNCHANGED <<serverVars, clientVars>>

(* NoId differs from every pending id: a message without correlation data is  *)
(* dropped before the comparison.                                            *)
Matches_Any(c, i) == i # NoId
Matches(c, i)     == pending[c] = i

Receives(c) ==
  /\ ~clearing[c]
  /\ responses[c] # <<>>
  /\ responses' = [responses EXCEPT ![c] = Tail(@)]
  /\ UNCHANGED <<requests, subscribed, dups, loopVars, clockVars, pending, sent, expired>>
  /\ UNCHANGED serverVars

(* uuid_compare found them equal (l.92) ...                                  *)
Compare(c) ==
  /\ Receives(c)
  /\ Matches(c, Head(responses[c]).id)
  /\ clearing' = [clearing EXCEPT ![c] = TRUE]
  /\ answered' = [answered EXCEPT ![c] = @ \cup {Head(responses[c]).id}]

Mismatch(c) ==
  /\ Receives(c)
  /\ ~Matches(c, Head(responses[c]).id)
  /\ UNCHANGED <<clearing, answered>>

(* ... and uuid_clear wipes what the static holds by then (l.102).           *)
Clear(c) ==
  /\ clearing[c]
  /\ pending' = [pending EXCEPT ![c] = NullId]
  /\ clearing' = [clearing EXCEPT ![c] = FALSE]
  /\ UNCHANGED <<loopVars, clockVars, sent, answered, expired>>
  /\ UNCHANGED <<brokerVars, serverVars>>

-----------------------------------------------------------------------------
Loop(c) ==
  \/ Check(c) \/ Expire(c) \/ TooSoon(c) \/ Prepare(c)
  \/ Generate(c) \/ Copy(c) \/ Publish(c)

Network(c) == Subscribe(c) \/ Compare(c) \/ Mismatch(c) \/ Clear(c)

Next ==
  \/ Tick
  \/ \E c \in Clients : Loop(c) \/ Network(c)
  \/ BrokerNext /\ UNCHANGED clientVars
  \/ ServerNext /\ UNCHANGED clientVars

Spec == Init /\ [][Next]_vars

(* Both threads are scheduled and time goes on.                              *)
Fairness ==
  /\ WF_vars(Tick)
  /\ \A c \in Clients : WF_vars(Loop(c)) /\ WF_vars(Compare(c) \/ Mismatch(c)) /\ WF_vars(Clear(c))

FairSpec == Spec /\ Fairness

-----------------------------------------------------------------------------
Outstanding(c) == sent[c] \ (answered[c] \cup expired[c])

(* main.c:205-207: a new command is sent only if the last one "timed out" or   *)
(* "there is no pending command", so at most one should ever be outstanding.  *)
(* A second command overtakes an unanswered one only through the race of the   *)
(* two threads at the timeout: some command was both matched by a response    *)
(* and given up.  Another client's race is enough, for it may publish a null   *)
(* id whose response matches every idle client; but nothing else, not another  *)
(* client's or a late response, releases the pending command.                 *)
OvertakingNeedsTheRace ==
  (\E c \in Clients : Cardinality(Outstanding(c)) > 1)
    => \E d \in Clients : answered[d] \cap expired[d] \cap Calls # {}

(* "validates that the correlation data matches" (main.c:55-57): what is taken *)
(* for an answer carries an id this client generated itself, though every      *)
(* client of the vehicle hears every response.                               *)
AnswersAreOwn ==
  \A c \in Clients : \A i \in answered[c] \ {NullId} :
    i[1] = c /\ i[2] <= gen[c]

(* The client never waits forever: a pending command is answered or given up.  *)
PendingEnds == \A c \in Clients : pending[c] # NullId ~> pending[c] = NullId
=============================================================================
