-------------------------- MODULE TsCommand_proofs --------------------------
(***************************************************************************)
(* Proofs about the TypeScript command client in front of any of the servers,   *)
(* with and without losses, redeliveries and failures, for every set of clients   *)
(* of the topic and number of calls.  IndInv carries types, what a first timeout  *)
(* means and the safe part of CommandCall.  Where a mixed-up answer comes from    *)
(* is counted: as long as nothing was repeated, one message of a call exists at   *)
(* a time, and one promise holds it (OneCopy).                                 *)
(***************************************************************************)
EXTENDS TsCommand, CommandServer_proofs

ClientTypeOK ==
  /\ pc \in [Clients -> PcValues]
  /\ inv \in [Clients -> 0..MaxCalls]
  /\ correlationId \in [Clients -> Calls \cup {NoId}]
  /\ deferred \in [Clients -> 0..MaxCalls]
  /\ task \in [Clients -> [1..MaxCalls -> SUBSET Response]]
  /\ outcome \in [Clients -> [1..MaxCalls -> Outcomes]]
  /\ seen \subseteq Calls

Early(c)  == pc[c] \in {"subscribing", "publishing", "published"}
InCall(c) == Early(c) \/ pc[c] = "waiting"

(* Calls are made one after the other, and only the last can be open.         *)
CallsInOrder ==
  \A c \in Clients :
    /\ InCall(c) => inv[c] \in 1..MaxCalls
    /\ \A k \in 1..MaxCalls :
         /\ outcome[c][k] = "none" <=> k > inv[c]
         /\ outcome[c][k] = "pending" <=> k = inv[c] /\ InCall(c)

(* The calls that were made: no message has any other id.                     *)
Made == {i \in Calls : outcome[i[1]][i[2]] # "none"}

(* The fields of the client are those of its last call, but for the promise:    *)
(* until the new one is installed it is the one of an earlier call, and before  *)
(* the first there is none.                                                  *)
Fields ==
  \A c \in Clients :
    /\ correlationId[c] = IF inv[c] = 0 THEN NoId ELSE <<c, inv[c]>>
    /\ deferred[c] <= inv[c]
    /\ pc[c] = "waiting" => deferred[c] = inv[c]
    /\ Early(c) => deferred[c] < inv[c]

(* A first call whose response was handled in time has resolved its promise, or  *)
(* ended with the process.                                                   *)
FirstSeen ==
  \A c \in Clients : <<c, 1>> \in seen =>
    /\ inv[c] >= 1 /\ outcome[c][1] # "timedOut"
    /\ outcome[c][1] = "pending" => task[c][1] # {}

(* What the clients publish, and what can come of it: a response tells that the  *)
(* command was executed, or is an error text.                                 *)
Unlocks == {m \in Request : m.ctype = "protobuf" /\ m.payload = "unlock"}
Telling == {r \in Response : r \in Vouches \/ r.body = "text"}

AllTelling == requests \in Seq(Unlocks) /\ responses \in [Clients -> Seq(Telling)]

(* A promise holds nothing but a response to a command that was executed.        *)
Resolved ==
  \A c \in Clients, k \in 1..MaxCalls :
    /\ \A r \in task[c][k] : r.id \in Made /\ executed[r.id] > 0
    /\ outcome[c][k] = "answered" => task[c][k] # {}

IndInv ==
  /\ CountersOK
  /\ ClientTypeOK
  /\ CallsInOrder
  /\ MessagesWithin(Made)
  /\ AllTelling
  /\ Honest
  /\ Fields
  /\ FirstSeen
  /\ Resolved

-----------------------------------------------------------------------------
LEMMA ConstantFacts ==
  /\ MaxCalls \in Nat /\ MaxCalls >= 1 /\ MaxDup \in Nat
  /\ Calls \subseteq Ids /\ Made \subseteq Ids /\ Made \subseteq Calls
  /\ NoId \in Ids /\ NoId \notin Calls
  /\ \A c \in Clients : CallsOf[c] \in 1..MaxCalls
<1>1. \A c \in Clients : CallsOf[c] \in 1..MaxCalls
  BY CallsAssumption
<1> QED
  BY <1>1, BrokerAssumption, CallFacts DEF Calls, Ids, Made

LEMMA MessagesTyped == IndInv => Typed
BY ConstantFacts, MessagesWiden DEF IndInv, Typed

LEMMA IndInvInit == Init => IndInv
<1> HAVE Init
<1>0. requests = <<>> /\ jobs = <<>> /\ responses = [c \in Clients |-> <<>>]
  BY DEF Init, BrokerInit, ServerInit
<1>1. CountersOK
  BY ConstantFacts DEF Init, BrokerInit, ServerInit, CountersOK
<1>2. ClientTypeOK
  BY ConstantFacts DEF Init, ClientTypeOK, PcValues, Outcomes
<1>3. CallsInOrder
  BY ConstantFacts DEF Init, CallsInOrder, InCall, Early
<1>4. MessagesWithin(Made) /\ AllTelling /\ Honest
  BY <1>0, EmptySeq DEF MessagesWithin, AllTelling, Honest
<1>5. Fields /\ FirstSeen /\ Resolved
  BY ConstantFacts DEF Init, Fields, Early, FirstSeen, Resolved
<1> QED
  BY <1>1, <1>2, <1>3, <1>4, <1>5 DEF IndInv

-----------------------------------------------------------------------------
(* What a step of a client may do to the messages: publish its current call, or   *)
(* take from its own inbox.                                                  *)
LEMMA StepMessages ==
  ASSUME IndInv, NEW c \in Clients, Step(c)
  PROVE  /\ UNCHANGED serverVars /\ UNCHANGED dups /\ subscribed' \in SUBSET Clients
         /\ \/ UNCHANGED requests
            \/ requests' = Append(requests, RequestOf(c)) /\ Publish(c)
         /\ \/ UNCHANGED responses
            \/ responses[c] # <<>> /\ responses' = [responses EXCEPT ![c] = Tail(@)]
BY DEF IndInv, CountersOK, Step, Invoke, Subscribe, Publish, Install, Complete, TimeOut, InvokeRejects,
       Receive, Crash, Listens, brokerVars, serverVars

(* The message a client handles.                                             *)
LEMMA HeadFacts ==
  ASSUME IndInv, NEW c \in Clients, responses[c] # <<>>
  PROVE  LET r == Head(responses[c]) IN
         /\ r \in Response /\ r.id \in Made /\ r \in Telling /\ r \in Truthful
<1>1. /\ responses[c] \in Seq(ResponsesOf(Made)) /\ responses[c] \in Seq(Telling)
      /\ responses[c] \in Seq(Truthful)
  BY DEF IndInv, MessagesWithin, AllTelling, Honest
<1>2. /\ Head(responses[c]) \in ResponsesOf(Made) /\ Head(responses[c]) \in Telling
      /\ Head(responses[c]) \in Truthful
  BY <1>1, SequenceTypes
<1> QED
  BY <1>2 DEF ResponsesOf

(* A handled response was seen by its own call, if that is open.                *)
LEMMA HandledFacts ==
  ASSUME IndInv, NEW c \in Clients, responses[c] # <<>>, Handled(c, Head(responses[c]))
  PROVE  seen' = seen \/ /\ inv[c] \in 1..MaxCalls /\ outcome[c][inv[c]] = "pending"
                         /\ seen' = seen \cup {<<c, inv[c]>>}
<1> DEFINE r == Head(responses[c])
<1>1. r.id \in Calls
  BY HeadFacts, ConstantFacts
<1>2. seen' = IF r.id = correlationId[c] /\ outcome[c][inv[c]] = "pending" THEN seen \cup {r.id} ELSE seen
  BY DEF Handled
<1> HIDE DEF r
<1>3. r.id = correlationId[c] => inv[c] # 0 /\ r.id = <<c, inv[c]>>
  BY <1>1, ConstantFacts DEF IndInv, Fields
<1>4. inv[c] \in 0..MaxCalls
  BY DEF IndInv, ClientTypeOK
<1>5. CASE r.id = correlationId[c] /\ outcome[c][inv[c]] = "pending"
  <2>1. seen' = seen \cup {<<c, inv[c]>>} /\ inv[c] # 0
    BY <1>2, <1>3, <1>5
  <2> QED
    BY <1>4, <1>5, <2>1, ConstantFacts
<1> QED
  BY <1>2, <1>5

-----------------------------------------------------------------------------
LEMMA StepKeepsTypes ==
  ASSUME IndInv, NEW c \in Clients, Step(c)
  PROVE  CountersOK' /\ ClientTypeOK' /\ CallsInOrder' /\ Made \subseteq Made'
<1> USE ConstantFacts DEF PcValues, Outcomes, InCall, Early
<1>0. ClientTypeOK /\ CallsInOrder /\ CountersOK /\ Fields
  BY DEF IndInv
<1>1. CountersOK'
  BY <1>0, StepMessages DEF CountersOK, serverVars
<1>2. CASE Invoke(c)
  <2>1. /\ pc[c] = "idle" /\ inv[c] + 1 \in 1..MaxCalls
        /\ inv' = [inv EXCEPT ![c] = @ + 1]
        /\ correlationId' = [correlationId EXCEPT ![c] = <<c, inv[c] + 1>>]
        /\ outcome' = [outcome EXCEPT ![c][inv[c] + 1] = "pending"]
        /\ pc' = [pc EXCEPT ![c] = "subscribing"]
        /\ UNCHANGED <<deferred, task, seen>>
    BY <1>0, <1>2 DEF Invoke, NewCorrelation, ClientTypeOK
  <2>2. ClientTypeOK'
    <3>1. <<c, inv[c] + 1>> \in Calls
      BY <2>1 DEF Calls
    <3> QED
      BY <1>0, <2>1, <3>1 DEF ClientTypeOK
  <2>3. CallsInOrder'
    BY <1>0, <2>1 DEF ClientTypeOK, CallsInOrder
  <2>4. Made \subseteq Made'
    BY <1>0, <2>1 DEF ClientTypeOK, Made, Calls
  <2> QED
    BY <1>1, <2>2, <2>3, <2>4
<1>3. ASSUME InCall(c), inv[c] \in 1..MaxCalls,
             NEW how \in {"answered", "timedOut", "failed"},
             outcome' = [outcome EXCEPT ![c][inv[c]] = how],
             NEW at \in {"idle", "crashed"}, pc' = [pc EXCEPT ![c] = at],
             UNCHANGED <<inv, correlationId, deferred, task>>, seen' \subseteq Calls
      PROVE  ClientTypeOK' /\ CallsInOrder' /\ Made \subseteq Made'
  <2>1. ClientTypeOK'
    BY <1>0, <1>3 DEF ClientTypeOK
  <2>2. CallsInOrder'
    BY <1>0, <1>3 DEF ClientTypeOK, CallsInOrder
  <2>3. Made \subseteq Made'
    BY <1>0, <1>3 DEF ClientTypeOK, Made, Calls
  <2> QED
    BY <2>1, <2>2, <2>3
<1>4. CASE Complete(c) \/ TimeOut(c) \/ InvokeRejects(c)
  <2>1. InCall(c) /\ inv[c] \in 1..MaxCalls /\ seen \subseteq Calls
    BY <1>0, <1>4 DEF Complete, TimeOut, InvokeRejects, CallsInOrder, ClientTypeOK
  <2>2. CASE Complete(c)
    BY <1>1, <1>3, <2>1, <2>2 DEF Complete, End
  <2>3. CASE TimeOut(c)
    BY <1>1, <1>3, <2>1, <2>3 DEF TimeOut, End
  <2>4. CASE InvokeRejects(c)
    BY <1>1, <1>3, <2>1, <2>4 DEF InvokeRejects, End
  <2> QED
    BY <1>4, <2>2, <2>3, <2>4
<1>5. CASE Subscribe(c) \/ Publish(c) \/ Install(c)
  <2>1. /\ UNCHANGED <<inv, correlationId, task, outcome, seen>>
        /\ InCall(c)' <=> InCall(c)
        /\ pc' \in [Clients -> PcValues] /\ \A d \in Clients \ {c} : pc'[d] = pc[d]
        /\ deferred' \in [Clients -> 0..MaxCalls]
    BY <1>0, <1>5 DEF Subscribe, Publish, Install, ClientTypeOK
  <2>2. ClientTypeOK'
    BY <1>0, <2>1 DEF ClientTypeOK
  <2>3. CallsInOrder' /\ Made \subseteq Made'
    BY <1>0, <2>1 DEF CallsInOrder, Made
  <2> QED
    BY <1>1, <2>2, <2>3
<1>6. ASSUME responses[c] # <<>>, Handled(c, Head(responses[c]))
      PROVE  seen' \subseteq Calls
  <2>1. inv[c] \in 1..MaxCalls => <<c, inv[c]>> \in Calls
    BY DEF Calls
  <2>2. seen \subseteq Calls
    BY <1>0 DEF ClientTypeOK
  <2> QED
    BY <1>6, <2>1, <2>2, HandledFacts
<1>7. CASE Receive(c)
  <2> DEFINE r == Head(responses[c])
  <2>1. /\ responses[c] # <<>> /\ Handled(c, r) /\ deferred[c] \in 1..MaxCalls
        /\ task' = [task EXCEPT ![c][deferred[c]] = IF @ = {} THEN {r} ELSE @]
        /\ UNCHANGED <<pc, inv, correlationId, deferred, outcome>>
    BY <1>0, <1>7 DEF Receive, Listens, ClientTypeOK
  <2>2. r \in Response /\ seen' \subseteq Calls
    BY <1>6, <2>1, HeadFacts
  <2> HIDE DEF r
  <2>3. ClientTypeOK'
    BY <1>0, <2>1, <2>2 DEF ClientTypeOK
  <2>4. CallsInOrder' /\ Made \subseteq Made'
    BY <1>0, <2>1 DEF CallsInOrder, Made
  <2> QED
    BY <1>1, <2>3, <2>4
<1>8. CASE Crash(c)
  <2>1. /\ responses[c] # <<>> /\ seen' \subseteq Calls
        /\ pc' = [pc EXCEPT ![c] = "crashed"] /\ UNCHANGED <<inv, correlationId, deferred, task>>
        /\ outcome' = IF outcome[c][inv[c]] = "pending"
                        THEN [outcome EXCEPT ![c][inv[c]] = "failed"] ELSE outcome
    BY <1>6, <1>8 DEF Crash, Listens
  <2>2. CASE InCall(c)
    BY <1>0, <1>1, <1>3, <2>1, <2>2 DEF CallsInOrder
  <2>3. CASE ~InCall(c)
    <3>1. outcome' = outcome
      <4>1. CASE inv[c] = 0
        BY <1>0, <2>1, <4>1 DEF ClientTypeOK
      <4>2. CASE inv[c] # 0
        BY <1>0, <2>1, <2>3, <4>2 DEF ClientTypeOK, CallsInOrder
      <4> QED
        BY <4>1, <4>2
    <3>2. ClientTypeOK'
      BY <1>0, <2>1, <3>1 DEF ClientTypeOK
    <3>3. CallsInOrder' /\ Made \subseteq Made'
      BY <1>0, <2>1, <2>3, <3>1 DEF CallsInOrder, Made, ClientTypeOK
    <3> QED
      BY <1>1, <3>2, <3>3
  <2> QED
    BY <2>2, <2>3
<1> QED
  BY <1>2, <1>4, <1>5, <1>7, <1>8 DEF Step

(* A step of a client sends nothing but its unlock request, and takes nothing     *)
(* but from its own inbox.                                                   *)
LEMMA StepKeepsMessages ==
  ASSUME IndInv, NEW c \in Clients, Step(c)
  PROVE  MessagesWithin(Made)' /\ AllTelling' /\ Honest'
<1>1. /\ UNCHANGED <<kind, executed, jobs>>
      /\ \/ UNCHANGED requests
         \/ requests' = Append(requests, RequestOf(c)) /\ Publish(c)
      /\ \/ UNCHANGED responses
         \/ responses[c] # <<>> /\ responses' = [responses EXCEPT ![c] = Tail(@)]
  BY StepMessages DEF serverVars
<1>2. ASSUME NEW S, responses \in [Clients -> Seq(S)]
      PROVE  responses' \in [Clients -> Seq(S)]
  <2>1. responses[c] # <<>> => Tail(responses[c]) \in Seq(S)
    BY <1>2, SequenceTypes
  <2> QED
    BY <1>1, <1>2, <2>1
<1>3. Made \subseteq Made'
  BY StepKeepsTypes
<1>4. ASSUME Publish(c)
      PROVE  RequestOf(c) \in RequestsOf(Made') /\ RequestOf(c) \in Unlocks
  <2>1. inv[c] \in 1..MaxCalls /\ outcome[c][inv[c]] = "pending" /\ correlationId[c] = <<c, inv[c]>>
    <3>1. InCall(c)
      BY <1>4 DEF Publish, InCall, Early
    <3>2. inv[c] \in 1..MaxCalls
      BY <3>1 DEF IndInv, CallsInOrder
    <3>3. outcome[c][inv[c]] = "pending"
      BY <3>1, <3>2 DEF IndInv, CallsInOrder
    <3>4. inv[c] # 0
      BY <3>2, ConstantFacts
    <3> QED
      BY <3>2, <3>3, <3>4 DEF IndInv, Fields
  <2>2. correlationId[c] \in Made'
    BY <1>3, <2>1 DEF Made, Calls
  <2>3. correlationId[c] \in Ids
    BY <2>1, ConstantFacts DEF Calls
  <2>4. RequestOf(c) \in Request
    BY <2>3 DEF RequestOf, Request, ContentTypes, RequestPayloads
  <2>5. RequestOf(c).id = correlationId[c] /\ RequestOf(c).ctype = "protobuf" /\ RequestOf(c).payload = "unlock"
    BY DEF RequestOf
  <2> QED
    BY <2>2, <2>4, <2>5 DEF RequestsOf, Unlocks
<1>5. MessagesWithin(Made)'
  <2>1. /\ requests \in Seq(RequestsOf(Made')) /\ jobs \in Seq(RequestsOf(Made'))
        /\ responses \in [Clients -> Seq(ResponsesOf(Made'))]
    BY <1>3, MessagesWiden DEF IndInv, MessagesWithin
  <2>2. requests' \in Seq(RequestsOf(Made'))
    <3>1. \A x \in RequestsOf(Made') : Append(requests, x) \in Seq(RequestsOf(Made'))
      BY <2>1, SequenceTypes
    <3> QED
      BY <1>1, <1>4, <2>1, <3>1
  <2>3. responses' \in [Clients -> Seq(ResponsesOf(Made'))]
    BY <1>2, <2>1
  <2> QED
    BY <1>1, <2>1, <2>2, <2>3 DEF MessagesWithin, RequestsOf, ResponsesOf
<1>6. AllTelling'
  <2>1. requests \in Seq(Unlocks) /\ responses \in [Clients -> Seq(Telling)]
    BY DEF IndInv, AllTelling
  <2>2. requests' \in Seq(Unlocks)
    <3>1. \A x \in Unlocks : Append(requests, x) \in Seq(Unlocks)
      BY <2>1, SequenceTypes
    <3> QED
      BY <1>1, <1>4, <2>1, <3>1
  <2>3. responses' \in [Clients -> Seq(Telling)]
    BY <1>2, <2>1
  <2> QED
    BY <2>2, <2>3 DEF AllTelling
<1>7. Honest'
  <2>1. jobs \in Seq(Owed) /\ responses \in [Clients -> Seq(Truthful)]
    BY DEF IndInv, Honest
  <2>2. responses' \in [Clients -> Seq(Truthful)]
    BY <1>2, <2>1
  <2> QED
    BY <1>1, <2>1, <2>2 DEF Honest, Owed, Truthful
<1> QED
  BY <1>5, <1>6, <1>7

(* The promise is installed when the request is out, and resolved by what comes   *)
(* first after that.                                                         *)
LEMMA StepKeepsFields ==
  ASSUME IndInv, NEW c \in Clients, Step(c)
  PROVE  Fields' /\ FirstSeen' /\ Resolved'
<1> USE ConstantFacts DEF InCall, Early
<1>0. /\ ClientTypeOK /\ CallsInOrder /\ Fields /\ FirstSeen /\ Resolved
      /\ UNCHANGED executed /\ Made \subseteq Made'
  BY StepMessages, StepKeepsTypes DEF IndInv, serverVars
<1>1. \A d \in Clients, k \in 1..MaxCalls : \A r \in task[d][k] : r.id \in Made' /\ executed'[r.id] > 0
  BY <1>0 DEF Resolved
<1>2. CASE Invoke(c)
  <2>1. /\ pc[c] = "idle" /\ inv[c] + 1 \in 1..MaxCalls
        /\ inv' = [inv EXCEPT ![c] = @ + 1]
        /\ correlationId' = [correlationId EXCEPT ![c] = <<c, inv[c] + 1>>]
        /\ outcome' = [outcome EXCEPT ![c][inv[c] + 1] = "pending"]
        /\ pc' = [pc EXCEPT ![c] = "subscribing"]
        /\ UNCHANGED <<deferred, task, seen>>
    BY <1>0, <1>2 DEF Invoke, NewCorrelation, ClientTypeOK
  <2>2. Fields'
    <3>1. ASSUME NEW d \in Clients
          PROVE  /\ correlationId'[d] = IF inv'[d] = 0 THEN NoId ELSE <<d, inv'[d]>>
                 /\ deferred'[d] <= inv'[d]
                 /\ pc'[d] = "waiting" => deferred'[d] = inv'[d]
                 /\ Early(d)' => deferred'[d] < inv'[d]
      <4>1. CASE d = c
        <5>1. /\ inv'[c] = inv[c] + 1 /\ inv'[c] # 0 /\ pc'[c] = "subscribing"
              /\ correlationId'[c] = <<c, inv'[c]>> /\ deferred'[c] = deferred[c]
          BY <1>0, <2>1 DEF ClientTypeOK
        <5>2. deferred[c] <= inv[c] /\ deferred[c] \in Nat /\ inv[c] \in Nat
          BY <1>0 DEF Fields, ClientTypeOK
        <5> QED
          BY <4>1, <5>1, <5>2
      <4>2. CASE d # c
        <5>1. /\ inv'[d] = inv[d] /\ correlationId'[d] = correlationId[d]
              /\ deferred'[d] = deferred[d] /\ pc'[d] = pc[d]
          BY <1>0, <2>1, <4>2 DEF ClientTypeOK
        <5> QED
          BY <1>0, <5>1 DEF Fields
      <4> QED
        BY <4>1, <4>2
    <3> QED
      BY <3>1 DEF Fields
  <2>3. FirstSeen'
    BY <1>0, <2>1 DEF FirstSeen, ClientTypeOK
  <2>4. Resolved'
    BY <1>0, <1>1, <2>1 DEF Resolved, ClientTypeOK
  <2> QED
    BY <2>2, <2>3, <2>4
<1>3. CASE Subscribe(c) \/ Publish(c) \/ Install(c)
  <2>1. UNCHANGED <<inv, correlationId, task, outcome, seen>>
    BY <1>3 DEF Subscribe, Publish, Install
  <2>2. Fields'
    BY <1>0, <1>3, <2>1 DEF Subscribe, Publish, Install, Fields, ClientTypeOK
  <2>3. FirstSeen' /\ Resolved'
    BY <1>0, <1>1, <2>1 DEF FirstSeen, Resolved
  <2> QED
    BY <2>2, <2>3
<1>4. ASSUME NEW how \in {"answered", "timedOut", "failed"}, NEW at \in {"idle", "crashed"},
             InCall(c), inv[c] \in 1..MaxCalls, UNCHANGED <<inv, correlationId, deferred, task>>,
             outcome' = [outcome EXCEPT ![c][inv[c]] = how], pc' = [pc EXCEPT ![c] = at],
             how = "answered" => task[c][inv[c]] # {}
      PROVE  Fields' /\ Resolved'
  <2>1. Fields'
    BY <1>0, <1>4 DEF Fields, ClientTypeOK
  <2>2. Resolved'
    BY <1>0, <1>1, <1>4 DEF Resolved, ClientTypeOK
  <2> QED
    BY <2>1, <2>2
<1>5. CASE Complete(c) \/ TimeOut(c) \/ InvokeRejects(c)
  <2>1. PICK how \in {"answered", "timedOut", "failed"} :
          /\ outcome' = [outcome EXCEPT ![c][inv[c]] = how]
          /\ how = "answered" => pc[c] = "waiting" /\ task[c][deferred[c]] # {}
          /\ how = "timedOut" => pc[c] = "waiting" /\ task[c][deferred[c]] = {}
    BY <1>5 DEF Complete, TimeOut, InvokeRejects, End
  <2>2. /\ InCall(c) /\ inv[c] \in 1..MaxCalls
        /\ UNCHANGED <<inv, correlationId, deferred, task, seen>> /\ pc' = [pc EXCEPT ![c] = "idle"]
    BY <1>0, <1>5 DEF Complete, TimeOut, InvokeRejects, CallsInOrder
  <2>3. pc[c] = "waiting" => deferred[c] = inv[c]
    BY <1>0 DEF Fields
  <2>4. Fields' /\ Resolved'
    BY <1>4, <2>1, <2>2, <2>3
  <2>5. FirstSeen'
    <3>1. outcome[c][inv[c]] = "pending"
      BY <1>0, <2>2 DEF CallsInOrder
    <3> QED
      BY <1>0, <2>1, <2>2, <2>3, <3>1 DEF FirstSeen, ClientTypeOK
  <2> QED
    BY <2>4, <2>5
<1>6. CASE Receive(c)
  <2> DEFINE r == Head(responses[c])
             n == deferred[c]
  <2>1. /\ responses[c] # <<>> /\ Handled(c, r) /\ Decodes(r) /\ n \in 1..MaxCalls
        /\ task' = [task EXCEPT ![c][n] = IF @ = {} THEN {r} ELSE @]
        /\ UNCHANGED <<pc, inv, correlationId, deferred, outcome>>
    BY <1>0, <1>6 DEF Receive, Listens, ClientTypeOK
  <2>2. r.id \in Made /\ executed[r.id] > 0
    BY <2>1, HeadFacts DEF Decodes, Telling, Truthful
  <2>3. seen' = seen \/ /\ inv[c] \in 1..MaxCalls /\ outcome[c][inv[c]] = "pending"
                        /\ seen' = seen \cup {<<c, inv[c]>>}
    BY <2>1, HandledFacts
  <2> HIDE DEF r
  <2>4. \A d \in Clients, k \in 1..MaxCalls :
          task'[d][k] = IF d = c /\ k = n /\ task[c][n] = {} THEN {r} ELSE task[d][k]
    BY <1>0, <2>1 DEF ClientTypeOK
  <2> HIDE DEF n
  <2>5. Fields'
    BY <1>0, <2>1 DEF Fields
  <2>6. Resolved'
    BY <1>0, <1>1, <2>1, <2>2, <2>4 DEF Resolved
  <2>7. FirstSeen'
    <3>1. ASSUME NEW d \in Clients, <<d, 1>> \in seen
          PROVE  inv'[d] >= 1 /\ outcome'[d][1] # "timedOut" /\ (outcome'[d][1] = "pending" => task'[d][1] # {})
      BY <1>0, <2>1, <2>4, <3>1 DEF FirstSeen
    <3>2. ASSUME inv[c] = 1, outcome[c][1] = "pending"
          PROVE  inv'[c] >= 1 /\ outcome'[c][1] # "timedOut" /\ (outcome'[c][1] = "pending" => task'[c][1] # {})
      <4>1. n <= 1
        BY <1>0, <3>2 DEF Fields, n
      <4>2. n = 1
        BY <2>1, <4>1
      <4>3. task'[c][1] = IF task[c][1] = {} THEN {r} ELSE task[c][1]
        BY <2>1, <2>4, <4>2
      <4> QED
        BY <2>1, <3>2, <4>3
    <3> QED
      BY <2>3, <3>1, <3>2 DEF FirstSeen
  <2> QED
    BY <2>5, <2>6, <2>7
<1>7. CASE Crash(c)
  <2>1. /\ responses[c] # <<>> /\ Handled(c, Head(responses[c]))
        /\ pc' = [pc EXCEPT ![c] = "crashed"] /\ UNCHANGED <<inv, correlationId, deferred, task>>
        /\ outcome' = IF outcome[c][inv[c]] = "pending"
                        THEN [outcome EXCEPT ![c][inv[c]] = "failed"] ELSE outcome
    BY <1>7 DEF Crash, Listens
  <2>2. seen' = seen \/ /\ inv[c] \in 1..MaxCalls /\ outcome[c][inv[c]] = "pending"
                        /\ seen' = seen \cup {<<c, inv[c]>>}
    BY <2>1, HandledFacts
  <2>3. CASE InCall(c)
    <3>1. inv[c] \in 1..MaxCalls /\ outcome' = [outcome EXCEPT ![c][inv[c]] = "failed"]
      BY <1>0, <2>1, <2>3 DEF CallsInOrder
    <3>2. Fields' /\ Resolved'
      BY <1>4, <2>1, <2>3, <3>1
    <3>3. FirstSeen'
      BY <1>0, <2>1, <2>2, <3>1 DEF FirstSeen, ClientTypeOK
    <3> QED
      BY <3>2, <3>3
  <2>4. CASE ~InCall(c)
    <3>1. UNCHANGED <<outcome, seen>>
      <4>1. CASE inv[c] = 0
        BY <1>0, <2>1, <2>2, <4>1 DEF ClientTypeOK
      <4>2. CASE inv[c] # 0
        BY <1>0, <2>1, <2>2, <2>4, <4>2 DEF ClientTypeOK, CallsInOrder
      <4> QED
        BY <4>1, <4>2
    <3>2. Fields'
      BY <1>0, <2>1 DEF Fields, ClientTypeOK
    <3>3. FirstSeen' /\ Resolved'
      BY <1>0, <1>1, <2>1, <3>1 DEF FirstSeen, Resolved
    <3> QED
      BY <3>2, <3>3
  <2> QED
    BY <2>3, <2>4
<1> QED
  BY <1>2, <1>3, <1>5, <1>6, <1>7 DEF Step

(* The servers and the broker leave the clients alone.                         *)
LEMMA ServerKeeps ==
  ASSUME IndInv, ServerNext \/ BrokerNext, UNCHANGED clientVars
  PROVE  IndInv'
<1>0. Typed /\ Honest /\ AllTelling /\ MessagesWithin(Made) /\ CountersOK
  BY MessagesTyped DEF IndInv
<1>1. UNCHANGED <<pc, inv, correlationId, deferred, task, outcome, seen>>
  BY DEF clientVars
<1>2. ClientTypeOK' /\ CallsInOrder' /\ Fields' /\ FirstSeen'
  BY <1>1 DEF IndInv, ClientTypeOK, CallsInOrder, InCall, Early, Fields, FirstSeen
<1>3. CountersOK' /\ MessagesWithin(Made)'
  <2>1. \A I : MessagesWithin(I) => requests' \in Seq(RequestsOf(I)) /\ jobs' \in Seq(RequestsOf(I))
                                      /\ responses' \in [Clients -> Seq(ResponsesOf(I))] /\ CountersOK'
    BY <1>0, ServersOnlyEcho DEF MessagesWithin
  <2>2. Made' = Made
    BY <1>1 DEF Made
  <2> QED
    BY <1>0, <2>1, <2>2 DEF MessagesWithin, RequestsOf, ResponsesOf
<1>4. Honest'
  BY <1>0, HonestKeeps
<1>5. AllTelling'
  <2>1. \A m \in Unlocks : Deferred(m) => m \in Request
    BY DEF Unlocks
  <2>2. \A m \in Unlocks : \A r : Answers(m, r) => r \in Telling
    BY DEF Unlocks, Answers, ResponsesOf, Vouches, Telling
  <2>3. \A m \in Request : \A r : Sends(m, r) => r \in Telling
    BY DEF Sends, ResponsesOf, Vouches, Telling
  <2>4. jobs \in Seq(Request)
    BY <1>0, Sequences
  <2> QED
    BY <1>0, <2>1, <2>2, <2>3, <2>4, PassOn DEF AllTelling
<1>6. Resolved'
  <2>1. \A i \in Ids : executed[i] > 0 => executed'[i] > 0
    BY <1>0, ExecutedGrows
  <2>2. Made' = Made /\ Made \subseteq Ids
    BY <1>1, ConstantFacts DEF Made
  <2> QED
    BY <1>1, <2>1, <2>2 DEF IndInv, Resolved
<1> QED
  BY <1>2, <1>3, <1>4, <1>5, <1>6 DEF IndInv

LEMMA Invariance == Spec => []IndInv
<1>1. IndInv /\ [Next]_vars => IndInv'
  <2> SUFFICES ASSUME IndInv, [Next]_vars PROVE IndInv'
    OBVIOUS
  <2>1. ASSUME NEW c \in Clients, Step(c) PROVE IndInv'
    BY <2>1, StepKeepsTypes, StepKeepsMessages, StepKeepsFields DEF IndInv
  <2>2. CASE (ServerNext \/ BrokerNext) /\ UNCHANGED clientVars
    BY <2>2, ServerKeeps
  <2>3. CASE UNCHANGED vars
    BY <2>3 DEF vars, brokerVars, serverVars, clientVars, IndInv, CountersOK, ClientTypeOK,
       CallsInOrder, InCall, Early, MessagesWithin, Made, AllTelling, Honest, Owed, Truthful,
       Fields, FirstSeen, Resolved
  <2> QED
    BY <2>1, <2>2, <2>3 DEF Next
<1> QED
  BY <1>1, IndInvInit, PTL DEF Spec

-----------------------------------------------------------------------------
(* The client's fields, its promises, the server and the messages keep their      *)
(* types.                                                                    *)
THEOREM TypeCorrect == Spec => []TypeOK
<1>1. IndInv => TypeOK
  BY MessagesTyped, TypesOfMessages DEF IndInv, Typed, ClientTypeOK, TypeOK
<1> QED
  BY <1>1, Invariance, PTL

(* invokeAsync of commandClient.ts: when it reports that its first call timed out,  *)
(* no response to that call has been handled.                                 *)
THEOREM FirstTimeoutsAreReal == Spec => []FirstTimeoutIsReal
<1>1. IndInv => FirstTimeoutIsReal
  BY DEF IndInv, FirstSeen, FirstTimeoutIsReal
<1> QED
  BY <1>1, Invariance, PTL

(* Whoever else is on the topic and however often a client calls, an answer says   *)
(* of some command that was made that it was executed.                         *)
AnswersAreTrue ==
  \A c \in Clients, k \in 1..MaxCalls :
    outcome[c][k] = "answered" =>
      /\ task[c][k] # {}
      /\ \A r \in task[c][k] : executed[r.id] > 0 /\ outcome[r.id[1]][r.id[2]] # "none"

THEOREM AnswersTellTheTruth == Spec => []AnswersAreTrue
<1>1. IndInv => AnswersAreTrue
  BY DEF IndInv, Resolved, Made, AnswersAreTrue
<1> QED
  BY <1>1, Invariance, PTL

-----------------------------------------------------------------------------
(* The way of a call's response: in traffic from the publish on, then in a promise. *)
InTask(c, i) == \E n \in 1..MaxCalls : \E r \in task[c][n] : r.id = i
Sent(c, k)   == k < inv[c] \/ (k = inv[c] /\ pc[c] \notin {"subscribing", "publishing"})

OnePromise(c, k) ==
  \A m, n \in 1..MaxCalls : \A r \in task[c][m] : \A x \in task[c][n] :
    r.id = <<c, k>> /\ x.id = <<c, k>> => m = n

(* While nothing was repeated, one message of a call exists, and one promise has it. *)
OneCopy ==
  dups = 0 => \A c \in Clients, k \in 1..MaxCalls :
    /\ Traffic(c, <<c, k>>) + One(InTask(c, <<c, k>>)) <= One(Sent(c, k))
    /\ OnePromise(c, k)

(* The promise of a call that may still be answered by it holds no later call's       *)
(* response.                                                                  *)
NoLater ==
  \A c \in Clients, k \in 1..MaxCalls :
    outcome[c][k] \in {"pending", "answered"} =>
      \A r \in task[c][k] : r.id[1] = c => r.id[2] <= k

(* A step of a client and the traffic of a call.                             *)
LEMMA StepTraffic ==
  ASSUME IndInv, IndInv', NEW c \in Clients, Step(c), NEW d \in Clients, NEW k \in 1..MaxCalls
  PROVE  /\ Traffic(d, <<d, k>>) \in Nat /\ Traffic(d, <<d, k>>)' \in Nat
         /\ Publish(c) => Traffic(d, <<d, k>>)' <= Traffic(d, <<d, k>>) + One(d = c /\ k = inv[c])
         /\ UNCHANGED requests => Traffic(d, <<d, k>>)' <= Traffic(d, <<d, k>>)
         /\ Receive(c) /\ d = c /\ Head(responses[c]).id = <<c, k>>
              => Traffic(d, <<d, k>>)' + 1 <= Traffic(d, <<d, k>>)
<1> DEFINE i == <<d, k>>
           S == ResponsesOf({i})
           Q == RequestsOf({i})
<1>0. Typed /\ Typed'
  BY MessagesTyped, PTL
<1>1. /\ UNCHANGED jobs
      /\ UNCHANGED requests \/ (requests' = Append(requests, RequestOf(c)) /\ Publish(c))
      /\ UNCHANGED responses \/ (responses[c] # <<>> /\ responses' = [responses EXCEPT ![c] = Tail(@)])
  BY StepMessages DEF serverVars
<1>2. /\ Waiting(i) \in Nat /\ Working(i) \in Nat /\ Heard(d, S) \in Nat
      /\ requests \in Seq(Request) /\ responses[d] \in Seq(Response)
  BY <1>0, Sequences
<1>3. Waiting(i)' \in Nat /\ Working(i)' = Working(i) /\ Heard(d, S)' \in Nat
  <2>1. requests' \in Seq(Request) /\ responses'[d] \in Seq(Response)
    <3>1. requests' \in Seq(RequestsOf(Ids)) /\ responses' \in [Clients -> Seq(ResponsesOf(Ids))]
      BY <1>0 DEF Typed, MessagesWithin, RequestsOf, ResponsesOf
    <3>2. RequestsOf(Ids) = Request /\ ResponsesOf(Ids) = Response
      BY DEF RequestsOf, ResponsesOf, Request, Response
    <3> QED
      BY <3>1, <3>2
  <2>2. Copies(requests', Q) \in Nat /\ Copies(responses'[d], S) \in Nat
    BY <2>1, CopiesNat
  <2> QED
    BY <1>1, <2>2 DEF Waiting, Working, Heard
<1>4. Heard(d, S)' <= Heard(d, S)
  <2>1. CASE responses[c] # <<>> /\ responses' = [responses EXCEPT ![c] = Tail(@)] /\ d = c
    <3>1. Copies(Tail(responses[d]), S) + One(Head(responses[d]) \in S) <= Copies(responses[d], S)
      BY <1>2, <2>1, CopiesTail
    <3>2. responses'[d] = Tail(responses[d])
      BY <1>0, <2>1 DEF Typed, MessagesWithin
    <3>3. One(Head(responses[d]) \in S) \in {0, 1}
      BY DEF One
    <3> DEFINE h == One(Head(responses[d]) \in S)
    <3> HIDE DEF h
    <3> QED
      BY <1>2, <1>3, <3>1, <3>2, <3>3 DEF Heard, h
  <2>2. CASE UNCHANGED responses
    BY <1>2, <2>2 DEF Heard
  <2>3. CASE responses' = [responses EXCEPT ![c] = Tail(@)] /\ d # c
    <3>1. responses'[d] = responses[d]
      BY <1>0, <2>3 DEF Typed, MessagesWithin
    <3> QED
      BY <1>2, <3>1 DEF Heard
  <2> QED
    BY <1>1, <2>1, <2>2, <2>3
<1>5. ASSUME Publish(c)
      PROVE  Waiting(i)' <= Waiting(i) + One(d = c /\ k = inv[c])
  <2>1. requests' = Append(requests, RequestOf(c)) /\ RequestOf(c).id = correlationId[c]
    BY <1>5 DEF Publish, RequestOf
  <2>2. RequestOf(c) \in Request
    BY <1>5, ConstantFacts DEF Publish, IndInv, ClientTypeOK, RequestOf, Request, ContentTypes,
       RequestPayloads
  <2>3. inv[c] \in 1..MaxCalls /\ correlationId[c] = <<c, inv[c]>>
    <3>1. CallsInOrder /\ Fields /\ pc[c] = "publishing"
      BY <1>5 DEF Publish, IndInv
    <3>2. inv[c] \in 1..MaxCalls
      BY <3>1 DEF CallsInOrder, InCall, Early
    <3>3. inv[c] # 0
      BY <3>2, ConstantFacts
    <3> QED
      BY <3>1, <3>2, <3>3 DEF Fields
  <2>4. Copies(Append(requests, RequestOf(c)), Q) = Copies(requests, Q) + One(RequestOf(c) \in Q)
    BY <1>2, <2>2, CopiesAppend
  <2>5. RequestOf(c) \in Q <=> d = c /\ k = inv[c]
    <3>1. RequestOf(c) \in Q <=> RequestOf(c).id = i
      <4> HIDE DEF i
      <4> QED
        BY <2>2 DEF RequestsOf
    <3>2. <<c, inv[c]>> = i <=> d = c /\ k = inv[c]
      OBVIOUS
    <3> QED
      BY <2>1, <2>3, <3>1, <3>2
  <2>6. One(RequestOf(c) \in Q) = One(d = c /\ k = inv[c])
    BY <2>5 DEF One
  <2>7. Waiting(i)' = Waiting(i) + One(d = c /\ k = inv[c])
    BY <2>1, <2>4, <2>6 DEF Waiting
  <2>8. One(d = c /\ k = inv[c]) \in {0, 1}
    BY DEF One
  <2> QED
    BY <1>2, <2>7, <2>8
<1>6. UNCHANGED requests => Waiting(i)' = Waiting(i)
  BY DEF Waiting
<1>7. ASSUME Receive(c), d = c, Head(responses[c]).id = <<c, k>>
      PROVE  Heard(d, S)' + 1 <= Heard(d, S)
  <2>1. responses[d] # <<>> /\ responses'[d] = Tail(responses[d])
    BY <1>0, <1>7 DEF Receive, Typed, MessagesWithin
  <2>2. Head(responses[d]) \in S
    <3>1. Head(responses[d]) \in Response
      BY <1>2, <2>1, SequenceTypes
    <3> QED
      BY <1>7, <3>1 DEF ResponsesOf
  <2>3. Copies(Tail(responses[d]), S) + One(Head(responses[d]) \in S) <= Copies(responses[d], S)
    BY <1>2, <2>1, CopiesTail
  <2>4. One(Head(responses[d]) \in S) = 1
    BY <2>2 DEF One
  <2> QED
    BY <2>1, <2>3, <2>4 DEF Heard
<1>8. Traffic(d, i) = Waiting(i) + Working(i) + Heard(d, S)
  BY DEF Traffic
<1>9. Traffic(d, i)' = Waiting(i)' + Working(i)' + Heard(d, S)'
  BY DEF Traffic
<1> HIDE DEF i, S, Q
<1>10. /\ Traffic(d, i) \in Nat /\ Traffic(d, i)' \in Nat
       /\ UNCHANGED requests => Traffic(d, i)' <= Traffic(d, i)
  BY <1>2, <1>3, <1>4, <1>6, <1>8, <1>9
<1>11. Publish(c) => Traffic(d, i)' <= Traffic(d, i) + One(d = c /\ k = inv[c])
  <2> DEFINE h == One(d = c /\ k = inv[c])
  <2>1. h \in {0, 1} /\ (Publish(c) => Waiting(i)' <= Waiting(i) + h)
    BY <1>5 DEF One
  <2> HIDE DEF h
  <2>2. Publish(c) => Traffic(d, i)' <= Traffic(d, i) + h
    BY <1>2, <1>3, <1>4, <1>8, <1>9, <2>1
  <2> QED
    BY <2>2 DEF h
<1>12. Receive(c) /\ d = c /\ Head(responses[c]).id = <<c, k>> => Traffic(d, i)' + 1 <= Traffic(d, i)
  <2>1. Receive(c) => Waiting(i)' = Waiting(i)
    BY DEF Receive, Waiting
  <2> QED
    BY <1>2, <1>3, <1>7, <1>8, <1>9, <2>1
<1> QED
  BY <1>10, <1>11, <1>12 DEF i

(* What a promise receives: a response that is still in the inbox.              *)
LEMMA ReceiveFacts ==
  ASSUME IndInv, NEW c \in Clients, Receive(c)
  PROVE  /\ Head(responses[c]).id \in Made /\ deferred[c] \in 1..MaxCalls /\ deferred[c] <= inv[c]
         /\ UNCHANGED <<pc, inv, outcome, requests>>
         /\ \A d \in Clients, n \in 1..MaxCalls :
              task'[d][n] = IF d = c /\ n = deferred[c] /\ task[c][n] = {}
                              THEN {Head(responses[c])} ELSE task[d][n]
<1>1. responses[c] # <<>> /\ deferred[c] # 0
  BY DEF Receive, Listens
<1>2. Head(responses[c]).id \in Made
  BY <1>1, HeadFacts
<1>3. ClientTypeOK /\ Fields
  BY DEF IndInv
<1> QED
  BY <1>1, <1>2, <1>3, ConstantFacts DEF Receive, ClientTypeOK, Fields

LEMMA StepKeepsNoLater ==
  ASSUME IndInv, NoLater, NEW c \in Clients, Step(c)
  PROVE  NoLater'
<1> USE ConstantFacts
<1>0. ClientTypeOK /\ CallsInOrder /\ Resolved /\ Fields
  BY DEF IndInv
<1>1. CASE Receive(c)
  <2> DEFINE r == Head(responses[c])
  <2>1. /\ r.id \in Made /\ deferred[c] \in 1..MaxCalls /\ UNCHANGED outcome
        /\ \A d \in Clients, n \in 1..MaxCalls :
             task'[d][n] = IF d = c /\ n = deferred[c] /\ task[c][n] = {} THEN {r} ELSE task[d][n]
    BY <1>1, ReceiveFacts
  <2>2. r.id[1] = c => r.id[2] <= inv[c]
    <3>1. r.id[1] \in Clients /\ r.id[2] \in 1..MaxCalls /\ outcome[r.id[1]][r.id[2]] # "none"
      BY <2>1 DEF Made, Calls
    <3> QED
      BY <1>0, <3>1 DEF CallsInOrder, ClientTypeOK
  <2> HIDE DEF r
  <2> SUFFICES ASSUME NEW d \in Clients, NEW k \in 1..MaxCalls,
                      outcome'[d][k] \in {"pending", "answered"},
                      NEW x \in task'[d][k], x.id[1] = d
               PROVE  x.id[2] <= k
    BY DEF NoLater
  <2>3. CASE x \in task[d][k]
    BY <2>1, <2>3 DEF NoLater
  <2>4. CASE d = c /\ task[c][k] = {} /\ x = r
    <3>1. outcome[c][k] # "answered"
      BY <1>0, <2>4 DEF Resolved
    <3>2. k = inv[c]
      BY <1>0, <2>1, <2>4, <3>1 DEF CallsInOrder
    <3> QED
      BY <2>2, <2>4, <3>2
  <2> QED
    BY <2>1, <2>3, <2>4
<1>2. CASE Invoke(c)
  <2>1. /\ UNCHANGED task /\ inv[c] + 1 \in 1..MaxCalls
        /\ outcome' = [outcome EXCEPT ![c][inv[c] + 1] = "pending"]
    BY <1>0, <1>2 DEF Invoke, ClientTypeOK
  <2>2. \A x \in task[c][inv[c] + 1] : x.id[1] = c => x.id[2] <= inv[c] + 1
    <3> SUFFICES ASSUME NEW x \in task[c][inv[c] + 1], x.id[1] = c PROVE x.id[2] <= inv[c] + 1
      OBVIOUS
    <3>1. x.id \in Made
      BY <1>0, <2>1 DEF Resolved
    <3>2. x.id[2] \in 1..MaxCalls /\ outcome[c][x.id[2]] # "none"
      BY <3>1 DEF Made, Calls
    <3> QED
      BY <1>0, <3>2 DEF CallsInOrder, ClientTypeOK
  <2> QED
    BY <1>0, <2>1, <2>2 DEF NoLater, ClientTypeOK
<1>3. ASSUME UNCHANGED task, \A d \in Clients, k \in 1..MaxCalls :
               outcome'[d][k] \in {"pending", "answered"} => outcome[d][k] \in {"pending", "answered"}
      PROVE  NoLater'
  BY <1>3 DEF NoLater
<1>4. CASE Complete(c) \/ TimeOut(c) \/ InvokeRejects(c)
  <2>1. UNCHANGED task /\ inv[c] \in 1..MaxCalls /\ outcome[c][inv[c]] = "pending"
    BY <1>0, <1>4 DEF Complete, TimeOut, InvokeRejects, CallsInOrder, InCall, Early
  <2>2. \E how : outcome' = [outcome EXCEPT ![c][inv[c]] = how]
    BY <1>4 DEF Complete, TimeOut, InvokeRejects, End
  <2> QED
    BY <1>0, <1>3, <2>1, <2>2 DEF ClientTypeOK
<1>5. CASE Crash(c)
  <2>1. UNCHANGED task
        /\ outcome' = IF outcome[c][inv[c]] = "pending"
                        THEN [outcome EXCEPT ![c][inv[c]] = "failed"] ELSE outcome
    BY <1>5 DEF Crash
  <2>2. \A d \in Clients, k \in 1..MaxCalls : outcome'[d][k] \in {outcome[d][k], "failed"}
    BY <1>0, <2>1 DEF ClientTypeOK
  <2> QED
    BY <1>3, <2>1, <2>2
<1>6. CASE UNCHANGED <<task, outcome>>
  BY <1>3, <1>6
<1> QED
  BY <1>1, <1>2, <1>4, <1>5, <1>6 DEF Step, Subscribe, Publish, Install

LEMMA StepKeepsOneCopy ==
  ASSUME IndInv, IndInv', OneCopy, NEW c \in Clients, Step(c)
  PROVE  OneCopy'
<1> USE ConstantFacts
<1> SUFFICES ASSUME dups' = 0, NEW d \in Clients, NEW k \in 1..MaxCalls
             PROVE  /\ (Traffic(d, <<d, k>>) + One(InTask(d, <<d, k>>)) <= One(Sent(d, k)))'
                    /\ OnePromise(d, k)'
  BY DEF OneCopy
<1> DEFINE i == <<d, k>>
           tr == Traffic(d, i)
           t == One(InTask(d, i))
           s == One(Sent(d, k))
           tr2 == Traffic(d, i)'
           t2 == One(InTask(d, i)')
           s2 == One(Sent(d, k)')
           Single == OnePromise(d, k)
<1>0. ClientTypeOK /\ CallsInOrder /\ dups = 0
  BY StepMessages DEF IndInv
<1>1. /\ tr \in Nat /\ tr2 \in Nat
      /\ Publish(c) => tr2 <= tr + One(d = c /\ k = inv[c])
      /\ UNCHANGED requests => tr2 <= tr
      /\ Receive(c) /\ d = c /\ Head(responses[c]).id = <<c, k>> => tr2 + 1 <= tr
  BY StepTraffic
<1>2. tr + t <= s /\ Single
  BY <1>0 DEF OneCopy
<1>3. /\ t \in {0, 1} /\ s \in {0, 1} /\ t2 \in {0, 1} /\ s2 \in {0, 1}
      /\ (InTask(d, i)' => InTask(d, i)) => t2 <= t
      /\ (Sent(d, k) => Sent(d, k)') => s <= s2
      /\ (~Sent(d, k) => s = 0) /\ (Sent(d, k)' => s2 = 1)
      /\ (InTask(d, i) => t = 1)
  BY DEF One
<1> HIDE DEF tr, t, s, tr2, t2, s2
<1>9. /\ tr \in Nat /\ t \in Nat /\ s \in Nat /\ tr2 \in Nat /\ t2 \in Nat /\ s2 \in Nat
      /\ t <= 1 /\ s <= 1 /\ t2 <= 1 /\ s2 <= 1
  BY <1>1, <1>3
<1> SUFFICES tr2 + t2 <= s2 /\ Single'
  BY DEF tr2, t2, s2
<1>4. CASE Publish(c)
  <2>1. UNCHANGED <<task, inv>> /\ pc[c] = "publishing" /\ pc' = [pc EXCEPT ![c] = "published"]
    BY <1>4 DEF Publish
  <2>2. t2 <= t /\ Single'
    BY <1>2, <1>3, <2>1 DEF InTask, OnePromise
  <2>3. CASE d = c /\ k = inv[c]
    <3>1. ~Sent(d, k) /\ Sent(d, k)'
      BY <1>0, <2>1, <2>3 DEF Sent, ClientTypeOK
    <3>2. tr2 <= tr + 1
      BY <1>1, <1>4, <2>3 DEF One
    <3>3. s = 0 /\ s2 = 1
      BY <1>3, <3>1
    <3> QED
      BY <1>2, <1>9, <2>2, <3>2, <3>3
  <2>4. CASE ~(d = c /\ k = inv[c])
    <3>1. Sent(d, k) => Sent(d, k)'
      BY <1>0, <2>1, <2>4 DEF Sent, ClientTypeOK
    <3>2. tr2 <= tr
      BY <1>1, <1>4, <2>4 DEF One
    <3>3. s <= s2
      BY <1>3, <3>1
    <3> QED
      BY <1>2, <1>9, <2>2, <3>2, <3>3
  <2> QED
    BY <2>3, <2>4
<1>5. CASE Receive(c)
  <2> DEFINE r == Head(responses[c])
  <2>1. /\ UNCHANGED <<pc, inv, requests>>
        /\ \A e \in Clients, n \in 1..MaxCalls :
             task'[e][n] = IF e = c /\ n = deferred[c] /\ task[c][n] = {} THEN {r} ELSE task[e][n]
    BY <1>5, ReceiveFacts
  <2>2. s <= s2 /\ tr2 <= tr
    BY <1>1, <1>3, <2>1 DEF Sent
  <2>3. CASE d = c /\ r.id = i
    <3>1. tr2 + 1 <= tr
      BY <1>1, <1>5, <2>3
    <3>2. t = 0
      BY <1>2, <1>9, <3>1
    <3>3. \A n \in 1..MaxCalls : \A x \in task[d][n] : x.id # i
      BY <1>3, <3>2 DEF InTask
    <3>4. Single'
      <4> HIDE DEF r, i
      <4>1. \A n \in 1..MaxCalls : \A x \in task'[d][n] : x.id = i => n = deferred[c]
        BY <2>1, <3>3
      <4> QED
        BY <4>1 DEF i, OnePromise
    <3> QED
      BY <1>2, <1>9, <2>2, <3>1, <3>2, <3>4
  <2>4. CASE ~(d = c /\ r.id = i)
    <3> HIDE DEF r, i
    <3>1. \A n \in 1..MaxCalls : \A x \in task'[d][n] : x.id = i => x \in task[d][n]
      BY <2>1, <2>4
    <3>2. InTask(d, i)' => InTask(d, i)
      BY <3>1 DEF InTask, i
    <3>3. t2 <= t
      BY <1>3, <3>2
    <3>4. Single'
      BY <1>2, <3>1 DEF i, OnePromise
    <3> QED
      BY <1>2, <1>9, <2>2, <3>3, <3>4
  <2> QED
    BY <2>3, <2>4
<1>6. CASE Invoke(c)
  <2>1. UNCHANGED task /\ inv' = [inv EXCEPT ![c] = @ + 1] /\ pc[c] = "idle"
        /\ \A e \in Clients : e # c => pc'[e] = pc[e]
    BY <1>0, <1>6 DEF Invoke, ClientTypeOK
  <2>2. t2 <= t /\ tr2 <= tr /\ Single'
    BY <1>1, <1>2, <1>3, <1>6, <2>1 DEF InTask, OnePromise, Invoke, brokerVars
  <2>3. Sent(d, k) => Sent(d, k)'
    BY <1>0, <2>1 DEF Sent, ClientTypeOK
  <2>4. s <= s2
    BY <1>3, <2>3
  <2> QED
    BY <1>2, <1>9, <2>2, <2>4
<1>7. CASE Subscribe(c) \/ Install(c) \/ Complete(c) \/ TimeOut(c) \/ InvokeRejects(c) \/ Crash(c)
  <2>1. UNCHANGED <<task, inv, requests>>
    BY <1>7 DEF Subscribe, Install, Complete, TimeOut, InvokeRejects, Crash, brokerVars
  <2>2. \A e \in Clients : pc[e] \notin {"subscribing", "publishing"} => pc'[e] \notin {"subscribing", "publishing"}
    BY <1>0, <1>7 DEF Subscribe, Install, Complete, TimeOut, InvokeRejects, Crash, ClientTypeOK
  <2>3. t2 <= t /\ tr2 <= tr /\ Single'
    BY <1>1, <1>2, <1>3, <2>1 DEF InTask, OnePromise
  <2>4. Sent(d, k) => Sent(d, k)'
    BY <2>1, <2>2 DEF Sent
  <2>5. s <= s2
    BY <1>3, <2>4
  <2> QED
    BY <1>2, <1>9, <2>3, <2>5
<1> QED
  BY <1>4, <1>5, <1>6, <1>7 DEF Step

(* Only a redelivery adds to the traffic of a call.                           *)
LEMMA ServerKeepsOneCopy ==
  ASSUME IndInv, IndInv', OneCopy, ServerNext \/ BrokerNext, UNCHANGED clientVars
  PROVE  OneCopy'
<1>1. UNCHANGED <<pc, inv, task>>
  BY DEF clientVars
<1>2. Typed /\ Typed' /\ dups \in Nat
  <2>1. Typed /\ Typed'
    BY MessagesTyped, PTL
  <2>2. dups \in 0..MaxDup
    BY DEF IndInv, CountersOK
  <2> QED
    BY <2>1, <2>2, ConstantFacts
<1>3. dups' = 0 => dups = 0
  <2>1. dups' = dups \/ dups' = dups + 1
    BY <1>2, DupsGrow
  <2> QED
    BY <1>2, <2>1
<1> SUFFICES ASSUME dups' = 0, NEW c \in Clients, NEW k \in 1..MaxCalls
             PROVE  (Traffic(c, <<c, k>>) + One(InTask(c, <<c, k>>)) <= One(Sent(c, k)))'
  <2>1. \A c \in Clients, k \in 1..MaxCalls : OnePromise(c, k)' = OnePromise(c, k)
    BY <1>1 DEF OnePromise
  <2> QED
    BY <1>3, <2>1 DEF OneCopy
<1> DEFINE i == <<c, k>>
           tr == Traffic(c, i)
           tr2 == Traffic(c, i)'
           t == One(InTask(c, i))
           s == One(Sent(c, k))
<1>4. i \in Ids
  BY ConstantFacts DEF Calls
<1>5. tr2 <= tr + (dups' - dups)
  BY <1>2, <1>4, TrafficFalls
<1>6. tr + t <= s
  BY <1>3 DEF OneCopy
<1>7. tr \in Nat /\ tr2 \in Nat
  <2>1. Waiting(i) \in Nat /\ Working(i) \in Nat /\ Heard(c, ResponsesOf({i})) \in Nat
    BY <1>2, Sequences
  <2>2. Waiting(i)' \in Nat /\ Working(i)' \in Nat /\ Heard(c, ResponsesOf({i}))' \in Nat
    <3>1. /\ requests' \in Seq(RequestsOf(Ids)) /\ jobs' \in Seq(RequestsOf(Ids))
          /\ responses' \in [Clients -> Seq(ResponsesOf(Ids))]
      BY <1>2 DEF Typed, MessagesWithin, RequestsOf, ResponsesOf
    <3>2. /\ Copies(requests', RequestsOf({i})) \in Nat /\ Copies(jobs', RequestsOf({i})) \in Nat
          /\ Copies(responses'[c], ResponsesOf({i})) \in Nat
      BY <3>1, CopiesNat
    <3> QED
      BY <3>2 DEF Waiting, Working, Heard
  <2> HIDE DEF i
  <2>3. Waiting(i) + Working(i) + Heard(c, ResponsesOf({i})) \in Nat
    BY <2>1
  <2> DEFINE w2 == Waiting(i)'
             k2 == Working(i)'
             h2 == Heard(c, ResponsesOf({i}))'
  <2>4. w2 + k2 + h2 \in Nat
    <3>1. w2 \in Nat /\ k2 \in Nat /\ h2 \in Nat
      BY <2>2
    <3> HIDE DEF w2, k2, h2
    <3> QED
      BY <3>1
  <2> QED
    BY <2>3, <2>4 DEF Traffic
<1>8. t \in Nat /\ s \in Nat
  BY DEF One
<1>9. InTask(c, i)' <=> InTask(c, i)
  BY <1>1 DEF InTask
<1>10. Sent(c, k)' <=> Sent(c, k)
  BY <1>1 DEF Sent
<1>11. One(InTask(c, i)') = t /\ One(Sent(c, k)') = s
  BY <1>9, <1>10 DEF One
<1> HIDE DEF i, tr, tr2, t, s
<1>12. tr2 + t <= s
  BY <1>3, <1>5, <1>6, <1>7, <1>8
<1>13. tr2 + One(InTask(c, i)') <= One(Sent(c, k)')
  BY <1>11, <1>12
<1> QED
  BY <1>13 DEF tr2, i

LEMMA MixUpInvariance == Spec => [](IndInv /\ OneCopy /\ NoLater)
<1>1. Init => OneCopy /\ NoLater
  <2> HAVE Init
  <2>0. requests = <<>> /\ jobs = <<>> /\ responses = [c \in Clients |-> <<>>]
    BY DEF Init, BrokerInit, ServerInit
  <2>1. \A S : Copies(<<>>, S) = 0
    BY NoCopies
  <2>2. \A c \in Clients : \A i : Traffic(c, i) = 0
    BY <2>0, <2>1 DEF Traffic, Waiting, Working, Heard
  <2>3. \A c \in Clients : \A i : ~InTask(c, i)
    BY DEF Init, InTask
  <2>4. \A b : One(b) >= 0
    BY DEF One
  <2>5. \A c \in Clients, n \in 1..MaxCalls : task[c][n] = {}
    BY DEF Init
  <2> QED
    BY <2>2, <2>3, <2>4, <2>5 DEF OneCopy, OnePromise, NoLater, One
<1>2. IndInv /\ IndInv' /\ OneCopy /\ NoLater /\ [Next]_vars => OneCopy' /\ NoLater'
  <2> SUFFICES ASSUME IndInv, IndInv', OneCopy, NoLater, [Next]_vars PROVE OneCopy' /\ NoLater'
    OBVIOUS
  <2>1. ASSUME NEW c \in Clients, Step(c) PROVE OneCopy' /\ NoLater'
    BY <2>1, StepKeepsOneCopy, StepKeepsNoLater
  <2>2. CASE (ServerNext \/ BrokerNext) /\ UNCHANGED clientVars
    <3>1. NoLater'
      BY <2>2 DEF NoLater, clientVars
    <3> QED
      BY <2>2, <3>1, ServerKeepsOneCopy
  <2>3. CASE UNCHANGED vars
    <3>1. UNCHANGED <<requests, responses, dups, jobs, pc, inv, task, outcome>>
      BY <2>3 DEF vars, brokerVars, serverVars, clientVars
    <3>2. OneCopy'
      <4>1. \A d \in Clients : \A i : Traffic(d, i)' = Traffic(d, i)
        BY <3>1 DEF Traffic, Waiting, Working, Heard
      <4>2. \A d \in Clients, k \in 1..MaxCalls :
              /\ One(InTask(d, <<d, k>>))' = One(InTask(d, <<d, k>>))
              /\ One(Sent(d, k))' = One(Sent(d, k))
        BY <3>1 DEF One, InTask, Sent
      <4>3. \A d \in Clients, k \in 1..MaxCalls : OnePromise(d, k)' = OnePromise(d, k)
        BY <3>1 DEF OnePromise
      <4>4. ASSUME dups' = 0, NEW d \in Clients, NEW k \in 1..MaxCalls
            PROVE  /\ Traffic(d, <<d, k>>)' + One(InTask(d, <<d, k>>))' <= One(Sent(d, k))'
                   /\ OnePromise(d, k)'
        BY <3>1, <4>1, <4>2, <4>3, <4>4 DEF OneCopy
      <4> QED
        BY <4>4 DEF OneCopy
    <3> QED
      BY <3>1, <3>2 DEF NoLater
  <2> QED
    BY <2>1, <2>2, <2>3 DEF Next
<1> QED
  BY <1>1, <1>2, Invariance, PTL DEF Spec

(* For every set of clients on the topic, number of calls and of redeliveries: a    *)
(* client that is answered with something else than its response owes it to        *)
(* another client, to a repetition, or to an earlier call of its own that ended     *)
(* without its response.                                                      *)
THEOREM MixUpsHaveACause == Spec => []MixUpHasACause
<1>1. IndInv /\ OneCopy /\ NoLater => MixUpHasACause
  <2> SUFFICES ASSUME IndInv, OneCopy, NoLater, NEW c \in Clients, NEW k \in 1..MaxCalls,
                      outcome[c][k] = "answered", NEW r \in task[c][k],
                      r.id # <<c, k>>, r.id[1] = c, ~(dups > 0)
               PROVE  \E j \in 1..(k - 1) : r.id = <<c, j>> /\ ~AnsweredByItsOwn(c, j)
    BY DEF MixUpHasACause
  <2>1. dups = 0
    BY ConstantFacts DEF IndInv, CountersOK
  <2>2. r.id \in Calls
    BY ConstantFacts DEF IndInv, Resolved
  <2> PICK j \in 1..MaxCalls : r.id = <<c, j>>
    BY <2>2 DEF Calls
  <2>3. j <= k
    BY DEF NoLater
  <2>4. j \in 1..(k - 1)
    BY <2>3, ConstantFacts
  <2>5. ~AnsweredByItsOwn(c, j)
    <3> SUFFICES ASSUME AnsweredByItsOwn(c, j) PROVE FALSE
      OBVIOUS
    <3>1. outcome[c][j] = "answered" /\ \A x \in task[c][j] : x.id = <<c, j>>
      BY DEF AnsweredByItsOwn
    <3>2. PICK x \in task[c][j] : x.id = <<c, j>>
      BY <3>1 DEF IndInv, Resolved
    <3>3. j = k
      BY <2>1, <3>2 DEF OneCopy, OnePromise
    <3> QED
      BY <3>3
  <2> QED
    BY <2>4, <2>5
<1> QED
  BY <1>1, MixUpInvariance, PTL

-----------------------------------------------------------------------------
(* The client keeps the promise of CommandCall, but for liveness: each step      *)
(* opens, performs or ends one call, or changes nothing of it.                 *)
Shown(c, k) ==
  CASE outcome[c][k] = "none"     -> "new"
    [] outcome[c][k] = "pending"  -> "open"
    [] outcome[c][k] = "answered" ->
         IF \E r \in task[c][k] : r.id # <<c, k>> THEN "mistaken" ELSE "answered"
    [] OTHER                      -> "failed"

LEMMA ShownAs ==
  /\ phaseBar = [c \in Clients |-> [k \in 1..MaxCalls |-> Shown(c, k)]]
  /\ \A c \in Clients, k \in 1..MaxCalls : phaseBar[c][k] = Shown(c, k)
<1>1. phaseBar = [c \in Clients |-> [k \in 1..MaxCalls |-> Shown(c, k)]]
  BY DEF phaseBar, Shown
<1> QED
  BY <1>1

(* A call whose outcome and, if it is answered, whose source stay is shown as before. *)
LEMMA ShownStays ==
  ASSUME NEW c \in Clients, NEW k \in 1..MaxCalls, outcome'[c][k] = outcome[c][k],
         outcome[c][k] = "answered" => task'[c][k] = task[c][k]
  PROVE  Shown(c, k)' = Shown(c, k)
BY DEF Shown

LEMMA PhaseStays ==
  ASSUME \A d \in Clients, j \in 1..MaxCalls : Shown(d, j)' = Shown(d, j)
  PROVE  UNCHANGED phaseBar
<1>1. /\ phaseBar = [d \in Clients |-> [j \in 1..MaxCalls |-> Shown(d, j)]]
      /\ phaseBar' = [d \in Clients |-> [j \in 1..MaxCalls |-> Shown(d, j)']]
  BY DEF phaseBar, Shown
<1> QED
  BY <1>1, ZenonT(60)

LEMMA PhaseMoves ==
  ASSUME NEW c \in Clients, NEW k \in 1..MaxCalls, NEW v, Shown(c, k)' = v,
         \A d \in Clients, j \in 1..MaxCalls : ~(d = c /\ j = k) => Shown(d, j)' = Shown(d, j)
  PROVE  phaseBar' = [phaseBar EXCEPT ![c][k] = v]
<1>1. /\ phaseBar = [d \in Clients |-> [j \in 1..MaxCalls |-> Shown(d, j)]]
      /\ phaseBar' = [d \in Clients |-> [j \in 1..MaxCalls |-> Shown(d, j)']]
  BY DEF phaseBar, Shown
<1>2. \A d \in Clients :
        [j \in 1..MaxCalls |-> Shown(d, j)']
          = IF d = c THEN [phaseBar[c] EXCEPT ![k] = v] ELSE phaseBar[d]
  <2> TAKE d \in Clients
  <2>1. phaseBar[d] = [j \in 1..MaxCalls |-> Shown(d, j)]
    BY <1>1
  <2>2. CASE d = c
    <3>1. \A j \in 1..MaxCalls : Shown(d, j)' = IF j = k THEN v ELSE Shown(d, j)
      BY <2>2
    <3> QED
      BY <2>1, <2>2, <3>1, ZenonT(60)
  <2>3. CASE d # c
    <3>1. \A j \in 1..MaxCalls : Shown(d, j)' = Shown(d, j)
      BY <2>3
    <3> QED
      BY <2>1, <2>3, <3>1
  <2> QED
    BY <2>2, <2>3
<1> QED
  BY <1>1, <1>2

(* What a step of a client is to CommandCall: the beginning of its next call, or    *)
(* the end of its open one.                                                   *)
LEMMA StepKeepsPromise ==
  ASSUME IndInv, NEW c \in Clients, Step(c)
  PROVE  [Promise!SharedNext]_(Promise!callVars)
<1> USE ConstantFacts
<1>0. /\ ClientTypeOK /\ CallsInOrder /\ Fields /\ Resolved /\ UNCHANGED executed
  BY StepMessages DEF IndInv, serverVars
<1>1. UNCHANGED performedBar
  BY <1>0 DEF performedBar
<1>2. CASE Invoke(c)
  <2>0. inv[c] + 1 \in 1..MaxCalls
    BY <1>0, <1>2 DEF Invoke, ClientTypeOK
  <2> PICK k \in 1..MaxCalls : k = inv[c] + 1
    BY <2>0
  <2>1. /\ ~InCall(c) /\ UNCHANGED task
        /\ \A d \in Clients, j \in 1..MaxCalls :
             outcome'[d][j] = IF d = c /\ j = k THEN "pending" ELSE outcome[d][j]
    BY <1>0, <1>2 DEF Invoke, ClientTypeOK, InCall, Early
  <2>2. outcome[c][k] = "none"
    BY <1>0, <2>1 DEF CallsInOrder, ClientTypeOK
  <2>3. \A j \in 1..(k - 1) : j \in 1..MaxCalls /\ outcome[c][j] \in {"answered", "timedOut", "failed"}
    BY <1>0, <2>1 DEF CallsInOrder, ClientTypeOK, Outcomes
  <2>4. phaseBar[c][k] = "new"
    BY <2>1, <2>2, ShownAs DEF Shown
  <2>5. \A j \in 1..(k - 1) : phaseBar[c][j] \in Promise!Closed
    BY <2>1, <2>3, ShownAs DEF Shown, Promise!Closed
  <2>6. phaseBar' = [phaseBar EXCEPT ![c][k] = "open"]
    <3>1. Shown(c, k)' = "open"
      BY <2>1 DEF Shown
    <3>2. \A d \in Clients, j \in 1..MaxCalls : ~(d = c /\ j = k) => Shown(d, j)' = Shown(d, j)
      BY <2>1, ShownStays
    <3> QED
      BY <3>1, <3>2, PhaseMoves
  <2>7. Promise!Open(c, k)
    BY <1>1, <2>4, <2>5, <2>6 DEF Promise!Open
  <2> QED
    BY <2>7 DEF Promise!CallNext, Promise!SharedNext
<1>3. ASSUME NEW k \in 1..MaxCalls, outcome[c][k] = "pending", UNCHANGED task,
             NEW how \in {"answered", "timedOut", "failed"}, outcome' = [outcome EXCEPT ![c][k] = how],
             how = "answered" => task[c][k] # {}
      PROVE  Promise!SharedNext
  <2>1. phaseBar[c][k] = "open"
    BY <1>3, ShownAs DEF Shown
  <2>2. \A d \in Clients, j \in 1..MaxCalls :
          outcome'[d][j] = IF d = c /\ j = k THEN how ELSE outcome[d][j]
    BY <1>0, <1>3 DEF ClientTypeOK
  <2>3. phaseBar' = [phaseBar EXCEPT ![c][k] = Shown(c, k)']
    <3>1. \A d \in Clients, j \in 1..MaxCalls : ~(d = c /\ j = k) => Shown(d, j)' = Shown(d, j)
      BY <1>3, <2>2, ShownStays
    <3> DEFINE v == Shown(c, k)'
    <3>2. Shown(c, k)' = v
      OBVIOUS
    <3> HIDE DEF v
    <3>3. phaseBar' = [phaseBar EXCEPT ![c][k] = v]
      BY <3>1, <3>2, PhaseMoves
    <3> QED
      BY <3>3 DEF v
  <2>4. CASE how = "answered" /\ \A r \in task[c][k] : r.id = <<c, k>>
    <3>1. Shown(c, k)' = "answered"
      BY <1>3, <2>2, <2>4 DEF Shown
    <3>2. <<c, k>> \in performedBar
      <4>1. PICK r \in task[c][k] : r.id = <<c, k>> /\ executed[r.id] > 0
        BY <1>0, <1>3, <2>4 DEF Resolved
      <4> QED
        BY <4>1 DEF performedBar, Calls
    <3>3. Promise!Answer(c, k)
      BY <1>1, <2>1, <2>3, <3>1, <3>2 DEF Promise!Answer
    <3> QED
      BY <3>3 DEF Promise!CallNext, Promise!SharedNext
  <2>5. CASE how = "answered" /\ \E r \in task[c][k] : r.id # <<c, k>>
    <3>1. Shown(c, k)' = "mistaken"
      BY <1>3, <2>2, <2>5 DEF Shown
    <3>2. PICK r \in task[c][k] : r.id # <<c, k>>
      BY <2>5
    <3>3. executed[r.id] > 0 /\ r.id \in Calls
      BY <1>0, <3>2 DEF Resolved
    <3>4. performedBar \ {<<c, k>>} # {}
      BY <3>2, <3>3 DEF performedBar
    <3>5. Promise!Mistake(c, k)
      BY <1>1, <2>1, <2>3, <3>1, <3>4 DEF Promise!Mistake
    <3> QED
      BY <3>5 DEF Promise!SharedNext
  <2>6. CASE how # "answered"
    <3>1. Shown(c, k)' = "failed"
      BY <1>3, <2>2, <2>6 DEF Shown
    <3>2. Promise!Fail(c, k)
      BY <1>1, <2>1, <2>3, <3>1 DEF Promise!Fail
    <3> QED
      BY <3>2 DEF Promise!CallNext, Promise!SharedNext
  <2> QED
    BY <2>4, <2>5, <2>6
<1>4. InCall(c) => inv[c] \in 1..MaxCalls /\ outcome[c][inv[c]] = "pending"
  BY <1>0 DEF CallsInOrder
<1>5. CASE Complete(c) \/ TimeOut(c) \/ InvokeRejects(c)
  <2>1. InCall(c) /\ UNCHANGED task
    BY <1>5 DEF Complete, TimeOut, InvokeRejects, InCall, Early
  <2>2. PICK how \in {"answered", "timedOut", "failed"} :
          /\ outcome' = [outcome EXCEPT ![c][inv[c]] = how]
          /\ how = "answered" => Complete(c)
    BY <1>5 DEF Complete, TimeOut, InvokeRejects, End
  <2>3. Complete(c) => task[c][inv[c]] # {}
    BY <1>0 DEF Complete, Fields
  <2> QED
    BY <1>3, <1>4, <2>1, <2>2, <2>3
<1>6. CASE Receive(c)
  <2>1. /\ UNCHANGED outcome
        /\ \A d \in Clients, j \in 1..MaxCalls : task[d][j] # {} => task'[d][j] = task[d][j]
    BY <1>6, ReceiveFacts
  <2>2. \A d \in Clients, j \in 1..MaxCalls : outcome[d][j] = "answered" => task[d][j] # {}
    BY <1>0 DEF Resolved
  <2>3. \A d \in Clients, j \in 1..MaxCalls : Shown(d, j)' = Shown(d, j)
    BY <2>1, <2>2, ShownStays
  <2>4. UNCHANGED phaseBar
    BY <2>3, PhaseStays
  <2> QED
    BY <1>1, <2>4 DEF Promise!callVars
<1>7. CASE UNCHANGED <<outcome, task>>
  <2>1. UNCHANGED phaseBar
    BY <1>7 DEF phaseBar
  <2> QED
    BY <1>1, <2>1 DEF Promise!callVars
<1>8. CASE Crash(c)
  <2>1. /\ UNCHANGED task
        /\ outcome' = IF outcome[c][inv[c]] = "pending"
                        THEN [outcome EXCEPT ![c][inv[c]] = "failed"] ELSE outcome
    BY <1>8 DEF Crash
  <2>2. CASE InCall(c)
    BY <1>3, <1>4, <2>1, <2>2
  <2>3. CASE ~InCall(c) /\ inv[c] # 0
    <3>1. inv[c] \in 1..MaxCalls
      BY <1>0, <2>3 DEF ClientTypeOK
    <3>2. outcome[c][inv[c]] # "pending"
      BY <1>0, <2>3, <3>1 DEF CallsInOrder
    <3> QED
      BY <1>7, <2>1, <3>2
  <2>4. CASE ~InCall(c) /\ inv[c] = 0
    <3>1. outcome[c] \in [1..MaxCalls -> Outcomes]
      BY <1>0 DEF ClientTypeOK
    <3>2. [outcome EXCEPT ![c][0] = "failed"] = outcome
      BY <1>0, <3>1 DEF ClientTypeOK
    <3> QED
      BY <1>7, <2>1, <2>4, <3>2
  <2> QED
    BY <2>2, <2>3, <2>4
<1> QED
  BY <1>2, <1>5, <1>6, <1>7, <1>8 DEF Step, Subscribe, Publish, Install

(* Only a command that was made is performed.                                *)
LEMMA ServerKeepsPromise ==
  ASSUME IndInv, ServerNext \/ BrokerNext, UNCHANGED clientVars
  PROVE  [Promise!SharedNext]_(Promise!callVars)
<1>1. UNCHANGED phaseBar
  BY DEF clientVars, phaseBar
<1>2. executed \in [Ids -> Nat]
  BY DEF IndInv, CountersOK
<1>3. UNCHANGED executed \/ \E i \in Made \cap Ids : executed' = [executed EXCEPT ![i] = @ + 1]
  BY MessagesTyped, ExecutedOnce DEF IndInv
<1>4. ASSUME NEW i \in Made \cap Ids, executed' = [executed EXCEPT ![i] = @ + 1]
      PROVE  Promise!SharedNext
  <2>1. PICK c \in Clients, k \in 1..MaxCalls : i = <<c, k>>
    BY <1>4 DEF Made, Calls
  <2>2. phaseBar[c][k] # "new"
    <3>1. outcome[c][k] \in Outcomes \ {"none"}
      BY <1>4, <2>1, ZenonT(60) DEF Made, IndInv, ClientTypeOK
    <3> QED
      BY <3>1, ShownAs DEF Outcomes, Shown
  <2>3. performedBar' = performedBar \cup {<<c, k>>}
    BY <1>2, <1>4, <2>1, ConstantFacts DEF performedBar, Made
  <2>4. Promise!Perform(c, k)
    BY <1>1, <2>2, <2>3 DEF Promise!Perform
  <2> QED
    BY <2>4 DEF Promise!CallNext, Promise!SharedNext
<1>5. CASE UNCHANGED executed
  BY <1>1, <1>5 DEF performedBar, Promise!callVars
<1> QED
  BY <1>3, <1>4, <1>5

(* Whichever server answers and whoever else is on the topic, whatever is lost,      *)
(* repeated, refused or ends the process: calls are made one at a time and end       *)
(* once; a call answered with its own response was performed, one that is mixed up   *)
(* shows another call that was.  The safety part of ImplementsCall.               *)
THEOREM ClientKeepsPromise ==
  Spec => Promise!CallInit /\ [][Promise!SharedNext]_(Promise!callVars)
<1>1. Init => Promise!CallInit
  <2> HAVE Init
  <2>1. \A c \in Clients, k \in 1..MaxCalls : Shown(c, k) = "new"
    BY DEF Init, Shown
  <2>2. phaseBar = [c \in Clients |-> [k \in 1..MaxCalls |-> "new"]]
    BY <2>1, ShownAs
  <2>3. performedBar = {}
    BY ConstantFacts DEF Init, ServerInit, performedBar
  <2> QED
    BY <2>2, <2>3 DEF Promise!CallInit
<1>2. IndInv /\ [Next]_vars => [Promise!SharedNext]_(Promise!callVars)
  <2> SUFFICES ASSUME IndInv, [Next]_vars PROVE [Promise!SharedNext]_(Promise!callVars)
    OBVIOUS
  <2>1. ASSUME NEW c \in Clients, Step(c) PROVE [Promise!SharedNext]_(Promise!callVars)
    BY <2>1, StepKeepsPromise
  <2>2. CASE (ServerNext \/ BrokerNext) /\ UNCHANGED clientVars
    BY <2>2, ServerKeepsPromise
  <2>3. CASE UNCHANGED vars
    BY <2>3 DEF vars, serverVars, clientVars, phaseBar, performedBar, Promise!callVars
  <2> QED
    BY <2>1, <2>2, <2>3 DEF Next
<1> QED
  BY <1>1, <1>2, Invariance, PTL DEF Spec
=============================================================================
