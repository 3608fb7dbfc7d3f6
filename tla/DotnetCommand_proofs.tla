------------------------ MODULE DotnetCommand_proofs ------------------------
(***************************************************************************)
(* Proofs about the .NET command client in front of any of the servers, for   *)
(* every set of clients, number of calls, number of redeliveries, kind of     *)
(* server, and for callers that stop at a failed call and callers that retry. *)
(*                                                                         *)
(* Three facts carry what holds of all of them.  Types; that a client only     *)
(* ever handles ids that are its own (OwnIds); and that the source the handler *)
(* completes is never ahead of the call InvokeAsync is making (SourceOrder).  *)
(*                                                                         *)
(* What an answer is worth rests on CallInv (calls are made in order, and what  *)
(* a client took up was executed) and on RaceInv, which accounts for every      *)
(* response in a handler's hand or in a source: it is the call's own, or the    *)
(* call was begun while the handler held the response to an earlier one.       *)
(***************************************************************************)
EXTENDS DotnetCommand, CommandServer_proofs

ClientTypeOK ==
  /\ pc \in [Clients -> PcValues]
  /\ inv \in [Clients -> 0..MaxCalls]
  /\ correlationId \in [Clients -> Calls \cup {NullId}]
  /\ tcs \in [Clients -> 0..MaxCalls]
  /\ task \in [Clients -> [0..MaxCalls -> SUBSET Response]]
  /\ hand \in [Clients -> SUBSET Response]
  /\ outcome \in [Clients -> [1..MaxCalls -> Outcomes]]
  /\ straddled \subseteq Calls
  /\ spent \subseteq Calls \X (0..MaxCalls)

(* A call is under way from Invoke to its end, and its number is in range.    *)
InCall == \A c \in Clients : pc[c] # "idle" => inv[c] \in 1..MaxCalls

(* No message has the null id, and what a client compares, holds or has        *)
(* completed a source with carries its own name.                             *)
OwnIds ==
  /\ MessagesWithin(Calls)
  /\ \A c \in Clients :
       /\ correlationId[c] = NullId => pc[c] = "idle"
       /\ correlationId[c] # NullId => correlationId[c][1] = c
       /\ \A r \in hand[c] : r.id \in Calls /\ r.id[1] = c
       /\ \A k \in 0..MaxCalls : \A r \in task[c][k] : r.id[1] = c

(* A source is installed by its own call after the publish, and no source is   *)
(* completed before it is installed.                                         *)
SourceOrder ==
  \A c \in Clients :
    /\ tcs[c] <= inv[c]
    /\ pc[c] = "waiting" => tcs[c] = inv[c]
    /\ pc[c] \in {"subscribing", "publishing", "published"} => tcs[c] < inv[c]
    /\ \A k \in 0..MaxCalls : k > tcs[c] => task[c][k] = {}

IndInv == CountersOK /\ ClientTypeOK /\ InCall /\ OwnIds /\ SourceOrder

-----------------------------------------------------------------------------
LEMMA ConstantFacts ==
  /\ MaxCalls \in Nat /\ MaxCalls >= 1 /\ MaxDup \in Nat
  /\ 0 \in 0..MaxCalls /\ 1..MaxCalls \subseteq 0..MaxCalls
  /\ NullId \notin Calls /\ Calls \subseteq Ids
  /\ \A c \in Clients : CallsOf[c] \in 1..MaxCalls
<1>1. \A c \in Clients : CallsOf[c] \in 1..MaxCalls
  BY CallerAssumption
<1> QED
  BY <1>1, BrokerAssumption DEF NullId, Calls, Ids

LEMMA IndInvImpliesTypeOK == IndInv => TypeOK
<1> HAVE IndInv
<1>1. BrokerTypeOK /\ ServerTypeOK
  BY MessagesWiden, TypesOfMessages, ConstantFacts DEF IndInv, OwnIds
<1> QED
  BY <1>1 DEF IndInv, ClientTypeOK, TypeOK

LEMMA IndInvInit == Init => IndInv
<1> HAVE Init
<1>1. CountersOK
  BY ConstantFacts DEF Init, BrokerInit, ServerInit, CountersOK
<1>2. ClientTypeOK
  BY ConstantFacts DEF Init, ClientTypeOK, PcValues, Ended, Outcomes
<1>3. MessagesWithin(Calls)
  BY EmptySeq DEF Init, BrokerInit, ServerInit, MessagesWithin
<1>4. InCall /\ SourceOrder
  BY ConstantFacts DEF Init, InCall, SourceOrder
<1>5. OwnIds
  BY <1>3, ConstantFacts DEF Init, OwnIds
<1> QED
  BY <1>1, <1>2, <1>4, <1>5 DEF IndInv

-----------------------------------------------------------------------------
(* One client's steps; each leaves the server alone.                         *)
LEMMA ClientKeepsTypes ==
  ASSUME IndInv, NEW c \in Clients, Step(c)
  PROVE  CountersOK' /\ ClientTypeOK' /\ InCall'
<1> USE ConstantFacts DEF IndInv, ClientTypeOK, InCall, PcValues, Ended, Outcomes, End, AfterFailure
<1>0. UNCHANGED serverVars /\ UNCHANGED dups /\ subscribed' \in SUBSET Clients
  BY DEF Step, Invoke, Subscribe, Publish, Install, Complete, TimeOut, InvokeThrows,
         Receive, Discard, SetResult, brokerVars, serverVars, CountersOK
<1>1. CountersOK'
  BY <1>0 DEF CountersOK, serverVars
<1>2. CASE Invoke(c)
  <2>1. inv[c] + 1 \in 1..MaxCalls /\ <<c, inv[c] + 1>> \in Calls
    BY <1>2 DEF Invoke, Calls
  <2>2. correlationId' \in [Clients -> Calls \cup {NullId}]
    BY <1>2, <2>1 DEF Invoke, NewCorrelation
  <2>3. inv' \in [Clients -> 0..MaxCalls] /\ pc' \in [Clients -> PcValues]
    BY <1>2, <2>1 DEF Invoke
  <2>4. outcome' \in [Clients -> [1..MaxCalls -> Outcomes]]
    BY <1>2, <2>1 DEF Invoke
  <2>5. InCall'
    BY <1>2, <2>1 DEF Invoke
  <2>6. straddled' \subseteq Calls
    BY <1>2, <2>1 DEF Invoke, NewCorrelation
  <2> QED
    BY <1>1, <1>2, <2>2, <2>3, <2>4, <2>5, <2>6 DEF Invoke
<1>3. CASE Subscribe(c)
  BY <1>1, <1>3 DEF Subscribe
<1>4. CASE Publish(c)
  BY <1>1, <1>4 DEF Publish
<1>5. CASE Install(c)
  BY <1>1, <1>5 DEF Install
<1>6. CASE Complete(c)
  BY <1>1, <1>6 DEF Complete
<1>7. CASE TimeOut(c)
  BY <1>1, <1>7 DEF TimeOut
<1>8. CASE InvokeThrows(c)
  BY <1>1, <1>8 DEF InvokeThrows
<1>9. CASE Receive(c)
  <2>1. Head(responses[c]) \in Response
    BY <1>9, SequenceTypes, IndInvImpliesTypeOK DEF Receive, TypeOK, BrokerTypeOK
  <2>2. hand' \in [Clients -> SUBSET Response]
    BY <1>9, <2>1 DEF Receive
  <2> QED
    BY <1>1, <1>9, <2>2 DEF Receive
<1>10. CASE Discard(c)
  BY <1>1, <1>10 DEF Discard, clientVars
<1>11. CASE SetResult(c)
  <2>1. task' \in [Clients -> [0..MaxCalls -> SUBSET Response]]
    BY <1>11 DEF SetResult
  <2>2. hand' \in [Clients -> SUBSET Response]
    BY <1>11 DEF SetResult
  <2>3. spent' \subseteq Calls \X (0..MaxCalls)
    BY <1>11 DEF SetResult, Spend, OwnIds
  <2> QED
    BY <1>1, <1>11, <2>1, <2>2, <2>3 DEF SetResult
<1> QED
  BY <1>2, <1>3, <1>4, <1>5, <1>6, <1>7, <1>8, <1>9, <1>10, <1>11 DEF Step

(* Only a call publishes, and it publishes its own id.                       *)
LEMMA ClientKeepsMessages ==
  ASSUME IndInv, NEW c \in Clients, Step(c)
  PROVE  MessagesWithin(Calls)'
<1>0. MessagesWithin(Calls) /\ UNCHANGED jobs
  BY DEF IndInv, OwnIds, Step, Invoke, Subscribe, Publish, Install, Complete, TimeOut,
         InvokeThrows, Receive, Discard, SetResult, serverVars
<1>1. CASE Publish(c)
  <2>1. RequestOf(c) \in RequestsOf(Calls)
    BY <1>1, ConstantFacts DEF Publish, IndInv, OwnIds, ClientTypeOK, RequestOf, RequestsOf,
       Request, ContentTypes, RequestPayloads
  <2>2. Append(requests, RequestOf(c)) \in Seq(RequestsOf(Calls))
    BY <1>0, <2>1, SequenceTypes DEF MessagesWithin
  <2> QED
    BY <1>0, <1>1, <2>2 DEF Publish, MessagesWithin
<1>2. CASE Receive(c) \/ Discard(c)
  <2>1. Tail(responses[c]) \in Seq(ResponsesOf(Calls))
    BY <1>0, <1>2, SequenceTypes DEF Receive, Discard, MessagesWithin
  <2> QED
    BY <1>0, <1>2, <2>1 DEF Receive, Discard, MessagesWithin
<1>3. CASE UNCHANGED <<requests, responses>>
  BY <1>0, <1>3 DEF MessagesWithin
<1> QED
  BY <1>1, <1>2, <1>3 DEF Step, Invoke, Subscribe, Install, Complete, TimeOut, InvokeThrows,
     SetResult, brokerVars

(* The check of l.41 lets a response through only to the client it names.     *)
LEMMA ClientKeepsOwnIds ==
  ASSUME IndInv, NEW c \in Clients, Step(c)
  PROVE  OwnIds'
<1> USE ConstantFacts DEF IndInv, ClientTypeOK, OwnIds
<1>0. MessagesWithin(Calls)'
  BY ClientKeepsMessages
<1>1. CASE Invoke(c)
  <2>1. <<c, inv[c] + 1>> # NullId
    BY <1>1 DEF Invoke, NullId
  <2> QED
    BY <1>0, <1>1, <2>1 DEF Invoke, NewCorrelation
<1>2. CASE Receive(c)
  <2>1. Head(responses[c]) \in ResponsesOf(Calls)
    BY <1>2, SequenceTypes DEF Receive, MessagesWithin
  <2>2. Head(responses[c]).id \in Calls /\ Head(responses[c]).id[1] = c
    BY <1>2, <2>1 DEF Receive, Matches, ResponsesOf
  <2> QED
    BY <1>0, <1>2, <2>2 DEF Receive
<1>3. CASE SetResult(c)
  <2>1. /\ UNCHANGED <<pc, correlationId>>
        /\ \A d \in Clients : hand'[d] = IF d = c THEN {} ELSE hand[d]
        /\ \A d \in Clients, k \in 0..MaxCalls :
             task'[d][k] = task[d][k] \/ (d = c /\ task'[d][k] = hand[c])
    BY <1>3 DEF SetResult
  <2>2. \A d \in Clients : \A k \in 0..MaxCalls : \A r \in task'[d][k] : r.id[1] = d
    <3> SUFFICES ASSUME NEW d \in Clients, NEW k \in 0..MaxCalls, NEW r \in task'[d][k]
                 PROVE  r.id[1] = d
      OBVIOUS
    <3>1. r \in task[d][k] \/ (d = c /\ r \in hand[c])
      BY <2>1
    <3> QED
      BY <3>1
  <2>3. \A d \in Clients : \A r \in hand'[d] : r.id \in Calls /\ r.id[1] = d
    BY <2>1
  <2> HIDE DEF ClientTypeOK
  <2> QED
    BY <1>0, <2>1, <2>2, <2>3
<1>4. CASE UNCHANGED <<correlationId, hand, task>> /\ pc[c] # "idle" /\ \A d \in Clients \ {c} : pc'[d] = pc[d]
  BY <1>0, <1>4
<1>5. CASE Discard(c)
  BY <1>0, <1>5 DEF Discard, clientVars
<1>6. CASE \/ Subscribe(c) \/ Publish(c) \/ Install(c)
           \/ Complete(c) \/ TimeOut(c) \/ InvokeThrows(c)
  <2>1. /\ UNCHANGED <<correlationId, hand, task>> /\ pc[c] # "idle"
        /\ \A d \in Clients \ {c} : pc'[d] = pc[d]
    BY <1>6 DEF Subscribe, Publish, Install, Complete, TimeOut, InvokeThrows
  <2> QED
    BY <1>4, <2>1
<1> QED
  BY <1>1, <1>2, <1>3, <1>5, <1>6 DEF Step

LEMMA ClientKeepsSourceOrder ==
  ASSUME IndInv, NEW c \in Clients, Step(c)
  PROVE  SourceOrder'
<1> USE ConstantFacts DEF IndInv, ClientTypeOK, SourceOrder, Ended, AfterFailure
<1>1. CASE Invoke(c)
  BY <1>1 DEF Invoke
<1>2. CASE Subscribe(c) \/ Publish(c)
  BY <1>2 DEF Subscribe, Publish
<1>3. CASE Install(c)
  BY <1>3 DEF Install
<1>4. CASE Complete(c) \/ TimeOut(c) \/ InvokeThrows(c)
  BY <1>4 DEF Complete, TimeOut, InvokeThrows
<1>5. CASE Receive(c) \/ Discard(c)
  BY <1>5 DEF Receive, Discard, clientVars
<1>6. CASE SetResult(c)
  BY <1>6 DEF SetResult
<1> QED
  BY <1>1, <1>2, <1>3, <1>4, <1>5, <1>6 DEF Step

LEMMA IndInvStep == IndInv /\ [Next]_vars => IndInv'
<1> SUFFICES ASSUME IndInv, [Next]_vars PROVE IndInv'
  OBVIOUS
<1>1. ASSUME NEW c \in Clients, Step(c) PROVE IndInv'
  BY <1>1, ClientKeepsTypes, ClientKeepsOwnIds, ClientKeepsSourceOrder DEF IndInv
<1>2. CASE (BrokerNext \/ ServerNext) /\ UNCHANGED clientVars
  <2>1. MessagesWithin(Calls)' /\ CountersOK'
    BY <1>2, ServersOnlyEcho DEF IndInv, OwnIds
  <2>2. ClientTypeOK' /\ InCall' /\ SourceOrder'
    BY <1>2 DEF IndInv, ClientTypeOK, InCall, SourceOrder, clientVars
  <2>3. OwnIds'
    BY <1>2, <2>1 DEF IndInv, OwnIds, clientVars
  <2> QED
    BY <2>1, <2>2, <2>3 DEF IndInv
<1>3. CASE UNCHANGED vars
  BY <1>3 DEF vars, brokerVars, serverVars, clientVars, IndInv, CountersOK, ClientTypeOK, InCall,
     OwnIds, SourceOrder, MessagesWithin
<1> QED
  BY <1>1, <1>2, <1>3 DEF Next

LEMMA Invariance == Spec => []IndInv
BY IndInvInit, IndInvStep, PTL DEF Spec

-----------------------------------------------------------------------------
(* The fields of every client, the server and the messages under way keep      *)
(* their types.                                                              *)
THEOREM TypeCorrect == Spec => []TypeOK
BY Invariance, IndInvImpliesTypeOK, PTL

(* No call is ever answered with the response to another client's request,     *)
(* however many clients share the response topic, whatever is repeated, lost   *)
(* or late, and whether or not the caller retries.                            *)
THEOREM AnswersAreNotForeign == Spec => []NoForeignResponse
<1>1. IndInv => NoForeignResponse
  BY ConstantFacts DEF IndInv, OwnIds, NoForeignResponse
<1> QED
  BY <1>1, Invariance, PTL

-----------------------------------------------------------------------------
(* Calls are made one after the other, only the last can be open, and its id is  *)
(* what the client compares and publishes.                                   *)
CallsInOrder ==
  \A c \in Clients :
    /\ inv[c] > 0 => correlationId[c] = <<c, inv[c]>>
    /\ inv[c] = 0 => correlationId[c] = NullId
    /\ \A k \in 1..MaxCalls :
         /\ outcome[c][k] = "none" <=> k > inv[c]
         /\ outcome[c][k] = "pending" <=> k = inv[c] /\ pc[c] \notin Ended

(* The calls that were made: no message has any other id.                    *)
Made == {i \in Calls : outcome[i[1]][i[2]] # "none"}

(* What the clients publish; a response with the content type they look for       *)
(* says that such a request was executed.                                    *)
Unlocks == {m \in Request : m.payload = "unlock"}
Genuine == {r \in Response : r.ctype = "protobuf" => r \in Vouches}

AllGenuine == requests \in Seq(Unlocks) /\ responses \in [Clients -> Seq(Genuine)]

(* What a client took up was executed.                                       *)
Told ==
  \A c \in Clients :
    /\ \A r \in hand[c] : executed[r.id] > 0
    /\ \A k \in 0..MaxCalls : \A r \in task[c][k] : executed[r.id] > 0

CallInv ==
  /\ IndInv
  /\ CallsInOrder
  /\ MessagesWithin(Made)
  /\ AllGenuine
  /\ Honest
  /\ Told

LEMMA MessagesTyped == IndInv => Typed
BY MessagesWiden, ConstantFacts DEF IndInv, OwnIds, Typed

LEMMA CallInvInit == Init => CallInv
<1> HAVE Init
<1>0. requests = <<>> /\ jobs = <<>> /\ responses = [c \in Clients |-> <<>>]
  BY DEF Init, BrokerInit, ServerInit
<1>1. CallsInOrder
  BY ConstantFacts DEF Init, CallsInOrder, Ended
<1>2. MessagesWithin(Made) /\ AllGenuine /\ Honest
  BY <1>0, EmptySeq DEF MessagesWithin, AllGenuine, Honest
<1>3. Told
  BY ConstantFacts DEF Init, Told
<1> QED
  BY <1>1, <1>2, <1>3, IndInvInit DEF CallInv

(* What a step of a client may do to the messages.                           *)
LEMMA StepMessages ==
  ASSUME NEW c \in Clients, Step(c)
  PROVE  /\ UNCHANGED <<serverVars, dups>>
         /\ UNCHANGED requests \/ (requests' = Append(requests, RequestOf(c)) /\ Publish(c))
         /\ \/ UNCHANGED responses
            \/ responses[c] # <<>> /\ responses' = [responses EXCEPT ![c] = Tail(@)]
BY DEF Step, Invoke, Subscribe, Publish, Install, Complete, TimeOut, InvokeThrows,
       Receive, Discard, SetResult, brokerVars, serverVars

LEMMA StepKeepsOrder ==
  ASSUME CallInv, NEW c \in Clients, Step(c)
  PROVE  CallsInOrder' /\ Made \subseteq Made'
<1> USE ConstantFacts DEF Ended, AfterFailure
<1>0. ClientTypeOK /\ CallsInOrder /\ InCall
  BY DEF CallInv, IndInv
<1>1. CASE Invoke(c)
  <2>1. /\ pc[c] = "idle" /\ inv[c] + 1 \in 1..MaxCalls
        /\ inv' = [inv EXCEPT ![c] = @ + 1]
        /\ correlationId' = [correlationId EXCEPT ![c] = <<c, inv[c] + 1>>]
        /\ outcome' = [outcome EXCEPT ![c][inv[c] + 1] = "pending"]
        /\ pc' = [pc EXCEPT ![c] = "subscribing"]
    BY <1>0, <1>1 DEF Invoke, NewCorrelation, ClientTypeOK
  <2>2. CallsInOrder'
    BY <1>0, <2>1 DEF ClientTypeOK, CallsInOrder
  <2>3. Made \subseteq Made'
    BY <1>0, <2>1 DEF ClientTypeOK, Made, Calls
  <2> QED
    BY <2>2, <2>3
<1>2. CASE Complete(c) \/ TimeOut(c) \/ InvokeThrows(c)
  <2>1. /\ pc[c] \notin Ended /\ inv[c] \in 1..MaxCalls
        /\ UNCHANGED <<inv, correlationId>>
    BY <1>0, <1>2 DEF Complete, TimeOut, InvokeThrows, InCall
  <2>2. PICK how \in {"answered", "timedOut", "failed"}, at \in Ended :
          outcome' = [outcome EXCEPT ![c][inv[c]] = how] /\ pc' = [pc EXCEPT ![c] = at]
    BY <1>2 DEF Complete, TimeOut, InvokeThrows, End
  <2>3. CallsInOrder'
    BY <1>0, <2>1, <2>2 DEF ClientTypeOK, CallsInOrder
  <2>4. Made \subseteq Made'
    BY <1>0, <2>1, <2>2 DEF ClientTypeOK, Made, Calls
  <2> QED
    BY <2>3, <2>4
<1>3. CASE Subscribe(c) \/ Publish(c) \/ Install(c)
  <2>1. /\ UNCHANGED <<inv, correlationId, outcome>> /\ pc[c] \notin Ended
        /\ \A d \in Clients : pc'[d] \in Ended <=> pc[d] \in Ended
    BY <1>0, <1>3 DEF Subscribe, Publish, Install, ClientTypeOK
  <2> QED
    BY <1>0, <2>1 DEF CallsInOrder, Made
<1>4. CASE UNCHANGED <<inv, correlationId, outcome, pc>>
  BY <1>0, <1>4 DEF CallsInOrder, Made
<1> QED
  BY <1>1, <1>2, <1>3, <1>4 DEF Step, Receive, Discard, SetResult, clientVars

LEMMA StepKeepsGenuine ==
  ASSUME CallInv, NEW c \in Clients, Step(c)
  PROVE  MessagesWithin(Made)' /\ AllGenuine' /\ Honest'
<1>1. /\ UNCHANGED <<kind, executed, jobs>>
      /\ UNCHANGED requests \/ (requests' = Append(requests, RequestOf(c)) /\ Publish(c))
      /\ \/ UNCHANGED responses
         \/ responses[c] # <<>> /\ responses' = [responses EXCEPT ![c] = Tail(@)]
  BY StepMessages DEF serverVars
<1>2. ASSUME NEW S, responses \in [Clients -> Seq(S)]
      PROVE  responses' \in [Clients -> Seq(S)]
  <2>1. responses[c] # <<>> => Tail(responses[c]) \in Seq(S)
    BY <1>2, SequenceTypes
  <2> QED
    BY <1>1, <1>2, <2>1
<1>3. Made \subseteq Made'
  BY StepKeepsOrder
<1>4. ASSUME Publish(c)
      PROVE  RequestOf(c) \in RequestsOf(Made') /\ RequestOf(c) \in Unlocks
  <2> DEFINE i == correlationId[c]
  <2>1. inv[c] \in 1..MaxCalls
    BY <1>4 DEF Publish, CallInv, IndInv, InCall
  <2>2. i = <<c, inv[c]>> /\ outcome[c][inv[c]] # "none"
    BY <2>1, ConstantFacts DEF CallInv, CallsInOrder
  <2>3. i \in Made /\ i \in Ids
    BY <2>1, <2>2, ConstantFacts DEF Made, Calls
  <2> HIDE DEF i
  <2>4. RequestOf(c) \in Request
    BY <2>3 DEF i, RequestOf, Request, ContentTypes, RequestPayloads
  <2>5. RequestOf(c).id = i /\ RequestOf(c).payload = "unlock"
    BY DEF i, RequestOf
  <2> QED
    BY <1>3, <2>3, <2>4, <2>5 DEF RequestsOf, Unlocks
<1>5. MessagesWithin(Made)'
  <2>1. /\ requests \in Seq(RequestsOf(Made')) /\ jobs \in Seq(RequestsOf(Made'))
        /\ responses \in [Clients -> Seq(ResponsesOf(Made'))]
    BY <1>3, MessagesWiden DEF CallInv, MessagesWithin
  <2>2. requests' \in Seq(RequestsOf(Made'))
    <3>1. \A x \in RequestsOf(Made') : Append(requests, x) \in Seq(RequestsOf(Made'))
      BY <2>1, SequenceTypes
    <3> QED
      BY <1>1, <1>4, <2>1, <3>1
  <2>3. responses' \in [Clients -> Seq(ResponsesOf(Made'))]
    BY <1>2, <2>1
  <2> QED
    BY <1>1, <2>1, <2>2, <2>3 DEF MessagesWithin, RequestsOf, ResponsesOf
<1>6. AllGenuine'
  <2>1. requests \in Seq(Unlocks) /\ responses \in [Clients -> Seq(Genuine)]
    BY DEF CallInv, AllGenuine
  <2>2. requests' \in Seq(Unlocks)
    <3>1. \A x \in Unlocks : Append(requests, x) \in Seq(Unlocks)
      BY <2>1, SequenceTypes
    <3> QED
      BY <1>1, <1>4, <2>1, <3>1
  <2>3. responses' \in [Clients -> Seq(Genuine)]
    BY <1>2, <2>1
  <2> QED
    BY <2>2, <2>3 DEF AllGenuine
<1>7. Honest'
  <2>1. jobs \in Seq(Owed) /\ responses \in [Clients -> Seq(Truthful)]
    BY DEF CallInv, Honest
  <2>2. responses' \in [Clients -> Seq(Truthful)]
    BY <1>2, <2>1
  <2> QED
    BY <1>1, <2>1, <2>2 DEF Honest, Owed, Truthful
<1> QED
  BY <1>5, <1>6, <1>7

(* Only a genuine response passes the check of l.41.                         *)
LEMMA StepKeepsTold ==
  ASSUME CallInv, NEW c \in Clients, Step(c)
  PROVE  Told'
<1>0. ClientTypeOK /\ Told /\ UNCHANGED executed
  BY StepMessages DEF CallInv, IndInv, serverVars
<1>1. CASE Receive(c)
  <2> DEFINE r == Head(responses[c])
  <2>1. responses[c] # <<>> /\ r.ctype = "protobuf"
        /\ hand' = [hand EXCEPT ![c] = {r}] /\ UNCHANGED task
    BY <1>1 DEF Receive, Matches
  <2>2. r \in Genuine /\ r \in Truthful
    <3>1. responses[c] \in Seq(Genuine) /\ responses[c] \in Seq(Truthful)
      BY DEF CallInv, AllGenuine, Honest
    <3> QED
      BY <2>1, <3>1, SequenceTypes
  <2>3. executed[r.id] > 0
    BY <2>1, <2>2 DEF Genuine, Truthful
  <2> HIDE DEF r
  <2> QED
    BY <1>0, <2>1, <2>3 DEF Told, ClientTypeOK
<1>2. CASE SetResult(c)
  <2>1. tcs[c] \in 0..MaxCalls /\ hand' = [hand EXCEPT ![c] = {}]
        /\ task' = [task EXCEPT ![c][tcs[c]] = IF @ = {} THEN hand[c] ELSE @]
    BY <1>0, <1>2 DEF SetResult, ClientTypeOK
  <2> QED
    BY <1>0, <2>1 DEF Told, ClientTypeOK
<1>3. CASE UNCHANGED <<hand, task>>
  BY <1>0, <1>3 DEF Told
<1> QED
  BY <1>1, <1>2, <1>3 DEF Step, Invoke, Subscribe, Publish, Install, Complete, TimeOut, InvokeThrows,
     Discard, clientVars

LEMMA ServerKeepsCalls ==
  ASSUME CallInv, ServerNext \/ BrokerNext, UNCHANGED clientVars
  PROVE  CallsInOrder' /\ MessagesWithin(Made)' /\ AllGenuine' /\ Honest' /\ Told'
<1>0. Typed /\ Honest /\ AllGenuine /\ MessagesWithin(Made) /\ CountersOK
  BY MessagesTyped DEF CallInv, IndInv
<1>1. UNCHANGED <<pc, inv, correlationId, tcs, task, hand, outcome>>
  BY DEF clientVars
<1>2. CallsInOrder'
  BY <1>1 DEF CallInv, CallsInOrder
<1>3. MessagesWithin(Made)'
  <2>1. \A I : MessagesWithin(I) => requests' \in Seq(RequestsOf(I)) /\ jobs' \in Seq(RequestsOf(I))
                                      /\ responses' \in [Clients -> Seq(ResponsesOf(I))]
    BY <1>0, ServersOnlyEcho DEF MessagesWithin
  <2>2. Made' = Made
    BY <1>1 DEF Made
  <2> QED
    BY <1>0, <2>1, <2>2 DEF MessagesWithin, RequestsOf, ResponsesOf
<1>4. Honest'
  BY <1>0, HonestKeeps
<1>5. AllGenuine'
  <2>1. \A m \in Unlocks : Deferred(m) => m \in Request
    BY DEF Unlocks
  <2>2. \A m \in Unlocks : \A r : Answers(m, r) => r \in Genuine
    BY DEF Unlocks, Answers, ResponsesOf, Response, Vouches, Genuine
  <2>3. \A m \in Request : \A r : Sends(m, r) => r \in Genuine
    BY DEF Sends, ResponsesOf, Genuine
  <2>4. jobs \in Seq(Request)
    BY <1>0, Sequences
  <2> QED
    BY <1>0, <2>1, <2>2, <2>3, <2>4, PassOn DEF AllGenuine
<1>6. Told'
  <2>1. \A i \in Ids : executed[i] > 0 => executed'[i] > 0
    BY <1>0, ExecutedGrows
  <2>2. \A c \in Clients : hand[c] \in SUBSET Response /\ \A k \in 0..MaxCalls : task[c][k] \in SUBSET Response
    <3>1. hand \in [Clients -> SUBSET Response] /\ task \in [Clients -> [0..MaxCalls -> SUBSET Response]]
      BY DEF CallInv, IndInv, ClientTypeOK
    <3> QED
      BY <3>1
  <2>3. \A r \in Response : r.id \in Ids
    BY DEF Response
  <2>4. Told
    BY DEF CallInv
  <2> QED
    BY <1>1, <2>1, <2>2, <2>3, <2>4 DEF Told
<1> QED
  BY <1>2, <1>3, <1>4, <1>5, <1>6

LEMMA CallInvStep == CallInv /\ [Next]_vars => CallInv'
<1> SUFFICES ASSUME CallInv, [Next]_vars PROVE CallInv'
  OBVIOUS
<1>0. IndInv'
  BY IndInvStep DEF CallInv
<1>1. ASSUME NEW c \in Clients, Step(c) PROVE CallInv'
  BY <1>0, <1>1, StepKeepsOrder, StepKeepsGenuine, StepKeepsTold DEF CallInv
<1>2. CASE (ServerNext \/ BrokerNext) /\ UNCHANGED clientVars
  BY <1>0, <1>2, ServerKeepsCalls DEF CallInv
<1>3. CASE UNCHANGED vars
  BY <1>0, <1>3 DEF vars, brokerVars, serverVars, clientVars, CallInv, CallsInOrder, MessagesWithin,
     Made, AllGenuine, Honest, Owed, Truthful, Told
<1> QED
  BY <1>1, <1>2, <1>3 DEF Next

LEMMA CallInvariance == Spec => []CallInv
BY CallInvInit, CallInvStep, PTL DEF Spec

-----------------------------------------------------------------------------
(* A response that may stand for call k of c: the call's own, or an earlier one's  *)
(* of the same client if the handler held a checked response when k was begun.  *)
Explained(c, k, r) ==
  \E j \in 1..k : r.id = <<c, j>> /\ (j # k => <<c, k>> \in straddled)

(* What the handler holds is explained by the current call, what a source of a    *)
(* pending or answered call holds by that call; and a call whose response was    *)
(* spent on its own source cannot time out any more.                           *)
RaceInv ==
  \A c \in Clients :
    /\ \A r \in hand[c] : Explained(c, inv[c], r)
    /\ \A k \in 1..MaxCalls :
         /\ outcome[c][k] \in {"pending", "answered"} => \A r \in task[c][k] : Explained(c, k, r)
         /\ Answered(c, k) => task[c][k] # {}
         /\ \A s \in 0..MaxCalls : <<<<c, k>>, s>> \in spent =>
              /\ s <= k
              /\ s = k => task[c][k] # {} /\ outcome[c][k] \in {"pending", "answered"}

(* The step of a client leaves the other clients' part of RaceInv alone.        *)
LEMMA StepIsLocal ==
  ASSUME ClientTypeOK, NEW c \in Clients, Step(c), NEW d \in Clients, d # c
  PROVE  /\ inv'[d] = inv[d] /\ hand'[d] = hand[d] /\ task'[d] = task[d] /\ outcome'[d] = outcome[d]
<1>1. CASE Invoke(c) \/ Subscribe(c) \/ Publish(c) \/ Install(c)
  BY <1>1 DEF Invoke, Subscribe, Publish, Install, ClientTypeOK
<1>2. CASE Complete(c) \/ TimeOut(c) \/ InvokeThrows(c)
  BY <1>2 DEF Complete, TimeOut, InvokeThrows, End, ClientTypeOK
<1>3. CASE Receive(c) \/ Discard(c) \/ SetResult(c)
  BY <1>3 DEF Receive, Discard, SetResult, clientVars, ClientTypeOK
<1> QED
  BY <1>1, <1>2, <1>3 DEF Step

LEMMA StepKeepsRace ==
  ASSUME CallInv, RaceInv, NEW c \in Clients, Step(c)
  PROVE  RaceInv'
<1> USE ConstantFacts DEF Answered
<1>0. ClientTypeOK /\ InCall /\ CallsInOrder /\ SourceOrder /\ OwnIds
  BY DEF CallInv, IndInv
<1>1. straddled \subseteq straddled'
  BY DEF Step, Invoke, Subscribe, Publish, Install, Complete, TimeOut, InvokeThrows,
         Receive, Discard, SetResult, clientVars
<1>2. \A d \in Clients, k \in 0..MaxCalls : \A r : Explained(d, k, r) => Explained(d, k, r)'
  BY <1>1 DEF Explained
<1>3. ASSUME NEW d \in Clients, d # c
      PROVE  /\ inv'[d] = inv[d] /\ hand'[d] = hand[d] /\ task'[d] = task[d] /\ outcome'[d] = outcome[d]
             /\ \A k \in 1..MaxCalls, s \in 0..MaxCalls :
                  <<<<d, k>>, s>> \in spent' => <<<<d, k>>, s>> \in spent
  <2>1. CASE SetResult(c)
    <3>1. \A k \in 1..MaxCalls : \A r \in hand[c] : r.id # <<d, k>>
      BY <1>0, <1>3 DEF OwnIds
    <3> QED
      BY <1>0, <1>3, <2>1, <3>1, StepIsLocal DEF SetResult, Spend
  <2>2. CASE UNCHANGED spent
    BY <1>0, <1>3, <2>2, StepIsLocal
  <2> QED
    BY <2>1, <2>2 DEF Step, Invoke, Subscribe, Publish, Install, Complete, TimeOut, InvokeThrows,
       Receive, Discard, clientVars
<1> DEFINE At(d) ==
      /\ \A r \in hand[d] : Explained(d, inv[d], r)
      /\ \A k \in 1..MaxCalls :
           /\ outcome[d][k] \in {"pending", "answered"} => \A r \in task[d][k] : Explained(d, k, r)
           /\ Answered(d, k) => task[d][k] # {}
           /\ \A s \in 0..MaxCalls : <<<<d, k>>, s>> \in spent =>
                /\ s <= k
                /\ s = k => task[d][k] # {} /\ outcome[d][k] \in {"pending", "answered"}
<1>4. At(c)
  BY DEF RaceInv
<1>5. ASSUME NEW d \in Clients, d # c PROVE At(d)'
  <2>1. At(d)
    BY DEF RaceInv
  <2> QED
    <3>1. (\A r \in hand[d] : Explained(d, inv[d], r))'
      BY <1>1, <1>3, <1>5, <2>1 DEF Explained
    <3>2. (\A k \in 1..MaxCalls :
             outcome[d][k] \in {"pending", "answered"} => \A r \in task[d][k] : Explained(d, k, r))'
      BY <1>2, <1>3, <1>5, <2>1
    <3>3. (\A k \in 1..MaxCalls :
             /\ Answered(d, k) => task[d][k] # {}
             /\ \A s \in 0..MaxCalls : <<<<d, k>>, s>> \in spent =>
                  /\ s <= k
                  /\ s = k => task[d][k] # {} /\ outcome[d][k] \in {"pending", "answered"})'
      BY <1>3, <1>5, <2>1
    <3> QED
      BY <3>1, <3>2, <3>3
<1> HIDE DEF At
<1>a. At(c)' => RaceInv'
  BY <1>5 DEF RaceInv, At
<1>b. ASSUME NEW n \in 0..MaxCalls, inv'[c] = n,
             \A r \in hand'[c] : Explained(c, n, r)',
             \A k \in 1..MaxCalls : outcome'[c][k] \in {"pending", "answered"} =>
               \A r \in task'[c][k] : Explained(c, k, r)',
             \A k \in 1..MaxCalls :
               /\ outcome'[c][k] = "answered" => task'[c][k] # {}
               /\ \A s \in 0..MaxCalls : <<<<c, k>>, s>> \in spent' =>
                    /\ s <= k
                    /\ s = k => task'[c][k] # {} /\ outcome'[c][k] \in {"pending", "answered"}
      PROVE  RaceInv'
  <2>1. (\A r \in hand[c] : Explained(c, inv[c], r))'
    BY <1>b DEF Explained
  <2>2. (\A k \in 1..MaxCalls : outcome[c][k] \in {"pending", "answered"} =>
           \A r \in task[c][k] : Explained(c, k, r))'
    BY <1>b
  <2>3. (\A k \in 1..MaxCalls :
           /\ Answered(c, k) => task[c][k] # {}
           /\ \A s \in 0..MaxCalls : <<<<c, k>>, s>> \in spent =>
                /\ s <= k
                /\ s = k => task[c][k] # {} /\ outcome[c][k] \in {"pending", "answered"})'
    BY <1>b
  <2>4. At(c)'
    BY <2>1, <2>2, <2>3 DEF At
  <2> QED
    BY <1>a, <2>4
<1> USE DEF At
<1>6. CASE Invoke(c)
  <2>0. inv[c] + 1 \in 1..MaxCalls
    BY <1>0, <1>6 DEF Invoke, ClientTypeOK
  <2> PICK n \in 1..MaxCalls : n = inv[c] + 1
    BY <2>0
  <2>1. /\ n \in 0..MaxCalls /\ inv[c] \in 0..MaxCalls /\ inv'[c] = n
        /\ UNCHANGED <<task, hand, spent>>
        /\ \A k \in 1..MaxCalls : outcome'[c][k] = IF k = n THEN "pending" ELSE outcome[c][k]
        /\ hand[c] # {} => <<c, n>> \in straddled'
    BY <1>0, <1>6 DEF Invoke, ClientTypeOK, NewCorrelation
  <2>2. \A r \in hand[c] : Explained(c, n, r)'
    <3>1. \A j \in 1..inv[c] : j \in 1..n /\ j # n
      BY <2>1
    <3>2. ASSUME NEW r \in hand[c] PROVE \E j \in 1..inv[c] : r.id = <<c, j>>
      BY <1>4 DEF Explained
    <3> QED
      BY <2>1, <3>1, <3>2 DEF Explained
  <2>3. task[c][n] = {}
    BY <1>0, <2>1 DEF SourceOrder, ClientTypeOK
  <2>4. \A s \in 0..MaxCalls : <<<<c, n>>, s>> \in spent => s < n
    BY <1>4, <2>1, <2>3
  <2>5. \A k \in 1..MaxCalls : outcome'[c][k] \in {"pending", "answered"} =>
          \A r \in task'[c][k] : Explained(c, k, r)'
    BY <1>2, <1>4, <2>1, <2>3
  <2>6. \A k \in 1..MaxCalls :
          /\ outcome'[c][k] = "answered" => task'[c][k] # {}
          /\ \A s \in 0..MaxCalls : <<<<c, k>>, s>> \in spent' =>
               /\ s <= k
               /\ s = k => task'[c][k] # {} /\ outcome'[c][k] \in {"pending", "answered"}
    BY <1>4, <2>1, <2>4
  <2> QED
    BY <1>b, <2>1, <2>2, <2>5, <2>6
<1>7. CASE Complete(c) \/ TimeOut(c) \/ InvokeThrows(c)
  <2> PICK n \in 0..MaxCalls : n = inv[c]
    BY <1>0 DEF ClientTypeOK
  <2>1. /\ n \in 1..MaxCalls /\ outcome[c][n] = "pending" /\ UNCHANGED <<inv, task, hand, spent>>
    BY <1>0, <1>7 DEF Complete, TimeOut, InvokeThrows, InCall, CallsInOrder, Ended
  <2>2. PICK how \in {"answered", "timedOut", "failed"} :
          /\ \A k \in 1..MaxCalls : outcome'[c][k] = IF k = n THEN how ELSE outcome[c][k]
          /\ how = "answered" <=> Complete(c)
    BY <1>0, <1>7, <2>1 DEF Complete, TimeOut, InvokeThrows, End, ClientTypeOK
  <2>3. Complete(c) => task[c][n] # {}
    BY <1>0 DEF Complete, SourceOrder
  <2>4. ~Complete(c) => task[c][n] = {}
    <3>1. CASE TimeOut(c)
      BY <1>0, <3>1 DEF TimeOut, SourceOrder
    <3>2. CASE InvokeThrows(c)
      <4>1. tcs[c] < n
        BY <1>0, <3>2 DEF InvokeThrows, SourceOrder
      <4> QED
        BY <1>0, <2>1, <4>1 DEF SourceOrder, ClientTypeOK
    <3> QED
      BY <1>7, <3>1, <3>2
  <2>5. \A k \in 1..MaxCalls : outcome'[c][k] \in {"pending", "answered"} =>
          \A r \in task'[c][k] : Explained(c, k, r)'
    BY <1>2, <1>4, <2>1, <2>2
  <2>6. \A k \in 1..MaxCalls :
          /\ outcome'[c][k] = "answered" => task'[c][k] # {}
          /\ \A s \in 0..MaxCalls : <<<<c, k>>, s>> \in spent' =>
               /\ s <= k
               /\ s = k => task'[c][k] # {} /\ outcome'[c][k] \in {"pending", "answered"}
    BY <1>4, <2>1, <2>2, <2>3, <2>4
  <2>7. \A r \in hand'[c] : Explained(c, n, r)'
    BY <1>2, <1>4, <2>1
  <2> QED
    BY <1>b, <2>1, <2>5, <2>6, <2>7
<1>8. CASE Receive(c)
  <2> DEFINE r == Head(responses[c])
  <2>1. r \in ResponsesOf(Calls) /\ r.id = correlationId[c]
    BY <1>0, <1>8, SequenceTypes DEF Receive, Matches, OwnIds, MessagesWithin
  <2>2. r.id \in Calls /\ inv[c] \in 0..MaxCalls
    BY <1>0, <2>1 DEF ResponsesOf, ClientTypeOK
  <2>3. inv[c] > 0 /\ r.id = <<c, inv[c]>>
    BY <1>0, <2>1, <2>2 DEF CallsInOrder
  <2>4. /\ hand'[c] = {r} /\ UNCHANGED <<inv, task, outcome, straddled, spent>>
    BY <1>0, <1>8 DEF Receive, ClientTypeOK
  <2> HIDE DEF r
  <2> PICK n \in 0..MaxCalls : n = inv[c]
    BY <2>2
  <2>5. \A x \in hand'[c] : Explained(c, n, x)'
    BY <2>2, <2>3, <2>4 DEF Explained
  <2>6. \A k \in 1..MaxCalls : outcome'[c][k] \in {"pending", "answered"} =>
          \A x \in task'[c][k] : Explained(c, k, x)'
    BY <1>2, <1>4, <2>4
  <2>7. \A k \in 1..MaxCalls :
          /\ outcome'[c][k] = "answered" => task'[c][k] # {}
          /\ \A s \in 0..MaxCalls : <<<<c, k>>, s>> \in spent' =>
               /\ s <= k
               /\ s = k => task'[c][k] # {} /\ outcome'[c][k] \in {"pending", "answered"}
    BY <1>4, <2>4
  <2> QED
    BY <1>b, <2>4, <2>5, <2>6, <2>7
<1>9. CASE SetResult(c)
  <2> PICK n \in 0..MaxCalls : n = inv[c]
    BY <1>0 DEF ClientTypeOK
  <2>1. /\ hand[c] # {} /\ hand'[c] = {} /\ UNCHANGED <<inv, outcome, straddled>>
        /\ n \in 0..MaxCalls /\ tcs[c] \in 0..MaxCalls /\ tcs[c] <= n
        /\ \A k \in 0..MaxCalls :
             task'[c][k] = IF k = tcs[c] /\ task[c][k] = {} THEN hand[c] ELSE task[c][k]
    BY <1>0, <1>9 DEF SetResult, ClientTypeOK, SourceOrder
  <2>2. n \in 1..MaxCalls
    <3>1. PICK r \in hand[c] : TRUE
      BY <2>1
    <3>2. Explained(c, n, r)
      BY <1>4, <3>1
    <3> QED
      BY <2>1, <3>2 DEF Explained
  <2>3. \A x \in spent' : x \in spent \/ (x = <<<<c, n>>, tcs[c]>> /\ outcome[c][n] = "pending")
    BY <1>0, <1>9, <2>2 DEF SetResult, Spend, CallsInOrder
  <2>4. \A k \in 1..MaxCalls : outcome[c][k] = "pending" => k = n
    BY <1>0 DEF CallsInOrder
  <2>5. \A k \in 1..MaxCalls : task[c][k] # {} => task'[c][k] # {}
    BY <2>1
  <2>6. \A k \in 1..MaxCalls : outcome'[c][k] \in {"pending", "answered"} =>
          \A r \in task'[c][k] : Explained(c, k, r)'
    <3> SUFFICES ASSUME NEW k \in 1..MaxCalls, outcome'[c][k] \in {"pending", "answered"},
                        NEW r \in task'[c][k]
                 PROVE  Explained(c, k, r)'
      OBVIOUS
    <3>0. k \in 0..MaxCalls
      OBVIOUS
    <3>1. CASE r \in task[c][k]
      BY <1>2, <1>4, <2>1, <3>0, <3>1
    <3>2. CASE k = tcs[c] /\ task[c][k] = {} /\ r \in hand[c]
      <4>1. k = n
        BY <1>4, <2>1, <2>4, <3>2
      <4>2. Explained(c, n, r)
        BY <1>4, <3>2
      <4> QED
        BY <1>2, <3>0, <4>1, <4>2
    <3> QED
      BY <2>1, <3>0, <3>1, <3>2
  <2>7. \A k \in 1..MaxCalls :
          /\ outcome'[c][k] = "answered" => task'[c][k] # {}
          /\ \A s \in 0..MaxCalls : <<<<c, k>>, s>> \in spent' =>
               /\ s <= k
               /\ s = k => task'[c][k] # {} /\ outcome'[c][k] \in {"pending", "answered"}
    <3> SUFFICES ASSUME NEW k \in 1..MaxCalls, NEW s \in 0..MaxCalls, <<<<c, k>>, s>> \in spent'
                 PROVE  /\ s <= k
                        /\ s = k => task'[c][k] # {} /\ outcome'[c][k] \in {"pending", "answered"}
      BY <1>4, <2>1, <2>5
    <3>1. CASE <<<<c, k>>, s>> \in spent
      BY <1>4, <2>1, <2>5, <3>1
    <3>2. CASE k = n /\ s = tcs[c] /\ outcome[c][n] = "pending"
      BY <2>1, <3>2
    <3> QED
      BY <2>3, <3>1, <3>2
  <2>8. \A r \in hand'[c] : Explained(c, n, r)'
    BY <2>1
  <2> QED
    BY <1>b, <2>1, <2>6, <2>7, <2>8
<1>10. CASE UNCHANGED <<inv, task, hand, outcome, straddled, spent>>
  BY <1>10 DEF RaceInv, Explained
<1> QED
  BY <1>6, <1>7, <1>8, <1>9, <1>10 DEF Step, Subscribe, Publish, Install, Discard, clientVars

LEMMA RaceInvariance == Spec => [](CallInv /\ RaceInv)
<1>1. Init => RaceInv
  BY ConstantFacts DEF Init, RaceInv, Answered
<1>2. CallInv /\ RaceInv /\ [Next]_vars => RaceInv'
  <2> SUFFICES ASSUME CallInv, RaceInv, [Next]_vars PROVE RaceInv'
    OBVIOUS
  <2>1. ASSUME NEW c \in Clients, Step(c) PROVE RaceInv'
    BY <2>1, StepKeepsRace
  <2>2. CASE UNCHANGED clientVars
    BY <2>2 DEF clientVars, RaceInv, Explained, Answered
  <2> QED
    BY <2>1, <2>2 DEF Next, vars
<1> QED
  BY <1>1, <1>2, CallInvariance, PTL DEF Spec

(* For any number of clients, calls and redeliveries, for a caller that stops at a  *)
(* failed call and for one that retries: a call is answered with the response    *)
(* to itself, or it was begun between the check of l.41 and the completion of    *)
(* l.48 and is answered with the response to an earlier call of its client.     *)
THEOREM MixUpsNeedTheRace == Spec => []MixUpNeedsTheRace
<1>1. RaceInv => MixUpNeedsTheRace
  <2> SUFFICES ASSUME RaceInv, NEW c \in Clients, NEW k \in 1..MaxCalls, Answered(c, k)
               PROVE  /\ task[c][k] # {}
                      /\ \A r \in task[c][k] :
                           \/ r.id = <<c, k>>
                           \/ <<c, k>> \in straddled /\ \E j \in 1..(k - 1) : r.id = <<c, j>>
    BY DEF MixUpNeedsTheRace
  <2>1. task[c][k] # {} /\ \A r \in task[c][k] : Explained(c, k, r)
    BY DEF RaceInv, Answered
  <2>2. \A j \in 1..k : j = k \/ j \in 1..(k - 1)
    BY ConstantFacts
  <2> QED
    BY <2>1, <2>2 DEF Explained
<1> QED
  BY <1>1, RaceInvariance, PTL

(* The only way to lose a response that came in time, for the same instances: it  *)
(* completed the source of an earlier call before l.72 replaced that source.     *)
THEOREM LossIsBeforeInstall == Spec => []LostOnlyBeforeInstall
<1>1. RaceInv => LostOnlyBeforeInstall
  BY ConstantFacts DEF RaceInv, LostOnlyBeforeInstall
<1> QED
  BY <1>1, RaceInvariance, PTL

-----------------------------------------------------------------------------
(* The client keeps the promise of CommandCall, but for liveness: each step      *)
(* opens, performs or ends one call, or changes nothing of it.                 *)
Shown(c, k) ==
  CASE outcome[c][k] = "none"     -> "new"
    [] outcome[c][k] = "pending"  -> "open"
    [] outcome[c][k] = "answered" ->
         IF \E r \in task[c][k] : r.id # <<c, k>> THEN "mistaken" ELSE "answered"
    [] OTHER                      -> "failed"

LEMMA ShownAs ==
  /\ phaseBar = [c \in Clients |-> [k \in 1..MaxCalls |-> Shown(c, k)]]
  /\ \A c \in Clients, k \in 1..MaxCalls : phaseBar[c][k] = Shown(c, k)
<1>1. phaseBar = [c \in Clients |-> [k \in 1..MaxCalls |-> Shown(c, k)]]
  BY DEF phaseBar, Shown
<1> QED
  BY <1>1

(* A call whose outcome and, if it is answered, whose source stay is shown as before. *)
LEMMA ShownStays ==
  ASSUME NEW c \in Clients, NEW k \in 1..MaxCalls, outcome'[c][k] = outcome[c][k],
         outcome[c][k] = "answered" => task'[c][k] = task[c][k]
  PROVE  Shown(c, k)' = Shown(c, k)
BY DEF Shown

LEMMA PhaseStays ==
  ASSUME \A d \in Clients, j \in 1..MaxCalls : Shown(d, j)' = Shown(d, j)
  PROVE  UNCHANGED phaseBar
<1>1. /\ phaseBar = [d \in Clients |-> [j \in 1..MaxCalls |-> Shown(d, j)]]
      /\ phaseBar' = [d \in Clients |-> [j \in 1..MaxCalls |-> Shown(d, j)']]
  BY DEF phaseBar, Shown
<1> QED
  BY <1>1, ZenonT(60)

LEMMA PhaseMoves ==
  ASSUME NEW c \in Clients, NEW k \in 1..MaxCalls, NEW v, Shown(c, k)' = v,
         \A d \in Clients, j \in 1..MaxCalls : ~(d = c /\ j = k) => Shown(d, j)' = Shown(d, j)
  PROVE  phaseBar' = [phaseBar EXCEPT ![c][k] = v]
<1>1. /\ phaseBar = [d \in Clients |-> [j \in 1..MaxCalls |-> Shown(d, j)]]
      /\ phaseBar' = [d \in Clients |-> [j \in 1..MaxCalls |-> Shown(d, j)']]
  BY DEF phaseBar, Shown
<1>2. \A d \in Clients :
        [j \in 1..MaxCalls |-> Shown(d, j)']
          = IF d = c THEN [phaseBar[c] EXCEPT ![k] = v] ELSE phaseBar[d]
  <2> TAKE d \in Clients
  <2>1. phaseBar[d] = [j \in 1..MaxCalls |-> Shown(d, j)]
    BY <1>1
  <2>2. CASE d = c
    <3>1. \A j \in 1..MaxCalls : Shown(d, j)' = IF j = k THEN v ELSE Shown(d, j)
      BY <2>2
    <3> QED
      BY <2>1, <2>2, <3>1, ZenonT(60)
  <2>3. CASE d # c
    <3>1. \A j \in 1..MaxCalls : Shown(d, j)' = Shown(d, j)
      BY <2>3
    <3> QED
      BY <2>1, <2>3, <3>1
  <2> QED
    BY <2>2, <2>3
<1> QED
  BY <1>1, <1>2

LEMMA StepKeepsPromise ==
  ASSUME CallInv, RaceInv, NEW c \in Clients, Step(c)
  PROVE  [Promise!SharedNext]_(Promise!callVars)
<1> USE ConstantFacts
<1>0. ClientTypeOK /\ CallsInOrder /\ InCall /\ SourceOrder /\ Told /\ UNCHANGED executed
  BY StepMessages DEF CallInv, IndInv, serverVars
<1>1. UNCHANGED performedBar
  BY <1>0 DEF performedBar
<1>2. CASE Invoke(c)
  <2>0. inv[c] + 1 \in 1..MaxCalls
    BY <1>0, <1>2 DEF Invoke, ClientTypeOK
  <2> PICK k \in 1..MaxCalls : k = inv[c] + 1
    BY <2>0
  <2>1. /\ pc[c] = "idle" /\ UNCHANGED task
        /\ \A d \in Clients, j \in 1..MaxCalls :
             outcome'[d][j] = IF d = c /\ j = k THEN "pending" ELSE outcome[d][j]
    BY <1>0, <1>2 DEF Invoke, ClientTypeOK
  <2>2. outcome[c][k] = "none"
    BY <1>0, <2>1 DEF CallsInOrder, ClientTypeOK
  <2>3. \A j \in 1..(k - 1) : j \in 1..MaxCalls /\ outcome[c][j] \in {"answered", "timedOut", "failed"}
    BY <1>0, <2>1 DEF CallsInOrder, ClientTypeOK, Outcomes, Ended
  <2>4. phaseBar[c][k] = "new"
    BY <2>1, <2>2, ShownAs DEF Shown
  <2>5. \A j \in 1..(k - 1) : phaseBar[c][j] \in Promise!Closed
    BY <2>1, <2>3, ShownAs DEF Shown, Promise!Closed
  <2>6. phaseBar' = [phaseBar EXCEPT ![c][k] = "open"]
    <3>1. Shown(c, k)' = "open"
      BY <2>1 DEF Shown
    <3>2. \A d \in Clients, j \in 1..MaxCalls : ~(d = c /\ j = k) => Shown(d, j)' = Shown(d, j)
      BY <2>1, ShownStays
    <3> QED
      BY <2>1, <3>1, <3>2, PhaseMoves
  <2>7. Promise!Open(c, k)
    BY <1>1, <2>4, <2>5, <2>6 DEF Promise!Open
  <2> QED
    BY <2>1, <2>7 DEF Promise!CallNext, Promise!SharedNext
<1>3. CASE Complete(c) \/ TimeOut(c) \/ InvokeThrows(c)
  <2> PICK k \in 0..MaxCalls : k = inv[c]
    BY <1>0 DEF ClientTypeOK
  <2>1. k \in 1..MaxCalls /\ outcome[c][k] = "pending" /\ UNCHANGED task
    BY <1>0, <1>3 DEF Complete, TimeOut, InvokeThrows, CallsInOrder, InCall, Ended
  <2>2. phaseBar[c][k] = "open"
    BY <2>1, ShownAs DEF Shown
  <2>3. PICK how \in {"answered", "timedOut", "failed"} :
          /\ outcome' = [outcome EXCEPT ![c][k] = how]
          /\ how = "answered" => Complete(c)
    BY <1>3 DEF Complete, TimeOut, InvokeThrows, End
  <2>4. \A d \in Clients, j \in 1..MaxCalls :
          outcome'[d][j] = IF d = c /\ j = k THEN how ELSE outcome[d][j]
    BY <1>0, <2>1, <2>3 DEF ClientTypeOK
  <2>5. how = "answered" => task[c][k] # {}
    BY <1>0, <2>3 DEF Complete, SourceOrder
  <2>6. phaseBar' = [phaseBar EXCEPT ![c][k] = Shown(c, k)']
    <3>1. \A d \in Clients, j \in 1..MaxCalls : ~(d = c /\ j = k) => Shown(d, j)' = Shown(d, j)
      BY <2>1, <2>4, ShownStays
    <3> DEFINE v == Shown(c, k)'
    <3>2. Shown(c, k)' = v
      OBVIOUS
    <3> HIDE DEF v
    <3>3. phaseBar' = [phaseBar EXCEPT ![c][k] = v]
      BY <2>1, <3>1, <3>2, PhaseMoves
    <3> QED
      BY <3>3 DEF v
  <2>7. CASE how = "answered" /\ \A r \in task[c][k] : r.id = <<c, k>>
    <3>1. Shown(c, k)' = "answered"
      BY <2>1, <2>4, <2>7 DEF Shown
    <3>2. <<c, k>> \in performedBar
      <4>1. PICK r \in task[c][k] : r.id = <<c, k>> /\ executed[r.id] > 0
        BY <1>0, <2>1, <2>5, <2>7 DEF Told
      <4> QED
        BY <2>1, <4>1 DEF performedBar, Calls
    <3>3. Promise!Answer(c, k)
      BY <1>1, <2>2, <2>6, <3>1, <3>2 DEF Promise!Answer
    <3> QED
      BY <2>1, <3>3 DEF Promise!CallNext, Promise!SharedNext
  <2>8. CASE how = "answered" /\ \E r \in task[c][k] : r.id # <<c, k>>
    <3>1. Shown(c, k)' = "mistaken"
      BY <2>1, <2>4, <2>8 DEF Shown
    <3>2. PICK r \in task[c][k] : r.id # <<c, k>>
      BY <2>8
    <3>3. executed[r.id] > 0 /\ r.id \in Calls
      <4>1. Explained(c, k, r)
        BY <2>1, <3>2 DEF RaceInv
      <4> QED
        BY <1>0, <2>1, <3>2, <4>1 DEF Told, Explained, Calls
    <3>4. performedBar \ {<<c, k>>} # {}
      BY <3>2, <3>3 DEF performedBar
    <3>5. Promise!Mistake(c, k)
      BY <1>1, <2>2, <2>6, <3>1, <3>4 DEF Promise!Mistake
    <3> QED
      BY <2>1, <3>5 DEF Promise!SharedNext
  <2>9. CASE how # "answered"
    <3>1. Shown(c, k)' = "failed"
      BY <2>1, <2>3, <2>4, <2>9 DEF Shown
    <3>2. Promise!Fail(c, k)
      BY <1>1, <2>2, <2>6, <3>1 DEF Promise!Fail
    <3> QED
      BY <2>1, <3>2 DEF Promise!CallNext, Promise!SharedNext
  <2> QED
    BY <2>7, <2>8, <2>9
<1>4. CASE SetResult(c)
  <2>1. /\ UNCHANGED outcome /\ tcs[c] \in 0..MaxCalls
        /\ \A d \in Clients, j \in 0..MaxCalls : task[d][j] # {} => task'[d][j] = task[d][j]
    BY <1>0, <1>4 DEF SetResult, ClientTypeOK
  <2>2. \A d \in Clients, j \in 1..MaxCalls : outcome[d][j] = "answered" => task[d][j] # {}
    BY DEF RaceInv, Answered
  <2>3. \A d \in Clients, j \in 1..MaxCalls : Shown(d, j)' = Shown(d, j)
    BY <2>1, <2>2, ShownStays
  <2>4. UNCHANGED phaseBar
    BY <2>3, PhaseStays
  <2> QED
    BY <1>1, <2>4 DEF Promise!callVars
<1>5. CASE UNCHANGED <<outcome, task>>
  <2>1. UNCHANGED phaseBar
    BY <1>5 DEF phaseBar
  <2> QED
    BY <1>1, <2>1 DEF Promise!callVars
<1> QED
  BY <1>2, <1>3, <1>4, <1>5 DEF Step, Subscribe, Publish, Install, Receive, Discard, clientVars


(* Only a command that was made is performed.                                *)
LEMMA ServerKeepsPromise ==
  ASSUME CallInv, ServerNext \/ BrokerNext, UNCHANGED clientVars
  PROVE  [Promise!SharedNext]_(Promise!callVars)
<1>1. UNCHANGED phaseBar
  BY DEF clientVars, phaseBar
<1>2. executed \in [Ids -> Nat]
  BY DEF CallInv, IndInv, CountersOK
<1>3. UNCHANGED executed \/ \E i \in Made \cap Ids : executed' = [executed EXCEPT ![i] = @ + 1]
  BY MessagesTyped, ExecutedOnce DEF CallInv
<1>4. ASSUME NEW i \in Made \cap Ids, executed' = [executed EXCEPT ![i] = @ + 1]
      PROVE  Promise!SharedNext
  <2>1. PICK c \in Clients, k \in 1..MaxCalls : i = <<c, k>>
    BY <1>4 DEF Made, Calls
  <2>2. phaseBar[c][k] # "new"
    <3>1. outcome[c][k] \in Outcomes \ {"none"}
      <4>1. ClientTypeOK /\ outcome[i[1]][i[2]] # "none" /\ i[1] = c /\ i[2] = k
        BY <1>4, <2>1 DEF Made, CallInv, IndInv
      <4>2. outcome[c][k] \in Outcomes
        BY <4>1, ZenonT(60) DEF ClientTypeOK
      <4>3. outcome[c][k] # "none"
        BY <4>1
      <4> QED
        BY <4>2, <4>3
    <3> QED
      BY <3>1, ShownAs DEF Outcomes, Shown
  <2>3. performedBar' = performedBar \cup {<<c, k>>}
    BY <1>2, <1>4, <2>1, ConstantFacts DEF performedBar, Made
  <2>4. Promise!Perform(c, k)
    BY <1>1, <2>2, <2>3 DEF Promise!Perform
  <2> QED
    BY <2>4 DEF Promise!CallNext, Promise!SharedNext
<1>5. CASE UNCHANGED executed
  BY <1>1, <1>5 DEF performedBar, Promise!callVars
<1> QED
  BY <1>3, <1>4, <1>5

(* Whichever server answers, whatever is lost or delivered twice and whether or   *)
(* not the caller retries: calls are made one at a time and end once; a call      *)
(* answered with its own response was performed, one that is mixed up shows       *)
(* another call that was.  The safety part of ImplementsCall.                  *)
THEOREM ClientKeepsPromise ==
  Spec => Promise!CallInit /\ [][Promise!SharedNext]_(Promise!callVars)
<1>1. Init => Promise!CallInit
  <2> HAVE Init
  <2>1. \A c \in Clients, k \in 1..MaxCalls : Shown(c, k) = "new"
    BY DEF Init, Shown
  <2>2. phaseBar = [c \in Clients |-> [k \in 1..MaxCalls |-> "new"]]
    BY <2>1, ShownAs
  <2>3. performedBar = {}
    BY ConstantFacts DEF Init, ServerInit, performedBar
  <2> QED
    BY <2>2, <2>3 DEF Promise!CallInit
<1>2. CallInv /\ RaceInv /\ [Next]_vars => [Promise!SharedNext]_(Promise!callVars)
  <2> SUFFICES ASSUME CallInv, RaceInv, [Next]_vars PROVE [Promise!SharedNext]_(Promise!callVars)
    OBVIOUS
  <2>1. ASSUME NEW c \in Clients, Step(c) PROVE [Promise!SharedNext]_(Promise!callVars)
    BY <2>1, StepKeepsPromise
  <2>2. CASE (ServerNext \/ BrokerNext) /\ UNCHANGED clientVars
    BY <2>2, ServerKeepsPromise
  <2>3. CASE UNCHANGED vars
    BY <2>3 DEF vars, serverVars, clientVars, phaseBar, performedBar, Promise!callVars
  <2> QED
    BY <2>1, <2>2, <2>3 DEF Next
<1> QED
  BY <1>1, <1>2, RaceInvariance, PTL DEF Spec
=============================================================================
