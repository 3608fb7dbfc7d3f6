-------------------------- MODULE PyCommand_proofs --------------------------
(***************************************************************************)
(* Proofs about the Python command invoker in front of any of the servers,    *)
(* for every set of invokers, number of commands, redeliveries and workers,   *)
(* with and without losses: types, that the ledger never mixes up responses,  *)
(* and that the invoker keeps the safe part of what CommandCall promises.     *)
(***************************************************************************)
EXTENDS PyCommand, CommandServer_proofs

ClientTypeOK ==
  /\ pc \in [Clients -> PcValues]
  /\ inv \in [Clients -> 0..MaxCalls]
  /\ netUp \in [Clients -> BOOLEAN]
  /\ pending \in [Clients -> SUBSET Calls]
  /\ future \in [Clients -> [1..MaxCalls -> SUBSET Response]]
  /\ outcome \in [Clients -> [1..MaxCalls -> Outcomes]]

InCall(c) == pc[c] \in {"publishing", "waiting"}

(* Commands are made one after the other, and only the last can be open.      *)
CallsInOrder ==
  \A c \in Clients :
    /\ InCall(c) => inv[c] \in 1..MaxCalls
    /\ \A k \in 1..MaxCalls :
         /\ outcome[c][k] = "none" <=> k > inv[c]
         /\ outcome[c][k] = "pending" <=> k = inv[c] /\ InCall(c)

(* The commands that were made: no message has any other id.                 *)
Made == {i \in Calls : outcome[i[1]][i[2]] # "none"}

(* What the invokers publish; only a Python pool can leave it to a job, and     *)
(* whatever answers it says that the command was executed.                    *)
Placeholders == {m \in Request : m.ctype = "none" /\ m.payload = "placeholder"}
PoolJobs     == {m \in Request : kind = "python"}

AllVouched ==
  /\ requests \in Seq(Placeholders)
  /\ jobs \in Seq(PoolJobs)
  /\ responses \in [Clients -> Seq(Vouches)]

(* The ledger's ids are the invoker's own, and a Future holds nothing but the   *)
(* response to its own, executed command.                                    *)
Filed ==
  \A c \in Clients :
    /\ \A i \in pending[c] : i[1] = c
    /\ \A k \in 1..MaxCalls :
         /\ \A r \in future[c][k] : r.id = <<c, k>> /\ executed[r.id] > 0
         /\ outcome[c][k] = "answered" => future[c][k] # {}

IndInv ==
  /\ CountersOK
  /\ ClientTypeOK
  /\ CallsInOrder
  /\ MessagesWithin(Made)
  /\ AllVouched
  /\ Honest
  /\ Filed

-----------------------------------------------------------------------------
LEMMA ConstantFacts ==
  /\ MaxCalls \in Nat /\ MaxCalls >= 1 /\ MaxDup \in Nat
  /\ Calls \subseteq Ids /\ Made \subseteq Ids /\ Made \subseteq Calls
BY BrokerAssumption DEF Calls, Ids, Made

LEMMA MessagesTyped == IndInv => Typed
BY ConstantFacts, MessagesWiden DEF IndInv, Typed

LEMMA IndInvInit == Init => IndInv
<1> HAVE Init
<1>0. requests = <<>> /\ jobs = <<>> /\ responses = [c \in Clients |-> <<>>]
  BY DEF Init, BrokerInit, ServerInit
<1>1. CountersOK
  BY ConstantFacts DEF Init, BrokerInit, ServerInit, CountersOK
<1>2. ClientTypeOK
  BY ConstantFacts DEF Init, ClientTypeOK, PcValues, Outcomes
<1>3. CallsInOrder
  BY ConstantFacts DEF Init, CallsInOrder, InCall
<1>4. MessagesWithin(Made) /\ AllVouched /\ Honest
  BY <1>0, EmptySeq DEF MessagesWithin, AllVouched, Honest
<1>5. Filed
  BY ConstantFacts DEF Init, Filed
<1> QED
  BY <1>1, <1>2, <1>3, <1>4, <1>5 DEF IndInv

-----------------------------------------------------------------------------
(* What a step of an invoker may do to the messages: publish its current         *)
(* command, or take from its own inbox.                                      *)
LEMMA StepMessages ==
  ASSUME IndInv, NEW c \in Clients, Step(c)
  PROVE  /\ UNCHANGED serverVars /\ UNCHANGED dups /\ subscribed' \in SUBSET Clients
         /\ \/ UNCHANGED requests
            \/ requests' = Append(requests, RequestOf(<<c, inv[c] + 1>>)) /\ Publish(c)
         /\ \/ UNCHANGED responses
            \/ responses' = [responses EXCEPT ![c] = <<>>]
            \/ responses[c] # <<>> /\ responses' = [responses EXCEPT ![c] = Tail(@)]
BY DEF IndInv, CountersOK, Step, Subscribe, Attach, Publish, Register, PublishRaises, Complete, TimeOut, Ignore,
       Respond, NetworkThreadDies, Listens, Stop, brokerVars, serverVars

LEMMA StepKeepsTypes ==
  ASSUME IndInv, NEW c \in Clients, Step(c)
  PROVE  CountersOK' /\ ClientTypeOK' /\ CallsInOrder' /\ Made \subseteq Made'
<1> USE ConstantFacts DEF PcValues, Outcomes, InCall
<1>0. ClientTypeOK /\ CallsInOrder /\ CountersOK
  BY DEF IndInv
<1>1. CountersOK'
  BY <1>0, StepMessages DEF CountersOK, serverVars
<1>2. CASE Publish(c)
  <2>1. /\ pc[c] = "idle" /\ inv[c] + 1 \in 1..MaxCalls
        /\ inv' = [inv EXCEPT ![c] = @ + 1]
        /\ outcome' = [outcome EXCEPT ![c][inv[c] + 1] = "pending"]
        /\ pc' = [pc EXCEPT ![c] = "publishing"]
        /\ UNCHANGED <<netUp, pending, future>>
    BY <1>0, <1>2 DEF Publish, ClientTypeOK
  <2>2. ClientTypeOK'
    BY <1>0, <2>1 DEF ClientTypeOK
  <2>3. CallsInOrder'
    BY <1>0, <2>1 DEF ClientTypeOK, CallsInOrder
  <2>4. Made \subseteq Made'
    BY <1>0, <2>1 DEF ClientTypeOK, Made, Calls
  <2> QED
    BY <1>1, <2>2, <2>3, <2>4
<1>3. ASSUME InCall(c), inv[c] \in 1..MaxCalls,
             NEW how \in {"answered", "timedOut", "failed"}, End(c, how),
             NEW at \in {"idle", "stopped"}, pc' = [pc EXCEPT ![c] = at],
             UNCHANGED <<inv, netUp, pending, future>>
      PROVE  ClientTypeOK' /\ CallsInOrder' /\ Made \subseteq Made'
  <2>1. outcome' = [outcome EXCEPT ![c][inv[c]] = how]
    BY <1>3 DEF End
  <2>2. ClientTypeOK'
    BY <1>0, <1>3, <2>1 DEF ClientTypeOK
  <2>3. CallsInOrder'
    BY <1>0, <1>3, <2>1 DEF ClientTypeOK, CallsInOrder
  <2>4. Made \subseteq Made'
    BY <1>0, <1>3, <2>1 DEF ClientTypeOK, Made, Calls
  <2> QED
    BY <2>2, <2>3, <2>4
<1>4. CASE PublishRaises(c) \/ Complete(c) \/ TimeOut(c)
  <2>1. InCall(c) /\ inv[c] \in 1..MaxCalls
    BY <1>0, <1>4 DEF PublishRaises, Complete, TimeOut, CallsInOrder
  <2>2. CASE PublishRaises(c)
    BY <1>1, <1>3, <2>1, <2>2 DEF PublishRaises, Stop
  <2>3. CASE Complete(c)
    BY <1>1, <1>3, <2>1, <2>3 DEF Complete
  <2>4. CASE TimeOut(c)
    BY <1>1, <1>3, <2>1, <2>4 DEF TimeOut, Stop
  <2> QED
    BY <1>4, <2>2, <2>3, <2>4
<1>5. CASE Subscribe(c) \/ Attach(c) \/ Register(c)
  <2>1. /\ UNCHANGED <<inv, netUp, future, outcome>>
        /\ InCall(c)' <=> InCall(c)
        /\ pc' \in [Clients -> PcValues] /\ \A d \in Clients \ {c} : pc'[d] = pc[d]
    BY <1>0, <1>5 DEF Subscribe, Attach, Register, ClientTypeOK
  <2>2. pending' \in [Clients -> SUBSET Calls]
    <3>1. CASE Register(c)
      <4>1. Current(c) \in Calls
        BY <1>0, <3>1 DEF Register, CallsInOrder, Current, Calls
      <4> QED
        BY <1>0, <3>1, <4>1 DEF Register, ClientTypeOK
    <3> QED
      BY <1>0, <1>5, <3>1 DEF Subscribe, Attach, ClientTypeOK
  <2>3. ClientTypeOK'
    BY <1>0, <2>1, <2>2 DEF ClientTypeOK
  <2>4. CallsInOrder' /\ Made \subseteq Made'
    BY <1>0, <2>1 DEF CallsInOrder, Made
  <2> QED
    BY <1>1, <2>3, <2>4
<1>6. CASE Ignore(c) \/ Respond(c) \/ NetworkThreadDies(c)
  <2>1. UNCHANGED <<pc, inv, pending, outcome>>
    BY <1>6 DEF Ignore, Respond, NetworkThreadDies, clientVars
  <2>2. netUp' \in [Clients -> BOOLEAN]
    BY <1>0, <1>6 DEF Ignore, Respond, NetworkThreadDies, clientVars, ClientTypeOK
  <2>3. future' \in [Clients -> [1..MaxCalls -> SUBSET Response]]
    <3>1. CASE Respond(c)
      <4> DEFINE r == Head(responses[c])
      <4>1. r \in Response
        <5>1. responses[c] \in Seq(Response) /\ responses[c] # <<>>
          BY <3>1, MessagesTyped, Sequences DEF Respond, Listens
        <5> QED
          BY <5>1, SequenceTypes
      <4>2. r.id \in Calls
        BY <1>0, <3>1 DEF Respond, Resolvable, ClientTypeOK
      <4>3. r.id[2] \in 1..MaxCalls
        BY <4>2 DEF Calls
      <4>4. future' = [future EXCEPT ![c][r.id[2]] = {r}]
        BY <3>1 DEF Respond
      <4> HIDE DEF r
      <4> QED
        BY <1>0, <4>1, <4>3, <4>4 DEF ClientTypeOK
    <3> QED
      BY <1>0, <1>6, <3>1 DEF Ignore, NetworkThreadDies, clientVars, ClientTypeOK
  <2>4. ClientTypeOK'
    BY <1>0, <2>1, <2>2, <2>3 DEF ClientTypeOK
  <2>5. CallsInOrder' /\ Made \subseteq Made'
    BY <1>0, <2>1 DEF CallsInOrder, Made
  <2> QED
    BY <1>1, <2>4, <2>5
<1> QED
  BY <1>2, <1>4, <1>5, <1>6 DEF Step

(* A step of an invoker sends nothing but what it is asked to, and takes          *)
(* nothing but from its own inbox.                                           *)
LEMMA StepKeepsMessages ==
  ASSUME IndInv, NEW c \in Clients, Step(c)
  PROVE  MessagesWithin(Made)' /\ AllVouched' /\ Honest'
<1>1. /\ UNCHANGED <<kind, executed, jobs>>
      /\ \/ UNCHANGED requests
         \/ requests' = Append(requests, RequestOf(<<c, inv[c] + 1>>)) /\ Publish(c)
      /\ \/ UNCHANGED responses
         \/ responses' = [responses EXCEPT ![c] = <<>>]
         \/ responses[c] # <<>> /\ responses' = [responses EXCEPT ![c] = Tail(@)]
  BY StepMessages DEF serverVars
<1>2. ASSUME NEW S, responses \in [Clients -> Seq(S)]
      PROVE  responses' \in [Clients -> Seq(S)]
  <2>1. <<>> \in Seq(S) /\ (responses[c] # <<>> => Tail(responses[c]) \in Seq(S))
    BY <1>2, SequenceTypes
  <2> QED
    BY <1>1, <1>2, <2>1
<1>3. ASSUME Publish(c)
      PROVE  RequestOf(<<c, inv[c] + 1>>) \in RequestsOf(Made') \cap Placeholders
  <2> DEFINE i == <<c, inv[c] + 1>>
  <2>1. /\ inv[c] + 1 \in 1..MaxCalls
        /\ outcome' = [outcome EXCEPT ![c][inv[c] + 1] = "pending"]
    BY <1>3, ConstantFacts DEF Publish, IndInv, ClientTypeOK
  <2>2. i \in Calls /\ i \in Ids
    BY <2>1, ConstantFacts DEF Calls
  <2>3. outcome'[c][inv[c] + 1] = "pending"
    BY <2>1 DEF IndInv, ClientTypeOK
  <2>4. i \in Made'
    BY <2>2, <2>3 DEF Made, Calls
  <2> HIDE DEF i
  <2>5. RequestOf(i) \in Request
    BY <2>2 DEF RequestOf, Request, ContentTypes, RequestPayloads
  <2>6. RequestOf(i).id = i /\ RequestOf(i).ctype = "none" /\ RequestOf(i).payload = "placeholder"
    BY DEF RequestOf
  <2>7. RequestOf(i) \in RequestsOf(Made') /\ RequestOf(i) \in Placeholders
    BY <2>4, <2>5, <2>6 DEF RequestsOf, Placeholders
  <2> QED
    BY <2>7 DEF i
<1>4. Made \subseteq Made'
  BY StepKeepsTypes
<1>5. MessagesWithin(Made)'
  <2>1. /\ requests \in Seq(RequestsOf(Made')) /\ jobs \in Seq(RequestsOf(Made'))
        /\ responses \in [Clients -> Seq(ResponsesOf(Made'))]
    BY <1>4, MessagesWiden DEF IndInv, MessagesWithin
  <2>2. requests' \in Seq(RequestsOf(Made'))
    <3>1. \A x \in RequestsOf(Made') : Append(requests, x) \in Seq(RequestsOf(Made'))
      BY <2>1, SequenceTypes
    <3> QED
      BY <1>1, <1>3, <2>1, <3>1
  <2>3. responses' \in [Clients -> Seq(ResponsesOf(Made'))]
    BY <1>2, <2>1
  <2> QED
    BY <1>1, <2>1, <2>2, <2>3 DEF MessagesWithin, RequestsOf, ResponsesOf
<1>6. AllVouched'
  <2>1. requests \in Seq(Placeholders) /\ jobs \in Seq(PoolJobs) /\ responses \in [Clients -> Seq(Vouches)]
    BY DEF IndInv, AllVouched
  <2>2. requests' \in Seq(Placeholders)
    <3>1. \A x \in Placeholders : Append(requests, x) \in Seq(Placeholders)
      BY <2>1, SequenceTypes
    <3> QED
      BY <1>1, <1>3, <2>1, <3>1
  <2>3. responses' \in [Clients -> Seq(Vouches)]
    BY <1>2, <2>1
  <2> QED
    BY <1>1, <2>1, <2>2, <2>3 DEF AllVouched, PoolJobs
<1>7. Honest'
  <2>1. jobs \in Seq(Owed) /\ responses \in [Clients -> Seq(Truthful)]
    BY DEF IndInv, Honest
  <2>2. responses' \in [Clients -> Seq(Truthful)]
    BY <1>2, <2>1
  <2> QED
    BY <1>1, <2>1, <2>2 DEF Honest, Owed, Truthful
<1> QED
  BY <1>5, <1>6, <1>7

(* A response is filed under its own id, and it says what the server did.       *)
LEMMA StepKeepsLedger ==
  ASSUME IndInv, NEW c \in Clients, Step(c)
  PROVE  Filed'
<1> USE ConstantFacts
<1>0. ClientTypeOK /\ CallsInOrder /\ Filed /\ UNCHANGED executed
  BY StepMessages DEF IndInv, serverVars
<1>1. CASE Publish(c)
  BY <1>0, <1>1 DEF Publish, Filed, ClientTypeOK
<1>2. CASE Complete(c) \/ TimeOut(c) \/ PublishRaises(c)
  <2>1. UNCHANGED <<pending, future, inv>>
    BY <1>2 DEF Complete, TimeOut, PublishRaises
  <2>2. PICK how \in Outcomes : /\ outcome' = [outcome EXCEPT ![c][inv[c]] = how]
                                /\ how = "answered" => future[c][inv[c]] # {}
    BY <1>2 DEF Complete, TimeOut, PublishRaises, End, Outcomes
  <2> QED
    BY <1>0, <2>1, <2>2 DEF Filed, ClientTypeOK
<1>3. CASE Register(c)
  <2>1. pending' = [pending EXCEPT ![c] = @ \cup {Current(c)}] /\ UNCHANGED <<future, outcome>>
    BY <1>3 DEF Register
  <2>2. Current(c)[1] = c
    BY DEF Current
  <2>3. \A d \in Clients : pending'[d] = IF d = c THEN pending[d] \cup {Current(c)} ELSE pending[d]
    BY <1>0, <2>1 DEF ClientTypeOK
  <2> QED
    BY <1>0, <2>1, <2>2, <2>3 DEF Filed
<1>4. CASE Respond(c)
  <2> DEFINE r == Head(responses[c])
  <2>1. /\ r.id \in pending[c]
        /\ future' = [future EXCEPT ![c][r.id[2]] = {r}]
        /\ UNCHANGED <<pending, outcome>>
        /\ responses[c] # <<>>
    BY <1>4 DEF Respond, Resolvable, Listens
  <2>2. r \in Vouches /\ r \in Truthful
    <3>1. responses[c] \in Seq(Vouches) /\ responses[c] \in Seq(Truthful)
      BY DEF IndInv, AllVouched, Honest
    <3> QED
      BY <2>1, <3>1, SequenceTypes
  <2>3. executed[r.id] > 0
    BY <2>2 DEF Truthful
  <2> HIDE DEF r
  <2>4. r.id \in Calls /\ r.id[1] = c
    BY <1>0, <2>1 DEF Filed, ClientTypeOK
  <2>5. r.id[2] \in 1..MaxCalls /\ r.id = <<c, r.id[2]>>
    BY <2>4 DEF Calls
  <2> DEFINE n == r.id[2]
  <2>6. \A d \in Clients, k \in 1..MaxCalls :
          future'[d][k] = IF d = c /\ k = n THEN {r} ELSE future[d][k]
    BY <1>0, <2>1, <2>5 DEF ClientTypeOK
  <2>7. r.id = <<c, n>> /\ executed'[r.id] > 0
    BY <1>0, <2>3, <2>5
  <2> HIDE DEF n
  <2>8. \A d \in Clients, k \in 1..MaxCalls : \A q \in future'[d][k] : q.id = <<d, k>> /\ executed'[q.id] > 0
    BY <1>0, <2>6, <2>7 DEF Filed
  <2>9. \A d \in Clients, k \in 1..MaxCalls : outcome'[d][k] = "answered" => future'[d][k] # {}
    BY <1>0, <2>1, <2>6 DEF Filed
  <2> QED
    BY <1>0, <2>1, <2>8, <2>9 DEF Filed
<1>5. CASE UNCHANGED <<pending, future, outcome>>
  BY <1>0, <1>5 DEF Filed
<1> QED
  BY <1>1, <1>2, <1>3, <1>4, <1>5 DEF Step, Subscribe, Attach, Ignore, NetworkThreadDies, clientVars

(* The servers and the broker leave the invokers alone.                      *)
LEMMA ServerKeeps ==
  ASSUME IndInv, ServerNext \/ BrokerNext, UNCHANGED clientVars
  PROVE  IndInv'
<1>0. Typed /\ Honest /\ AllVouched /\ MessagesWithin(Made) /\ CountersOK
  BY MessagesTyped DEF IndInv
<1>1. UNCHANGED <<pc, inv, netUp, pending, future, outcome>>
  BY DEF clientVars
<1>2. ClientTypeOK' /\ CallsInOrder'
  BY <1>1 DEF IndInv, ClientTypeOK, CallsInOrder, InCall
<1>3. CountersOK' /\ MessagesWithin(Made)'
  <2>1. \A I : MessagesWithin(I) => requests' \in Seq(RequestsOf(I)) /\ jobs' \in Seq(RequestsOf(I))
                                      /\ responses' \in [Clients -> Seq(ResponsesOf(I))] /\ CountersOK'
    BY <1>0, ServersOnlyEcho DEF MessagesWithin
  <2>2. Made' = Made
    BY <1>1 DEF Made
  <2> QED
    BY <1>0, <2>1, <2>2 DEF MessagesWithin, RequestsOf, ResponsesOf
<1>4. Honest'
  BY <1>0, HonestKeeps
<1>5. AllVouched'
  <2>1. \A m \in Placeholders : Deferred(m) => m \in PoolJobs
    BY DEF Placeholders, Deferred, PoolJobs
  <2>2. \A m \in Placeholders : \A r : Answers(m, r) => r \in Vouches
    BY DEF Placeholders, Answers, ResponsesOf, Response, Statuses, Vouches
  <2>3. \A m \in PoolJobs : \A r : Sends(m, r) => r \in Vouches
    BY DEF PoolJobs, Sends, ResponsesOf, Vouches
  <2>4. requests' \in Seq(Placeholders) /\ jobs' \in Seq(PoolJobs) /\ responses' \in [Clients -> Seq(Vouches)]
    BY <1>0, <2>1, <2>2, <2>3, PassOn DEF AllVouched
  <2>5. UNCHANGED kind
    BY <1>0, KindIsFixed
  <2> QED
    BY <2>4, <2>5 DEF AllVouched, PoolJobs
<1>6. Filed'
  <2>1. \A i \in Ids : executed[i] > 0 => executed'[i] > 0
    BY <1>0, ExecutedGrows
  <2>2. \A c \in Clients, k \in 1..MaxCalls : \A r \in future[c][k] : r.id \in Ids
    <3>1. \A c \in Clients, k \in 1..MaxCalls : future[c][k] \in SUBSET Response
      <4>1. future \in [Clients -> [1..MaxCalls -> SUBSET Response]]
        BY DEF IndInv, ClientTypeOK
      <4> QED
        BY <4>1, Zenon
    <3>2. \A r \in Response : r.id \in Ids
      BY DEF Response
    <3> QED
      BY <3>1, <3>2
  <2> QED
    BY <1>1, <2>1, <2>2 DEF IndInv, Filed
<1> QED
  BY <1>2, <1>3, <1>4, <1>5, <1>6 DEF IndInv

LEMMA Invariance == Spec => []IndInv
<1>1. IndInv /\ [Next]_vars => IndInv'
  <2> SUFFICES ASSUME IndInv, [Next]_vars PROVE IndInv'
    OBVIOUS
  <2>1. ASSUME NEW c \in Clients, Step(c) PROVE IndInv'
    BY <2>1, StepKeepsTypes, StepKeepsMessages, StepKeepsLedger DEF IndInv
  <2>2. CASE (ServerNext \/ BrokerNext) /\ UNCHANGED clientVars
    BY <2>2, ServerKeeps
  <2>3. CASE UNCHANGED vars
    BY <2>3 DEF vars, brokerVars, serverVars, clientVars, IndInv, CountersOK, ClientTypeOK,
       CallsInOrder, InCall, MessagesWithin, Made, AllVouched, PoolJobs, Honest, Owed, Truthful, Filed
  <2> QED
    BY <2>1, <2>2, <2>3 DEF Next
<1> QED
  BY <1>1, IndInvInit, PTL DEF Spec

-----------------------------------------------------------------------------
(* The invoker's fields, the ledger, the server and the messages keep their      *)
(* types.                                                                    *)
THEOREM TypeCorrect == Spec => []TypeOK
<1>1. IndInv => TypeOK
  BY MessagesTyped, TypesOfMessages DEF IndInv, Typed, ClientTypeOK, TypeOK
<1> QED
  BY <1>1, Invariance, PTL

(* In whatever order a pool sends the responses, whatever is repeated and          *)
(* whoever else's responses arrive, an answered command has its own response.  *)
THEOREM LedgerNeverMixesUp == Spec => []OwnResponse
<1>1. IndInv => OwnResponse
  BY DEF IndInv, Filed, OwnResponse
<1> QED
  BY <1>1, Invariance, PTL

-----------------------------------------------------------------------------
(* The invoker keeps the promise of CommandCall, but for liveness: each step      *)
(* opens, performs, answers or fails one command, or changes nothing of it.    *)
Shown(o) ==
  CASE o = "none"     -> "new"
    [] o = "pending"  -> "open"
    [] o = "answered" -> "answered"
    [] OTHER          -> "failed"

LEMMA ShownAs ==
  /\ Shown("none") = "new" /\ Shown("pending") = "open" /\ Shown("answered") = "answered"
  /\ Shown("timedOut") = "failed" /\ Shown("failed") = "failed"
  /\ phaseBar = [c \in Clients |-> [k \in 1..MaxCalls |-> Shown(outcome[c][k])]]
  /\ \A c \in Clients, k \in 1..MaxCalls : phaseBar[c][k] = Shown(outcome[c][k])
<1>1. /\ Shown("none") = "new" /\ Shown("pending") = "open" /\ Shown("answered") = "answered"
      /\ Shown("timedOut") = "failed" /\ Shown("failed") = "failed"
  BY DEF Shown
<1>2. phaseBar = [c \in Clients |-> [k \in 1..MaxCalls |-> Shown(outcome[c][k])]]
  BY DEF phaseBar, Shown
<1> QED
  BY <1>1, <1>2

LEMMA PhaseMoves ==
  ASSUME ClientTypeOK, NEW c \in Clients, NEW k \in 1..MaxCalls, NEW o,
         outcome' = [outcome EXCEPT ![c][k] = o]
  PROVE  phaseBar' = [phaseBar EXCEPT ![c][k] = Shown(o)]
<1>1. /\ phaseBar = [d \in Clients |-> [j \in 1..MaxCalls |-> Shown(outcome[d][j])]]
      /\ phaseBar' = [d \in Clients |-> [j \in 1..MaxCalls |-> Shown(outcome'[d][j])]]
  BY DEF phaseBar, Shown
<1>2. \A d \in Clients, j \in 1..MaxCalls :
        outcome'[d][j] = IF d = c /\ j = k THEN o ELSE outcome[d][j]
  BY DEF ClientTypeOK
<1>3. \A d \in Clients :
        [j \in 1..MaxCalls |-> Shown(outcome'[d][j])]
          = IF d = c THEN [phaseBar[c] EXCEPT ![k] = Shown(o)] ELSE phaseBar[d]
  <2> TAKE d \in Clients
  <2>1. phaseBar[d] = [j \in 1..MaxCalls |-> Shown(outcome[d][j])]
    BY <1>1
  <2>2. CASE d = c
    <3>1. \A j \in 1..MaxCalls : Shown(outcome'[d][j]) = IF j = k THEN Shown(o) ELSE Shown(outcome[d][j])
      BY <1>2, <2>2
    <3> QED
      BY <2>1, <2>2, <3>1, ZenonT(60)
  <2>3. CASE d # c
    <3>1. \A j \in 1..MaxCalls : Shown(outcome'[d][j]) = Shown(outcome[d][j])
      BY <1>2, <2>3
    <3> QED
      BY <2>1, <2>3, <3>1
  <2> QED
    BY <2>2, <2>3
<1> QED
  BY <1>1, <1>3

LEMMA StepKeepsPromise ==
  ASSUME IndInv, NEW c \in Clients, Step(c)
  PROVE  [Promise!CallNext]_(Promise!callVars)
<1> USE ConstantFacts
<1>0. ClientTypeOK /\ CallsInOrder /\ Filed /\ UNCHANGED executed
  BY StepMessages DEF IndInv, serverVars
<1>1. UNCHANGED performedBar
  BY <1>0 DEF performedBar
<1>2. CASE Publish(c)
  <2> DEFINE k == inv[c] + 1
  <2>1. /\ k \in 1..MaxCalls /\ ~InCall(c)
        /\ outcome' = [outcome EXCEPT ![c][k] = "pending"]
    BY <1>0, <1>2 DEF Publish, ClientTypeOK, InCall
  <2>2. outcome[c][k] = "none"
    BY <1>0, <2>1 DEF CallsInOrder, ClientTypeOK
  <2>3. \A j \in 1..(k - 1) : j \in 1..MaxCalls /\ outcome[c][j] \in {"answered", "timedOut", "failed"}
    BY <1>0, <2>1 DEF CallsInOrder, ClientTypeOK, Outcomes
  <2> HIDE DEF k
  <2>4. phaseBar[c][k] = "new"
    BY <2>1, <2>2, ShownAs
  <2>5. \A j \in 1..(k - 1) : phaseBar[c][j] \in {"answered", "failed"}
    BY <2>1, <2>3, ShownAs
  <2>6. phaseBar' = [phaseBar EXCEPT ![c][k] = "open"]
    BY <1>0, <2>1, PhaseMoves, ShownAs, ZenonT(60)
  <2>7. Promise!Open(c, k)
    BY <1>1, <2>4, <2>5, <2>6 DEF Promise!Open, Promise!Closed
  <2> QED
    BY <2>1, <2>7 DEF Promise!CallNext
<1>3. CASE Complete(c) \/ TimeOut(c) \/ PublishRaises(c)
  <2> DEFINE k == inv[c]
  <2>1. k \in 1..MaxCalls /\ outcome[c][k] = "pending"
    BY <1>0, <1>3 DEF Complete, TimeOut, PublishRaises, CallsInOrder, InCall
  <2>2. phaseBar[c][k] = "open"
    BY <2>1, ShownAs
  <2>3. CASE Complete(c)
    <3>1. outcome' = [outcome EXCEPT ![c][k] = "answered"] /\ future[c][k] # {}
      BY <2>3 DEF Complete, End
    <3>2. <<c, k>> \in performedBar
      BY <1>0, <2>1, <3>1 DEF Filed, performedBar, Calls
    <3> HIDE DEF k
    <3>3. phaseBar' = [phaseBar EXCEPT ![c][k] = "answered"]
      <4>1. phaseBar' = [phaseBar EXCEPT ![c][k] = Shown("answered")]
        BY <1>0, <2>1, <3>1, PhaseMoves
      <4> QED
        BY <4>1, ShownAs
    <3>4. Promise!Answer(c, k)
      BY <1>1, <2>2, <3>2, <3>3 DEF Promise!Answer
    <3> QED
      BY <2>1, <3>4 DEF Promise!CallNext
  <2>4. CASE TimeOut(c) \/ PublishRaises(c)
    <3>1. PICK how \in {"timedOut", "failed"} : outcome' = [outcome EXCEPT ![c][k] = how]
      BY <2>4 DEF TimeOut, PublishRaises, End
    <3> HIDE DEF k
    <3>2. phaseBar' = [phaseBar EXCEPT ![c][k] = "failed"]
      <4>1. phaseBar' = [phaseBar EXCEPT ![c][k] = Shown(how)]
        BY <1>0, <2>1, <3>1, PhaseMoves
      <4> QED
        BY <3>1, <4>1, ShownAs
    <3>3. Promise!Fail(c, k)
      BY <1>1, <2>2, <3>2 DEF Promise!Fail
    <3> QED
      BY <2>1, <3>3 DEF Promise!CallNext
  <2> QED
    BY <1>3, <2>3, <2>4
<1>4. CASE UNCHANGED outcome
  BY <1>1, <1>4 DEF phaseBar, Promise!callVars
<1> QED
  BY <1>2, <1>3, <1>4 DEF Step, Subscribe, Attach, Register, Ignore, Respond, NetworkThreadDies, clientVars

(* Only a command that was made is performed.                                *)
LEMMA ServerKeepsPromise ==
  ASSUME IndInv, ServerNext \/ BrokerNext, UNCHANGED clientVars
  PROVE  [Promise!CallNext]_(Promise!callVars)
<1>1. UNCHANGED phaseBar
  BY DEF clientVars, phaseBar
<1>2. executed \in [Ids -> Nat]
  BY DEF IndInv, CountersOK
<1>3. UNCHANGED executed \/ \E i \in Made \cap Ids : executed' = [executed EXCEPT ![i] = @ + 1]
  BY MessagesTyped, ExecutedOnce DEF IndInv
<1>4. ASSUME NEW i \in Made \cap Ids, executed' = [executed EXCEPT ![i] = @ + 1]
      PROVE  Promise!CallNext
  <2>1. PICK c \in Clients, k \in 1..MaxCalls : i = <<c, k>>
    BY <1>4 DEF Made, Calls
  <2>2. phaseBar[c][k] # "new"
    <3>1. outcome[c][k] \in Outcomes \ {"none"}
      BY <1>4, <2>1, ZenonT(60) DEF Made, IndInv, ClientTypeOK
    <3> QED
      BY <3>1, ShownAs DEF Outcomes
  <2>3. performedBar' = performedBar \cup {<<c, k>>}
    BY <1>2, <1>4, <2>1, ConstantFacts DEF performedBar, Made
  <2>4. Promise!Perform(c, k)
    BY <1>1, <2>2, <2>3 DEF Promise!Perform
  <2> QED
    BY <2>4 DEF Promise!CallNext
<1>5. CASE UNCHANGED executed
  BY <1>1, <1>5 DEF performedBar, Promise!callVars
<1> QED
  BY <1>3, <1>4, <1>5

(* Whichever server answers, a command of the invoker is answered only after the  *)
(* vehicle performed it, commands are made one at a time and end once: the      *)
(* safety part of ImplementsCall.                                            *)
THEOREM InvokerKeepsPromise ==
  Spec => Promise!CallInit /\ [][Promise!CallNext]_(Promise!callVars)
<1>1. Init => Promise!CallInit
  <2> HAVE Init
  <2>1. phaseBar = [c \in Clients |-> [k \in 1..MaxCalls |-> "new"]]
    BY ShownAs DEF Init
  <2>2. performedBar = {}
    BY ConstantFacts DEF Init, ServerInit, performedBar
  <2> QED
    BY <2>1, <2>2 DEF Promise!CallInit
<1>2. IndInv /\ [Next]_vars => [Promise!CallNext]_(Promise!callVars)
  <2> SUFFICES ASSUME IndInv, [Next]_vars PROVE [Promise!CallNext]_(Promise!callVars)
    OBVIOUS
  <2>1. ASSUME NEW c \in Clients, Step(c) PROVE [Promise!CallNext]_(Promise!callVars)
    BY <2>1, StepKeepsPromise
  <2>2. CASE (ServerNext \/ BrokerNext) /\ UNCHANGED clientVars
    BY <2>2, ServerKeepsPromise
  <2>3. CASE UNCHANGED vars
    BY <2>3 DEF vars, serverVars, clientVars, phaseBar, performedBar, Promise!callVars
  <2> QED
    BY <2>1, <2>2, <2>3 DEF Next
<1> QED
  BY <1>1, <1>2, Invariance, PTL DEF Spec
=============================================================================
