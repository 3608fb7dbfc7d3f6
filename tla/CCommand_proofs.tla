---------------------------- MODULE CCommand_proofs ---------------------------
(***************************************************************************)
(* Proofs about the programs in C.                                            *)
(*   CCommand, the command client in front of any of the servers, for every set  *)
(*     of clients, timeout and rate, with losses, redeliveries and failures:     *)
(*     types, that what is taken for an answer carries an id of the client's     *)
(*     own, and that a command overtakes an unanswered one only by way of the   *)
(*     race of the client's two threads.                                       *)
(*   CSample, for every choice of programs and every number of connections:       *)
(*     types, and what the two threads of a sample never do to each other.      *)
(***************************************************************************)
EXTENDS CCommand, CSample, CommandServer_proofs

ClientTypeOK ==
  /\ pc \in [Clients -> PcValues]
  /\ gen \in [Clients -> 0..MaxCalls]
  /\ pending \in [Clients -> Calls \cup {NullId}]
  /\ copied \in [Clients -> Calls \cup {NullId}]
  /\ age \in [Clients -> Ages] /\ lag \in [Clients -> Ages]
  /\ due \in [Clients -> BOOLEAN]
  /\ clearing \in [Clients -> BOOLEAN]
  /\ sent \in [Clients -> SUBSET Ids]
  /\ answered \in [Clients -> SUBSET Ids]
  /\ expired \in [Clients -> SUBSET Ids]

(* The uuids a client generated, and those it generates as it is.             *)
Own(c)    == {i \in Calls : i[1] = c /\ i[2] <= gen[c]}
Latest(c) == <<c, gen[c]>>

(* With or without the race: the static is null or the latest uuid, null while   *)
(* the loop prepares the next, and nothing but that is copied or matched.      *)
Mine ==
  \A c \in Clients :
    /\ pending[c] \in {NullId, Latest(c)}
    /\ copied[c] \in Own(c) \cup {NullId}
    /\ answered[c] \subseteq Own(c) \cup {NullId}
    /\ sent[c] \subseteq Own(c) \cup {NullId}
    /\ pc[c] \in {"rate", "generate"} => pending[c] = NullId

(* Every message under way descends from a command that was sent.            *)
AllSent  == UNION {sent[c] : c \in Clients}
Descends == MessagesWithin(AllSent)

(* No command was both matched and given up.  As nothing leaves the two sets,    *)
(* a state without a race comes after such states only.                      *)
NoRace == \A d \in Clients : answered[d] \cap expired[d] \cap Calls = {}

(* Then no null id is ever sent, the static changes in no thread's back, and at  *)
(* most the command it holds is outstanding.                                 *)
Calm ==
  \A c \in Clients :
    /\ NullId \notin sent[c]
    /\ clearing[c] => pending[c] \in answered[c] \cap Calls
    /\ pc[c] \in {"copy", "publish"} =>
         pending[c] = Latest(c) /\ pending[c] # NullId /\ pending[c] \notin sent[c] /\ ~clearing[c]
    /\ pc[c] = "publish" => copied[c] = pending[c]
    /\ Outstanding(c) \subseteq {pending[c]}

IndInv == CountersOK /\ ClientTypeOK /\ Mine /\ Descends /\ (NoRace => Calm)


-----------------------------------------------------------------------------
LEMMA ConstantFacts ==
  /\ MaxCalls \in Nat /\ MaxDup \in Nat
  /\ Calls \subseteq Ids /\ NullId \in Ids /\ NullId \notin Calls
  /\ 0 \in Ages /\ CallsOf \in [Clients -> 1..MaxCalls]
<1>1. NullId \notin Calls
  <2>1. NullId[2] = 0 /\ \A i \in Calls : i[2] \in 1..MaxCalls
    BY DEF NullId, Calls
  <2>2. 0 \notin 1..MaxCalls
    BY BrokerAssumption
  <2> QED
    BY <2>1, <2>2
<1> QED
  BY <1>1, BrokerAssumption, TimingAssumption, CallsAssumption DEF Ids, Ages

LEMMA OlderIsAge == \A a \in Ages : Older(a) \in Ages
BY TimingAssumption DEF Older, Ages

LEMMA MessagesTyped == IndInv => Typed
<1> HAVE IndInv
<1>1. AllSent \subseteq Ids
  BY DEF IndInv, ClientTypeOK, AllSent
<1> QED
  BY <1>1, MessagesWiden DEF IndInv, Descends, Typed

LEMMA IndInvInit == Init => IndInv
<1> HAVE Init
<1>0. requests = <<>> /\ jobs = <<>> /\ responses = [c \in Clients |-> <<>>]
  BY DEF Init, BrokerInit, ServerInit
<1>1. CountersOK
  BY ConstantFacts DEF Init, BrokerInit, ServerInit, CountersOK
<1>2. ClientTypeOK
  BY ConstantFacts DEF Init, ClientTypeOK, PcValues
<1>3. Mine
  BY DEF Init, Mine
<1>4. Descends
  BY <1>0, EmptySeq DEF Descends, MessagesWithin
<1>5. Calm
  BY DEF Init, Calm, Outstanding
<1> QED
  BY <1>1, <1>2, <1>3, <1>4, <1>5 DEF IndInv

-----------------------------------------------------------------------------
(* What the client may do to the messages: send the id it copied, or take from   *)
(* its own inbox.                                                            *)
LEMMA StepMessages ==
  ASSUME IndInv, NEW c \in Clients, Loop(c) \/ Network(c)
  PROVE  /\ UNCHANGED serverVars /\ UNCHANGED dups /\ subscribed' \in SUBSET Clients
         /\ \/ UNCHANGED <<requests, sent>>
            \/ /\ requests' = Append(requests, RequestOf(copied[c]))
               /\ sent' = [sent EXCEPT ![c] = @ \cup {copied[c]}]
         /\ \/ UNCHANGED responses
            \/ responses[c] # <<>> /\ responses' = [responses EXCEPT ![c] = Tail(@)]
<1>0. subscribed \in SUBSET Clients
  BY DEF IndInv, CountersOK
<1>1. CASE Check(c) \/ Expire(c) \/ TooSoon(c) \/ Prepare(c)
  BY <1>0, <1>1 DEF Check, Expire, TooSoon, Prepare, brokerVars, serverVars
<1>2. CASE Generate(c) \/ Copy(c) \/ Publish(c)
  BY <1>0, <1>2 DEF Generate, Copy, Publish, brokerVars, serverVars
<1>3. CASE Network(c)
  BY <1>0, <1>3 DEF Network, Subscribe, Compare, Mismatch, Clear, Receives, clientVars, brokerVars, serverVars
<1> QED
  BY <1>1, <1>2, <1>3 DEF Loop

(* Every id that is in a message afterwards was sent by then.                  *)
LEMMA StepKeepsMessages ==
  ASSUME IndInv, NEW c \in Clients, Loop(c) \/ Network(c)
  PROVE  CountersOK' /\ Descends'
<1>0. /\ UNCHANGED serverVars /\ UNCHANGED dups /\ subscribed' \in SUBSET Clients
      /\ \/ UNCHANGED <<requests, sent>>
         \/ /\ requests' = Append(requests, RequestOf(copied[c]))
            /\ sent' = [sent EXCEPT ![c] = @ \cup {copied[c]}]
      /\ \/ UNCHANGED responses
         \/ responses[c] # <<>> /\ responses' = [responses EXCEPT ![c] = Tail(@)]
  BY StepMessages
<1>1. CountersOK'
  BY <1>0 DEF IndInv, CountersOK, serverVars
<1>2. sent \in [Clients -> SUBSET Ids] /\ copied[c] \in Ids
  BY ConstantFacts DEF IndInv, ClientTypeOK
<1>3. AllSent \subseteq AllSent'
  BY <1>0, <1>2 DEF AllSent
<1>4. /\ requests \in Seq(RequestsOf(AllSent')) /\ jobs \in Seq(RequestsOf(AllSent'))
      /\ responses \in [Clients -> Seq(ResponsesOf(AllSent'))]
  BY <1>3, MessagesWiden DEF IndInv, Descends, MessagesWithin
<1>5. requests' \in Seq(RequestsOf(AllSent'))
  <2>1. CASE requests' = Append(requests, RequestOf(copied[c])) /\ sent' = [sent EXCEPT ![c] = @ \cup {copied[c]}]
    <3>1. RequestOf(copied[c]) \in Request /\ RequestOf(copied[c]).id = copied[c]
      BY <1>2 DEF RequestOf, Request, ContentTypes, RequestPayloads
    <3>2. copied[c] \in AllSent'
      BY <1>2, <2>1 DEF AllSent
    <3>3. RequestOf(copied[c]) \in RequestsOf(AllSent')
      BY <3>1, <3>2 DEF RequestsOf
    <3> QED
      BY <1>4, <2>1, <3>3, SequenceTypes
  <2> QED
    BY <1>0, <1>4, <2>1
<1>6. responses' \in [Clients -> Seq(ResponsesOf(AllSent'))]
  <2>1. responses[c] # <<>> => Tail(responses[c]) \in Seq(ResponsesOf(AllSent'))
    BY <1>4, SequenceTypes
  <2> QED
    BY <1>0, <1>4, <2>1
<1>7. UNCHANGED jobs
  BY <1>0 DEF serverVars
<1>8. MessagesWithin(AllSent)'
  BY <1>4, <1>5, <1>6, <1>7 DEF MessagesWithin, RequestsOf, ResponsesOf
<1> QED
  BY <1>1, <1>8 DEF Descends

(* A response that matches carries an id that was sent, and is the pending one.  *)
LEMMA MatchFacts ==
  ASSUME IndInv, NEW c \in Clients, Compare(c)
  PROVE  /\ pending[c] \in AllSent
         /\ clearing' = [clearing EXCEPT ![c] = TRUE]
         /\ answered' = [answered EXCEPT ![c] = @ \cup {pending[c]}]
         /\ UNCHANGED <<loopVars, clockVars, pending, sent, expired>>
<1>1. responses[c] # <<>> /\ pending[c] = Head(responses[c]).id
  BY DEF Compare, Receives, Matches
<1>2. responses[c] \in Seq(ResponsesOf(AllSent))
  BY DEF IndInv, Descends, MessagesWithin
<1>3. Head(responses[c]) \in ResponsesOf(AllSent)
  BY <1>1, <1>2, SequenceTypes
<1>4. Head(responses[c]).id \in AllSent
  BY <1>3 DEF ResponsesOf
<1> QED
  BY <1>1, <1>4 DEF Compare, Receives

LEMMA StepKeepsTypes ==
  ASSUME IndInv, NEW c \in Clients, Loop(c) \/ Network(c)
  PROVE  ClientTypeOK'
<1> USE ConstantFacts DEF PcValues, Goto
<1>0. ClientTypeOK /\ Mine
  BY DEF IndInv
<1>1. CASE Check(c) BY <1>0, <1>1 DEF Check, ClientTypeOK
<1>2. CASE Expire(c) BY <1>0, <1>2 DEF Expire, ClientTypeOK, clockVars
<1>3. CASE TooSoon(c) BY <1>0, <1>3 DEF TooSoon, ClientTypeOK
<1>4. CASE Prepare(c) BY <1>0, <1>4 DEF Prepare, ClientTypeOK
<1>5. CASE Generate(c)
  <2>1. gen[c] + 1 \in 1..MaxCalls
    BY <1>0, <1>5 DEF Generate, ClientTypeOK
  <2>2. NewUuid(c) \in Calls
    BY <2>1 DEF NewUuid, Calls
  <2> QED BY <1>0, <1>5, <2>1, <2>2 DEF Generate, ClientTypeOK, clockVars
<1>6. CASE Copy(c) BY <1>0, <1>6 DEF Copy, ClientTypeOK, clockVars
<1>7. CASE Publish(c)
  <2>1. sent' \in [Clients -> SUBSET Ids]
    <3>1. UNCHANGED sent \/ sent' = [sent EXCEPT ![c] = @ \cup {copied[c]}]
      BY <1>7 DEF Publish
    <3>2. copied[c] \in Ids
      BY <1>0 DEF ClientTypeOK
    <3> QED BY <1>0, <3>1, <3>2 DEF ClientTypeOK
  <2> QED BY <1>0, <1>7, <2>1 DEF Publish, ClientTypeOK, clockVars
<1>8. CASE Subscribe(c)
  BY <1>0, <1>8 DEF Subscribe, ClientTypeOK, clientVars, loopVars, clockVars
<1>9. CASE Compare(c)
  <2>1. /\ clearing' = [clearing EXCEPT ![c] = TRUE]
        /\ answered' = [answered EXCEPT ![c] = @ \cup {pending[c]}]
        /\ UNCHANGED <<loopVars, clockVars, pending, sent, expired>>
    BY <1>9, MatchFacts
  <2>2. pending[c] \in Ids
    BY <1>0 DEF ClientTypeOK
  <2>3. answered' \in [Clients -> SUBSET Ids]
    BY <1>0, <2>1, <2>2 DEF ClientTypeOK
  <2>4. clearing' \in [Clients -> BOOLEAN]
    BY <1>0, <2>1 DEF ClientTypeOK
  <2> QED BY <1>0, <2>1, <2>3, <2>4 DEF ClientTypeOK, loopVars, clockVars
<1>10. CASE Mismatch(c)
  BY <1>0, <1>10 DEF Mismatch, Receives, ClientTypeOK, loopVars, clockVars
<1>11. CASE Clear(c)
  BY <1>0, <1>11 DEF Clear, ClientTypeOK, loopVars, clockVars
<1> QED
  BY <1>1, <1>2, <1>3, <1>4, <1>5, <1>6, <1>7, <1>8, <1>9, <1>10, <1>11 DEF Loop, Network

LEMMA StepKeepsMine ==
  ASSUME IndInv, NEW c \in Clients, Loop(c) \/ Network(c)
  PROVE  Mine'
<1> USE DEF Mine, Goto, Latest
<1>0. ClientTypeOK /\ Mine
  BY DEF IndInv
<1>a. ASSUME UNCHANGED gen PROVE \A d \in Clients : Own(d)' = Own(d)
  BY <1>a DEF Own
<1>b. Latest(c) \in Calls => Latest(c) \in Own(c)
  BY <1>0 DEF Own, ClientTypeOK
<1>c. pending[c] \in Own(c) \cup {NullId}
  BY <1>0, <1>b DEF ClientTypeOK
<1>1. CASE Check(c) BY <1>0, <1>1, <1>a DEF Check, ClientTypeOK
<1>2. CASE Expire(c) BY <1>0, <1>2, <1>a DEF Expire, ClientTypeOK
<1>3. CASE TooSoon(c) BY <1>0, <1>3, <1>a DEF TooSoon, ClientTypeOK
<1>4. CASE Prepare(c) BY <1>0, <1>4, <1>a DEF Prepare, ClientTypeOK
<1>5. CASE Generate(c)
  <2>1. /\ gen' = [gen EXCEPT ![c] = @ + 1] /\ pending' = [pending EXCEPT ![c] = NewUuid(c)]
        /\ pc' = [pc EXCEPT ![c] = "copy"]
        /\ UNCHANGED <<copied, answered, sent>>
    BY <1>5 DEF Generate
  <2>2. pending'[c] = <<c, gen'[c]>>
    BY <1>0, <2>1 DEF NewUuid, ClientTypeOK
  <2>3. \A d \in Clients : gen[d] <= gen'[d]
    BY <1>0, <2>1 DEF ClientTypeOK
  <2>4. \A d \in Clients : Own(d) \subseteq Own(d)'
    <3>1. ASSUME NEW d \in Clients, NEW i \in Own(d) PROVE i \in Own(d)'
      <4>1. i \in Calls /\ i[1] = d /\ i[2] <= gen[d] /\ i[2] \in Nat
        BY <3>1 DEF Own, Calls
      <4>2. i[2] <= gen'[d]
        BY <1>0, <2>1, <2>3, <4>1 DEF ClientTypeOK
      <4> QED BY <4>1, <4>2 DEF Own
    <3> QED BY <3>1
  <2>5. \A d \in Clients \ {c} : gen'[d] = gen[d] /\ pending'[d] = pending[d] /\ pc'[d] = pc[d]
    BY <1>0, <2>1 DEF ClientTypeOK
  <2>6. pc'[c] = "copy"
    BY <1>0, <2>1 DEF ClientTypeOK
  <2> QED BY <1>0, <2>1, <2>2, <2>4, <2>5, <2>6
<1>6. CASE Copy(c) BY <1>0, <1>6, <1>a, <1>c DEF Copy, ClientTypeOK
<1>7. CASE Publish(c)
  <2>1. UNCHANGED sent \/ sent' = [sent EXCEPT ![c] = @ \cup {copied[c]}]
    BY <1>7 DEF Publish
  <2>2. \A d \in Clients : sent'[d] \subseteq Own(d) \cup {NullId}
    BY <1>0, <2>1 DEF ClientTypeOK
  <2>3. /\ UNCHANGED <<gen, pending, answered>>
        /\ copied' = [copied EXCEPT ![c] = NullId]
        /\ pc' = [pc EXCEPT ![c] = "check"]
    BY <1>7 DEF Publish
  <2> QED BY <1>0, <2>2, <2>3, <1>a DEF ClientTypeOK
<1>8. CASE Subscribe(c)
  BY <1>0, <1>8, <1>a DEF Subscribe, clientVars, loopVars
<1>9. CASE Compare(c)
  <2>1. /\ answered' = [answered EXCEPT ![c] = @ \cup {pending[c]}]
        /\ UNCHANGED <<pc, gen, copied, pending, sent>>
    BY <1>9, MatchFacts DEF loopVars
  <2>2. \A d \in Clients : answered'[d] \subseteq Own(d) \cup {NullId}
    BY <1>0, <1>c, <2>1 DEF ClientTypeOK
  <2> QED BY <1>0, <2>1, <2>2, <1>a
<1>10. CASE Mismatch(c)
  BY <1>0, <1>10, <1>a DEF Mismatch, Receives, loopVars
<1>11. CASE Clear(c)
  BY <1>0, <1>11, <1>a DEF Clear, ClientTypeOK, loopVars
<1> QED
  BY <1>1, <1>2, <1>3, <1>4, <1>5, <1>6, <1>7, <1>8, <1>9, <1>10, <1>11 DEF Loop, Network

(* The two histories only grow.                                               *)
LEMMA RacesRemain ==
  ASSUME IndInv, NEW c \in Clients, Loop(c) \/ Network(c), NoRace'
  PROVE  NoRace
<1>0. ClientTypeOK
  BY DEF IndInv
<1>1. \A d \in Clients : answered[d] \subseteq answered'[d] /\ expired[d] \subseteq expired'[d]
  <2>1. CASE Check(c) \/ TooSoon(c) \/ Prepare(c) \/ Generate(c) \/ Copy(c) \/ Publish(c)
    BY <2>1 DEF Check, TooSoon, Prepare, Generate, Copy, Publish
  <2>2. CASE Expire(c)
    BY <1>0, <2>2 DEF Expire, ClientTypeOK
  <2>3. CASE Subscribe(c) \/ Mismatch(c) \/ Clear(c)
    BY <2>3 DEF Subscribe, Mismatch, Receives, Clear, clientVars
  <2>4. CASE Compare(c)
    BY <1>0, <2>4, MatchFacts DEF ClientTypeOK
  <2> QED BY <2>1, <2>2, <2>3, <2>4 DEF Loop, Network
<1> QED
  BY <1>1 DEF NoRace

(* As long as there is no race, no thread disturbs the other.                   *)
LEMMA StepKeepsCalm ==
  ASSUME IndInv, Calm, NEW c \in Clients, Loop(c) \/ Network(c), NoRace'
  PROVE  Calm'
<1> USE DEF Calm, Outstanding, Goto
<1>0. ClientTypeOK /\ Mine
  BY DEF IndInv
<1>n. NullId \notin Calls
  BY ConstantFacts
<1>1. CASE Check(c)
  BY <1>0, <1>1 DEF Check, ClientTypeOK, Latest
<1>2. CASE Expire(c)
  <2>1. /\ expired' = [expired EXCEPT ![c] = @ \cup ({pending[c]} \ {NullId})]
        /\ pending' = [pending EXCEPT ![c] = NullId]
        /\ pc' = [pc EXCEPT ![c] = "rate"]
        /\ UNCHANGED <<gen, copied, clearing, sent, answered>>
    BY <1>2 DEF Expire
  <2>2. ~clearing[c]
    <3>1. ASSUME clearing[c] PROVE FALSE
      <4>1. pending[c] \in answered[c] \cap Calls
        BY <3>1
      <4>2. pending[c] \in answered'[c] \cap expired'[c] \cap Calls
        BY <1>0, <1>n, <2>1, <4>1 DEF ClientTypeOK
      <4> QED BY <4>2 DEF NoRace
    <3> QED BY <3>1
  <2>3. pending'[c] = NullId /\ pc'[c] = "rate" /\ expired'[c] = expired[c] \cup ({pending[c]} \ {NullId})
    BY <1>0, <2>1 DEF ClientTypeOK
  <2>4. \A d \in Clients \ {c} : pending'[d] = pending[d] /\ pc'[d] = pc[d] /\ expired'[d] = expired[d]
    BY <1>0, <2>1 DEF ClientTypeOK
  <2> QED BY <1>0, <2>1, <2>2, <2>3, <2>4 DEF Latest
<1>3. CASE TooSoon(c) BY <1>0, <1>3 DEF TooSoon, ClientTypeOK, Latest
<1>4. CASE Prepare(c) BY <1>0, <1>4 DEF Prepare, ClientTypeOK, Latest
<1>5. CASE Generate(c)
  <2>1. /\ gen' = [gen EXCEPT ![c] = @ + 1] /\ pending' = [pending EXCEPT ![c] = NewUuid(c)]
        /\ pc' = [pc EXCEPT ![c] = "copy"] /\ pc[c] = "generate"
        /\ UNCHANGED <<copied, answered, sent, clearing, expired>>
        /\ gen[c] < CallsOf[c]
    BY <1>5 DEF Generate
  <2>2. pending[c] = NullId
    BY <1>0, <2>1 DEF Mine
  <2>3. ~clearing[c] /\ Outstanding(c) = {}
    BY <1>n, <2>2
  <2>4. NewUuid(c) \in Calls
    <3>1. CallsOf[c] \in 1..MaxCalls /\ gen[c] \in 0..MaxCalls /\ MaxCalls \in Nat
      BY <1>0, ConstantFacts DEF ClientTypeOK
    <3>2. gen[c] + 1 \in 1..MaxCalls
      BY <2>1, <3>1
    <3> QED BY <3>2 DEF NewUuid, Calls
  <2>5. NewUuid(c) \notin sent[c]
    <3>1. sent[c] \subseteq Own(c)
      BY <1>0 DEF Mine
    <3>2. NewUuid(c) \notin Own(c)
      BY <1>0 DEF Own, NewUuid, ClientTypeOK
    <3> QED BY <3>1, <3>2
  <2>6. pending'[c] = NewUuid(c) /\ pc'[c] = "copy" /\ Latest(c)' = NewUuid(c)
    BY <1>0, <2>1 DEF ClientTypeOK, Latest, NewUuid
  <2>7. \A d \in Clients \ {c} : pending'[d] = pending[d] /\ pc'[d] = pc[d] /\ Latest(d)' = Latest(d)
    BY <1>0, <2>1 DEF ClientTypeOK, Latest
  <2> QED BY <1>n, <2>1, <2>3, <2>4, <2>5, <2>6, <2>7
<1>6. CASE Copy(c) BY <1>0, <1>6 DEF Copy, ClientTypeOK, Latest
<1>7. CASE Publish(c)
  <2>1. /\ pc[c] = "publish"
        /\ UNCHANGED sent \/ sent' = [sent EXCEPT ![c] = @ \cup {copied[c]}]
        /\ pc' = [pc EXCEPT ![c] = "check"]
        /\ copied' = [copied EXCEPT ![c] = NullId]
        /\ UNCHANGED <<gen, pending, clearing, answered, expired>>
    BY <1>7 DEF Publish
  <2>2. copied[c] = pending[c] /\ pending[c] # NullId
    BY <2>1
  <2>3. sent'[c] \subseteq sent[c] \cup {pending[c]} /\ pc'[c] = "check"
    BY <1>0, <2>1, <2>2 DEF ClientTypeOK
  <2>4. \A d \in Clients \ {c} : sent'[d] = sent[d] /\ copied'[d] = copied[d] /\ pc'[d] = pc[d]
    BY <1>0, <2>1 DEF ClientTypeOK
  <2> QED BY <2>1, <2>2, <2>3, <2>4 DEF Latest
<1>8. CASE Subscribe(c)
  BY <1>0, <1>8 DEF Subscribe, clientVars, loopVars, Latest
<1>9. CASE Compare(c)
  <2>1. /\ clearing' = [clearing EXCEPT ![c] = TRUE]
        /\ answered' = [answered EXCEPT ![c] = @ \cup {pending[c]}]
        /\ UNCHANGED <<pc, gen, copied, pending, sent, expired>>
        /\ pending[c] \in AllSent
    BY <1>9, MatchFacts DEF loopVars
  <2>2. PICK d \in Clients : pending[c] \in sent[d]
    BY <2>1 DEF AllSent
  <2>3. pending[c] # NullId
    BY <2>2
  <2>4. pending[c] \in Calls /\ pending[c] = Latest(c)
    BY <1>0, <2>3 DEF ClientTypeOK, Mine
  <2>5. d = c
    <3>1. pending[c] \in Own(d)
      BY <1>0, <2>2, <2>3 DEF Mine
    <3> QED BY <2>4, <3>1 DEF Own, Latest
  <2>6. pc[c] \notin {"copy", "publish"}
    BY <2>2, <2>5
  <2>7. answered'[c] = answered[c] \cup {pending[c]}
    BY <1>0, <2>1 DEF ClientTypeOK
  <2>8. \A e \in Clients \ {c} : answered'[e] = answered[e] /\ clearing'[e] = clearing[e]
    BY <1>0, <2>1 DEF ClientTypeOK
  <2> QED BY <2>1, <2>4, <2>6, <2>7, <2>8 DEF Latest
<1>10. CASE Mismatch(c)
  BY <1>0, <1>10 DEF Mismatch, Receives, loopVars, Latest
<1>11. CASE Clear(c)
  <2>1. /\ clearing[c]
        /\ pending' = [pending EXCEPT ![c] = NullId]
        /\ clearing' = [clearing EXCEPT ![c] = FALSE]
        /\ UNCHANGED <<pc, gen, copied, sent, answered, expired>>
    BY <1>11 DEF Clear, loopVars
  <2>2. pc[c] \notin {"copy", "publish"} /\ pending[c] \in answered[c]
    BY <2>1
  <2>3. pending'[c] = NullId /\ ~clearing'[c]
    BY <1>0, <2>1 DEF ClientTypeOK
  <2>4. \A d \in Clients \ {c} : pending'[d] = pending[d] /\ clearing'[d] = clearing[d]
    BY <1>0, <2>1 DEF ClientTypeOK
  <2> QED BY <2>1, <2>2, <2>3, <2>4 DEF Latest
<1> QED
  BY <1>1, <1>2, <1>3, <1>4, <1>5, <1>6, <1>7, <1>8, <1>9, <1>10, <1>11 DEF Loop, Network

(* The broker and the servers leave the clients alone, and time only ages.       *)
LEMMA OthersKeep ==
  ASSUME IndInv, (ServerNext \/ BrokerNext) /\ UNCHANGED clientVars
  PROVE  IndInv'
<1>1. UNCHANGED <<pc, gen, copied, due, age, lag, pending, clearing, sent, answered, expired>>
  BY DEF clientVars, loopVars, clockVars
<1>2. CountersOK' /\ \A I : MessagesWithin(I) => requests' \in Seq(RequestsOf(I)) /\ jobs' \in Seq(RequestsOf(I))
                                                  /\ responses' \in [Clients -> Seq(ResponsesOf(I))]
  BY MessagesTyped, ServersOnlyEcho DEF IndInv, Typed, MessagesWithin
<1>3. AllSent' = AllSent
  BY <1>1 DEF AllSent
<1>4. Descends'
  BY <1>2, <1>3 DEF IndInv, Descends, MessagesWithin, RequestsOf, ResponsesOf
<1>5. ClientTypeOK' /\ Mine' /\ (NoRace' => Calm')
  BY <1>1 DEF IndInv, ClientTypeOK, Mine, Own, Latest, NoRace, Calm, Outstanding
<1> QED
  BY <1>2, <1>4, <1>5 DEF IndInv

LEMMA TickKeeps ==
  ASSUME IndInv, Tick
  PROVE  IndInv'
<1>1. /\ UNCHANGED <<pc, gen, copied, due, pending, clearing, sent, answered, expired>>
      /\ UNCHANGED <<requests, responses, subscribed, dups, kind, serverUp, executed, jobs>>
      /\ age' = [c \in Clients |-> Older(age[c])]
      /\ lag' = [c \in Clients |-> IF pc[c] \in {"expire", "rate"} THEN Older(lag[c]) ELSE 0]
  BY DEF Tick, loopVars, brokerVars, serverVars
<1>2. age' \in [Clients -> Ages] /\ lag' \in [Clients -> Ages]
  BY <1>1, OlderIsAge, ConstantFacts DEF IndInv, ClientTypeOK
<1>3. ClientTypeOK'
  BY <1>1, <1>2 DEF IndInv, ClientTypeOK
<1>4. CountersOK' /\ Descends'
  BY <1>1 DEF IndInv, CountersOK, Descends, AllSent, MessagesWithin
<1>5. Mine' /\ (NoRace' => Calm')
  BY <1>1 DEF IndInv, Mine, Own, Latest, NoRace, Calm, Outstanding
<1> QED
  BY <1>3, <1>4, <1>5 DEF IndInv

LEMMA Invariance == Spec => []IndInv
<1>1. IndInv /\ [Next]_vars => IndInv'
  <2> SUFFICES ASSUME IndInv, [Next]_vars PROVE IndInv'
    OBVIOUS
  <2>1. ASSUME NEW c \in Clients, Loop(c) \/ Network(c) PROVE IndInv'
    <3>1. CountersOK' /\ Descends' /\ ClientTypeOK' /\ Mine'
      BY <2>1, StepKeepsMessages, StepKeepsTypes, StepKeepsMine
    <3>2. ASSUME NoRace' PROVE Calm'
      <4>1. Calm
        BY <2>1, <3>2, RacesRemain DEF IndInv
      <4> QED BY <2>1, <3>2, <4>1, StepKeepsCalm
    <3> QED BY <3>1, <3>2 DEF IndInv
  <2>2. CASE Tick
    BY <2>2, TickKeeps
  <2>3. CASE (ServerNext \/ BrokerNext) /\ UNCHANGED clientVars
    BY <2>3, OthersKeep
  <2>4. CASE UNCHANGED vars
    <3>1. /\ UNCHANGED <<pc, gen, copied, due, age, lag, pending, clearing, sent, answered, expired>>
          /\ UNCHANGED <<requests, responses, subscribed, dups, kind, serverUp, executed, jobs>>
      BY <2>4 DEF vars, clientVars, loopVars, clockVars, brokerVars, serverVars
    <3>2. CountersOK' /\ Descends'
      BY <3>1 DEF IndInv, CountersOK, Descends, AllSent, MessagesWithin
    <3>3. ClientTypeOK' /\ Mine'
      BY <3>1 DEF IndInv, ClientTypeOK, Mine, Own, Latest
    <3>4. NoRace' => Calm'
      BY <3>1 DEF IndInv, Latest, NoRace, Calm, Outstanding
    <3> QED
      BY <3>2, <3>3, <3>4 DEF IndInv
  <2> QED
    BY <2>1, <2>2, <2>3, <2>4 DEF Next
<1> QED
  BY <1>1, IndInvInit, PTL DEF Spec

-----------------------------------------------------------------------------
(* The client's static and locals, its clocks, the server and the messages keep   *)
(* their types: no more uuids than there are calls, only uuids are published.   *)
THEOREM TypeCorrect == Spec => []TypeOK
<1>1. IndInv => TypeOK
  BY MessagesTyped, TypesOfMessages DEF IndInv, Typed, ClientTypeOK, TypeOK
<1> QED
  BY <1>1, Invariance, PTL

(* "validates that the correlation data matches" (main.c:55-57): whoever shares    *)
(* the response topic, what is taken for an answer carries an id of this client. *)
THEOREM OnlyOwnIdsMatch == Spec => []AnswersAreOwn
<1>1. IndInv => AnswersAreOwn
  BY DEF IndInv, Mine, Own, AnswersAreOwn
<1> QED
  BY <1>1, Invariance, PTL

(* main.c:205-207, "timed out" or "there is no pending command": a command that    *)
(* overtakes an unanswered one proves that a response and the timeout met, with   *)
(* any server, any failure of an allocation or a publish, and any lost or         *)
(* repeated message.                                                         *)
THEOREM OvertakingIsTheRace == Spec => []OvertakingNeedsTheRace
<1>1. ASSUME IndInv, NoRace, NEW c \in Clients PROVE ~(Cardinality(Outstanding(c)) > 1)
  <2>1. Outstanding(c) \subseteq {pending[c]}
    BY <1>1 DEF IndInv, Calm
  <2>2. Outstanding(c) = {} \/ Outstanding(c) = {pending[c]}
    BY <2>1
  <2>3. Cardinality({}) = 0 /\ Cardinality({pending[c]}) = 1
    BY FS_EmptySet, FS_Singleton
  <2> QED
    BY <2>2, <2>3
<1>2. IndInv => OvertakingNeedsTheRace
  BY <1>1 DEF NoRace, OvertakingNeedsTheRace
<1> QED
  BY <1>2, Invariance, PTL

-----------------------------------------------------------------------------
(* CSample: the life of the five C samples.                                    *)
(* The client object is new until the loop is started; once the broker refused *)
(* a connection, the callback is on its way to disconnect or has done so.       *)
Refusals ==
  /\ main \in {"init", "settings", "create", "configure", "connect", "start"} => net = "none"
  /\ main \in {"init", "settings", "create"} => mosq = "none"
  /\ main \in {"destroy", "cleanup", "done"} => net \in {"none", "ended"}
  /\ refused => net # "none" /\ (net = "refused" \/ disconnecting)
  /\ net = "refused" => link # "up"

SampleInv == SampleTypeOK /\ NoCallbackAfterDestroy /\ SubscribedWhileConnected /\ Refusals

(* The initial states satisfy the inductive invariant.                        *)
LEMMA SampleInvInit == SampleInit => SampleInv
<1> SUFFICES ASSUME SampleInit PROVE SampleInv
  OBVIOUS
<1>1. SampleTypeOK
  <2>1. opens \in 0..MaxOpens
    BY SampleAssumption DEF SampleInit
  <2>2. /\ idSet \in BOOLEAN /\ keep_running \in BOOLEAN
        /\ disconnecting \in BOOLEAN /\ subscribing \in BOOLEAN /\ refused \in BOOLEAN
    BY Zenon DEF SampleInit
  <2> QED BY <2>1, <2>2 DEF SampleInit, SampleTypeOK
<1>2. NoCallbackAfterDestroy /\ SubscribedWhileConnected /\ Refusals
  BY DEF SampleInit, NoCallbackAfterDestroy, SubscribedWhileConnected, Refusals
<1> QED BY <1>1, <1>2 DEF SampleInv

(* Every step of the main thread keeps it.                                    *)
LEMMA MainKeeps == SampleInv /\ MainThread => SampleInv'
<1> SUFFICES ASSUME SampleInv, MainThread PROVE SampleInv'
  OBVIOUS
<1> USE SampleAssumption
    DEF SampleInv, SampleTypeOK, NoCallbackAfterDestroy, SubscribedWhileConnected, Refusals,
        Subscribes, constants, Advance
<1>1. CASE InitFails BY <1>1 DEF InitFails
<1>2. CASE Initialise BY <1>2 DEF Initialise
<1>3. CASE Connect BY <1>3 DEF Connect
<1>4. CASE StartLoop BY <1>4 DEF StartLoop
<1>5. CASE SetupFails BY <1>5 DEF SetupFails
<1>6. CASE PublishTurn BY <1>6 DEF PublishTurn
<1>7. CASE Leave BY <1>7 DEF Leave
<1>8. CASE Disconnect BY <1>8 DEF Disconnect
<1>9. CASE StopLoop BY <1>9 DEF StopLoop
<1>10. CASE Exit BY <1>10 DEF Exit
<1>11. CASE Crash BY <1>11 DEF Crash
<1>12. CASE Create BY <1>12 DEF Create
<1>13. CASE Destroy BY <1>13 DEF Destroy
<1> QED
  BY <1>1, <1>2, <1>3, <1>4, <1>5, <1>6, <1>7, <1>8, <1>9, <1>10, <1>11, <1>12,
     <1>13 DEF MainThread

(* Every step of the network thread and of the user keeps it.                  *)
LEMMA NetworkKeeps == SampleInv /\ (NetworkThread \/ Interrupt) => SampleInv'
<1> SUFFICES ASSUME SampleInv, NetworkThread \/ Interrupt PROVE SampleInv'
  OBVIOUS
<1> USE SampleAssumption
    DEF SampleInv, SampleTypeOK, NoCallbackAfterDestroy, SubscribedWhileConnected, Refusals,
        Subscribes, constants, Alive, InCallback
<1>1. CASE Accepted BY <1>1 DEF Accepted
<1>2. CASE Refused BY <1>2 DEF Refused
<1>3. CASE RefusedDisconnect BY <1>3 DEF RefusedDisconnect
<1>4. CASE SubscribeOnConnect BY <1>4 DEF SubscribeOnConnect
<1>5. CASE SubscribeFails
  <2>1. CASE disconnecting' = TRUE BY <1>5, <2>1 DEF SubscribeFails
  <2>2. CASE disconnecting' = disconnecting BY <1>5, <2>2 DEF SubscribeFails
  <2> QED BY <1>5, <2>1, <2>2 DEF SubscribeFails
<1>6. CASE SkipSubscribe BY <1>6 DEF SkipSubscribe
<1>7. CASE NetEnds BY <1>7 DEF NetEnds
<1>8. CASE LinkLost BY <1>8, ZenonT(60) DEF LinkLost
<1>9. CASE Reconnect BY <1>9 DEF Reconnect
<1>10. CASE Interrupt
  <2>1. SampleTypeOK'
    BY <1>10, ZenonT(60) DEF Interrupt
  <2>2. NoCallbackAfterDestroy' /\ SubscribedWhileConnected' /\ Refusals'
    BY <1>10, Zenon DEF Interrupt
  <2> QED BY <2>1, <2>2
<1> QED
  BY <1>1, <1>2, <1>3, <1>4, <1>5, <1>6, <1>7, <1>8, <1>9, <1>10
  DEF NetworkThread, Callbacks

(* SampleInv is an invariant of the two threads.                                 *)
LEMMA SampleInvariance == SampleSpec => []SampleInv
<1>1. SampleInv /\ [SampleNext]_sampleVars => SampleInv'
  <2> SUFFICES ASSUME SampleInv, [SampleNext]_sampleVars PROVE SampleInv'
    OBVIOUS
  <2>1. CASE SampleNext BY <2>1, MainKeeps, NetworkKeeps DEF SampleNext
  <2>2. CASE UNCHANGED sampleVars
    BY <2>2 DEF sampleVars, SampleInv, SampleTypeOK, NoCallbackAfterDestroy, SubscribedWhileConnected,
                Refusals, Subscribes
  <2> QED BY <2>1, <2>2
<1> QED BY <1>1, SampleInvInit, PTL DEF SampleSpec

(* Type correctness: also, a subscription exists only over a connection that   *)
(* stands.                                                                  *)
THEOREM SampleTypeCorrect == SampleSpec => []SampleTypeOK
BY SampleInvariance, PTL DEF SampleInv

(* mosquitto_destroy, in the main of every C sample, never frees the client    *)
(* under a callback: mosquitto_loop_stop has joined the network thread.         *)
THEOREM DestroyIsSafe == SampleSpec => []NoCallbackAfterDestroy
BY SampleInvariance, PTL DEF SampleInv

(* A subscribing sample that runs and is connected has subscribed over this     *)
(* very connection, however often it was lost and opened again.               *)
THEOREM SubscriptionIsRestored == SampleSpec => []SubscribedWhileConnected
BY SampleInvariance, PTL DEF SampleInv

(* on_connect's disconnect after a refusal: no other connection is opened.      *)
THEOREM NoRetryAfterRefusal == SampleSpec => RefusedOnce
<1>1. SampleInv /\ [SampleNext]_sampleVars => [refused /\ link = "down" => link' = "down"]_sampleVars
  <2> SUFFICES ASSUME SampleInv, SampleNext, refused, link = "down" PROVE link' = "down"
    OBVIOUS
  <2> USE DEF SampleInv, Refusals, constants, Advance
  <2>1. CASE MainThread
    BY <2>1 DEF MainThread, InitFails, Initialise, Create, Connect, StartLoop, SetupFails, PublishTurn,
                Leave, Disconnect, StopLoop, Destroy, Exit, Crash
  <2>2. CASE NetworkThread
    BY <2>2 DEF NetworkThread, Callbacks, Accepted, Refused, RefusedDisconnect,
                SubscribeOnConnect, SubscribeFails, SkipSubscribe, NetEnds, InCallback,
                LinkLost, Reconnect
  <2>3. CASE Interrupt BY <2>3 DEF Interrupt
  <2> QED BY <2>1, <2>2, <2>3 DEF SampleNext
<1> QED BY <1>1, SampleInvariance, PTL DEF SampleSpec, RefusedOnce
=============================================================================
