------------------------ MODULE CommandServer_proofs ------------------------
(***************************************************************************)
(* What the broker and the four command servers preserve, for every set of    *)
(* clients and every bound: the types of their state, and that no message     *)
(* carries an id that was not already in the system.  The client modules'     *)
(* proofs cite these lemmas for the steps that are not the client's.  Then,    *)
(* of the servers with arbitrary clients, what their responses are worth.     *)
(***************************************************************************)
EXTENDS CommandServerSystem, SequenceTheorems, FiniteSetTheorems, TLAPS

RequestsOf(I)  == {m \in Request : m.id \in I}
ResponsesOf(I) == {r \in Response : r.id \in I}

(* Every message under way, and every job of the server, has an id of I.     *)
MessagesWithin(I) ==
  /\ requests \in Seq(RequestsOf(I))
  /\ jobs \in Seq(RequestsOf(I))
  /\ responses \in [Clients -> Seq(ResponsesOf(I))]

(* The rest of the types of the broker's and the server's state.             *)
CountersOK ==
  /\ subscribed \in SUBSET Clients
  /\ dups \in 0..MaxDup
  /\ kind \in ServerKinds
  /\ serverUp \in BOOLEAN
  /\ executed \in [Ids -> Nat]

-----------------------------------------------------------------------------
(* Removing a handled job or message leaves a sequence of the same set.       *)
LEMMA SequenceTypes ==
  ASSUME NEW S, NEW s \in Seq(S)
  PROVE  /\ s # <<>> => Head(s) \in S /\ Tail(s) \in Seq(S)
         /\ \A x \in S : Append(s, x) \in Seq(S)
         /\ \A i \in DOMAIN s : s[i] \in S /\ RemoveAt(s, i) \in Seq(S)
<1>1. s # <<>> => Head(s) \in S /\ Tail(s) \in Seq(S)
  BY HeadTailProperties
<1>2. \A x \in S : Append(s, x) \in Seq(S)
  BY AppendProperties
<1>3. ASSUME NEW i \in DOMAIN s
      PROVE  s[i] \in S /\ RemoveAt(s, i) \in Seq(S)
  <2>1. i \in 1..Len(s) /\ Len(s) \in Nat
    BY <1>3, LenProperties
  <2>2. s[i] \in S
    BY <2>1, ElementOfSeq
  <2>3. SubSeq(s, 1, i - 1) \in Seq(S)
    BY <2>1, SubSeqProperties
  <2>4. SubSeq(s, i + 1, Len(s)) \in Seq(S)
    BY <2>1, SubSeqProperties
  <2> QED
    BY <2>2, <2>3, <2>4, ConcatProperties DEF RemoveAt
<1> QED
  BY <1>1, <1>2, <1>3

(* Whatever a server answers carries the id of the request it answers.       *)
LEMMA ResponsesEcho ==
  ASSUME NEW I, NEW m \in RequestsOf(I)
  PROVE  /\ SuccessOf(m) \in ResponsesOf(I)
         /\ ErrorOf(m) \in ResponsesOf(I)
         /\ CResponseOf(m) \in ResponsesOf(I)
         /\ PyResponseOf(m) \in ResponsesOf(I)
<1>1. m.id \in Ids /\ m.id \in I
  BY DEF RequestsOf, Request
<1> QED
  BY <1>1 DEF ResponsesOf, Response, ContentTypes, Statuses, ResponseBodies,
              SuccessOf, ErrorOf, CResponseOf, PyResponseOf

LEMMA FanOutType ==
  ASSUME NEW I, NEW r \in ResponsesOf(I),
         responses \in [Clients -> Seq(ResponsesOf(I))]
  PROVE  FanOut(r) \in [Clients -> Seq(ResponsesOf(I))]
<1>1. \A c \in Clients : Append(responses[c], r) \in Seq(ResponsesOf(I))
  BY SequenceTypes
<1> QED
  BY <1>1 DEF FanOut

LEMMA ReplyType ==
  ASSUME NEW I, NEW m, NEW r \in ResponsesOf(I),
         responses \in [Clients -> Seq(ResponsesOf(I))]
  PROVE  Reply(m, r) \in [Clients -> Seq(ResponsesOf(I))]
BY FanOutType DEF Reply

LEMMA ExecuteType ==
  ASSUME NEW I, NEW m \in RequestsOf(I), CountersOK
  PROVE  /\ Execute(m) => executed' \in [Ids -> Nat]
         /\ CUnlock(m) => executed' \in [Ids -> Nat]
<1>1. m.id \in Ids
  BY DEF RequestsOf, Request
<1> QED
  BY <1>1 DEF Execute, CUnlock, CountersOK

(* Taking a request off the topic.                                           *)
LEMMA TakesType ==
  ASSUME NEW I, NEW k, MessagesWithin(I), Takes(k)
  PROVE  /\ Head(requests) \in RequestsOf(I)
         /\ requests' \in Seq(RequestsOf(I))
         /\ UNCHANGED <<kind, subscribed, dups>>
BY SequenceTypes DEF MessagesWithin, Takes

-----------------------------------------------------------------------------
(* The broker delivers, loses and repeats messages; it makes none up.        *)
LEMMA BrokerKeeps ==
  ASSUME NEW I, MessagesWithin(I), CountersOK, BrokerNext
  PROVE  MessagesWithin(I)' /\ CountersOK'
<1>0. UNCHANGED serverVars
  BY DEF BrokerNext
<1>1. CASE LoseRequest
  BY <1>0, <1>1, SequenceTypes DEF LoseRequest, MessagesWithin, CountersOK, serverVars
<1>2. ASSUME NEW c \in Clients, LoseResponse(c)
      PROVE  MessagesWithin(I)' /\ CountersOK'
  <2>1. Tail(responses[c]) \in Seq(ResponsesOf(I))
    BY <1>2, SequenceTypes DEF LoseResponse, MessagesWithin
  <2> QED
    BY <1>0, <1>2, <2>1 DEF LoseResponse, MessagesWithin, CountersOK, serverVars
<1>3. CASE RedeliverRequest
  <2>1. Append(requests, Head(requests)) \in Seq(RequestsOf(I))
    BY <1>3, SequenceTypes DEF RedeliverRequest, MessagesWithin
  <2>2. dups' \in 0..MaxDup
    BY <1>3, BrokerAssumption DEF RedeliverRequest, CountersOK
  <2> QED
    BY <1>0, <1>3, <2>1, <2>2 DEF RedeliverRequest, MessagesWithin, CountersOK, serverVars
<1>4. ASSUME NEW c \in Clients, RedeliverResponse(c)
      PROVE  MessagesWithin(I)' /\ CountersOK'
  <2>1. Append(responses[c], Head(responses[c])) \in Seq(ResponsesOf(I))
    BY <1>4, SequenceTypes DEF RedeliverResponse, MessagesWithin
  <2>2. dups' \in 0..MaxDup
    BY <1>4, BrokerAssumption DEF RedeliverResponse, CountersOK
  <2> QED
    BY <1>0, <1>4, <2>1, <2>2 DEF RedeliverResponse, MessagesWithin, CountersOK, serverVars
<1> QED
  BY <1>1, <1>2, <1>3, <1>4 DEF BrokerNext

(* A request that is refused, or that kills the server, leaves the responses, *)
(* the jobs and the executed commands alone.                                 *)
LEMMA RefusalKeeps ==
  ASSUME NEW I, MessagesWithin(I), CountersOK,
         DotnetReject \/ TsReject \/ CCrash \/ PyThreadDies
  PROVE  MessagesWithin(I)' /\ CountersOK'
<1>1. requests' \in Seq(RequestsOf(I)) /\ UNCHANGED <<kind, subscribed, dups>>
  BY TakesType DEF DotnetReject, TsReject, CCrash, PyThreadDies
<1>2. UNCHANGED <<responses, executed, jobs>> /\ serverUp' \in BOOLEAN
  BY DEF DotnetReject, TsReject, CCrash, PyThreadDies, CountersOK
<1> QED
  BY <1>1, <1>2 DEF MessagesWithin, CountersOK

(* The handlers that execute the command, answer it, or leave it to a job.   *)
LEMMA HandleKeeps ==
  ASSUME NEW I, MessagesWithin(I), CountersOK, Handle
  PROVE  MessagesWithin(I)' /\ CountersOK'
<1> DEFINE m == Head(requests)
           Msgs == [Clients -> Seq(ResponsesOf(I))]
<1>0. responses \in Msgs /\ jobs \in Seq(RequestsOf(I)) /\ executed \in [Ids -> Nat]
  BY DEF MessagesWithin, CountersOK
<1>1. CASE DotnetReject \/ TsReject \/ CCrash \/ PyThreadDies
  BY <1>1, RefusalKeeps
<1>2. ASSUME \E k \in {"dotnet", "ts", "c", "python"} : Takes(k),
             responses' \in Msgs,
             jobs' \in Seq(RequestsOf(I)),
             executed' \in [Ids -> Nat],
             serverUp' = serverUp
      PROVE  MessagesWithin(I)' /\ CountersOK'
  <2>1. requests' \in Seq(RequestsOf(I)) /\ UNCHANGED <<kind, subscribed, dups>>
    BY <1>2, TakesType
  <2> QED
    BY <1>2, <2>1 DEF MessagesWithin, CountersOK
<1>3. CASE DotnetRespond
  <2>1. m \in RequestsOf(I)
    BY <1>3, TakesType DEF DotnetRespond
  <2>2. responses' \in Msgs
    BY <1>0, <1>3, <2>1, ResponsesEcho, ReplyType DEF DotnetRespond
  <2>3. executed' \in [Ids -> Nat]
    BY <1>3, <2>1, ExecuteType DEF DotnetRespond
  <2> QED
    BY <1>0, <1>2, <1>3, <2>2, <2>3 DEF DotnetRespond
<1>4. CASE DotnetRespondError
  <2>1. m \in RequestsOf(I)
    BY <1>4, TakesType DEF DotnetRespondError
  <2>2. responses' \in Msgs
    BY <1>0, <1>4, <2>1, ResponsesEcho, ReplyType DEF DotnetRespondError
  <2> QED
    BY <1>0, <1>2, <1>4, <2>2 DEF DotnetRespondError
<1>5. CASE TsRespond
  <2>1. m \in RequestsOf(I)
    BY <1>5, TakesType DEF TsRespond
  <2>2. responses' \in Msgs
    BY <1>0, <1>5, <2>1, ResponsesEcho, ReplyType DEF TsRespond
  <2>3. jobs' \in Seq(RequestsOf(I))
    BY <1>0, <1>5, <2>1, SequenceTypes DEF TsRespond
  <2>4. executed' \in [Ids -> Nat]
    BY <1>5, <2>1, ExecuteType DEF TsRespond
  <2> QED
    BY <1>2, <1>5, <2>2, <2>3, <2>4 DEF TsRespond
<1>6. CASE TsCallbackThrows
  <2>1. m \in RequestsOf(I)
    BY <1>6, TakesType DEF TsCallbackThrows
  <2>2. responses' \in Msgs
    BY <1>0, <1>6, <2>1, ResponsesEcho, ReplyType DEF TsCallbackThrows
  <2> QED
    BY <1>0, <1>2, <1>6, <2>2 DEF TsCallbackThrows
<1>7. CASE CRespond
  <2>1. m \in RequestsOf(I)
    BY <1>7, TakesType DEF CRespond
  <2>2. responses' \in Msgs
    BY <1>0, <1>7, <2>1, ResponsesEcho, FanOutType DEF CRespond
  <2>3. executed' \in [Ids -> Nat]
    BY <1>7, <2>1, ExecuteType DEF CRespond
  <2> QED
    BY <1>0, <1>2, <1>7, <2>2, <2>3 DEF CRespond
<1>8. CASE CNoResponse
  <2>1. m \in RequestsOf(I)
    BY <1>8, TakesType DEF CNoResponse
  <2>2. executed' \in [Ids -> Nat]
    BY <1>8, <2>1, ExecuteType DEF CNoResponse
  <2> QED
    BY <1>0, <1>2, <1>8, <2>2 DEF CNoResponse
<1>9. CASE PySubmit
  <2>1. m \in RequestsOf(I)
    BY <1>9, TakesType DEF PySubmit
  <2>2. jobs' \in Seq(RequestsOf(I))
    BY <1>0, <1>9, <2>1, SequenceTypes DEF PySubmit
  <2>3. executed' \in [Ids -> Nat]
    BY <1>9, <2>1, ExecuteType DEF PySubmit
  <2> QED
    BY <1>0, <1>2, <1>9, <2>2, <2>3 DEF PySubmit
<1> QED
  BY <1>1, <1>3, <1>4, <1>5, <1>6, <1>7, <1>8, <1>9 DEF Handle

(* The jobs of the TypeScript catch block and of the Python pool.            *)
LEMMA FinishKeeps ==
  ASSUME NEW I, MessagesWithin(I), CountersOK, NEW i \in DOMAIN jobs, Finish(i)
  PROVE  MessagesWithin(I)' /\ CountersOK'
<1>1. jobs[i] \in RequestsOf(I) /\ Without(i) \in Seq(RequestsOf(I))
  BY SequenceTypes DEF MessagesWithin, Without
<1>2. CASE TsPublishError(i)
  <2>1. responses' \in [Clients -> Seq(ResponsesOf(I))]
    BY <1>1, <1>2, ResponsesEcho, ReplyType, ZenonT(60) DEF TsPublishError, MessagesWithin
  <2> QED
    BY <1>1, <1>2, <2>1 DEF TsPublishError, MessagesWithin, CountersOK
<1>3. CASE PyRespond(i)
  <2>1. responses' \in [Clients -> Seq(ResponsesOf(I))]
    BY <1>1, <1>3, ResponsesEcho, FanOutType DEF PyRespond, MessagesWithin
  <2> QED
    BY <1>1, <1>3, <2>1 DEF PyRespond, MessagesWithin, CountersOK
<1> QED
  BY <1>2, <1>3 DEF Finish

(* The servers of every language keep their types and only echo ids that      *)
(* were in a request: no id appears that no client sent.                     *)
THEOREM ServersOnlyEcho ==
  ASSUME NEW I, MessagesWithin(I), CountersOK, ServerNext \/ BrokerNext
  PROVE  MessagesWithin(I)' /\ CountersOK'
BY BrokerKeeps, HandleKeeps, FinishKeeps DEF ServerNext

(* Messages of some ids are messages of more.                                *)
LEMMA MessagesWiden ==
  ASSUME NEW I, NEW J, I \subseteq J, MessagesWithin(I)
  PROVE  MessagesWithin(J)
<1>1. RequestsOf(I) \subseteq RequestsOf(J) /\ ResponsesOf(I) \subseteq ResponsesOf(J)
  BY DEF RequestsOf, ResponsesOf
<1>2. /\ Seq(RequestsOf(I)) \subseteq Seq(RequestsOf(J))
      /\ Seq(ResponsesOf(I)) \subseteq Seq(ResponsesOf(J))
  BY <1>1, SeqMonotonic
<1> QED
  BY <1>2 DEF MessagesWithin

(* With all ids allowed, that is the modules' own type invariants.           *)
LEMMA TypesOfMessages ==
  MessagesWithin(Ids) /\ CountersOK <=> BrokerTypeOK /\ ServerTypeOK
<1>1. RequestsOf(Ids) = Request
  BY DEF RequestsOf, Request
<1>2. ResponsesOf(Ids) = Response
  BY DEF ResponsesOf, Response
<1> QED
  BY <1>1, <1>2 DEF MessagesWithin, CountersOK, BrokerTypeOK, ServerTypeOK

-----------------------------------------------------------------------------
(* How often a sequence holds an element of S.                                *)
Places(s, S) == {n \in DOMAIN s : s[n] \in S}
Copies(s, S) == Cardinality(Places(s, S))
One(b)       == IF b THEN 1 ELSE 0

(* It is a number, and 0 exactly where there is no such element.              *)
LEMMA CopiesNat ==
  ASSUME NEW T, NEW s \in Seq(T), NEW S
  PROVE  /\ IsFiniteSet(Places(s, S)) /\ Copies(s, S) \in Nat
         /\ \A n \in DOMAIN s : s[n] \in S => Copies(s, S) >= 1
         /\ (\A n \in DOMAIN s : s[n] \notin S) => Copies(s, S) = 0
<1>1. DOMAIN s = 1..Len(s) /\ Len(s) \in Nat
  BY LenProperties
<1>2. IsFiniteSet(DOMAIN s)
  BY <1>1, FS_Interval
<1>3. IsFiniteSet(Places(s, S))
  BY <1>2, FS_Subset DEF Places
<1>4. Copies(s, S) \in Nat
  BY <1>3, FS_CardinalityType DEF Copies
<1>5. ASSUME NEW n \in DOMAIN s, s[n] \in S PROVE Copies(s, S) >= 1
  <2>1. Places(s, S) # {}
    BY <1>5 DEF Places
  <2>2. Copies(s, S) # 0
    BY <1>3, <2>1, FS_EmptySet DEF Copies
  <2> QED
    BY <1>4, <2>2
<1>6. ASSUME \A n \in DOMAIN s : s[n] \notin S PROVE Copies(s, S) = 0
  <2>1. Places(s, S) = {}
    BY <1>6 DEF Places
  <2> QED
    BY <2>1, FS_EmptySet DEF Copies
<1> QED
  BY <1>3, <1>4, <1>5, <1>6

LEMMA NoCopies == \A S : Copies(<<>>, S) = 0
<1> TAKE S
<1>1. <<>> \in Seq({}) /\ \A n \in DOMAIN <<>> : FALSE
  OBVIOUS
<1> QED
  BY <1>1, CopiesNat

(* A message more.                                                          *)
LEMMA CopiesAppend ==
  ASSUME NEW T, NEW s \in Seq(T), NEW x \in T, NEW S
  PROVE  Copies(Append(s, x), S) = Copies(s, S) + One(x \in S)
<1> DEFINE t == Append(s, x)
           l == Len(s) + 1
<1>1. Len(s) \in Nat /\ DOMAIN s = 1..Len(s) /\ DOMAIN t = 1..l
  BY LenProperties, AppendProperties
<1>2. t[l] = x /\ \A n \in DOMAIN s : t[n] = s[n]
  BY <1>1, AppendProperties
<1>3. IsFiniteSet(Places(s, S)) /\ l \notin Places(s, S) /\ Copies(s, S) \in Nat
  <2>1. l \notin Places(s, S)
    BY <1>1 DEF Places
  <2> QED
    BY <2>1, CopiesNat
<1>4. CASE x \in S
  <2>1. Places(t, S) = Places(s, S) \cup {l}
    BY <1>1, <1>2, <1>4 DEF Places
  <2>2. Cardinality(Places(s, S) \cup {l}) = Cardinality(Places(s, S)) + 1
    <3> HIDE DEF l
    <3> QED
      BY <1>3, FS_AddElement
  <2> QED
    BY <1>4, <2>1, <2>2 DEF Copies, One
<1>5. CASE x \notin S
  <2>1. Places(t, S) = Places(s, S)
    BY <1>1, <1>2, <1>5 DEF Places
  <2> QED
    BY <1>3, <1>5, <2>1 DEF Copies, One
<1> QED
  BY <1>4, <1>5

(* A message less, wherever it was: the others keep their order, so their       *)
(* places map one to one into what is left of the places of s.                *)
LEMMA CopiesDrop ==
  ASSUME NEW T, NEW s \in Seq(T), NEW t \in Seq(T), NEW S, NEW i \in DOMAIN s,
         Len(t) = Len(s) - 1,
         \A n \in DOMAIN t : t[n] = s[IF n < i THEN n ELSE n + 1]
  PROVE  Copies(t, S) + One(s[i] \in S) <= Copies(s, S)
<1> DEFINE up(n) == IF n < i THEN n ELSE n + 1
           P == Places(s, S) \ {i}
           f == [n \in Places(t, S) |-> up(n)]
<1>1. DOMAIN s = 1..Len(s) /\ DOMAIN t = 1..Len(t) /\ Len(s) \in Nat /\ Len(t) \in Nat
  BY LenProperties
<1>2. \A n \in DOMAIN t : up(n) \in DOMAIN s /\ up(n) # i
  BY <1>1
<1>3. f \in [Places(t, S) -> P]
  BY <1>2 DEF Places
<1>4. \A m, n \in Places(t, S) : up(m) = up(n) => m = n
  BY <1>1 DEF Places
<1>5. f \in Injection(Places(t, S), P)
  BY <1>3, <1>4 DEF Injection, IsInjective
<1>6. IsFiniteSet(Places(s, S)) /\ Copies(s, S) \in Nat /\ Copies(t, S) \in Nat
  BY CopiesNat
<1>7. IsFiniteSet(P) /\ Cardinality(P) = IF i \in Places(s, S) THEN Copies(s, S) - 1 ELSE Copies(s, S)
  BY <1>6, FS_RemoveElement DEF Copies
<1>8. Copies(t, S) <= Cardinality(P)
  BY <1>5, <1>7, FS_Injection DEF Copies
<1>9. i \in Places(s, S) <=> s[i] \in S
  BY DEF Places
<1> QED
  BY <1>6, <1>7, <1>8, <1>9 DEF One

(* The first message is taken off.                                           *)
LEMMA CopiesTail ==
  ASSUME NEW T, NEW s \in Seq(T), s # <<>>, NEW S
  PROVE  Copies(Tail(s), S) + One(Head(s) \in S) <= Copies(s, S)
<1>1. /\ Tail(s) \in Seq(T) /\ Len(Tail(s)) = Len(s) - 1 /\ 1 \in DOMAIN s /\ Head(s) = s[1]
      /\ \A n \in 1..Len(Tail(s)) : Tail(s)[n] = s[n + 1]
  BY HeadTailProperties, LenProperties
<1>2. \A n \in DOMAIN Tail(s) : Tail(s)[n] = s[IF n < 1 THEN n ELSE n + 1]
  BY <1>1, LenProperties
<1> QED
  BY <1>1, <1>2, CopiesDrop

(* A job is taken out.                                                      *)
LEMMA CopiesRemoveAt ==
  ASSUME NEW T, NEW s \in Seq(T), NEW i \in DOMAIN s, NEW S
  PROVE  Copies(RemoveAt(s, i), S) + One(s[i] \in S) <= Copies(s, S)
<1> DEFINE a == SubSeq(s, 1, i - 1)
           b == SubSeq(s, i + 1, Len(s))
           t == RemoveAt(s, i)
<1>1. i \in 1..Len(s) /\ Len(s) \in Nat
  BY LenProperties
<1>2. a \in Seq(T) /\ Len(a) = i - 1 /\ \A n \in 1..(i - 1) : a[n] = s[n]
  BY <1>1, SubSeqProperties
<1>3. b \in Seq(T) /\ Len(b) = Len(s) - i /\ \A n \in 1..(Len(s) - i) : b[n] = s[i + n]
  BY <1>1, SubSeqProperties
<1>4. t = a \o b
  BY DEF RemoveAt
<1>5. /\ t \in Seq(T) /\ Len(t) = Len(a) + Len(b)
      /\ \A n \in 1..(Len(a) + Len(b)) : t[n] = IF n <= Len(a) THEN a[n] ELSE b[n - Len(a)]
  <2> HIDE DEF a, b, t
  <2> QED
    BY <1>2, <1>3, <1>4, ConcatProperties
<1>6. Len(t) = Len(s) - 1 /\ DOMAIN t = 1..(Len(s) - 1)
  <2> HIDE DEF a, b, t
  <2> QED
    BY <1>1, <1>2, <1>3, <1>5, LenProperties
<1>7. ASSUME NEW n \in DOMAIN t PROVE t[n] = s[IF n < i THEN n ELSE n + 1]
  <2> HIDE DEF a, b, t
  <2>1. n \in 1..(Len(s) - 1) /\ t[n] = IF n <= i - 1 THEN a[n] ELSE b[n - (i - 1)]
    BY <1>1, <1>2, <1>3, <1>5, <1>6, <1>7
  <2>2. CASE n < i
    BY <1>1, <1>2, <2>1, <2>2
  <2>3. CASE ~(n < i)
    <3>1. n - (i - 1) \in 1..(Len(s) - i) /\ i + (n - (i - 1)) = n + 1
      BY <1>1, <2>1, <2>3
    <3>2. b[n - (i - 1)] = s[i + (n - (i - 1))]
      BY <1>3, <3>1
    <3> QED
      BY <1>1, <2>1, <2>3, <3>1, <3>2
  <2> QED
    BY <2>2, <2>3
<1> QED
  BY <1>5, <1>6, <1>7, CopiesDrop

-----------------------------------------------------------------------------
(* The responses that tell a client its command was executed.                *)
Vouches == {r \in Response : r.status = "200" \/ (r.status # "500" /\ r.body # "failure")}

(* The response r is published: whoever hears it has it once more.            *)
Spread(r) ==
  \A c \in Clients : responses'[c] = responses[c] \/ responses'[c] = Append(responses[c], r)

(* r answers the request m, and says of it what this step did.               *)
Answers(m, r) ==
  /\ r \in ResponsesOf({m.id})
  /\ r \in Vouches => Execute(m)
  /\ r.status = "500" => /\ r.ctype = "none" /\ r.body = "text"
                         /\ m.ctype = "protobuf" /\ UNCHANGED executed
  /\ r.body = "failure" => m.payload = "junk"

(* r is what a job for the request m sends: the promised response of a Python  *)
(* worker, or the error of the catch block of TypeScript.                     *)
Sends(m, r) ==
  /\ r \in ResponsesOf({m.id})
  /\ r.ctype = "none" /\ r.body # "failure"
  /\ IF kind = "python" THEN r.status # "500"
     ELSE r.status = "500" /\ r.body = "text" /\ r \notin Vouches

LEMMA FanOutSpreads ==
  ASSUME NEW m, NEW r,
         responses' = FanOut(r) \/ responses' = Reply(m, r) \/ UNCHANGED responses
  PROVE  Spread(r)
BY DEF Spread, FanOut, Reply

(* What becomes of a request, in any server: it is dropped, or answered at      *)
(* once by a response that is true, or executed and left to a job.             *)
LEMMA HandleEffect ==
  ASSUME MessagesWithin(Ids), CountersOK, Handle
  PROVE  LET m == Head(requests) IN
         /\ requests # <<>> /\ m \in Request
         /\ requests' = Tail(requests)
         /\ UNCHANGED <<kind, subscribed, dups>>
         /\ UNCHANGED executed \/ Execute(m)
         /\ \/ UNCHANGED <<responses, jobs>>
            \/ UNCHANGED jobs /\ \E r : Answers(m, r) /\ Spread(r)
            \/ /\ jobs' = Append(jobs, m)
               /\ UNCHANGED responses
               /\ Execute(m)
               /\ kind = "python" \/ (PublishMayFail /\ m.ctype = "protobuf")
<1> DEFINE m == Head(requests)
           Taken == /\ requests # <<>> /\ m \in Request
                    /\ requests' = Tail(requests)
                    /\ UNCHANGED <<kind, subscribed, dups>>
           Dropped  == UNCHANGED <<responses, jobs>>
           Answered == UNCHANGED jobs /\ \E r : Answers(m, r) /\ Spread(r)
           Deferred == /\ jobs' = Append(jobs, m)
                       /\ UNCHANGED responses
                       /\ Execute(m)
                       /\ kind = "python" \/ (PublishMayFail /\ m.ctype = "protobuf")
           Goal == /\ Taken
                   /\ UNCHANGED executed \/ Execute(m)
                   /\ Dropped \/ Answered \/ Deferred
<1>1. ASSUME NEW k, Takes(k) PROVE Taken
  <2>1. Head(requests) \in RequestsOf(Ids)
    BY <1>1, TakesType
  <2> QED
    BY <1>1, <2>1 DEF Takes, RequestsOf
<1>2. ASSUME Taken
      PROVE  /\ SuccessOf(m) \in ResponsesOf({m.id}) /\ ErrorOf(m) \in ResponsesOf({m.id})
             /\ CResponseOf(m) \in ResponsesOf({m.id})
             /\ SuccessOf(m).status = "200" /\ SuccessOf(m).body = "success"
             /\ ErrorOf(m).status = "500" /\ ErrorOf(m).body = "text" /\ ErrorOf(m) \notin Vouches
             /\ ErrorOf(m).ctype = "none"
             /\ CResponseOf(m).status = "none"
             /\ CResponseOf(m).body = "failure" <=> m.payload = "junk"
  <2>1. m \in RequestsOf({m.id})
    BY <1>2 DEF RequestsOf
  <2> HIDE DEF m
  <2> QED
    BY <2>1, ResponsesEcho DEF SuccessOf, ErrorOf, CResponseOf, Vouches
<1>3. CASE DotnetReject \/ TsReject \/ CCrash \/ PyThreadDies
  BY <1>1, <1>3 DEF DotnetReject, TsReject, CCrash, PyThreadDies
<1>4. CASE CNoResponse
  BY <1>1, <1>4 DEF CNoResponse, CUnlock
<1>5. CASE DotnetRespond
  <2>1. Taken /\ Execute(m) /\ UNCHANGED jobs
    BY <1>1, <1>5 DEF DotnetRespond
  <2>2. Spread(SuccessOf(m))
    BY <1>5, FanOutSpreads DEF DotnetRespond
  <2>3. Answers(m, SuccessOf(m))
    BY <1>2, <2>1 DEF Answers
  <2> QED
    BY <2>1, <2>2, <2>3
<1>6. CASE DotnetRespondError \/ TsCallbackThrows
  <2>1. Taken /\ UNCHANGED executed /\ UNCHANGED jobs /\ m.ctype = "protobuf"
    BY <1>1, <1>6 DEF DotnetRespondError, TsCallbackThrows, DotnetAccepts, TsAccepts
  <2>2. Spread(ErrorOf(m))
    BY <1>6, FanOutSpreads DEF DotnetRespondError, TsCallbackThrows
  <2>3. Answers(m, ErrorOf(m))
    BY <1>2, <2>1 DEF Answers
  <2> QED
    BY <2>1, <2>2, <2>3
<1>7. CASE TsRespond
  <2>1. Taken /\ Execute(m) /\ m.ctype = "protobuf"
    BY <1>1, <1>7 DEF TsRespond, TsAccepts
  <2>2. CASE responses' = Reply(m, SuccessOf(m)) /\ UNCHANGED jobs
    <3>1. Spread(SuccessOf(m))
      BY <2>2, FanOutSpreads
    <3>2. Answers(m, SuccessOf(m))
      BY <1>2, <2>1 DEF Answers
    <3> QED
      BY <2>1, <2>2, <3>1, <3>2
  <2>3. CASE PublishMayFail /\ jobs' = Append(jobs, m) /\ UNCHANGED responses
    BY <2>1, <2>3
  <2> QED
    BY <1>7, <2>2, <2>3 DEF TsRespond
<1>8. CASE CRespond
  <2>1. Taken /\ UNCHANGED jobs /\ CUnlock(m)
    BY <1>1, <1>8 DEF CRespond
  <2>2. Spread(CResponseOf(m))
    BY <1>8, FanOutSpreads DEF CRespond
  <2>3. Answers(m, CResponseOf(m))
    BY <1>2, <2>1 DEF Answers, CUnlock, Vouches
  <2>4. UNCHANGED executed \/ Execute(m)
    BY <2>1 DEF CUnlock
  <2> QED
    BY <2>1, <2>2, <2>3, <2>4
<1>9. CASE PySubmit
  <2>1. Taken /\ Execute(m) /\ jobs' = Append(jobs, m) /\ UNCHANGED responses /\ kind = "python"
    BY <1>1, <1>9 DEF PySubmit, Takes
  <2> QED
    BY <2>1
<1>10. Goal
  BY <1>3, <1>4, <1>5, <1>6, <1>7, <1>8, <1>9 DEF Handle
<1> QED
  BY <1>10

(* What becomes of a job: a Python worker sends the response that was promised, *)
(* the catch block of TypeScript an error, or nothing.                        *)
LEMMA FinishEffect ==
  ASSUME MessagesWithin(Ids), CountersOK, NEW i \in DOMAIN jobs, Finish(i)
  PROVE  /\ jobs[i] \in Request /\ jobs' = RemoveAt(jobs, i)
         /\ UNCHANGED <<requests, executed, kind, subscribed, dups>>
         /\ \/ UNCHANGED responses
            \/ \E r : Sends(jobs[i], r) /\ Spread(r)
<1> DEFINE m == jobs[i]
<1>1. m \in Request /\ m \in RequestsOf({m.id})
  BY SequenceTypes DEF MessagesWithin, RequestsOf
<1>2. /\ ErrorOf(m) \in ResponsesOf({m.id}) /\ PyResponseOf(m) \in ResponsesOf({m.id})
      /\ ErrorOf(m).status = "500" /\ ErrorOf(m).body = "text" /\ ErrorOf(m) \notin Vouches
      /\ PyResponseOf(m).status = "none" /\ PyResponseOf(m).body = "placeholder"
      /\ ErrorOf(m).ctype = "none" /\ PyResponseOf(m).ctype = "none"
  <2> HIDE DEF m
  <2> QED
    BY <1>1, ResponsesEcho DEF ErrorOf, PyResponseOf, Vouches
<1>3. CASE TsPublishError(i)
  <2>1. responses' = Reply(m, ErrorOf(m)) => Spread(ErrorOf(m))
    BY FanOutSpreads
  <2>2. kind = "ts" => Sends(m, ErrorOf(m))
    BY <1>2 DEF Sends
  <2> QED
    BY <1>1, <1>3, <2>1, <2>2 DEF TsPublishError, Without
<1>4. CASE PyRespond(i)
  <2>1. Spread(PyResponseOf(m))
    BY <1>4, FanOutSpreads DEF PyRespond
  <2>2. kind = "python" => Sends(m, PyResponseOf(m))
    BY <1>2 DEF Sends
  <2> QED
    BY <1>1, <1>4, <2>1, <2>2 DEF PyRespond, Without
<1> QED
  BY <1>3, <1>4 DEF Finish

-----------------------------------------------------------------------------
(* The requests and the jobs with the id i, and the responses of S in an inbox. *)
Waiting(i)  == Copies(requests, RequestsOf({i}))
Working(i)  == Copies(jobs, RequestsOf({i}))
Heard(c, S) == Copies(responses[c], S)

Typed == MessagesWithin(Ids) /\ CountersOK

(* In words of sequences.                                                    *)
LEMMA Sequences ==
  ASSUME Typed
  PROVE  /\ requests \in Seq(Request) /\ jobs \in Seq(Request)
         /\ \A c \in Clients : responses[c] \in Seq(Response)
         /\ executed \in [Ids -> Nat] /\ dups \in Nat
         /\ \A i, S : Waiting(i) \in Nat /\ Working(i) \in Nat
         /\ \A c \in Clients : \A S : Heard(c, S) \in Nat
<1>1. requests \in Seq(Request) /\ jobs \in Seq(Request) /\ \A c \in Clients : responses[c] \in Seq(Response)
  BY TypesOfMessages DEF Typed, BrokerTypeOK, ServerTypeOK
<1>2. executed \in [Ids -> Nat] /\ dups \in Nat
  BY BrokerAssumption DEF Typed, CountersOK
<1>3. \A i : Waiting(i) \in Nat /\ Working(i) \in Nat
  BY <1>1, CopiesNat DEF Waiting, Working
<1>4. \A c \in Clients : \A S : Heard(c, S) \in Nat
  BY <1>1, CopiesNat DEF Heard
<1> QED
  BY <1>1, <1>2, <1>3, <1>4

LEMMA SpreadCopies ==
  ASSUME Typed, NEW r \in Response, Spread(r), NEW c \in Clients, NEW S
  PROVE  /\ Heard(c, S)' \in Nat
         /\ Heard(c, S)' <= Heard(c, S) + One(r \in S)
<1>1. responses[c] \in Seq(Response) /\ Heard(c, S) \in Nat
  BY Sequences
<1>2. CASE responses'[c] = responses[c]
  BY <1>1, <1>2 DEF Heard, One
<1>3. CASE responses'[c] = Append(responses[c], r)
  BY <1>1, <1>3, CopiesAppend DEF Heard, One
<1> QED
  BY <1>2, <1>3 DEF Spread

(* A request that is executed, counted per id.                               *)
LEMMA ExecuteCounts ==
  ASSUME Typed, NEW m \in Request, NEW i \in Ids
  PROVE  /\ Execute(m) => executed'[i] = executed[i] + One(m.id = i)
         /\ m \in RequestsOf({i}) <=> m.id = i
         /\ One(m.id = i) \in {0, 1}
BY DEF Typed, CountersOK, Execute, One, RequestsOf, Request

(* What a handler does to the counts of an id.                               *)
LEMMA HandleCounts ==
  ASSUME Typed, Handle, NEW c \in Clients, NEW i \in Ids, NEW S
  PROVE  LET m == Head(requests)
             b == One(m.id = i)
         IN
         /\ b \in {0, 1} /\ m \in Request
         /\ Waiting(i)' \in Nat /\ Waiting(i)' + b <= Waiting(i)
         /\ UNCHANGED <<kind, dups>>
         /\ executed'[i] = executed[i] \/ executed'[i] = executed[i] + b
         /\ \/ Working(i)' = Working(i) /\ Heard(c, S)' = Heard(c, S)
            \/ /\ Working(i)' = Working(i)
               /\ \E r : /\ Answers(m, r)
                         /\ Heard(c, S)' \in Nat /\ Heard(c, S)' <= Heard(c, S) + One(r \in S)
                         /\ r \in Vouches => executed'[i] = executed[i] + b
            \/ /\ Working(i)' = Working(i) + b
               /\ Heard(c, S)' = Heard(c, S)
               /\ executed'[i] = executed[i] + b
               /\ UNCHANGED responses
<1> DEFINE m == Head(requests)
           b == One(m.id = i)
<1>1. /\ requests # <<>> /\ m \in Request
      /\ requests' = Tail(requests)
      /\ UNCHANGED <<kind, dups>>
      /\ UNCHANGED executed \/ Execute(m)
      /\ \/ UNCHANGED <<responses, jobs>>
         \/ UNCHANGED jobs /\ \E r : Answers(m, r) /\ Spread(r)
         \/ /\ jobs' = Append(jobs, m)
            /\ UNCHANGED responses
            /\ Execute(m)
  BY HandleEffect DEF Typed
<1>2. /\ b \in {0, 1}
      /\ Execute(m) => executed'[i] = executed[i] + b
      /\ m \in RequestsOf({i}) <=> m.id = i
  <2> HIDE DEF m
  <2> QED
    BY <1>1, ExecuteCounts
<1> HIDE DEF m
<1>3. Waiting(i)' \in Nat /\ Waiting(i)' + b <= Waiting(i)
  <2>1. requests \in Seq(Request) /\ Tail(requests) \in Seq(Request)
    BY <1>1, Sequences, SequenceTypes
  <2>2. Copies(Tail(requests), RequestsOf({i})) \in Nat
    BY <2>1, CopiesNat
  <2>3. Copies(Tail(requests), RequestsOf({i})) + One(m \in RequestsOf({i})) <= Copies(requests, RequestsOf({i}))
    BY <1>1, <2>1, CopiesTail DEF m
  <2> QED
    BY <1>1, <1>2, <2>2, <2>3 DEF Waiting, One
<1>4. executed'[i] = executed[i] \/ executed'[i] = executed[i] + b
  BY <1>1, <1>2
<1>5. UNCHANGED jobs => Working(i)' = Working(i)
  BY DEF Working
<1>6. UNCHANGED responses => Heard(c, S)' = Heard(c, S)
  BY DEF Heard
<1>7. ASSUME NEW r, Answers(m, r), Spread(r)
      PROVE  /\ Heard(c, S)' \in Nat /\ Heard(c, S)' <= Heard(c, S) + One(r \in S)
             /\ r \in Vouches => executed'[i] = executed[i] + b
  <2>1. r \in Response
    BY <1>7 DEF Answers, ResponsesOf
  <2> QED
    BY <1>2, <1>7, <2>1, SpreadCopies DEF Answers
<1>8. jobs' = Append(jobs, m) => Working(i)' = Working(i) + b
  <2>1. jobs \in Seq(Request)
    BY Sequences
  <2>2. Copies(Append(jobs, m), RequestsOf({i})) = Copies(jobs, RequestsOf({i})) + One(m \in RequestsOf({i}))
    BY <1>1, <2>1, CopiesAppend
  <2> QED
    BY <1>2, <2>2 DEF Working, One
<1> HIDE DEF b
<1>9. \/ Working(i)' = Working(i) /\ Heard(c, S)' = Heard(c, S)
      \/ /\ Working(i)' = Working(i)
         /\ \E r : /\ Answers(m, r)
                   /\ Heard(c, S)' \in Nat /\ Heard(c, S)' <= Heard(c, S) + One(r \in S)
                   /\ r \in Vouches => executed'[i] = executed[i] + b
      \/ /\ Working(i)' = Working(i) + b
         /\ Heard(c, S)' = Heard(c, S)
         /\ executed'[i] = executed[i] + b
         /\ UNCHANGED responses
  <2>1. CASE UNCHANGED <<responses, jobs>>
    BY <1>5, <1>6, <2>1
  <2>2. CASE UNCHANGED jobs /\ \E r : Answers(m, r) /\ Spread(r)
    BY <1>5, <1>7, <2>2
  <2>3. CASE jobs' = Append(jobs, m) /\ UNCHANGED responses /\ Execute(m)
    BY <1>2, <1>6, <1>8, <2>3
  <2> QED
    BY <1>1, <2>1, <2>2, <2>3
<1> QED
  BY <1>1, <1>2, <1>3, <1>4, <1>9 DEF m, b

(* What the end of a job does to them.                                       *)
LEMMA FinishCounts ==
  ASSUME Typed, NEW n \in DOMAIN jobs, Finish(n), NEW c \in Clients, NEW i \in Ids, NEW S
  PROVE  LET b == One(jobs[n].id = i) IN
         /\ b \in {0, 1}
         /\ Waiting(i)' = Waiting(i)
         /\ Working(i)' \in Nat /\ Working(i)' + b <= Working(i)
         /\ UNCHANGED <<executed, kind, dups>>
         /\ \/ Heard(c, S)' = Heard(c, S)
            \/ \E r : /\ Sends(jobs[n], r)
                      /\ Heard(c, S)' \in Nat /\ Heard(c, S)' <= Heard(c, S) + One(r \in S)
<1> DEFINE m == jobs[n]
           b == One(m.id = i)
<1>1. /\ m \in Request /\ jobs' = RemoveAt(jobs, n)
      /\ UNCHANGED <<requests, executed, kind, dups>>
      /\ \/ UNCHANGED responses
         \/ \E r : Sends(m, r) /\ Spread(r)
  BY FinishEffect DEF Typed
<1>2. b \in {0, 1} /\ (m \in RequestsOf({i}) <=> m.id = i)
  BY <1>1 DEF One, RequestsOf
<1>3. Working(i)' \in Nat /\ Working(i)' + b <= Working(i)
  <2>1. jobs \in Seq(Request) /\ RemoveAt(jobs, n) \in Seq(Request)
    BY Sequences, SequenceTypes
  <2>2. Copies(RemoveAt(jobs, n), RequestsOf({i})) \in Nat
    BY <2>1, CopiesNat
  <2>3. Copies(RemoveAt(jobs, n), RequestsOf({i})) + One(jobs[n] \in RequestsOf({i})) <= Copies(jobs, RequestsOf({i}))
    BY <2>1, CopiesRemoveAt
  <2> QED
    BY <1>1, <1>2, <2>2, <2>3 DEF Working, One
<1>4. Waiting(i)' = Waiting(i)
  BY <1>1 DEF Waiting
<1>5. UNCHANGED responses => Heard(c, S)' = Heard(c, S)
  BY DEF Heard
<1>6. ASSUME NEW r, Sends(m, r), Spread(r)
      PROVE  Heard(c, S)' \in Nat /\ Heard(c, S)' <= Heard(c, S) + One(r \in S)
  <2>1. r \in Response
    BY <1>6 DEF Sends, ResponsesOf
  <2> QED
    BY <1>6, <2>1, SpreadCopies
<1>7. \/ Heard(c, S)' = Heard(c, S)
      \/ \E r : /\ Sends(m, r)
                /\ Heard(c, S)' \in Nat /\ Heard(c, S)' <= Heard(c, S) + One(r \in S)
  BY <1>1, <1>5, <1>6
<1> QED
  BY <1>1, <1>2, <1>3, <1>4, <1>7

(* What the network does to them: every copy it makes is counted by dups.     *)
LEMMA BrokerCounts ==
  ASSUME Typed, BrokerNext, NEW c \in Clients, NEW i \in Ids, NEW S
  PROVE  /\ Waiting(i)' \in Nat /\ Heard(c, S)' \in Nat /\ dups' \in Nat
         /\ Working(i)' = Working(i)
         /\ UNCHANGED <<executed, kind, jobs>>
         /\ \/ Waiting(i)' <= Waiting(i) /\ Heard(c, S)' <= Heard(c, S) /\ dups' = dups
            \/ Waiting(i)' = Waiting(i) /\ Heard(c, S)' <= Heard(c, S) + 1 /\ dups' = dups + 1
            \/ Waiting(i)' <= Waiting(i) + 1 /\ Heard(c, S)' = Heard(c, S) /\ dups' = dups + 1
<1>1. UNCHANGED <<executed, kind, jobs>> /\ Working(i)' = Working(i)
  BY DEF BrokerNext, serverVars, Working
<1>2. /\ requests \in Seq(Request) /\ \A d \in Clients : responses[d] \in Seq(Response)
      /\ dups \in Nat /\ Waiting(i) \in Nat /\ Heard(c, S) \in Nat
  BY Sequences
<1>3. Typed'
  BY BrokerKeeps DEF Typed
<1>4. Waiting(i)' \in Nat /\ Heard(c, S)' \in Nat /\ dups' \in Nat
  <2>1. requests' \in Seq(Request) /\ responses'[c] \in Seq(Response) /\ dups' \in Nat
    <3>1. (BrokerTypeOK /\ ServerTypeOK)'
      BY <1>3, TypesOfMessages, PTL DEF Typed
    <3> QED
      BY <3>1, BrokerAssumption DEF BrokerTypeOK
  <2> QED
    BY <2>1, CopiesNat DEF Waiting, Heard
<1>5. CASE LoseRequest
  <2>1. Copies(Tail(requests), RequestsOf({i})) + One(Head(requests) \in RequestsOf({i})) <= Waiting(i)
    BY <1>2, <1>5, CopiesTail DEF LoseRequest, Waiting
  <2>2. Waiting(i)' <= Waiting(i)
    BY <1>2, <1>4, <1>5, <2>1 DEF LoseRequest, Waiting, One
  <2> QED
    BY <1>1, <1>2, <1>4, <1>5, <2>2 DEF LoseRequest, Heard
<1>6. ASSUME NEW d \in Clients, LoseResponse(d)
      PROVE  Waiting(i)' <= Waiting(i) /\ Heard(c, S)' <= Heard(c, S) /\ dups' = dups
  <2>1. CASE d = c
    <3>1. responses'[c] = Tail(responses[c])
      BY <1>2, <1>6, <2>1 DEF LoseResponse, Typed, MessagesWithin
    <3>2. Copies(Tail(responses[c]), S) + One(Head(responses[c]) \in S) <= Heard(c, S)
      BY <1>2, <1>6, <2>1, CopiesTail DEF LoseResponse, Heard
    <3>3. Heard(c, S)' <= Heard(c, S)
      BY <1>2, <1>4, <3>1, <3>2 DEF Heard, One
    <3> QED
      BY <1>2, <1>6, <3>3 DEF LoseResponse, Waiting
  <2>2. CASE d # c
    <3>1. responses'[c] = responses[c]
      BY <1>6, <2>2 DEF LoseResponse, Typed, MessagesWithin
    <3> QED
      BY <1>2, <1>6, <3>1 DEF LoseResponse, Waiting, Heard
  <2> QED
    BY <2>1, <2>2
<1>7. CASE RedeliverRequest
  <2>1. Head(requests) \in Request
    BY <1>2, <1>7, SequenceTypes DEF RedeliverRequest
  <2>2. Copies(Append(requests, Head(requests)), RequestsOf({i})) = Waiting(i) + One(Head(requests) \in RequestsOf({i}))
    BY <1>2, <2>1, CopiesAppend DEF Waiting
  <2>3. Waiting(i)' <= Waiting(i) + 1
    BY <1>2, <1>7, <2>2 DEF RedeliverRequest, Waiting, One
  <2> QED
    BY <1>1, <1>2, <1>4, <1>7, <2>3 DEF RedeliverRequest, Heard
<1>8. ASSUME NEW d \in Clients, RedeliverResponse(d)
      PROVE  Waiting(i)' = Waiting(i) /\ Heard(c, S)' <= Heard(c, S) + 1 /\ dups' = dups + 1
  <2>1. CASE d = c
    <3>1. responses'[c] = Append(responses[c], Head(responses[c]))
      BY <1>2, <1>8, <2>1 DEF RedeliverResponse, Typed, MessagesWithin
    <3>2. Head(responses[c]) \in Response
      BY <1>2, <1>8, <2>1, SequenceTypes DEF RedeliverResponse
    <3>3. Copies(Append(responses[c], Head(responses[c])), S) = Heard(c, S) + One(Head(responses[c]) \in S)
      BY <1>2, <3>2, CopiesAppend DEF Heard
    <3>4. Heard(c, S)' <= Heard(c, S) + 1
      BY <1>2, <3>1, <3>3 DEF Heard, One
    <3> QED
      BY <1>2, <1>8, <3>4 DEF RedeliverResponse, Waiting
  <2>2. CASE d # c
    <3>1. responses'[c] = responses[c]
      BY <1>8, <2>2 DEF RedeliverResponse, Typed, MessagesWithin
    <3> QED
      BY <1>2, <1>8, <3>1 DEF RedeliverResponse, Waiting, Heard
  <2> QED
    BY <2>1, <2>2
<1> QED
  BY <1>1, <1>4, <1>5, <1>6, <1>7, <1>8 DEF BrokerNext

-----------------------------------------------------------------------------
(* A request is left to a job only once it is executed, and only where a        *)
(* response can fail or a pool sends it.                                      *)
Deferred(m) ==
  /\ Execute(m)
  /\ kind = "python" \/ (PublishMayFail /\ m.ctype = "protobuf")

(* Whatever is true of the requests (R), and so of what is answered and what is *)
(* left to a job, stays true of every job (J) and every response (S).          *)
LEMMA PassOn ==
  ASSUME Typed, ServerNext \/ BrokerNext, NEW R, NEW J, NEW S,
         requests \in Seq(R), jobs \in Seq(J), responses \in [Clients -> Seq(S)],
         \A m \in R : Deferred(m) => m \in J,
         \A m \in R : \A r : Answers(m, r) => r \in S,
         \A m \in J : \A r : Sends(m, r) => r \in S
  PROVE  requests' \in Seq(R) /\ jobs' \in Seq(J) /\ responses' \in [Clients -> Seq(S)]
<1>1. responses' \in [Clients -> Seq(ResponsesOf(Ids))]
  <2>1. MessagesWithin(Ids)'
    BY ServersOnlyEcho DEF Typed
  <2> QED
    BY <2>1 DEF MessagesWithin
<1>2. ASSUME NEW r \in S, Spread(r)
      PROVE  responses' \in [Clients -> Seq(S)]
  <2>1. \A c \in Clients : Append(responses[c], r) \in Seq(S)
    BY <1>2, SequenceTypes
  <2>2. \A c \in Clients : responses'[c] \in Seq(S)
    BY <1>2, <2>1 DEF Spread
  <2> QED
    BY <1>1, <2>2
<1>3. CASE Handle
  <2> DEFINE m == Head(requests)
  <2>1. /\ requests # <<>> /\ requests' = Tail(requests)
        /\ \/ UNCHANGED <<responses, jobs>>
           \/ UNCHANGED jobs /\ \E r : Answers(m, r) /\ Spread(r)
           \/ jobs' = Append(jobs, m) /\ UNCHANGED responses /\ Deferred(m)
    BY <1>3, HandleEffect DEF Typed, Deferred
  <2>2. m \in R /\ requests' \in Seq(R)
    BY <2>1, SequenceTypes
  <2> HIDE DEF m
  <2>3. CASE UNCHANGED <<responses, jobs>>
    BY <2>2, <2>3
  <2>4. CASE UNCHANGED jobs /\ \E r : Answers(m, r) /\ Spread(r)
    BY <1>2, <2>2, <2>4
  <2>5. CASE jobs' = Append(jobs, m) /\ UNCHANGED responses /\ Deferred(m)
    BY <2>2, <2>5, SequenceTypes
  <2> QED
    BY <2>1, <2>3, <2>4, <2>5
<1>4. ASSUME NEW n \in DOMAIN jobs, Finish(n)
      PROVE  requests' \in Seq(R) /\ jobs' \in Seq(J) /\ responses' \in [Clients -> Seq(S)]
  <2>1. /\ jobs' = RemoveAt(jobs, n) /\ UNCHANGED requests
        /\ UNCHANGED responses \/ \E r : Sends(jobs[n], r) /\ Spread(r)
    BY <1>4, FinishEffect DEF Typed
  <2>2. jobs[n] \in J /\ jobs' \in Seq(J)
    BY <2>1, SequenceTypes
  <2> QED
    BY <1>2, <2>1, <2>2
<1>5. CASE BrokerNext
  <2>1. UNCHANGED jobs
    BY <1>5 DEF BrokerNext, serverVars
  <2>2. requests' \in Seq(R)
    BY <1>5, SequenceTypes DEF BrokerNext, LoseRequest, RedeliverRequest, LoseResponse, RedeliverResponse
  <2>3. ASSUME NEW c \in Clients, responses[c] # <<>>
        PROVE  Tail(responses[c]) \in Seq(S) /\ Append(responses[c], Head(responses[c])) \in Seq(S)
    BY <2>3, SequenceTypes
  <2>4. responses' \in [Clients -> Seq(S)]
    BY <1>5, <2>3 DEF BrokerNext, LoseRequest, RedeliverRequest, LoseResponse, RedeliverResponse
  <2> QED
    BY <2>1, <2>2, <2>4
<1> QED
  BY <1>3, <1>4, <1>5 DEF ServerNext

(* A command is executed once more, or none is; only what was requested is.    *)
LEMMA ExecutedOnce ==
  ASSUME Typed, NEW I, MessagesWithin(I), ServerNext \/ BrokerNext
  PROVE  \/ UNCHANGED executed
         \/ \E i \in I \cap Ids : executed' = [executed EXCEPT ![i] = @ + 1]
<1>1. CASE Handle
  <2> DEFINE m == Head(requests)
  <2>1. requests # <<>> /\ (UNCHANGED executed \/ Execute(m))
    BY <1>1, HandleEffect DEF Typed
  <2>2. m \in RequestsOf(I)
    BY <2>1, SequenceTypes DEF MessagesWithin
  <2> HIDE DEF m
  <2> QED
    BY <2>1, <2>2 DEF Execute, RequestsOf, Request
<1>2. ASSUME NEW n \in DOMAIN jobs, Finish(n) PROVE UNCHANGED executed
  BY <1>2, FinishEffect DEF Typed
<1>3. CASE BrokerNext
  BY <1>3 DEF BrokerNext, serverVars
<1> QED
  BY <1>1, <1>2, <1>3 DEF ServerNext

(* What was executed stays executed.                                         *)
LEMMA ExecutedGrows ==
  ASSUME Typed, ServerNext \/ BrokerNext
  PROVE  \A i \in Ids : executed[i] > 0 => executed'[i] > 0
<1>1. executed \in [Ids -> Nat] /\ MessagesWithin(Ids)
  BY Sequences DEF Typed
<1>2. UNCHANGED executed \/ \E i \in Ids : executed' = [executed EXCEPT ![i] = @ + 1]
  BY <1>1, ExecutedOnce
<1> QED
  BY <1>1, <1>2

LEMMA KindIsFixed ==
  ASSUME Typed, ServerNext \/ BrokerNext
  PROVE  UNCHANGED kind
<1>1. CASE Handle
  BY <1>1, HandleEffect DEF Typed
<1>2. ASSUME NEW n \in DOMAIN jobs, Finish(n) PROVE UNCHANGED kind
  BY <1>2, FinishEffect DEF Typed
<1> QED
  BY <1>1, <1>2 DEF ServerNext, BrokerNext, serverVars

-----------------------------------------------------------------------------
(* No response is sent, or promised to a job, that vouches for a command that   *)
(* was not executed.                                                         *)
Owed     == {m \in Request : executed[m.id] > 0 /\ (kind = "python" \/ PublishMayFail)}
Truthful == {r \in Response : r \in Vouches => executed[r.id] > 0}

Honest == jobs \in Seq(Owed) /\ responses \in [Clients -> Seq(Truthful)]

LEMMA HonestKeeps ==
  ASSUME Typed, Honest, ServerNext \/ BrokerNext
  PROVE  Honest'
<1> DEFINE J == {m \in Request : executed'[m.id] > 0 /\ (kind = "python" \/ PublishMayFail)}
           S == {r \in Response : r \in Vouches => executed'[r.id] > 0}
<1>1. \A i \in Ids : executed[i] > 0 => executed'[i] > 0
  BY ExecutedGrows
<1>2. executed \in [Ids -> Nat] /\ requests \in Seq(Request)
  BY Sequences
<1>3. jobs \in Seq(J)
  <2>1. Owed \subseteq J
    BY <1>1 DEF Owed, Request
  <2> QED
    BY <2>1, SeqMonotonic DEF Honest
<1>4. responses \in [Clients -> Seq(S)]
  <2>1. Truthful \subseteq S
    BY <1>1 DEF Truthful, Response
  <2>2. Seq(Truthful) \subseteq Seq(S)
    BY <2>1, SeqMonotonic
  <2> QED
    BY <2>2 DEF Honest
<1>5. \A m \in Request : Execute(m) => executed'[m.id] > 0
  BY <1>2 DEF Execute, Request
<1>6. \A m \in Request : Deferred(m) => m \in J
  BY <1>5 DEF Deferred
<1>7. \A m \in Request : \A r : Answers(m, r) => r \in S
  BY <1>5 DEF Answers, ResponsesOf
<1>8. \A m \in J : \A r : Sends(m, r) => r \in S
  BY DEF Sends, ResponsesOf
<1>9. UNCHANGED kind
  BY KindIsFixed
<1>10. jobs' \in Seq(J) /\ responses' \in [Clients -> Seq(S)]
  <2> HIDE DEF J, S
  <2> QED
    BY <1>2, <1>3, <1>4, <1>6, <1>7, <1>8, PassOn
<1> QED
  BY <1>9, <1>10 DEF Honest, Owed, Truthful

-----------------------------------------------------------------------------
(* Everything under way for one call and one client: its requests, the jobs     *)
(* they were left to, and the responses in the client's inbox.  Servers turn    *)
(* one into the other and never two into one: only the network adds to them.   *)
Traffic(c, i) == Waiting(i) + Working(i) + Heard(c, ResponsesOf({i}))

LEMMA TrafficIsCounted ==
  ASSUME Typed, ServerNext \/ BrokerNext, NEW c \in Clients, NEW i \in Ids
  PROVE  dups' \in Nat /\ Traffic(c, i)' \in Nat
<1>1. Typed'
  BY ServersOnlyEcho DEF Typed
<1>2. (BrokerTypeOK /\ ServerTypeOK)'
  BY <1>1, TypesOfMessages, PTL DEF Typed
<1>3. requests' \in Seq(Request) /\ jobs' \in Seq(Request) /\ responses'[c] \in Seq(Response) /\ dups' \in Nat
  BY <1>2, BrokerAssumption DEF BrokerTypeOK, ServerTypeOK
<1>4. Waiting(i)' \in Nat /\ Working(i)' \in Nat /\ Heard(c, ResponsesOf({i}))' \in Nat
  BY <1>3, CopiesNat DEF Waiting, Working, Heard
<1> QED
  BY <1>3, <1>4 DEF Traffic

(* A redelivery is counted; nothing else touches the count.                   *)
LEMMA DupsGrow ==
  ASSUME Typed, ServerNext \/ BrokerNext
  PROVE  dups' = dups \/ dups' = dups + 1
<1>1. CASE Handle
  BY <1>1, HandleEffect DEF Typed
<1>2. ASSUME NEW n \in DOMAIN jobs, Finish(n) PROVE UNCHANGED dups
  BY <1>2, FinishEffect DEF Typed
<1> QED
  BY <1>1, <1>2 DEF ServerNext, BrokerNext, LoseRequest, LoseResponse, RedeliverRequest, RedeliverResponse

LEMMA TrafficFalls ==
  ASSUME Typed, NEW c \in Clients, NEW i \in Ids, ServerNext \/ BrokerNext
  PROVE  Traffic(c, i)' <= Traffic(c, i) + (dups' - dups)
<1> DEFINE S == ResponsesOf({i})
<1>1. /\ dups \in Nat /\ Waiting(i) \in Nat /\ Working(i) \in Nat /\ Heard(c, S) \in Nat
  BY Sequences
<1> HIDE DEF S
<1>2. CASE Handle
  <2> DEFINE m == Head(requests)
             b == One(m.id = i)
  <2>1. /\ b \in {0, 1} /\ dups' = dups
        /\ Waiting(i)' \in Nat /\ Waiting(i)' + b <= Waiting(i)
        /\ \/ Working(i)' = Working(i) /\ Heard(c, S)' = Heard(c, S)
           \/ /\ Working(i)' = Working(i)
              /\ \E r : Answers(m, r) /\ Heard(c, S)' \in Nat /\ Heard(c, S)' <= Heard(c, S) + One(r \in S)
           \/ Working(i)' = Working(i) + b /\ Heard(c, S)' = Heard(c, S)
    BY <1>2, HandleCounts
  <2>2. ASSUME NEW r, Answers(m, r),
               Heard(c, S)' \in Nat, Heard(c, S)' <= Heard(c, S) + One(r \in S)
        PROVE  Heard(c, S)' \in Nat /\ Heard(c, S)' <= Heard(c, S) + b
    <3> DEFINE h == One(r \in S)
    <3>1. r \in S => m.id = i
      BY <2>2 DEF Answers, S, ResponsesOf
    <3>2. h <= b /\ h \in {0, 1} /\ b \in {0, 1}
      BY <3>1 DEF One
    <3>3. Heard(c, S)' \in Nat /\ Heard(c, S)' <= Heard(c, S) + h
      BY <2>2
    <3> HIDE DEF h, b
    <3> QED
      BY <1>1, <3>2, <3>3
  <2> HIDE DEF b, m
  <2>3. \/ Working(i)' = Working(i) /\ Heard(c, S)' = Heard(c, S)
        \/ Working(i)' = Working(i) /\ Heard(c, S)' \in Nat /\ Heard(c, S)' <= Heard(c, S) + b
        \/ Working(i)' = Working(i) + b /\ Heard(c, S)' = Heard(c, S)
    BY <2>1, <2>2
  <2>4. Waiting(i)' + Working(i)' + Heard(c, S)' <= Waiting(i) + Working(i) + Heard(c, S) + (dups' - dups)
    BY <1>1, <2>1, <2>3
  <2> QED
    BY <2>4 DEF Traffic, S
<1>3. ASSUME NEW n \in DOMAIN jobs, Finish(n)
      PROVE  Waiting(i)' + Working(i)' + Heard(c, S)' <= Waiting(i) + Working(i) + Heard(c, S) + (dups' - dups)
  <2> DEFINE b == One(jobs[n].id = i)
  <2>1. /\ b \in {0, 1} /\ dups' = dups
        /\ Waiting(i)' = Waiting(i)
        /\ Working(i)' \in Nat /\ Working(i)' + b <= Working(i)
        /\ \/ Heard(c, S)' = Heard(c, S)
           \/ \E r : /\ Sends(jobs[n], r)
                     /\ Heard(c, S)' \in Nat /\ Heard(c, S)' <= Heard(c, S) + One(r \in S)
    BY <1>3, FinishCounts
  <2>2. ASSUME NEW r, Sends(jobs[n], r),
               Heard(c, S)' \in Nat, Heard(c, S)' <= Heard(c, S) + One(r \in S)
        PROVE  Heard(c, S)' \in Nat /\ Heard(c, S)' <= Heard(c, S) + b
    <3> DEFINE h == One(r \in S)
    <3>1. r \in S => jobs[n].id = i
      BY <2>2 DEF Sends, S, ResponsesOf
    <3>2. h <= b /\ h \in {0, 1} /\ b \in {0, 1}
      BY <3>1 DEF One
    <3>3. Heard(c, S)' \in Nat /\ Heard(c, S)' <= Heard(c, S) + h
      BY <2>2
    <3> HIDE DEF h, b
    <3> QED
      BY <1>1, <3>2, <3>3
  <2> HIDE DEF b
  <2>3. Heard(c, S)' = Heard(c, S) \/ (Heard(c, S)' \in Nat /\ Heard(c, S)' <= Heard(c, S) + b)
    BY <2>1, <2>2
  <2> QED
    BY <1>1, <2>1, <2>3
<1>4. CASE BrokerNext
  <2>1. /\ Waiting(i)' \in Nat /\ Heard(c, S)' \in Nat /\ dups' \in Nat
        /\ Working(i)' = Working(i)
        /\ \/ Waiting(i)' <= Waiting(i) /\ Heard(c, S)' <= Heard(c, S) /\ dups' = dups
           \/ Waiting(i)' = Waiting(i) /\ Heard(c, S)' <= Heard(c, S) + 1 /\ dups' = dups + 1
           \/ Waiting(i)' <= Waiting(i) + 1 /\ Heard(c, S)' = Heard(c, S) /\ dups' = dups + 1
    BY <1>4, BrokerCounts
  <2>2. Waiting(i)' + Working(i)' + Heard(c, S)' <= Waiting(i) + Working(i) + Heard(c, S) + (dups' - dups)
    BY <1>1, <2>1
  <2> QED
    BY <2>2 DEF Traffic, S
<1> QED
  BY <1>2, <1>3, <1>4 DEF ServerNext, Traffic, S
-----------------------------------------------------------------------------
(* The system of one server and arbitrary clients.                           *)
FormsOK == published \subseteq [call: Calls, request: Request]

(* For every call: the responses in an inbox that vouch for it, and the one a   *)
(* pool still owes, are paid for by an execution or by a copy of the network.  *)
Backing ==
  \A c \in Clients, i \in Calls :
    Heard(c, ResponsesOf({i}) \cap Vouches) + (IF kind = "python" THEN Working(i) ELSE 0)
      <= executed[i] + dups

(* A published call is one of: still waiting, executed, or refused with a 500;   *)
(* the copies of the network apart, and the errors that follow an execution in  *)
(* silence.                                                                  *)
Errors(i) == {r \in ResponsesOf({i}) : r.status = "500"}
Failed(i) == IF kind = "ts" THEN Working(i) ELSE 0
Paid(i)   == One(\E p \in published : p.call = i)

Ledger ==
  \A c \in Clients, i \in Calls :
    Waiting(i) + executed[i] + Heard(c, Errors(i)) + Failed(i) <= Paid(i) + dups + silent[i]

(* Of a published call there is one message, or one for each copy more.       *)
OneMessage == \A c \in Clients, i \in Calls : Traffic(c, i) <= Paid(i) + dups

SilentOK == silent \in [Ids -> Nat]

SystemInv == Typed /\ FormsOK /\ SilentOK /\ Honest /\ Backing /\ Ledger /\ OneMessage

LEMMA CallFacts == NoId \notin Calls /\ Calls \subseteq Ids
<1>1. ASSUME NoId \in Calls PROVE FALSE
  <2>1. 0 \in 1..MaxCalls
    BY <1>1 DEF NoId, Calls
  <2> QED
    BY <2>1, BrokerAssumption
<1> QED
  BY <1>1 DEF Ids

LEMMA SystemInvInit == SystemInit => SystemInv
<1> HAVE SystemInit
<1>0. /\ requests = <<>> /\ jobs = <<>> /\ responses = [c \in Clients |-> <<>>]
      /\ executed = [i \in Ids |-> 0] /\ dups = 0 /\ published = {}
      /\ silent = [i \in Ids |-> 0]
  BY DEF SystemInit, BrokerInit, ServerInit
<1>1. Typed
  <2>1. CountersOK
    BY BrokerAssumption DEF SystemInit, BrokerInit, ServerInit, CountersOK
  <2>2. MessagesWithin(Ids)
    BY <1>0, EmptySeq DEF MessagesWithin
  <2> QED
    BY <2>1, <2>2 DEF Typed
<1>2. FormsOK
  BY <1>0 DEF FormsOK
<1>3. Honest
  BY <1>0, EmptySeq DEF Honest
<1>4. \A S : Copies(<<>>, S) = 0
  BY NoCopies
<1>5. \A i \in Calls : Waiting(i) = 0 /\ Working(i) = 0 /\ executed[i] = 0
  BY <1>0, <1>4, CallFacts DEF Waiting, Working
<1>6. \A c \in Clients : \A S : Heard(c, S) = 0
  BY <1>0, <1>4 DEF Heard
<1>7. Backing
  BY <1>0, <1>5, <1>6 DEF Backing
<1>8. \A i \in Calls : Paid(i) = 0 /\ Failed(i) = 0 /\ silent[i] = 0
  BY <1>0, <1>5, CallFacts DEF Paid, Failed, One
<1>9. Ledger /\ OneMessage
  BY <1>0, <1>5, <1>6, <1>8 DEF Ledger, OneMessage, Traffic
<1>10. SilentOK
  BY <1>0 DEF SilentOK
<1> QED
  BY <1>1, <1>2, <1>3, <1>7, <1>9, <1>10 DEF SystemInv

(* The servers and the network keep the books.                               *)
LEMMA BackingKeeps ==
  ASSUME Typed, Backing, ServerNext \/ BrokerNext
  PROVE  Backing'
<1> SUFFICES ASSUME NEW c \in Clients, NEW i \in Calls
             PROVE  (Heard(c, ResponsesOf({i}) \cap Vouches) + (IF kind = "python" THEN Working(i) ELSE 0)
                       <= executed[i] + dups)'
  BY DEF Backing
<1> DEFINE S == ResponsesOf({i}) \cap Vouches
           due == IF kind = "python" THEN Working(i) ELSE 0
<1>1. /\ i \in Ids /\ executed[i] \in Nat /\ dups \in Nat
      /\ Heard(c, S) \in Nat /\ Working(i) \in Nat
      /\ Heard(c, S) + due <= executed[i] + dups
  BY CallFacts, Sequences DEF Backing
<1>2. \A j : \A r \in ResponsesOf({j}) : One(r \in S) <= One(j = i) /\ (r \notin Vouches => One(r \in S) = 0)
  BY DEF One, ResponsesOf
<1> HIDE DEF S
<1>3. CASE Handle
  <2> DEFINE m == Head(requests)
             b == One(m.id = i)
  <2>1. /\ b \in {0, 1}
        /\ UNCHANGED <<kind, dups>>
        /\ executed'[i] = executed[i] \/ executed'[i] = executed[i] + b
        /\ \/ Working(i)' = Working(i) /\ Heard(c, S)' = Heard(c, S)
           \/ /\ Working(i)' = Working(i)
              /\ \E r : /\ Answers(m, r)
                        /\ Heard(c, S)' \in Nat /\ Heard(c, S)' <= Heard(c, S) + One(r \in S)
                        /\ r \in Vouches => executed'[i] = executed[i] + b
           \/ /\ Working(i)' = Working(i) + b
              /\ Heard(c, S)' = Heard(c, S)
              /\ executed'[i] = executed[i] + b
    BY <1>1, <1>3, HandleCounts
  <2>2. \A r : Answers(m, r) => One(r \in S) <= b /\ (r \notin Vouches => One(r \in S) = 0)
    BY <1>2 DEF Answers
  <2> HIDE DEF b, m
  <2>3. \A x : One(x) \in {0, 1}
    BY DEF One
  <2>4. Heard(c, S)' + due' <= executed'[i] + dups'
    <3>1. CASE Working(i)' = Working(i) /\ Heard(c, S)' = Heard(c, S)
      BY <1>1, <2>1, <3>1
    <3>2. ASSUME Working(i)' = Working(i),
                 NEW r, Answers(m, r),
                 Heard(c, S)' \in Nat, Heard(c, S)' <= Heard(c, S) + One(r \in S),
                 r \in Vouches => executed'[i] = executed[i] + b
          PROVE  Heard(c, S)' + due' <= executed'[i] + dups'
      <4>1. One(r \in S) \in {0, 1} /\ One(r \in S) <= b /\ (r \notin Vouches => One(r \in S) = 0)
        BY <2>2, <2>3, <3>2
      <4>2. executed'[i] >= executed[i] + One(r \in S)
        BY <1>1, <2>1, <3>2, <4>1
      <4> QED
        BY <1>1, <2>1, <3>2, <4>1, <4>2
    <3>3. CASE Working(i)' = Working(i) + b /\ Heard(c, S)' = Heard(c, S) /\ executed'[i] = executed[i] + b
      BY <1>1, <2>1, <3>3
    <3> QED
      BY <2>1, <3>1, <3>2, <3>3
  <2> QED
    BY <2>4 DEF S
<1>4. ASSUME NEW n \in DOMAIN jobs, Finish(n)
      PROVE  Heard(c, S)' + due' <= executed'[i] + dups'
  <2> DEFINE b == One(jobs[n].id = i)
  <2>1. /\ b \in {0, 1}
        /\ Working(i)' \in Nat /\ Working(i)' + b <= Working(i)
        /\ UNCHANGED <<executed, kind, dups>>
        /\ \/ Heard(c, S)' = Heard(c, S)
           \/ \E r : /\ Sends(jobs[n], r)
                     /\ Heard(c, S)' \in Nat /\ Heard(c, S)' <= Heard(c, S) + One(r \in S)
    BY <1>1, <1>4, FinishCounts
  <2>2. \A r : Sends(jobs[n], r) => /\ One(r \in S) <= b
                                    /\ One(r \in S) \in {0, 1}
                                    /\ kind # "python" => One(r \in S) = 0
    BY <1>2 DEF Sends, One
  <2> HIDE DEF b
  <2> QED
    BY <1>1, <2>1, <2>2
<1>5. CASE BrokerNext
  <2>1. /\ Heard(c, S)' \in Nat /\ dups' \in Nat
        /\ Working(i)' = Working(i)
        /\ UNCHANGED <<executed, kind>>
        /\ \/ Heard(c, S)' <= Heard(c, S) /\ dups' = dups
           \/ Heard(c, S)' <= Heard(c, S) + 1 /\ dups' = dups + 1
    BY <1>1, <1>5, BrokerCounts
  <2>2. Heard(c, S)' + due' <= executed'[i] + dups'
    BY <1>1, <2>1
  <2> QED
    BY <2>2 DEF S
<1> QED
  BY <1>3, <1>4, <1>5 DEF ServerNext, S

(* What the history counts: the executions of a step that published nothing.   *)
LEMMA SilentCounts ==
  ASSUME Typed, SilentOK, (ServerNext /\ CountSilent) \/ (BrokerNext /\ UNCHANGED silent)
  PROVE  /\ SilentOK'
         /\ \A i \in Ids : silent'[i] >= silent[i]
         /\ kind # "python" /\ CountSilent /\ UNCHANGED responses =>
              \A i \in Ids : silent'[i] = silent[i] + (executed'[i] - executed[i])
<1>1. CASE BrokerNext /\ UNCHANGED silent
  <2>1. UNCHANGED executed
    BY <1>1 DEF BrokerNext, serverVars
  <2> QED
    BY <1>1, <2>1, Sequences DEF SilentOK, CountSilent
<1>2. CASE ServerNext /\ CountSilent
  <2>1. executed \in [Ids -> Nat] /\ MessagesWithin(Ids)
    BY Sequences DEF Typed
  <2>2. UNCHANGED executed \/ \E i \in Ids : executed' = [executed EXCEPT ![i] = @ + 1]
    BY <1>2, <2>1, ExecutedOnce
  <2>3. \A i \in Ids : executed'[i] - executed[i] \in Nat
    BY <2>1, <2>2
  <2> QED
    BY <1>2, <2>1, <2>3 DEF SilentOK, CountSilent
<1> QED
  BY <1>1, <1>2

LEMMA LedgerKeeps ==
  ASSUME Typed, SilentOK, Ledger, UNCHANGED published,
         (ServerNext /\ CountSilent) \/ (BrokerNext /\ UNCHANGED silent)
  PROVE  Ledger'
<1> SUFFICES ASSUME NEW c \in Clients, NEW i \in Calls
             PROVE  (Waiting(i) + executed[i] + Heard(c, Errors(i)) + Failed(i)
                       <= Paid(i) + dups + silent[i])'
  BY DEF Ledger
<1> DEFINE S == Errors(i)
<1>1. /\ i \in Ids /\ executed[i] \in Nat /\ dups \in Nat
      /\ Heard(c, S) \in Nat /\ Waiting(i) \in Nat /\ Paid(i) \in {0, 1}
      /\ Working(i) \in Nat /\ silent[i] \in Nat
      /\ Waiting(i) + executed[i] + Heard(c, S) + Failed(i) <= Paid(i) + dups + silent[i]
  BY CallFacts, Sequences DEF Ledger, Paid, One, SilentOK
<1>2. /\ Paid(i)' = Paid(i) /\ kind' = kind
      /\ silent'[i] \in Nat /\ silent'[i] >= silent[i]
      /\ kind # "python" /\ CountSilent /\ UNCHANGED responses =>
           silent'[i] = silent[i] + (executed'[i] - executed[i])
  <2>1. SilentOK' /\ UNCHANGED kind
    BY SilentCounts, KindIsFixed
  <2>2. silent'[i] \in Nat
    BY <1>1, <2>1 DEF SilentOK
  <2>3. Paid(i)' = Paid(i)
    BY DEF Paid
  <2>4. silent'[i] >= silent[i]
    BY <1>1, SilentCounts
  <2>5. kind # "python" /\ CountSilent /\ UNCHANGED responses =>
          silent'[i] = silent[i] + (executed'[i] - executed[i])
    BY <1>1, SilentCounts
  <2> QED
    BY <2>1, <2>2, <2>3, <2>4, <2>5
<1> HIDE DEF S
<1>4. CASE Handle /\ CountSilent
  <2> DEFINE m == Head(requests)
             b == One(m.id = i)
  <2>1. /\ b \in {0, 1}
        /\ Waiting(i)' \in Nat /\ Waiting(i)' + b <= Waiting(i)
        /\ dups' = dups
        /\ executed'[i] = executed[i] \/ executed'[i] = executed[i] + b
        /\ \/ Working(i)' = Working(i) /\ Heard(c, S)' = Heard(c, S)
           \/ /\ Working(i)' = Working(i)
              /\ \E r : Answers(m, r) /\ Heard(c, S)' \in Nat /\ Heard(c, S)' <= Heard(c, S) + One(r \in S)
           \/ /\ Working(i)' = Working(i) + b
              /\ Heard(c, S)' = Heard(c, S)
              /\ executed'[i] = executed[i] + b
              /\ UNCHANGED responses
    BY <1>1, <1>4, HandleCounts
  <2> HIDE DEF b, m
  <2>2. Waiting(i)' + executed'[i] + Heard(c, S)' + Failed(i)' <= Paid(i)' + dups' + silent'[i]
    <3>1. CASE Working(i)' = Working(i) /\ Heard(c, S)' = Heard(c, S)
      BY <1>1, <1>2, <2>1, <3>1 DEF Failed
    <3>2. ASSUME NEW r, Answers(m, r), Working(i)' = Working(i),
                 Heard(c, S)' \in Nat, Heard(c, S)' <= Heard(c, S) + One(r \in S)
          PROVE  Waiting(i)' + executed'[i] + Heard(c, S)' + Failed(i)' <= Paid(i)' + dups' + silent'[i]
      <4> DEFINE h == One(r \in S)
      <4>1. r \in S => m.id = i /\ executed' = executed
        BY <3>2 DEF Answers, S, Errors, ResponsesOf
      <4>2. h <= b /\ h \in {0, 1} /\ (h = 0 \/ executed'[i] = executed[i])
        BY <4>1 DEF One, b
      <4>3. Heard(c, S)' <= Heard(c, S) + h /\ Failed(i)' = Failed(i) /\ Failed(i) \in Nat
        BY <1>1, <1>2, <3>2 DEF Failed
      <4> HIDE DEF h
      <4> QED
        BY <1>1, <1>2, <2>1, <3>2, <4>2, <4>3
    <3>3. CASE /\ Working(i)' = Working(i) + b /\ Heard(c, S)' = Heard(c, S)
               /\ executed'[i] = executed[i] + b /\ UNCHANGED responses
      <4>1. kind = "ts" => silent'[i] = silent[i] + b
        BY <1>1, <1>2, <1>4, <2>1, <3>3
      <4> QED
        BY <1>1, <1>2, <2>1, <3>3, <4>1 DEF Failed
    <3> QED
      BY <2>1, <3>1, <3>2, <3>3
  <2> QED
    BY <2>2 DEF S
<1>5. ASSUME NEW n \in DOMAIN jobs, Finish(n)
      PROVE  Waiting(i)' + executed'[i] + Heard(c, S)' + Failed(i)' <= Paid(i)' + dups' + silent'[i]
  <2> DEFINE b == One(jobs[n].id = i)
  <2>1. /\ b \in {0, 1}
        /\ Waiting(i)' = Waiting(i)
        /\ Working(i)' \in Nat /\ Working(i)' + b <= Working(i)
        /\ executed' = executed /\ dups' = dups
        /\ \/ Heard(c, S)' = Heard(c, S)
           \/ \E r : /\ Sends(jobs[n], r)
                     /\ Heard(c, S)' \in Nat /\ Heard(c, S)' <= Heard(c, S) + One(r \in S)
    BY <1>1, <1>5, FinishCounts
  <2>2. kind \in {"python", "ts"}
    BY <1>5 DEF Finish, TsPublishError, PyRespond
  <2>3. ASSUME NEW r, Sends(jobs[n], r)
        PROVE  One(r \in S) \in {0, b} /\ (kind = "python" => One(r \in S) = 0)
    <3>1. r \in S => jobs[n].id = i /\ kind # "python"
      BY <2>3 DEF Sends, S, Errors, ResponsesOf
    <3> QED
      BY <3>1 DEF One
  <2> HIDE DEF b
  <2>4. \/ Heard(c, S)' = Heard(c, S)
        \/ Heard(c, S)' \in Nat /\ Heard(c, S)' <= Heard(c, S) + (IF kind = "ts" THEN b ELSE 0)
    BY <1>1, <2>1, <2>2, <2>3
  <2> QED
    BY <1>1, <1>2, <2>1, <2>2, <2>4 DEF Failed
<1>6. CASE BrokerNext
  <2>1. /\ Waiting(i)' \in Nat /\ Heard(c, S)' \in Nat /\ dups' \in Nat
        /\ executed' = executed /\ Working(i)' = Working(i)
        /\ \/ Waiting(i)' <= Waiting(i) /\ Heard(c, S)' <= Heard(c, S) /\ dups' = dups
           \/ Waiting(i)' = Waiting(i) /\ Heard(c, S)' <= Heard(c, S) + 1 /\ dups' = dups + 1
           \/ Waiting(i)' <= Waiting(i) + 1 /\ Heard(c, S)' = Heard(c, S) /\ dups' = dups + 1
    BY <1>1, <1>6, BrokerCounts
  <2>2. Failed(i)' = Failed(i) /\ Failed(i) \in Nat
    BY <1>1, <1>2, <2>1 DEF Failed
  <2>3. Waiting(i)' + executed'[i] + Heard(c, S)' + Failed(i)' <= Paid(i)' + dups' + silent'[i]
    BY <1>1, <1>2, <2>1, <2>2
  <2> QED
    BY <2>3 DEF S
<1> QED
  BY <1>4, <1>5, <1>6 DEF ServerNext, S

LEMMA OneMessageKeeps ==
  ASSUME Typed, OneMessage, ServerNext \/ BrokerNext, UNCHANGED published
  PROVE  OneMessage'
<1> SUFFICES ASSUME NEW c \in Clients, NEW i \in Calls
             PROVE  (Traffic(c, i) <= Paid(i) + dups)'
  BY DEF OneMessage
<1>0. i \in Ids /\ Paid(i) \in {0, 1} /\ Paid(i)' = Paid(i)
  BY CallFacts DEF Paid, One
<1>1. /\ i \in Ids /\ dups \in Nat /\ Paid(i) \in {0, 1} /\ Paid(i)' = Paid(i)
      /\ Traffic(c, i) \in Nat /\ Traffic(c, i) <= Paid(i) + dups
  BY <1>0, Sequences DEF OneMessage, Traffic
<1>2. dups' \in Nat /\ Traffic(c, i)' \in Nat
  BY <1>1, TrafficIsCounted
<1>3. Traffic(c, i)' <= Traffic(c, i) + (dups' - dups)
  BY <1>1, TrafficFalls
<1> QED
  BY <1>1, <1>2, <1>3

(* A call is published once, with its own id or with none.                   *)
LEMMA PublishKeeps ==
  ASSUME SystemInv, NEW i \in Calls, NEW f \in RequestForms, SystemPublish(i, f)
  PROVE  SystemInv'
<1> DEFINE m == [id |-> IF f.corr THEN i ELSE NoId, ctype |-> f.ctype,
                 payload |-> f.payload, reply |-> f.reply]
<1>0. Typed /\ FormsOK /\ SilentOK /\ Honest /\ Backing /\ Ledger /\ OneMessage
  BY DEF SystemInv
<1>1. m \in Request /\ m.id \in {i, NoId}
  <2>1. f \in [ctype: ContentTypes, payload: RequestPayloads, reply: BOOLEAN, corr: BOOLEAN]
    BY FormsAssumption
  <2>2. i \in Ids /\ NoId \in Ids
    BY CallFacts DEF Ids
  <2> QED
    BY <2>1, <2>2 DEF Request
<1>2. /\ \A p \in published : p.call # i
      /\ published' = published \cup {[call |-> i, request |-> m]}
      /\ requests' = Append(requests, m)
      /\ UNCHANGED <<responses, subscribed, dups, kind, serverUp, executed, jobs, silent>>
  BY DEF SystemPublish, serverVars
<1> HIDE DEF m
<1>3. requests \in Seq(Request) /\ requests' \in Seq(Request)
  BY <1>0, <1>1, <1>2, Sequences, SequenceTypes
<1>4. Typed'
  <2>1. RequestsOf(Ids) = Request
    BY DEF RequestsOf, Request
  <2> QED
    BY <1>0, <1>2, <1>3, <2>1 DEF Typed, MessagesWithin, CountersOK
<1>5. FormsOK'
  BY <1>0, <1>1, <1>2 DEF FormsOK
<1>6. Honest'
  BY <1>0, <1>2 DEF Honest, Owed, Truthful
<1>7. Backing'
  BY <1>0, <1>2 DEF Backing, Working, Heard
<1>8. ASSUME NEW c \in Clients, NEW j \in Calls
      PROVE  (/\ Waiting(j) + executed[j] + Heard(c, Errors(j)) + Failed(j) <= Paid(j) + dups + silent[j]
              /\ Traffic(c, j) <= Paid(j) + dups)'
  <2> DEFINE R == ResponsesOf({j})
  <2>1. /\ Waiting(j) + executed[j] + Heard(c, Errors(j)) + Failed(j) <= Paid(j) + dups + silent[j]
        /\ Waiting(j) + Working(j) + Heard(c, R) <= Paid(j) + dups
        /\ Waiting(j) \in Nat /\ executed[j] \in Nat /\ Heard(c, Errors(j)) \in Nat
        /\ Working(j) \in Nat /\ Heard(c, R) \in Nat
        /\ dups \in Nat /\ Paid(j) \in {0, 1} /\ silent[j] \in Nat
    BY <1>0, CallFacts, Sequences DEF Ledger, OneMessage, Traffic, Paid, One, SilentOK
  <2>2. Waiting(j)' = Waiting(j) + One(m \in RequestsOf({j}))
    BY <1>1, <1>2, <1>3, CopiesAppend DEF Waiting
  <2>3. /\ Heard(c, Errors(j))' = Heard(c, Errors(j)) /\ Heard(c, R)' = Heard(c, R)
        /\ executed'[j] = executed[j] /\ dups' = dups /\ silent'[j] = silent[j]
        /\ Failed(j)' = Failed(j) /\ Failed(j) \in Nat /\ Working(j)' = Working(j)
    BY <1>2, <2>1 DEF Heard, Failed, Working
  <2>4. One(m \in RequestsOf({j})) \in {0, 1} /\ Paid(j)' \in Nat
        /\ Paid(j)' >= Paid(j) + One(m \in RequestsOf({j}))
    <3>1. CASE j = i
      <4>1. Paid(j) = 0
        BY <1>2, <3>1 DEF Paid, One
      <4>2. [call |-> i, request |-> m] \in published' /\ [call |-> i, request |-> m].call = j
        BY <1>2, <3>1
      <4>3. Paid(j)' = 1
        BY <4>2 DEF Paid, One
      <4> QED
        BY <4>1, <4>3 DEF One
    <3>2. CASE j # i
      <4>1. One(m \in RequestsOf({j})) = 0
        BY <1>1, <3>2, CallFacts DEF One, RequestsOf
      <4>2. Paid(j)' = Paid(j)
        BY <1>2, <3>2 DEF Paid, One
      <4> QED
        BY <2>1, <4>1, <4>2
    <3> QED
      BY <3>1, <3>2
  <2> HIDE DEF R
  <2>5. Waiting(j)' + executed'[j] + Heard(c, Errors(j))' + Failed(j)' <= Paid(j)' + dups' + silent'[j]
    BY <2>1, <2>2, <2>3, <2>4
  <2>6. Waiting(j)' + Working(j)' + Heard(c, R)' <= Paid(j)' + dups'
    BY <2>1, <2>2, <2>3, <2>4
  <2> QED
    BY <2>5, <2>6 DEF Traffic, R
<1>9. Ledger' /\ OneMessage'
  BY <1>8 DEF Ledger, OneMessage
<1>10. SilentOK'
  BY <1>0, <1>2 DEF SilentOK
<1> QED
  BY <1>4, <1>5, <1>6, <1>7, <1>9, <1>10 DEF SystemInv

LEMMA SystemInvariance == SystemSpec => []SystemInv
<1>1. SystemInv /\ [SystemNext]_systemVars => SystemInv'
  <2> SUFFICES ASSUME SystemInv, [SystemNext]_systemVars PROVE SystemInv'
    OBVIOUS
  <2>0. Typed /\ FormsOK /\ SilentOK /\ Honest /\ Backing /\ Ledger /\ OneMessage
    BY DEF SystemInv
  <2>1. CASE UNCHANGED <<requests, responses, dups, published, silent, serverVars>> /\ subscribed' \in SUBSET Clients
    BY <2>0, <2>1 DEF serverVars, SystemInv, Typed, MessagesWithin, CountersOK, FormsOK, SilentOK,
       Honest, Owed, Truthful, Backing, Ledger, OneMessage, Traffic, Paid, Failed,
       Waiting, Working, Heard
  <2>2. ASSUME NEW c \in Clients, SystemSubscribe(c) PROVE SystemInv'
    BY <2>0, <2>1, <2>2 DEF SystemSubscribe, Typed, CountersOK
  <2>3. ASSUME NEW i \in Calls, NEW f \in RequestForms, SystemPublish(i, f) PROVE SystemInv'
    BY <2>3, PublishKeeps
  <2>4. CASE /\ (ServerNext /\ CountSilent) \/ (BrokerNext /\ UNCHANGED silent)
             /\ UNCHANGED published
    <3>1. Typed'
      BY <2>0, <2>4, ServersOnlyEcho DEF Typed
    <3>2. FormsOK' /\ SilentOK'
      BY <2>0, <2>4, SilentCounts DEF FormsOK
    <3>3. Honest' /\ Backing' /\ OneMessage'
      BY <2>0, <2>4, HonestKeeps, BackingKeeps, OneMessageKeeps
    <3>4. Ledger'
      BY <2>0, <2>4, LedgerKeeps
    <3> QED
      BY <3>1, <3>2, <3>3, <3>4 DEF SystemInv
  <2>5. CASE UNCHANGED systemVars
    BY <2>0, <2>1, <2>5 DEF systemVars, brokerVars, Typed, CountersOK
  <2> QED
    BY <2>2, <2>3, <2>4, <2>5 DEF SystemNext
<1> QED
  BY <1>1, SystemInvInit, PTL DEF SystemSpec

(* The types of the messages, of the server's state and of what was published.  *)
THEOREM SystemTypeCorrect == SystemSpec => []SystemTypeOK
<1>1. SystemInv => SystemTypeOK
  BY TypesOfMessages DEF SystemInv, Typed, FormsOK, SilentOK, SystemTypeOK
<1> QED
  BY <1>1, SystemInvariance, PTL

(* Whichever server runs, and however many clients, calls, redeliveries and      *)
(* workers there are, no inbox holds more news of success about a call than the *)
(* command was executed and the network repeated.                            *)
THEOREM SuccessIsBacked == SystemSpec => []SuccessBacked
<1>1. SystemInv => SuccessBacked
  <2> SUFFICES ASSUME SystemInv, NEW c \in Clients, NEW i \in Calls
               PROVE  Cardinality({n \in ResponsesTo(c, i) : responses[c][n].status # "500"
                                                            /\ responses[c][n].body # "failure"})
                        <= executed[i] + dups
    BY DEF SuccessBacked
  <2> DEFINE V == ResponsesOf({i}) \cap Vouches
             N == {n \in ResponsesTo(c, i) : responses[c][n].status # "500"
                                              /\ responses[c][n].body # "failure"}
             due == IF kind = "python" THEN Working(i) ELSE 0
  <2>1. /\ responses[c] \in Seq(Response) /\ executed[i] \in Nat /\ dups \in Nat
        /\ Heard(c, V) \in Nat /\ due \in Nat
        /\ Heard(c, V) + due <= executed[i] + dups
    BY CallFacts, Sequences DEF SystemInv, Backing
  <2>2. IsFiniteSet(Places(responses[c], V))
    BY <2>1, CopiesNat
  <2>3. N \subseteq Places(responses[c], V)
    <3>1. \A n \in DOMAIN responses[c] : responses[c][n] \in Response
      BY <2>1, SequenceTypes
    <3> QED
      BY <3>1 DEF ResponsesTo, Places, ResponsesOf, Vouches
  <2>4. Cardinality(N) \in Nat /\ Cardinality(N) <= Cardinality(Places(responses[c], V))
    BY <2>2, <2>3, FS_Subset, FS_CardinalityType
  <2> HIDE DEF N, due, V
  <2>5. Cardinality(N) <= executed[i] + dups
    BY <2>1, <2>4 DEF Heard, Copies
  <2> QED
    BY <2>5 DEF N
<1> QED
  BY <1>1, SystemInvariance, PTL

(* A 200 means that the command was executed.  Unless the network repeated        *)
(* something, a 500 means that no 200 was sent, and that the command was not      *)
(* executed, or executed by a handler whose response was refused.              *)
THEOREM StatusIsTrue == SystemSpec => []StatusTellsOutcome
<1>1. SystemInv => StatusTellsOutcome
  <2> SUFFICES ASSUME SystemInv, NEW c \in Clients, NEW i \in Calls
               PROVE  /\ Reported(c, i, "200") => executed[i] > 0
                      /\ Reported(c, i, "500") =>
                           \/ dups > 0
                           \/ ~Reported(c, i, "200") /\ (executed[i] = 0 \/ silent[i] > 0)
    BY DEF StatusTellsOutcome
  <2> DEFINE R == ResponsesOf({i})
  <2>1. /\ responses[c] \in Seq(Response) /\ executed[i] \in Nat /\ dups \in Nat /\ silent[i] \in Nat
        /\ Waiting(i) \in Nat /\ Working(i) \in Nat /\ Heard(c, Errors(i)) \in Nat /\ Heard(c, R) \in Nat
        /\ Paid(i) \in {0, 1} /\ Failed(i) \in Nat
        /\ Waiting(i) + executed[i] + Heard(c, Errors(i)) + Failed(i) <= Paid(i) + dups + silent[i]
        /\ Waiting(i) + Working(i) + Heard(c, R) <= Paid(i) + dups
    BY CallFacts, Sequences DEF SystemInv, Ledger, OneMessage, Traffic, SilentOK, Paid, Failed, One
  <2>2. \A n \in DOMAIN responses[c] : responses[c][n] \in Response /\ responses[c][n] \in Truthful
    BY <2>1, SequenceTypes DEF SystemInv, Honest
  <2>3. ASSUME Reported(c, i, "200") PROVE executed[i] > 0
    <3>1. PICK n \in DOMAIN responses[c] : responses[c][n].id = i /\ responses[c][n].status = "200"
      BY <2>3 DEF Reported, ResponsesTo
    <3> QED
      BY <2>2, <3>1 DEF Truthful, Vouches
  <2>4. ASSUME Reported(c, i, "500")
        PROVE  \/ dups > 0
               \/ ~Reported(c, i, "200") /\ (executed[i] = 0 \/ silent[i] > 0)
    <3>1. PICK n \in DOMAIN responses[c] : responses[c][n].id = i /\ responses[c][n].status = "500"
      BY <2>4 DEF Reported, ResponsesTo
    <3>2. responses[c][n] \in Errors(i)
      BY <2>2, <3>1 DEF Errors, ResponsesOf
    <3>3. Heard(c, Errors(i)) >= 1
      BY <2>1, <3>2, CopiesNat DEF Heard
    <3>4. dups > 0 \/ executed[i] = 0 \/ silent[i] > 0
      BY <2>1, <3>3
    <3>5. ASSUME Reported(c, i, "200") PROVE dups > 0
      <4>1. PICK k \in DOMAIN responses[c] : responses[c][k].id = i /\ responses[c][k].status = "200"
        BY <3>5 DEF Reported, ResponsesTo
      <4>2. n # k /\ {n, k} \subseteq Places(responses[c], R)
        BY <2>2, <3>1, <4>1 DEF Places, ResponsesOf
      <4>3. Cardinality({n, k}) = 2 /\ IsFiniteSet(Places(responses[c], R))
        <5>1. IsFiniteSet({n}) /\ Cardinality({n}) = 1
          BY FS_Singleton
        <5>2. Cardinality({n} \cup {k}) = 2
          <6>1. k \notin {n}
            BY <4>2
          <6> QED
            BY <5>1, <6>1, FS_AddElement
        <5>3. {n} \cup {k} = {n, k}
          OBVIOUS
        <5> QED
          BY <2>1, <5>2, <5>3, CopiesNat
      <4>4. Heard(c, R) >= 2
        <5>1. Cardinality({n, k}) <= Cardinality(Places(responses[c], R))
          BY <4>2, <4>3, FS_Subset
        <5> QED
          BY <2>1, <4>3, <5>1 DEF Heard, Copies
      <4> HIDE DEF R
      <4> QED
        BY <2>1, <4>4
    <3> QED
      BY <3>4, <3>5
  <2> QED
    BY <2>3, <2>4
<1> QED
  BY <1>1, SystemInvariance, PTL
=============================================================================
