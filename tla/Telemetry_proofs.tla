-------------------------- MODULE Telemetry_proofs --------------------------
(***************************************************************************)
(* Telemetry: its type correctness, the bound on the payload buffer, that the    *)
(* map shows nothing but positions that were published, and that it never goes   *)
(* back to an earlier one but of a vehicle in C, for every fleet, every position  *)
(* and every number of messages and lost connections.                           *)
(***************************************************************************)
EXTENDS Telemetry, SequenceTheorems, TLAPS

(* A function that is changed at one point keeps its range.                    *)
LEMMA Updated ==
  ASSUME NEW A, NEW B, NEW f \in [A -> B], NEW a \in A, NEW b \in B
  PROVE  [f EXCEPT ![a] = b] \in [A -> B]
OBVIOUS

(* Every language writes a text.                                             *)
LEMMA TextIsText ==
  ASSUME NEW l \in Languages, NEW p \in Turn \X Turn
  PROVE  Text(l, p) \in Texts
<1>1. ASSUME NEW c \in Turn
      PROVE  c \in Int /\ Printed(c) \in Int
  <2>1. c \in Int
    BY SMT DEF Turn
  <2>2. Absolute(c) \in Int
    BY <2>1, SMT DEF Absolute
  <2>3. Micro(c) \in Int
    BY <2>2, SMT DEF Micro
  <2> QED BY <2>1, <2>3, SMT DEF Printed
<1>2. ASSUME NEW a \in Int, NEW b \in Int
      PROVE  PointText(a, b) \in Texts /\ NoDocument(a, b) \in Texts
  <2>1. Number(a) \in Elements /\ Number(b) \in Elements
    BY SMT DEF Elements, Number
  <2>2. <<Number(a), Number(b)>> \in Seq(Elements)
    BY <2>1, SMT
  <2> QED BY <2>2, SMT DEF PointText, NoDocument, Texts
<1>3. CText(p) \in Texts /\ TsText(p) \in Texts /\ DotnetText(p) \in Texts
  BY <1>1, <1>2, SMT DEF CText, TsText, DotnetText
<1>4. PythonText(p) \in Texts
  BY <1>1, <1>2, SMT DEF PythonText
<1> QED BY <1>3, <1>4, SMT DEF Text, Languages

(* The buffer of a vehicle is large enough for the text of any position.         *)
LEMMA TextIsShort ==
  ASSUME NEW p \in Quarter \X Quarter
  PROVE  TextLength(p) \in 0..54
<1>1. ASSUME NEW c \in Quarter
      PROVE  Width(c) \in 0..10
  <2>1. Absolute(c) \in Nat /\ Absolute(c) <= 900000000
    BY SMT DEF Quarter, Degree, Absolute
  <2>2. Micro(c) \in Nat /\ Micro(c) <= 90000000
    BY <2>1, SMT DEF Micro
  <2>3. IntegerDigits(Micro(c)) \in 1..2
    BY <2>2, SMT DEF IntegerDigits
  <2> QED BY <2>3, SMT DEF Width
<1> QED BY <1>1, SMT DEF TextLength

(* What one program wrote another reads, to half a micro-degree, with the axes    *)
(* exchanged between .NET and the others.                                     *)
LEMMA ReadBack ==
  ASSUME NEW l \in Languages, NEW r \in Languages, NEW p \in Turn \X Turn
  PROVE  LET q == PositionIn(r, Text(l, p))
         IN  /\ q \in Int \X Int
             /\ IF l = "dotnet" <=> r = "dotnet"
                THEN Near(q[1], p[1]) /\ Near(q[2], p[2])
                ELSE Near(q[1], p[2]) /\ Near(q[2], p[1])
<1>1. ASSUME NEW c \in Turn
      PROVE  c \in Int /\ Printed(c) \in Int /\ Near(Printed(c), c) /\ Near(c, c)
  BY SMT DEF Printed, Micro, Absolute, Near, Turn
<1>2. ASSUME NEW a \in Int, NEW b \in Int
      PROVE  /\ Element(PointText(a, b), 1).value = a
             /\ Element(PointText(a, b), 2).value = b
  BY SMT DEF Element, PointText, Number
<1>3. /\ Element(PythonText(p), 1).value = p[1]
      /\ Element(PythonText(p), 2).value = p[2]
  BY <1>1, SMT DEF Element, PythonText, NoDocument, Number
<1>4. p[1] \in Turn /\ p[2] \in Turn
  BY SMT
<1>5. CASE l = "c"
  BY <1>5, <1>1, <1>2, <1>4, SMT DEF Text, CText, PositionIn, ReadInOrder
<1>6. CASE l = "ts"
  BY <1>6, <1>1, <1>2, <1>4, SMT DEF Text, TsText, PositionIn, ReadInOrder
<1>7. CASE l = "dotnet"
  BY <1>7, <1>1, <1>2, <1>4, SMT DEF Text, DotnetText, PositionIn, ReadInOrder
<1>8. CASE l = "python"
  BY <1>8, <1>1, <1>3, <1>4, SMT DEF Text, PositionIn, ReadInOrder
<1> QED BY <1>5, <1>6, <1>7, <1>8, SMT DEF Languages

(* The payload buffer of a C program.          *)
Payload == [text : Texts, size : Nat, payload_length : Nat, max_payload_length : Nat]

(* A vehicle that runs a C program has the buffer main() asked for.             *)
BufferInv ==
  \A v \in Vehicles :
    /\ payload[v].size <= payload[v].max_payload_length
    /\ lang[v] = "c" /\ program[v] # "ended" =>
         payload[v].max_payload_length = MAX_PAYLOAD_LENGTH

(* A message carries the text of the position its vehicle published as its k-th.  *)
True(m) == /\ m.k \in 1..Len(sent[m.vehicle])
           /\ m.text = Text(lang[m.vehicle], sent[m.vehicle][m.k])

MessagesAreTrue ==
  /\ \A v \in Vehicles : \A i \in 1..Len(outbox[v]) : True(outbox[v][i])
  /\ \A v \in Vehicles : \A i \in 1..Len(inbox[v]) : True(inbox[v][i])
  /\ \A i \in 1..Len(inHand) : True(inHand[i])

IndInv == TypeOK /\ BufferInv /\ MessagesAreTrue /\ ReportsAreTrue

(* The initial states satisfy the type invariant and the bound on the buffer.    *)
LEMMA InitHolds == Init => TypeOK /\ BufferInv
<1> SUFFICES ASSUME Init PROVE TypeOK /\ BufferInv
  OBVIOUS
<1>1. NoText \in Texts
  BY SMT DEF NoText, NoDocument, Number, Elements, Texts
<1>2. /\ PayloadInit(MAX_PAYLOAD_LENGTH) \in Payload
      /\ PayloadInit(MAX_PAYLOAD_LENGTH).size <= MAX_PAYLOAD_LENGTH
      /\ PayloadInit(MAX_PAYLOAD_LENGTH).max_payload_length = MAX_PAYLOAD_LENGTH
      /\ PayloadDestroyed \in Payload
      /\ PayloadDestroyed.size <= PayloadDestroyed.max_payload_length
  BY <1>1, SMT DEF PayloadInit, PayloadDestroyed, Payload, MAX_PAYLOAD_LENGTH
<1>3. /\ payload \in [Vehicles -> Payload]
      /\ BufferInv
  BY <1>2, SMT DEF Init, BufferInv
<1>4. lang \in [Vehicles -> Languages] /\ reader \in Languages
  BY TelemetryAssumption, SMT DEF Init
<1>5. /\ outbox \in [Vehicles -> Seq(Message)] /\ inbox \in [Vehicles -> Seq(Message)]
      /\ taken \in [Vehicles -> Nat] /\ \A v \in Vehicles : taken[v] <= Len(outbox[v])
      /\ sent \in [Vehicles -> Seq(Turn \X Turn)] /\ inHand \in Seq(Message)
  BY SMT DEF Init
<1>6. /\ mapLink \in BOOLEAN /\ asked \in BOOLEAN
      /\ listening \in BOOLEAN /\ mapAlive \in BOOLEAN
  BY Zenon DEF Init
<1>8. attached \in BOOLEAN
  BY SMT DEF Init
<1>7. /\ program \in [Vehicles -> {"ready", "waiting", "ended"}]
      /\ shown \in [Vehicles -> [k : Nat, at : Int \X Int]]
      /\ link \in [Vehicles -> BOOLEAN]
      /\ losses \in 0..MaxLosses
  BY TelemetryAssumption, SMT DEF Init
<1> QED BY <1>3, <1>4, <1>5, <1>6, <1>7, <1>8 DEF TypeOK, VehicleTypeOK, MapTypeOK, Payload

(* A program publishes a text, over a buffer that is large enough.             *)
LEMMA SendKeeps ==
  ASSUME TypeOK, NEW v \in Vehicles, NEW p \in Turn \X Turn, NEW text \in Texts, Send(v, p, text)
  PROVE  /\ sent' \in [Vehicles -> Seq(Turn \X Turn)]
         /\ outbox' \in [Vehicles -> Seq(Message)]
         /\ Len(outbox'[v]) = Len(outbox[v]) + 1
         /\ \A u \in Vehicles : u # v => outbox'[u] = outbox[u] /\ sent'[u] = sent[u]
<1>1. [vehicle |-> v, k |-> Len(sent[v]) + 1, text |-> text] \in Message
  BY SMT DEF TypeOK, VehicleTypeOK, Message
<1>2. /\ sent' = [sent EXCEPT ![v] = Append(sent[v], p)]
      /\ sent[v] \in Seq(Turn \X Turn) /\ sent \in [Vehicles -> Seq(Turn \X Turn)]
  BY SMTT(30) DEF TypeOK, VehicleTypeOK, Send
<1>3. /\ outbox' = [outbox EXCEPT ![v] = Append(outbox[v],
                        [vehicle |-> v, k |-> Len(sent[v]) + 1, text |-> text])]
      /\ outbox[v] \in Seq(Message) /\ outbox \in [Vehicles -> Seq(Message)]
  BY Zenon DEF TypeOK, VehicleTypeOK, Send
<1>4. Append(sent[v], p) \in Seq(Turn \X Turn)
  BY <1>2, SMT
<1>5. ASSUME NEW m \in Message
      PROVE  Append(outbox[v], m) \in Seq(Message) /\ Len(Append(outbox[v], m)) = Len(outbox[v]) + 1
  BY <1>3, SMT
<1> QED BY <1>1, <1>2, <1>3, <1>4, <1>5, SMT

(* What the broker has taken is still there.                                  *)
LEMMA LongerOutbox ==
  ASSUME TypeOK, NEW v \in Vehicles, NEW p \in Turn \X Turn, NEW text \in Texts, Send(v, p, text)
  PROVE  \A u \in Vehicles : taken[u] <= Len(outbox'[u])
<1>1. /\ Len(outbox'[v]) = Len(outbox[v]) + 1
      /\ \A u \in Vehicles : u # v => outbox'[u] = outbox[u]
  BY SendKeeps
<1>2. \A u \in Vehicles : taken[u] \in Nat /\ Len(outbox[u]) \in Nat /\ taken[u] <= Len(outbox[u])
  BY SMT DEF TypeOK, VehicleTypeOK
<1> QED BY <1>1, <1>2, SMT

(* A turn of the C loop leaves a buffer that holds its text.                    *)
LEMMA WriteKeeps ==
  ASSUME TypeOK, BufferInv, NEW v \in Vehicles, NEW p, CWrite(v, p)
  PROVE  /\ payload' \in [Vehicles -> Payload]
         /\ payload'[v].text = CText(p)
         /\ payload'[v].size = TextLength(p) + 1
         /\ payload'[v].payload_length = TextLength(p)
         /\ payload'[v].max_payload_length = payload[v].max_payload_length
         /\ payload'[v].size <= payload'[v].max_payload_length
         /\ \A u \in Vehicles : u # v => payload'[u] = payload[u]
         /\ p \in Turn \X Turn
<1>1. p \in Quarter \X Quarter /\ p \in Turn \X Turn
  BY TelemetryAssumption, SMT DEF CWrite, Draws
<1>2. TextLength(p) \in 0..54
  BY <1>1, TextIsShort
<1>3. CText(p) \in Texts
  BY <1>1, TextIsText, SMT DEF Text, Languages
<1>4. payload \in [Vehicles -> Payload]
  BY DEF TypeOK, VehicleTypeOK, MapTypeOK, Payload
<1>5. Stored(p, payload[v]) \in Payload
  BY <1>2, <1>3, <1>4, SMT DEF Stored, Payload
<1>6. payload[v].max_payload_length = 60
  BY SMT DEF BufferInv, CWrite, Turns, MAX_PAYLOAD_LENGTH
<1>7. payload' = [payload EXCEPT ![v] = Stored(p, payload[v])]
  BY DEF CWrite
<1> QED BY <1>1, <1>2, <1>4, <1>5, <1>6, <1>7, SMT DEF Stored

(* A step that leaves the map alone keeps its part of the type invariant.        *)
LEMMA MapFrame == MapTypeOK /\ UNCHANGED mapVars => MapTypeOK'
  BY DEF MapTypeOK, mapVars

(* A step that leaves the vehicles alone keeps theirs.                          *)
LEMMA VehicleFrame == VehicleTypeOK /\ UNCHANGED vehicleVars => VehicleTypeOK'
  BY DEF VehicleTypeOK, vehicleVars

(* Every step of a vehicle keeps the type invariant and the bound on the buffer.  *)
LEMMA VehicleKeeps ==
  ASSUME TypeOK, BufferInv, NEW v \in Vehicles, Vehicle(v)
  PROVE  TypeOK' /\ BufferInv'
<1>1. UNCHANGED mapVars /\ UNCHANGED <<lang, reader, inbox>>
  BY DEF Vehicle, CSend, CPublishFails, AwaitedSend, PythonSend, Acknowledged, End, LinkLost,
         LinkReturns
<1>2. losses' \in 0..MaxLosses
  BY TelemetryAssumption, SMT
  DEF TypeOK, Vehicle, CSend, CPublishFails, AwaitedSend, PythonSend, Acknowledged, End,
      LinkLost, LinkReturns
<1>3. ASSUME VehicleTypeOK' PROVE TypeOK'
  BY <1>1, <1>2, <1>3, MapFrame DEF TypeOK
<1>4. ASSUME NEW p, CSend(v, p) PROVE VehicleTypeOK' /\ BufferInv'
  <2>1. CWrite(v, p) /\ Send(v, p, Published(payload'[v]))
    BY <1>4 DEF CSend
  <2>2. Published(payload'[v]) \in Texts /\ p \in Turn \X Turn
    BY <2>1, WriteKeeps, TextIsText, TextIsShort, SMT DEF Published, Text, Languages, Payload
  <2>3. /\ payload' \in [Vehicles -> Payload] /\ sent' \in [Vehicles -> Seq(Turn \X Turn)]
        /\ outbox' \in [Vehicles -> Seq(Message)]
    BY <2>1, <2>2, WriteKeeps, SendKeeps
  <2>4. \A u \in Vehicles : taken[u] <= Len(outbox'[u])
    BY <2>1, <2>2, LongerOutbox
  <2>5. UNCHANGED <<program, taken, link>>
    BY <1>4 DEF CSend
  <2>6. VehicleTypeOK'
    BY <2>3, <2>4, <2>5 DEF TypeOK, VehicleTypeOK, Payload
  <2>7. BufferInv'
    BY <1>1, <2>1, <2>5, WriteKeeps, SMT DEF BufferInv
  <2> QED BY <2>6, <2>7
<1>5. ASSUME NEW p, CPublishFails(v, p) PROVE VehicleTypeOK' /\ BufferInv'
  <2>1. payload' \in [Vehicles -> Payload]
    BY <1>5, WriteKeeps DEF CPublishFails
  <2>2. UNCHANGED <<program, sent, outbox, taken, link>>
    BY <1>5 DEF CPublishFails
  <2>3. VehicleTypeOK'
    BY <2>1, <2>2 DEF TypeOK, VehicleTypeOK, Payload
  <2>4. BufferInv'
    BY <1>1, <1>5, <2>2, WriteKeeps, SMT DEF BufferInv, CPublishFails
  <2> QED BY <2>3, <2>4
<1>6. ASSUME NEW p, AwaitedSend(v, p) \/ PythonSend(v, p) PROVE VehicleTypeOK' /\ BufferInv'
  <2>1. /\ p \in Turn \X Turn
        /\ Send(v, p, Text(lang[v], p))
        /\ lang[v] # "c"
    BY <1>6, TelemetryAssumption, SMT
    DEF AwaitedSend, PythonSend, Draws, Turns, Turn, Degree, Waits, Text
  <2>2. Text(lang[v], p) \in Texts
    BY <2>1, TextIsText, SMT DEF TypeOK
  <2>3. /\ sent' \in [Vehicles -> Seq(Turn \X Turn)]
        /\ outbox' \in [Vehicles -> Seq(Message)]
    BY <2>1, <2>2, SendKeeps
  <2>4. UNCHANGED <<payload, taken, link>>
    BY <1>6 DEF AwaitedSend, PythonSend
  <2>5. \A u \in Vehicles : taken[u] <= Len(outbox'[u])
    BY <2>1, <2>2, LongerOutbox
  <2>6. /\ program' \in [Vehicles -> {"ready", "waiting", "ended"}]
        /\ \A u \in Vehicles : u # v => program'[u] = program[u]
    <3>1. program' = [program EXCEPT ![v] = "waiting"] \/ program' = program
      BY <1>6 DEF AwaitedSend, PythonSend
    <3>2. program \in [Vehicles -> {"ready", "waiting", "ended"}]
      BY DEF TypeOK, VehicleTypeOK
    <3> QED BY <3>1, <3>2, SMT
  <2>7. VehicleTypeOK'
    BY <2>3, <2>4, <2>5, <2>6 DEF TypeOK, VehicleTypeOK
  <2>8. BufferInv'
    BY <1>1, <2>1, <2>4, <2>6, SMT DEF BufferInv
  <2> QED BY <2>7, <2>8
<1>7. CASE Acknowledged(v)
  <2>1. /\ outbox' \in [Vehicles -> Seq(Message)] /\ taken' \in [Vehicles -> Nat]
        /\ \A u \in Vehicles : taken'[u] <= Len(outbox'[u])
    BY <1>7, SMT DEF Acknowledged, TypeOK, VehicleTypeOK
  <2>2. /\ program' \in [Vehicles -> {"ready", "waiting", "ended"}]
        /\ \A u \in Vehicles : program'[u] # "ended" => program[u] # "ended"
    BY <1>7, SMT DEF Acknowledged, TypeOK, VehicleTypeOK
  <2>3. UNCHANGED <<payload, sent, link>>
    BY <1>7 DEF Acknowledged
  <2>4. VehicleTypeOK'
    BY <2>1, <2>2, <2>3 DEF TypeOK, VehicleTypeOK
  <2> QED BY <1>1, <1>3, <2>2, <2>3, <2>4 DEF BufferInv
<1>8. CASE End(v)
  <2>1. /\ PayloadDestroyed \in Payload
        /\ PayloadDestroyed.size <= PayloadDestroyed.max_payload_length
    BY SMT DEF PayloadDestroyed, Payload, NoText, NoDocument, Number, Elements, Texts
  <2>2. payload' \in [Vehicles -> Payload] /\ BufferInv'
    BY <1>1, <1>8, <2>1, SMT DEF End, TypeOK, VehicleTypeOK, BufferInv, Payload
  <2>3. /\ outbox' \in [Vehicles -> Seq(Message)] /\ taken' \in [Vehicles -> Nat]
        /\ \A u \in Vehicles : taken'[u] <= Len(outbox'[u])
        /\ program' \in [Vehicles -> {"ready", "waiting", "ended"}]
    BY <1>8, SMT DEF End, TypeOK, VehicleTypeOK
  <2>4. link' \in [Vehicles -> BOOLEAN] /\ UNCHANGED sent
    BY <1>8, SMT DEF End, TypeOK, VehicleTypeOK
  <2>5. VehicleTypeOK'
    BY <2>2, <2>3, <2>4 DEF TypeOK, VehicleTypeOK, Payload
  <2> QED BY <1>3, <2>2, <2>5
<1>9. CASE LinkLost(v)
  <2>1. UNCHANGED <<program, payload, sent>>
    BY <1>9 DEF LinkLost
  <2>2. /\ outbox' \in [Vehicles -> Seq(Message)] /\ taken' \in [Vehicles -> Nat]
        /\ \A u \in Vehicles : taken'[u] <= Len(outbox'[u])
    BY <1>9, SMT DEF LinkLost, TypeOK, VehicleTypeOK
  <2>3. link' \in [Vehicles -> BOOLEAN]
    BY <1>9, SMT DEF LinkLost, TypeOK, VehicleTypeOK
  <2>4. VehicleTypeOK'
    BY <2>1, <2>2, <2>3 DEF TypeOK, VehicleTypeOK
  <2> QED BY <1>1, <1>3, <2>1, <2>4 DEF BufferInv
<1>10. CASE LinkReturns(v)
  <2>1. UNCHANGED <<program, payload, sent, outbox, taken>>
    BY <1>10 DEF LinkReturns
  <2>2. link' \in [Vehicles -> BOOLEAN]
    BY <1>10, SMT DEF LinkReturns, TypeOK, VehicleTypeOK
  <2>3. VehicleTypeOK'
    BY <2>1, <2>2 DEF TypeOK, VehicleTypeOK
  <2> QED BY <1>1, <1>3, <2>1, <2>3 DEF BufferInv
<1> QED BY <1>3, <1>4, <1>5, <1>6, <1>7, <1>8, <1>9, <1>10 DEF Vehicle

(* The broker keeps both.                                                   *)
LEMMA BrokerKeeps ==
  ASSUME TypeOK, BufferInv, NEW v \in Vehicles, BrokerTakes(v)
  PROVE  TypeOK' /\ BufferInv'
<1>1. UNCHANGED <<lang, reader, program, payload, sent, link, mapVars, losses>>
  BY DEF BrokerTakes
<1>2. /\ taken[v] + 1 \in 1..Len(outbox[v]) /\ outbox[v] \in Seq(Message)
      /\ inbox[v] \in Seq(Message) /\ outbox[v][taken[v] + 1] \in Message
  BY SMT DEF BrokerTakes, TypeOK, VehicleTypeOK
<1>3. inbox' \in [Vehicles -> Seq(Message)]
  <2>1. inbox' = [inbox EXCEPT ![v] = inbox[v]] \/
        inbox' = [inbox EXCEPT ![v] = Append(inbox[v], outbox[v][taken[v] + 1])]
    BY Zenon DEF BrokerTakes
  <2>2. Append(inbox[v], outbox[v][taken[v] + 1]) \in Seq(Message)
    BY <1>2, SMT
  <2>3. inbox \in [Vehicles -> Seq(Message)]
    BY DEF TypeOK
  <2>4. inbox[v] \in Seq(Message)
    BY <1>2
  <2> QED BY <2>1, <2>2, <2>3, <2>4, Updated
<1>4. /\ outbox' \in [Vehicles -> Seq(Message)] /\ taken' \in [Vehicles -> Nat]
      /\ \A u \in Vehicles : taken'[u] <= Len(outbox'[u])
  <2>1. /\ outbox \in [Vehicles -> Seq(Message)] /\ taken \in [Vehicles -> Nat]
        /\ \A u \in Vehicles : taken[u] <= Len(outbox[u])
    BY DEF TypeOK, VehicleTypeOK
  <2>2. CASE lang[v] = "python"
    <3>1. outbox' = [outbox EXCEPT ![v] = Tail(outbox[v])] /\ taken' = taken
      BY <2>2 DEF BrokerTakes
    <3>2. Tail(outbox[v]) \in Seq(Message) /\ taken[v] <= Len(Tail(outbox[v]))
      BY <1>2, <2>1, SMT
    <3> QED BY <2>1, <3>1, <3>2, SMT
  <2>3. CASE lang[v] # "python"
    <3>1. outbox' = outbox /\ taken' = [taken EXCEPT ![v] = taken[v] + 1]
      BY <2>3 DEF BrokerTakes
    <3>2. taken[v] + 1 \in Nat /\ taken[v] + 1 <= Len(outbox[v])
      BY <1>2, <2>1, SMT
    <3> QED BY <2>1, <3>1, <3>2, SMT
  <2> QED BY <2>2, <2>3
<1>5. VehicleTypeOK'
  BY <1>1, <1>4 DEF TypeOK, VehicleTypeOK
<1> QED BY <1>1, <1>3, <1>5, MapFrame DEF TypeOK, BufferInv

(* What the handler shows is well typed.                                       *)
LEMMA ShowIsTyped ==
  ASSUME TypeOK, NEW m \in Message, Show(m)
  PROVE  shown' \in [Vehicles -> [k : Nat, at : Int \X Int]]
<1>1. m.vehicle \in Vehicles /\ m.k \in Nat /\ m.text \in Texts
  BY SMT DEF Message
<1>2. PositionIn(reader, m.text) \in Int \X Int
  <2>1. m.text.coordinates \in Seq(Elements)
    BY <1>1, SMT DEF Texts
  <2>2. ASSUME NEW i \in 1..2 PROVE Element(m.text, i).value \in Int
    <3>1. CASE i \in 1..Len(m.text.coordinates)
      <4>1. m.text.coordinates[i] \in Elements
        BY <2>1, <3>1, SMT
      <4> QED BY <3>1, <4>1 DEF Element, Elements
    <3>2. CASE i \notin 1..Len(m.text.coordinates)
      BY <3>2, SMT DEF Element, Number
    <3> QED BY <3>1, <3>2
  <2> QED BY <2>2 DEF PositionIn, ReadInOrder
<1>3. [k |-> m.k, at |-> PositionIn(reader, m.text)] \in [k : Nat, at : Int \X Int]
  BY <1>1, <1>2
<1>4. \/ shown' = shown
      \/ shown' = [shown EXCEPT ![m.vehicle] = [k |-> m.k, at |-> PositionIn(reader, m.text)]]
  BY Zenon DEF Show
<1>5. shown \in [Vehicles -> [k : Nat, at : Int \X Int]]
  BY DEF TypeOK, MapTypeOK
<1> QED BY <1>1, <1>3, <1>4, <1>5, Updated

(* And a position that was published, if the message carries one.               *)
LEMMA ShowKeeps ==
  ASSUME TypeOK, NEW m \in Message, Show(m),
         m.text = Text(lang[m.vehicle], sent[m.vehicle][m.k]), m.k \in 1..Len(sent[m.vehicle])
  PROVE  ReportsAreTrue /\ UNCHANGED <<lang, reader, sent>> => ReportsAreTrue'
<1> DEFINE p == sent[m.vehicle][m.k]
           q == PositionIn(reader, m.text)
<1>1. m.vehicle \in Vehicles /\ m.k \in Nat \ {0}
  BY SMT DEF Message
<1>2. p \in Turn \X Turn
  BY <1>1, SMT DEF TypeOK, VehicleTypeOK
<1>3. /\ q \in Int \X Int
      /\ IF lang[m.vehicle] = "dotnet" <=> reader = "dotnet"
         THEN Near(q[1], p[1]) /\ Near(q[2], p[2])
         ELSE Near(q[1], p[2]) /\ Near(q[2], p[1])
  <2>1. lang[m.vehicle] \in Languages /\ reader \in Languages
    BY <1>1 DEF TypeOK
  <2>2. m.text = Text(lang[m.vehicle], p)
    OBVIOUS
  <2> HIDE DEF p
  <2> QED BY <1>2, <2>1, <2>2, ReadBack
<1>4. shown' = shown \/ shown' = [shown EXCEPT ![m.vehicle] = [k |-> m.k, at |-> q]]
  BY Zenon DEF Show
<1>5. shown \in [Vehicles -> [k : Nat, at : Int \X Int]]
  BY DEF TypeOK, MapTypeOK
<1> HIDE DEF q
<1>6. ASSUME ReportsAreTrue, UNCHANGED <<lang, reader, sent>> PROVE ReportsAreTrue'
  <2> SUFFICES ASSUME NEW v \in Vehicles, shown'[v].k > 0
               PROVE  /\ shown'[v].k <= Len(sent[v])
                      /\ LET a == sent[v][shown'[v].k]
                             b == shown'[v].at
                         IN  IF lang[v] = "dotnet" <=> reader = "dotnet"
                             THEN Near(b[1], a[1]) /\ Near(b[2], a[2])
                             ELSE Near(b[1], a[2]) /\ Near(b[2], a[1])
    BY <1>6 DEF ReportsAreTrue
  <2>1. CASE shown'[v] = shown[v]
    BY <1>6, <2>1 DEF ReportsAreTrue
  <2>2. CASE v = m.vehicle /\ shown'[v] = [k |-> m.k, at |-> q]
    <3>1. shown'[v].k = m.k /\ shown'[v].at = q
      BY <2>2
    <3>2. m.k <= Len(sent[v])
      BY <1>1, <2>2, SMT DEF TypeOK, VehicleTypeOK
    <3> QED BY <1>3, <2>2, <3>1, <3>2
  <2> QED BY <1>1, <1>4, <1>5, <2>1, <2>2, SMT
<1> QED BY <1>6

(* The consumer keeps both, and what it shows is true if its messages are.       *)
LEMMA ConsumerKeeps ==
  ASSUME TypeOK, BufferInv, Consumer
  PROVE  /\ TypeOK' /\ BufferInv'
         /\ MessagesAreTrue => MessagesAreTrue'
         /\ MessagesAreTrue /\ ReportsAreTrue => ReportsAreTrue'
<1>1. UNCHANGED <<lang, reader, vehicleVars>>
  BY DEF Consumer, Attach, Subscribe, Report, ParseThrows, Yield, Resume, MapLinkLost,
         MapLinkReturns
<1>2. VehicleTypeOK' /\ BufferInv'
  BY <1>1, VehicleFrame DEF TypeOK, BufferInv, vehicleVars
<1>3. CASE Attach \/ Subscribe \/ MapLinkReturns
  <2>1. UNCHANGED <<inbox, losses, inHand, shown>>
    BY <1>3 DEF Attach, Subscribe, MapLinkReturns
  <2>2. MapTypeOK'
    BY <1>3, <2>1, Zenon DEF Attach, Subscribe, MapLinkReturns, MapTypeOK, TypeOK
  <2> QED
    BY <1>1, <1>2, <2>1, <2>2
    DEF TypeOK, MessagesAreTrue, True, ReportsAreTrue, vehicleVars
<1>4. ASSUME NEW v \in Vehicles, Report(v) \/ Yield(v)
      PROVE  /\ TypeOK'
             /\ MessagesAreTrue => MessagesAreTrue'
             /\ MessagesAreTrue /\ ReportsAreTrue => ReportsAreTrue'
  <2> DEFINE m == Head(inbox[v])
  <2>1. /\ inbox \in [Vehicles -> Seq(Message)] /\ inbox[v] # <<>>
        /\ inbox' = [inbox EXCEPT ![v] = Tail(inbox[v])]
    BY <1>4 DEF Report, Yield, TypeOK
  <2>2. /\ m \in Message /\ m = inbox[v][1] /\ Len(inbox[v]) >= 1
        /\ Tail(inbox[v]) \in Seq(Message)
        /\ \A k \in 1..Len(Tail(inbox[v])) :
             k + 1 \in 1..Len(inbox[v]) /\ Tail(inbox[v])[k] = inbox[v][k + 1]
    BY <2>1, SMT
  <2>3. inbox' \in [Vehicles -> Seq(Message)]
    BY <2>1, <2>2, Updated
  <2>4. UNCHANGED <<mapLink, attached, asked, listening, mapAlive, losses>>
    BY <1>4 DEF Report, Yield
  <2>5. MessagesAreTrue => True(m)
    BY <2>2, SMT DEF MessagesAreTrue
  <2>6. MessagesAreTrue =>
          \A u \in Vehicles : \A k \in 1..Len(inbox'[u]) : True(inbox'[u][k])
    BY <2>1, <2>2, SMT DEF MessagesAreTrue
  <2> HIDE DEF m
  <2>7. CASE Yield(v)
    <3>1. inHand' = <<m>> /\ UNCHANGED shown
      BY <2>7 DEF Yield, m
    <3>2. inHand' \in Seq(Message) /\ Len(inHand') = 1 /\ inHand'[1] = m
      BY <2>2, <3>1, SMT
    <3>3. TypeOK'
      BY <1>1, <1>2, <2>3, <2>4, <3>1, <3>2 DEF TypeOK, MapTypeOK
    <3>4. ASSUME MessagesAreTrue, NEW k \in 1..Len(inHand') PROVE True(inHand'[k])
      BY <2>5, <3>2, <3>4, SMT
    <3> QED
      BY <1>1, <2>6, <3>1, <3>3, <3>4
      DEF MessagesAreTrue, True, ReportsAreTrue, vehicleVars
  <2>8. CASE Report(v)
    <3>1. Show(m) /\ UNCHANGED inHand
      BY <2>8 DEF Report, m
    <3>2. shown' \in [Vehicles -> [k : Nat, at : Int \X Int]]
      BY <2>2, <3>1, ShowIsTyped
    <3>3. TypeOK'
      BY <1>1, <1>2, <2>3, <2>4, <3>1, <3>2 DEF TypeOK, MapTypeOK
    <3>4. MessagesAreTrue /\ ReportsAreTrue => ReportsAreTrue'
      BY <1>1, <2>2, <2>5, <3>1, ShowKeeps DEF True, vehicleVars
    <3> QED
      BY <1>1, <2>6, <3>1, <3>3, <3>4
      DEF MessagesAreTrue, True, vehicleVars
  <2> QED BY <1>4, <2>7, <2>8
<1>5. CASE Resume
  <2> DEFINE m == Head(inHand)
  <2>1. /\ inHand \in Seq(Message) /\ inHand # <<>> /\ Show(m) /\ inHand' = Tail(inHand)
    BY <1>5 DEF Resume, TypeOK, MapTypeOK
  <2>2. /\ m \in Message /\ m = inHand[1] /\ Len(inHand) >= 1
        /\ Tail(inHand) \in Seq(Message)
        /\ \A k \in 1..Len(Tail(inHand)) :
             k + 1 \in 1..Len(inHand) /\ Tail(inHand)[k] = inHand[k + 1]
    BY <2>1, SMT
  <2>3. UNCHANGED <<mapLink, attached, asked, listening, mapAlive, inbox, losses>>
    BY <1>5 DEF Resume
  <2>4. MessagesAreTrue => True(m)
    BY <2>2, SMT DEF MessagesAreTrue
  <2>5. MessagesAreTrue => \A k \in 1..Len(inHand') : True(inHand'[k])
    BY <2>1, <2>2, SMT DEF MessagesAreTrue
  <2> HIDE DEF m
  <2>6. shown' \in [Vehicles -> [k : Nat, at : Int \X Int]]
    BY <2>1, <2>2, ShowIsTyped
  <2>7. TypeOK'
    BY <1>1, <1>2, <2>1, <2>2, <2>3, <2>6 DEF TypeOK, MapTypeOK
  <2>8. MessagesAreTrue /\ ReportsAreTrue => ReportsAreTrue'
    BY <1>1, <2>1, <2>2, <2>4, ShowKeeps DEF True, vehicleVars
  <2> QED
    BY <1>1, <1>2, <2>3, <2>5, <2>7, <2>8 DEF MessagesAreTrue, True, vehicleVars
<1>6. ASSUME MapLinkLost \/ \E v \in Vehicles : ParseThrows(v)
      PROVE  /\ TypeOK'
             /\ MessagesAreTrue => MessagesAreTrue'
             /\ MessagesAreTrue /\ ReportsAreTrue => ReportsAreTrue'
  <2>1. /\ inbox' = [u \in Vehicles |-> <<>>] /\ UNCHANGED <<inHand, shown>>
    BY <1>6 DEF ParseThrows, MapLinkLost
  <2>2. inbox' \in [Vehicles -> Seq(Message)] /\ \A u \in Vehicles : Len(inbox'[u]) = 0
    BY <2>1, SMT
  <2>3. losses' \in 0..MaxLosses
    BY <1>6, TelemetryAssumption, SMT DEF ParseThrows, MapLinkLost, TypeOK
  <2>4. MapTypeOK'
    BY <1>6, <2>1, Zenon DEF ParseThrows, MapLinkLost, TypeOK, MapTypeOK
  <2>5. TypeOK'
    BY <1>1, <1>2, <2>2, <2>3, <2>4 DEF TypeOK
  <2>6. \A u \in Vehicles : \A k \in 1..Len(inbox'[u]) : True(inbox'[u][k])
    BY <2>2, SMT
  <2> QED
    BY <1>1, <2>1, <2>5, <2>6, ZenonT(60) DEF MessagesAreTrue, True, ReportsAreTrue, vehicleVars
<1> QED BY <1>2, <1>3, <1>4, <1>5, <1>6 DEF Consumer

(* A fact about all messages of all vehicles survives the removal of messages ... *)
LEMMA Shorter ==
  ASSUME NEW box \in [Vehicles -> Seq(Message)], NEW v \in Vehicles, NEW box2,
         \A u \in Vehicles : \A i \in 1..Len(box[u]) : True(box[u][i]),
         \/ box2 = box
         \/ box2 = [box EXCEPT ![v] = <<>>]
         \/ box2 = [box EXCEPT ![v] = Tail(box[v])] /\ box[v] # <<>>
  PROVE  \A u \in Vehicles : \A i \in 1..Len(box2[u]) : True(box2[u][i])
<1> SUFFICES ASSUME NEW u \in Vehicles, NEW i \in 1..Len(box2[u])
             PROVE  \E j \in 1..Len(box[u]) : box2[u][i] = box[u][j]
  OBVIOUS
<1>1. CASE box2[u] = box[u]
  BY <1>1
<1>2. CASE box2[u] = <<>>
  BY <1>2, SMT
<1>3. CASE box2[u] = Tail(box[u]) /\ box[u] # <<>>
  <2>1. box[u] \in Seq(Message)
    OBVIOUS
  <2>2. i + 1 \in 1..Len(box[u]) /\ Tail(box[u])[i] = box[u][i + 1]
    BY <1>3, <2>1, SMT
  <2> QED BY <1>3, <2>2
<1>4. box2[u] = box[u] \/ box2[u] = <<>> \/ (box2[u] = Tail(box[u]) /\ box[u] # <<>>)
  BY SMT
<1> QED BY <1>1, <1>2, <1>3, <1>4

(* ... and the arrival of one it holds of.                                    *)
LEMMA Longer ==
  ASSUME NEW box \in [Vehicles -> Seq(Message)], NEW v \in Vehicles, NEW box2,
         \A u \in Vehicles : \A i \in 1..Len(box[u]) : True(box[u][i]),
         NEW m \in Message, True(m),
         \/ box2 = [box EXCEPT ![v] = box[v]]
         \/ box2 = [box EXCEPT ![v] = Append(box[v], m)]
  PROVE  \A u \in Vehicles : \A i \in 1..Len(box2[u]) : True(box2[u][i])
<1> SUFFICES ASSUME NEW u \in Vehicles, NEW i \in 1..Len(box2[u])
             PROVE  (\E j \in 1..Len(box[u]) : box2[u][i] = box[u][j]) \/ box2[u][i] = m
  OBVIOUS
<1>1. CASE box2[u] = box[u]
  BY <1>1
<1>2. CASE box2[u] = Append(box[u], m)
  <2>1. box[u] \in Seq(Message)
    OBVIOUS
  <2> QED BY <1>2, <2>1, SMT
<1>3. box2[u] = box[u] \/ box2[u] = Append(box[u], m)
  BY SMT
<1> QED BY <1>1, <1>2, <1>3

(* Every step of a vehicle keeps its messages true: what was published stays      *)
(* published.                                                              *)
LEMMA VehicleIsTrue ==
  ASSUME TypeOK, BufferInv, MessagesAreTrue, NEW v \in Vehicles, Vehicle(v) \/ BrokerTakes(v)
  PROVE  MessagesAreTrue' /\ (ReportsAreTrue => ReportsAreTrue')
<1>1. UNCHANGED <<lang, reader, inHand, shown>>
  BY DEF Vehicle, CSend, CPublishFails, AwaitedSend, PythonSend, Acknowledged, End, LinkLost,
         LinkReturns, BrokerTakes, mapVars
<1>2. /\ outbox \in [Vehicles -> Seq(Message)] /\ inbox \in [Vehicles -> Seq(Message)]
      /\ inHand \in Seq(Message) /\ sent \in [Vehicles -> Seq(Turn \X Turn)]
      /\ shown \in [Vehicles -> [k : Nat, at : Int \X Int]]
  BY DEF TypeOK, VehicleTypeOK, MapTypeOK
<1>3. ASSUME UNCHANGED sent,
             \A u \in Vehicles : \A i \in 1..Len(outbox'[u]) : True(outbox'[u][i]),
             \A u \in Vehicles : \A i \in 1..Len(inbox'[u]) : True(inbox'[u][i])
      PROVE  MessagesAreTrue' /\ (ReportsAreTrue => ReportsAreTrue')
  BY <1>1, <1>3 DEF MessagesAreTrue, True, ReportsAreTrue
<1>4. ASSUME NEW p \in Turn \X Turn, NEW text, text = Text(lang[v], p), Send(v, p, text),
             UNCHANGED inbox
      PROVE  MessagesAreTrue' /\ (ReportsAreTrue => ReportsAreTrue')
  <2> DEFINE new == [vehicle |-> v, k |-> Len(sent[v]) + 1, text |-> text]
  <2>1. /\ sent' = [sent EXCEPT ![v] = Append(sent[v], p)]
        /\ outbox' = [outbox EXCEPT ![v] = Append(outbox[v], new)]
    BY <1>4, Zenon DEF Send
  <2>2. \A u \in Vehicles, k \in Nat :
          k \in 1..Len(sent[u]) => k \in 1..Len(sent'[u]) /\ sent'[u][k] = sent[u][k]
    BY <1>2, <2>1, SMTT(30)
  <2>3. Len(sent'[v]) = Len(sent[v]) + 1 /\ sent'[v][Len(sent[v]) + 1] = p
        /\ Len(sent[v]) \in Nat
    BY <1>2, <2>1, SMT
  <2>4. ASSUME NEW m \in Message, True(m)
        PROVE  True(m)'
    <3>1. m.vehicle \in Vehicles /\ m.k \in Nat
      BY SMT DEF Message
    <3> QED BY <1>1, <2>2, <2>4, <3>1 DEF True
  <2>5. /\ new.k \in 1..Len(sent'[new.vehicle])
        /\ new.text = Text(lang'[new.vehicle], sent'[new.vehicle][new.k])
    BY <1>1, <1>4, <2>3, SMT
  <2>6. ASSUME NEW u \in Vehicles, NEW i \in 1..Len(outbox'[u])
        PROVE  \/ i \in 1..Len(outbox[u]) /\ outbox'[u][i] = outbox[u][i]
               \/ outbox'[u][i] = new
    <3> HIDE DEF new
    <3>1. CASE u = v
      BY <1>2, <2>1, <3>1, SMT
    <3>2. CASE u # v
      BY <1>2, <2>1, <3>2, SMT
    <3> QED BY <3>1, <3>2
  <2>7. ASSUME NEW u \in Vehicles, NEW i \in 1..Len(outbox'[u])
        PROVE  True(outbox[u][i])'
    <3>1. CASE i \in 1..Len(outbox[u]) /\ outbox'[u][i] = outbox[u][i]
      <4>1. outbox[u][i] \in Message /\ True(outbox[u][i])
        BY <1>2, <3>1, SMTT(30) DEF MessagesAreTrue
      <4> QED BY <2>4, <3>1, <4>1 DEF True
    <3>2. CASE outbox'[u][i] = new
      BY <2>5, <3>2 DEF True
    <3> QED BY <2>6, <3>1, <3>2
  <2>8. ASSUME NEW u \in Vehicles, NEW i \in 1..Len(inbox'[u])
        PROVE  True(inbox[u][i])'
    <3>1. inbox'[u][i] = inbox[u][i] /\ inbox[u][i] \in Message /\ True(inbox[u][i])
      BY <1>2, <1>4, SMT DEF MessagesAreTrue
    <3> QED BY <2>4, <3>1 DEF True
  <2>9. ASSUME NEW i \in 1..Len(inHand')
        PROVE  True(inHand[i])'
    <3>1. inHand'[i] = inHand[i] /\ inHand[i] \in Message /\ True(inHand[i])
      BY <1>1, <1>2, SMT DEF MessagesAreTrue
    <3> QED BY <2>4, <3>1 DEF True
  <2>10. ASSUME ReportsAreTrue PROVE ReportsAreTrue'
    <3> SUFFICES ASSUME NEW u \in Vehicles, shown[u].k > 0
                 PROVE  /\ shown[u].k <= Len(sent'[u])
                        /\ sent'[u][shown[u].k] = sent[u][shown[u].k]
      BY <1>1, <2>10 DEF ReportsAreTrue
    <3>1. shown[u].k \in Nat /\ Len(sent[u]) \in Nat /\ Len(sent'[u]) \in Nat
      BY <1>2, <2>1, SMTT(30)
    <3>2. shown[u].k <= Len(sent[u])
      BY <2>10 DEF ReportsAreTrue
    <3>3. shown[u].k \in 1..Len(sent[u])
      BY <3>1, <3>2, SMT
    <3> QED BY <2>2, <3>1, <3>3, SMT
  <2> QED BY <2>7, <2>8, <2>9, <2>10 DEF MessagesAreTrue
<1>5. ASSUME NEW p, CSend(v, p)
      PROVE  MessagesAreTrue' /\ (ReportsAreTrue => ReportsAreTrue')
  <2>1. CWrite(v, p) /\ Send(v, p, Published(payload'[v])) /\ UNCHANGED inbox
    BY <1>5 DEF CSend
  <2>2. p \in Turn \X Turn /\ Published(payload'[v]) = CText(p)
    <3>1. TextLength(p) \in Nat
      BY <2>1, TextIsShort, SMT DEF CWrite, Draws
    <3>2. payload'[v].payload_length = payload'[v].size - 1
      BY <2>1, <3>1, WriteKeeps, SMT
    <3> QED BY <2>1, <3>2, WriteKeeps DEF Published
  <2>3. CText(p) = Text(lang[v], p)
    BY <2>1 DEF CWrite, Text
  <2> QED BY <1>4, <2>1, <2>2, <2>3
<1>6. ASSUME NEW p, CPublishFails(v, p)
      PROVE  MessagesAreTrue' /\ (ReportsAreTrue => ReportsAreTrue')
  BY <1>3, <1>6 DEF CPublishFails, MessagesAreTrue
<1>7. ASSUME NEW p, AwaitedSend(v, p) \/ PythonSend(v, p)
      PROVE  MessagesAreTrue' /\ (ReportsAreTrue => ReportsAreTrue')
  <2>1. /\ p \in Turn \X Turn
        /\ Send(v, p, Text(lang[v], p)) /\ UNCHANGED inbox
    BY <1>7, TelemetryAssumption, SMT
    DEF AwaitedSend, PythonSend, Draws, Turns, Turn, Degree, Waits, Text
  <2> QED BY <1>4, <2>1
<1>8. ASSUME Acknowledged(v) \/ End(v) \/ LinkLost(v) \/ LinkReturns(v)
      PROVE  MessagesAreTrue' /\ (ReportsAreTrue => ReportsAreTrue')
  <2>1. UNCHANGED <<sent, inbox>>
    BY <1>8 DEF Acknowledged, End, LinkLost, LinkReturns
  <2>2. \A u \in Vehicles : \A i \in 1..Len(outbox'[u]) : True(outbox'[u][i])
    <3>1. \/ outbox' = outbox
          \/ outbox' = [outbox EXCEPT ![v] = <<>>]
          \/ outbox' = [outbox EXCEPT ![v] = Tail(outbox[v])] /\ outbox[v] # <<>>
      BY <1>2, <1>8, SMTT(30) DEF Acknowledged, End, LinkLost, LinkReturns, TypeOK, VehicleTypeOK
    <3> QED BY <1>2, <3>1, Shorter DEF MessagesAreTrue
  <2>3. \A u \in Vehicles : \A i \in 1..Len(inbox'[u]) : True(inbox'[u][i])
    BY <2>1 DEF MessagesAreTrue
  <2> QED BY <1>3, <2>1, <2>2, <2>3
<1>9. CASE BrokerTakes(v)
  <2>1. UNCHANGED sent
    BY <1>9 DEF BrokerTakes
  <2>2. outbox[v] # <<>> /\ taken[v] + 1 \in 1..Len(outbox[v])
    BY <1>9, SMT DEF BrokerTakes, TypeOK, VehicleTypeOK
  <2>3. outbox' = outbox \/ outbox' = [outbox EXCEPT ![v] = Tail(outbox[v])]
    BY <1>9 DEF BrokerTakes
  <2>4. \A u \in Vehicles : \A i \in 1..Len(outbox'[u]) : True(outbox'[u][i])
    BY <1>2, <2>2, <2>3, Shorter DEF MessagesAreTrue
  <2>5. \/ inbox' = [inbox EXCEPT ![v] = inbox[v]]
        \/ inbox' = [inbox EXCEPT ![v] = Append(inbox[v], outbox[v][taken[v] + 1])]
    BY <1>9, Zenon DEF BrokerTakes
  <2>6. outbox[v][taken[v] + 1] \in Message /\ True(outbox[v][taken[v] + 1])
    BY <1>2, <2>2, SMT DEF MessagesAreTrue
  <2>7. \A u \in Vehicles : \A i \in 1..Len(inbox'[u]) : True(inbox'[u][i])
    BY <1>2, <2>5, <2>6, Longer, ZenonT(60) DEF MessagesAreTrue
  <2> QED BY <1>3, <2>1, <2>4, <2>7
<1> QED BY <1>5, <1>6, <1>7, <1>8, <1>9 DEF Vehicle

(* The initial messages are none.                                            *)
LEMMA InitIsTrue == Init => MessagesAreTrue /\ ReportsAreTrue
<1> SUFFICES ASSUME Init PROVE MessagesAreTrue /\ ReportsAreTrue
  OBVIOUS
<1>1. /\ \A v \in Vehicles : Len(outbox[v]) = 0 /\ Len(inbox[v]) = 0 /\ shown[v].k = 0
      /\ Len(inHand) = 0
  BY SMT DEF Init
<1> QED BY <1>1, SMT DEF MessagesAreTrue, ReportsAreTrue

(* Every step keeps the inductive invariant.                                  *)
LEMMA StepKeeps == IndInv /\ [Next]_vars => IndInv'
<1> SUFFICES ASSUME IndInv, [Next]_vars PROVE IndInv'
  OBVIOUS
<1>1. CASE Consumer
  BY <1>1, ConsumerKeeps DEF IndInv
<1>2. ASSUME NEW v \in Vehicles, Vehicle(v) PROVE IndInv'
  BY <1>2, VehicleKeeps, VehicleIsTrue DEF IndInv
<1>3. ASSUME NEW v \in Vehicles, BrokerTakes(v) PROVE IndInv'
  BY <1>3, BrokerKeeps, VehicleIsTrue DEF IndInv
<1>4. CASE UNCHANGED vars
  <2>1. UNCHANGED <<lang, reader, vehicleVars, mapVars, inbox, losses>>
    BY <1>4 DEF vars
  <2>2. TypeOK' /\ BufferInv'
    BY <2>1, MapFrame, VehicleFrame DEF IndInv, TypeOK, BufferInv, vehicleVars
  <2>3. MessagesAreTrue' /\ ReportsAreTrue'
    BY <2>1 DEF IndInv, MessagesAreTrue, True, ReportsAreTrue, vehicleVars, mapVars
  <2> QED BY <2>2, <2>3 DEF IndInv
<1> QED BY <1>1, <1>2, <1>3, <1>4 DEF Next

(* Every behaviour of the specification satisfies the inductive invariant.       *)
THEOREM Inductive == Spec => []IndInv
<1>1. Init => IndInv
  BY InitHolds, InitIsTrue DEF IndInv
<1> QED BY <1>1, StepKeeps, PTL DEF Spec

(* Vehicles, map and broker are well typed, and the broker has taken no more than  *)
(* a client holds.                                                          *)
THEOREM TypeCorrect == Spec => []TypeOK
<1>1. IndInv => TypeOK
  BY DEF IndInv
<1> QED BY <1>1, Inductive, PTL

(* geo_json_handler.c:152-159: no position makes a text that, with its terminator, *)
(* is longer than the buffer it is copied to.                                  *)
THEOREM NothingOverflows == Spec => []BufferHolds
<1>1. IndInv => BufferHolds
  BY DEF IndInv, BufferInv, BufferHolds
<1> QED BY <1>1, Inductive, PTL

(* The map shows nothing but positions that were published, with the axes          *)
(* exchanged between .NET and the other languages.                             *)
THEOREM MapIsTrue == Spec => []ReportsAreTrue
<1>1. IndInv => ReportsAreTrue
  BY DEF IndInv
<1> QED BY <1>1, Inductive, PTL


-----------------------------------------------------------------------------
(* The order of a vehicle's messages.  Of one that waits for its PUBACK or sends   *)
(* at QoS 0 the positions shown, in the handler's hand, on their way and still to   *)
(* be sent follow one another, for at most one message is ever sent again.         *)
Sorted(s)   == \A i, j \in 1..Len(s) : i <= j => s[i].k <= s[j].k
Below(n, s) == \A i \in 1..Len(s) : n <= s[i].k

Own ==
  \A v \in Vehicles :
    /\ \A i \in 1..Len(inbox[v]) : inbox[v][i].vehicle = v
    /\ \A i \in 1..Len(outbox[v]) : outbox[v][i].vehicle = v

OneAtATime ==
  \A v \in Vehicles :
    /\ lang[v] \in Waits => Len(outbox[v]) <= 1 /\ (program[v] = "ready" => outbox[v] = <<>>)
    /\ lang[v] = "python" => taken[v] = 0

OneInHand == Len(inHand) <= 1 /\ (inHand # <<>> => attached /\ reader = "dotnet")

RisingAt(v) ==
  /\ Sorted(inbox[v]) /\ Sorted(outbox[v])
  /\ \A i \in 1..Len(inbox[v]) : Below(inbox[v][i].k, outbox[v])
  /\ \A i \in 1..Len(inHand) : inHand[i].vehicle = v =>
       /\ shown[v].k <= inHand[i].k
       /\ Below(inHand[i].k, inbox[v]) /\ Below(inHand[i].k, outbox[v])
  /\ Below(shown[v].k, inbox[v]) /\ Below(shown[v].k, outbox[v])

Rising == \A v \in Vehicles : lang[v] # "c" => RisingAt(v)

OrderInv == IndInv /\ Own /\ OneAtATime /\ OneInHand /\ Rising

LEMMA NothingOutOfOrder == Sorted(<<>>) /\ \A n : Below(n, <<>>)
BY SMT DEF Sorted, Below

LEMMA TailInOrder ==
  ASSUME NEW s \in Seq(Message), s # <<>>
  PROVE  /\ Len(s) >= 1 /\ Head(s) = s[1] /\ Len(Tail(s)) = Len(s) - 1
         /\ \A i \in 1..Len(Tail(s)) : i + 1 \in 1..Len(s) /\ Tail(s)[i] = s[i + 1]
         /\ Sorted(s) => Sorted(Tail(s)) /\ Below(Head(s).k, Tail(s))
         /\ \A n \in Nat : Below(n, s) => n <= Head(s).k /\ Below(n, Tail(s))
<1>1. /\ Len(s) >= 1 /\ Head(s) = s[1] /\ Len(Tail(s)) = Len(s) - 1 /\ Len(s) \in Nat
      /\ \A i \in 1..Len(Tail(s)) : i + 1 \in 1..Len(s) /\ Tail(s)[i] = s[i + 1]
  BY SMT
<1> DEFINE t == Tail(s)
<1> HIDE DEF t
<1>2. /\ Len(t) = Len(s) - 1 /\ \A i \in 1..Len(t) : i + 1 \in 1..Len(s) /\ t[i] = s[i + 1]
  BY <1>1 DEF t
<1>3. Sorted(s) => Sorted(t) /\ Below(s[1].k, t)
  BY <1>1, <1>2, SMT DEF Sorted, Below
<1>4. \A n \in Nat : Below(n, s) => n <= s[1].k /\ Below(n, t)
  BY <1>1, <1>2, SMT DEF Below
<1> QED
  BY <1>1, <1>3, <1>4 DEF t

LEMMA AppendInOrder ==
  ASSUME NEW s \in Seq(Message), NEW m \in Message
  PROVE  /\ Len(Append(s, m)) = Len(s) + 1
         /\ \A i \in 1..Len(Append(s, m)) :
              \/ i \in 1..Len(s) /\ Append(s, m)[i] = s[i]
              \/ i = Len(s) + 1 /\ Append(s, m)[i] = m
         /\ Sorted(s) /\ (\A i \in 1..Len(s) : s[i].k <= m.k) => Sorted(Append(s, m))
         /\ \A n \in Nat : Below(n, s) /\ n <= m.k => Below(n, Append(s, m))
<1> DEFINE t == Append(s, m)
<1>1. /\ Len(t) = Len(s) + 1 /\ Len(s) \in Nat
      /\ \A i \in 1..Len(t) : \/ i \in 1..Len(s) /\ t[i] = s[i]
                              \/ i = Len(s) + 1 /\ t[i] = m
  BY SMT
<1>2. m.k \in Nat
  BY SMT DEF Message
<1> HIDE DEF t
<1>3. Sorted(s) /\ (\A i \in 1..Len(s) : s[i].k <= m.k) => Sorted(t)
  BY <1>1, <1>2, SMT DEF Sorted
<1>4. \A n \in Nat : Below(n, s) /\ n <= m.k => Below(n, t)
  BY <1>1, SMT DEF Below
<1> QED
  BY <1>1, <1>3, <1>4 DEF t

LEMMA InitIsOrdered == Init => Own /\ OneAtATime /\ OneInHand /\ Rising
<1> SUFFICES ASSUME Init PROVE Own /\ OneAtATime /\ OneInHand /\ Rising
  OBVIOUS
<1>1. /\ \A v \in Vehicles : inbox[v] = <<>> /\ outbox[v] = <<>> /\ taken[v] = 0
      /\ inHand = <<>>
  BY DEF Init
<1>2. Len(<<>>) = 0
  BY SMT
<1>3. \A i : i \notin 1..0
  BY SMT
<1>4. Own /\ OneAtATime /\ OneInHand
  BY <1>1, <1>2, <1>3, SMT DEF Own, OneAtATime, OneInHand
<1>5. Rising
  BY <1>1, <1>2, <1>3, NothingOutOfOrder DEF Rising, RisingAt
<1> QED
  BY <1>4, <1>5

LEMMA Numbered ==
  /\ \A m \in Message : m.k \in Nat
  /\ \A s \in Seq(Message) : \A i \in 1..Len(s) : s[i] \in Message /\ s[i].k \in Nat
<1>1. \A m \in Message : m.k \in Nat
  BY SMT DEF Message
<1>2. \A s \in Seq(Message) : \A i \in 1..Len(s) : s[i] \in Message
  BY SMT
<1> QED
  BY <1>1, <1>2

(* A vehicle publishes a new position after all the others, and takes a message     *)
(* off its outbox only at the front.                                           *)
LEMMA OutboxMoves ==
  ASSUME IndInv, NEW v \in Vehicles, Vehicle(v)
  PROVE  \/ UNCHANGED outbox
         \/ outbox' = [outbox EXCEPT ![v] = <<>>]
         \/ outbox[v] # <<>> /\ outbox' = [outbox EXCEPT ![v] = Tail(outbox[v])]
         \/ \E new \in Message :
              /\ new.vehicle = v /\ new.k = Len(sent[v]) + 1
              /\ outbox' = [outbox EXCEPT ![v] = Append(outbox[v], new)]
<1>1. TypeOK /\ BufferInv
  BY DEF IndInv
<1>2. ASSUME NEW p, NEW text \in Texts, Send(v, p, text)
      PROVE  \E new \in Message :
               /\ new.vehicle = v /\ new.k = Len(sent[v]) + 1
               /\ outbox' = [outbox EXCEPT ![v] = Append(outbox[v], new)]
  <2> DEFINE new == [vehicle |-> v, k |-> Len(sent[v]) + 1, text |-> text]
  <2>1. new \in Message
    BY <1>1, SMT DEF TypeOK, VehicleTypeOK, Message
  <2>2. outbox' = [outbox EXCEPT ![v] = Append(outbox[v], new)]
    BY <1>2, Zenon DEF Send
  <2>3. new.vehicle = v /\ new.k = Len(sent[v]) + 1
    OBVIOUS
  <2> QED
    BY <2>1, <2>2, <2>3
<1>3. ASSUME NEW p, CSend(v, p)
      PROVE  \E new \in Message :
               /\ new.vehicle = v /\ new.k = Len(sent[v]) + 1
               /\ outbox' = [outbox EXCEPT ![v] = Append(outbox[v], new)]
  <2>1. CWrite(v, p) /\ Send(v, p, Published(payload'[v]))
    BY <1>3 DEF CSend
  <2>2. Published(payload'[v]) \in Texts
    BY <1>1, <2>1, WriteKeeps, TextIsText, TextIsShort, SMT DEF Published, Text, Languages, Payload
  <2> QED
    BY <1>2, <2>1, <2>2
<1>4. ASSUME NEW p, AwaitedSend(v, p) \/ PythonSend(v, p)
      PROVE  \E new \in Message :
               /\ new.vehicle = v /\ new.k = Len(sent[v]) + 1
               /\ outbox' = [outbox EXCEPT ![v] = Append(outbox[v], new)]
  <2>1. /\ p \in Turn \X Turn /\ lang[v] \in Languages
        /\ Send(v, p, Text(lang[v], p))
    BY <1>1, <1>4, TelemetryAssumption, SMT
    DEF AwaitedSend, PythonSend, Draws, Turns, Turn, Degree, Waits, Text, TypeOK
  <2>2. Text(lang[v], p) \in Texts
    BY <2>1, TextIsText
  <2> QED
    BY <1>2, <2>1, <2>2
<1>5. CASE Acknowledged(v)
  <2>1. outbox[v] \in Seq(Message) /\ Len(outbox[v]) >= 1
    BY <1>1, <1>5, SMT DEF Acknowledged, TypeOK, VehicleTypeOK
  <2>2. outbox[v] # <<>>
    BY <2>1, SMT
  <2> QED
    BY <1>5, <2>2 DEF Acknowledged
<1>6. ASSUME NEW p, CPublishFails(v, p) PROVE UNCHANGED outbox
  BY <1>6 DEF CPublishFails
<1>7. CASE End(v) \/ LinkReturns(v)
  BY <1>7 DEF End, LinkReturns
<1>8. CASE LinkLost(v)
  BY <1>1, <1>8 DEF LinkLost, TypeOK, VehicleTypeOK
<1> QED
  BY <1>3, <1>4, <1>5, <1>6, <1>7, <1>8 DEF Vehicle

(* Nothing of a vehicle is later than what it published last.                  *)
LEMMA NothingLater ==
  ASSUME OrderInv, NEW v \in Vehicles
  PROVE  /\ Len(sent[v]) \in Nat /\ shown[v].k <= Len(sent[v])
         /\ \A i \in 1..Len(inbox[v]) : inbox[v][i].k <= Len(sent[v])
         /\ \A i \in 1..Len(outbox[v]) : outbox[v][i].k <= Len(sent[v])
         /\ \A i \in 1..Len(inHand) : inHand[i].vehicle = v => inHand[i].k <= Len(sent[v])
<1>1. /\ TypeOK /\ MessagesAreTrue /\ ReportsAreTrue /\ Own
  BY DEF OrderInv, IndInv
<1>2. Len(sent[v]) \in Nat /\ shown[v].k \in Nat
  BY <1>1, SMT DEF TypeOK, VehicleTypeOK, MapTypeOK
<1>3. shown[v].k <= Len(sent[v])
  <2>1. shown[v].k > 0 => shown[v].k <= Len(sent[v])
    BY <1>1 DEF ReportsAreTrue
  <2> QED
    BY <1>2, <2>1, SMT
<1>4. \A m : True(m) /\ m.vehicle = v => m.k <= Len(sent[v])
  BY <1>2, SMT DEF True
<1> QED
  BY <1>1, <1>2, <1>3, <1>4 DEF MessagesAreTrue, Own

LEMMA VehicleKeepsOrder ==
  ASSUME OrderInv, NEW v \in Vehicles, Vehicle(v)
  PROVE  Own' /\ OneInHand' /\ Rising'
<1>0. IndInv /\ TypeOK /\ Own /\ OneInHand /\ Rising
  BY DEF OrderInv, IndInv
<1>1. UNCHANGED <<lang, reader, inbox, inHand, shown, attached>>
  BY DEF Vehicle, CSend, CPublishFails, AwaitedSend, PythonSend, Acknowledged, End, LinkLost,
         LinkReturns, mapVars
<1>2. OneInHand'
  BY <1>0, <1>1 DEF OneInHand
<1>3. /\ outbox \in [Vehicles -> Seq(Message)] /\ inbox \in [Vehicles -> Seq(Message)]
      /\ inHand \in Seq(Message) /\ \A u \in Vehicles : shown[u].k \in Nat
  BY <1>0, SMT DEF TypeOK, VehicleTypeOK, MapTypeOK
<1>4. \A u \in Vehicles \ {v} : outbox'[u] = outbox[u]
  BY <1>0, <1>3, OutboxMoves, SMTT(30)
<1>5. \/ outbox'[v] = outbox[v]
      \/ outbox'[v] = <<>>
      \/ outbox[v] # <<>> /\ outbox'[v] = Tail(outbox[v])
      \/ \E new \in Message :
           /\ new.vehicle = v /\ new.k = Len(sent[v]) + 1
           /\ outbox'[v] = Append(outbox[v], new)
  BY <1>0, <1>3, OutboxMoves
<1>6. Own'
  <2>1. \A i \in 1..Len(outbox'[v]) : outbox'[v][i].vehicle = v
    <3>1. CASE outbox'[v] = <<>>
      BY <3>1, SMT
    <3>2. CASE outbox[v] # <<>> /\ outbox'[v] = Tail(outbox[v])
      <4>1. \A i \in 1..Len(outbox'[v]) : i + 1 \in 1..Len(outbox[v]) /\ outbox'[v][i] = outbox[v][i + 1]
        BY <1>3, <3>2, TailInOrder
      <4> QED
        BY <1>0, <4>1, SMTT(30) DEF Own
    <3>3. ASSUME NEW new \in Message, new.vehicle = v, outbox'[v] = Append(outbox[v], new)
          PROVE  \A i \in 1..Len(outbox'[v]) : outbox'[v][i].vehicle = v
      BY <1>0, <1>3, <3>3, AppendInOrder DEF Own
    <3>4. CASE outbox'[v] = outbox[v]
      BY <1>0, <3>4 DEF Own
    <3> QED
      BY <1>5, <3>1, <3>2, <3>3, <3>4
  <2> QED
    BY <1>0, <1>1, <1>4, <2>1 DEF Own
<1>7. ASSUME NEW u \in Vehicles, lang[u] # "c" PROVE RisingAt(u)'
  <2>0. RisingAt(u)
    BY <1>0, <1>7 DEF Rising
  <2>1. CASE outbox'[u] = outbox[u]
    BY <1>1, <2>0, <2>1 DEF RisingAt
  <2>2. CASE outbox'[u] = <<>>
    BY <1>1, <2>0, <2>2, NothingOutOfOrder DEF RisingAt
  <2>3. CASE outbox[u] # <<>> /\ outbox'[u] = Tail(outbox[u])
    <3>1. Sorted(outbox'[u]) /\ \A n \in Nat : Below(n, outbox[u]) => Below(n, outbox'[u])
      BY <1>3, <2>0, <2>3, TailInOrder DEF RisingAt
    <3>2. /\ \A i \in 1..Len(inbox[u]) : inbox[u][i].k \in Nat
          /\ \A i \in 1..Len(inHand) : inHand[i].k \in Nat
      BY <1>3, Numbered
    <3> QED
      BY <1>1, <1>3, <2>0, <3>1, <3>2 DEF RisingAt
  <2>4. CASE u = v /\ \E new \in Message : /\ new.k = Len(sent[v]) + 1
                                          /\ outbox'[v] = Append(outbox[v], new)
    <3> PICK new \in Message : new.k = Len(sent[u]) + 1 /\ outbox'[u] = Append(outbox[u], new)
      BY <2>4
    <3>1. /\ Len(sent[u]) \in Nat /\ shown[u].k <= Len(sent[u])
          /\ \A i \in 1..Len(inbox[u]) : inbox[u][i].k <= Len(sent[u])
          /\ \A i \in 1..Len(outbox[u]) : outbox[u][i].k <= Len(sent[u])
          /\ \A i \in 1..Len(inHand) : inHand[i].vehicle = u => inHand[i].k <= Len(sent[u])
      BY NothingLater
    <3>2. /\ \A i \in 1..Len(inbox[u]) : inbox[u][i].k \in Nat
          /\ \A i \in 1..Len(outbox[u]) : outbox[u][i].k \in Nat
          /\ \A i \in 1..Len(inHand) : inHand[i].k \in Nat
      BY <1>3, Numbered
    <3>3. /\ Sorted(outbox'[u])
          /\ \A n \in Nat : n <= Len(sent[u]) /\ Below(n, outbox[u]) => Below(n, outbox'[u])
      <4>1. \A i \in 1..Len(outbox[u]) : outbox[u][i].k <= new.k
        BY <3>1, <3>2, SMT
      <4>2. \A n \in Nat : n <= Len(sent[u]) => n <= new.k
        BY <3>1, SMT
      <4> QED
        BY <1>3, <2>0, <4>1, <4>2, AppendInOrder DEF RisingAt
    <3> QED
      BY <1>1, <1>3, <2>0, <3>1, <3>2, <3>3 DEF RisingAt
  <2> QED
    BY <1>4, <1>5, <2>1, <2>2, <2>3, <2>4
<1> QED
  BY <1>1, <1>2, <1>6, <1>7 DEF Rising

(* Where the program waits for its PUBACK its client holds one message at most.     *)
LEMMA VehicleKeepsPace ==
  ASSUME OrderInv, NEW v \in Vehicles, Vehicle(v)
  PROVE  OneAtATime'
<1>0. IndInv /\ TypeOK /\ OneAtATime
  BY DEF OrderInv, IndInv
<1>1. /\ outbox \in [Vehicles -> Seq(Message)] /\ taken \in [Vehicles -> Nat]
      /\ program \in [Vehicles -> {"ready", "waiting", "ended"}]
      /\ taken[v] <= Len(outbox[v])
  BY <1>0 DEF TypeOK, VehicleTypeOK
<1>2. UNCHANGED lang
  BY DEF Vehicle, CSend, CPublishFails, AwaitedSend, PythonSend, Acknowledged, End, LinkLost,
         LinkReturns
<1>3. \A u \in Vehicles \ {v} :
        outbox'[u] = outbox[u] /\ taken'[u] = taken[u] /\ program'[u] = program[u]
  <2>1. \A u \in Vehicles \ {v} : outbox'[u] = outbox[u]
    BY <1>0, <1>1, OutboxMoves
  <2>2. \A u \in Vehicles \ {v} : taken'[u] = taken[u] /\ program'[u] = program[u]
    BY <1>1 DEF Vehicle, CSend, CPublishFails, AwaitedSend, PythonSend, Acknowledged, End,
       LinkLost, LinkReturns
  <2> QED
    BY <2>1, <2>2
<1>4. Len(<<>>) = 0
  BY SMT
<1> SUFFICES /\ lang[v] \in Waits =>
                  Len(outbox'[v]) <= 1 /\ (program'[v] = "ready" => outbox'[v] = <<>>)
             /\ lang[v] = "python" => taken'[v] = 0
  BY <1>0, <1>2, <1>3 DEF OneAtATime
<1>5. CASE \E p \in Positions \cup Draws("dotnet") : CSend(v, p) \/ CPublishFails(v, p)
  BY <1>5 DEF CSend, CPublishFails, CWrite, Waits
<1>6. CASE \E p \in Positions \cup Draws("dotnet") : PythonSend(v, p)
  BY <1>0, <1>6 DEF PythonSend, Waits, OneAtATime
<1>7. CASE \E p \in Positions \cup Draws("dotnet") : AwaitedSend(v, p)
  <2>1. /\ program[v] = "ready" /\ program'[v] = "waiting" /\ UNCHANGED taken
        /\ lang[v] \in Waits
    BY <1>1, <1>7 DEF AwaitedSend, Turns
  <2>2. outbox[v] = <<>>
    BY <1>0, <2>1 DEF OneAtATime
  <2>3. Len(outbox'[v]) <= 1
    <3>1. CASE outbox'[v] = outbox[v] \/ outbox'[v] = <<>>
      BY <1>4, <2>2, <3>1
    <3>2. ASSUME NEW new \in Message, outbox'[v] = Append(outbox[v], new)
          PROVE  Len(outbox'[v]) <= 1
      <4>1. Len(outbox'[v]) = Len(outbox[v]) + 1
        BY <1>1, <3>2, AppendInOrder
      <4> QED
        BY <1>4, <2>2, <4>1, SMT
    <3> QED
      BY <1>0, <1>1, <2>2, <3>1, <3>2, OutboxMoves
  <2> QED
    BY <2>1, <2>3 DEF Waits
<1>8. CASE Acknowledged(v)
  <2>1. outbox'[v] = Tail(outbox[v]) /\ taken[v] > 0
    BY <1>1, <1>8 DEF Acknowledged
  <2>2. lang[v] # "python"
    BY <1>0, <2>1, SMT DEF OneAtATime
  <2>3. lang[v] \in Waits => Len(outbox[v]) = 1
    <3>1. Len(outbox[v]) \in Nat /\ taken[v] \in Nat /\ taken[v] <= Len(outbox[v])
      BY <1>1, SMT
    <3>2. lang[v] \in Waits => Len(outbox[v]) <= 1
      BY <1>0 DEF OneAtATime
    <3> DEFINE n == Len(outbox[v])
               t == taken[v]
    <3>3. t > 0 /\ t \in Nat /\ n \in Nat /\ t <= n
      BY <2>1, <3>1
    <3> HIDE DEF n, t
    <3>4. n <= 1 => n = 1
      BY <3>3, SMT
    <3> QED
      BY <3>2, <3>4 DEF n
  <2>4. Len(outbox[v]) = 1 => outbox'[v] = <<>>
    <3> SUFFICES ASSUME Len(outbox[v]) = 1 PROVE Tail(outbox[v]) = <<>>
      BY <2>1
    <3>1. outbox[v] \in Seq(Message)
      BY <1>1
    <3>2. Tail(outbox[v]) \in Seq(Message) /\ Len(Tail(outbox[v])) = 0
      BY <3>1, SMT
    <3> QED
      BY <3>2, EmptySeq
  <2> QED
    BY <1>4, <2>2, <2>3, <2>4, SMT
<1>9. CASE End(v)
  BY <1>1, <1>4, <1>9, SMT DEF End
<1>10. CASE LinkLost(v)
  BY <1>0, <1>1, <1>10 DEF LinkLost, OneAtATime, Waits
<1>11. CASE LinkReturns(v)
  BY <1>0, <1>11 DEF LinkReturns, OneAtATime
<1> QED
  BY <1>5, <1>6, <1>7, <1>8, <1>9, <1>10, <1>11 DEF Vehicle

(* The broker takes the oldest message it has not, and keeps the order.           *)
LEMMA BrokerKeepsOrder ==
  ASSUME OrderInv, NEW v \in Vehicles, BrokerTakes(v)
  PROVE  Own' /\ OneAtATime' /\ OneInHand' /\ Rising'
<1> DEFINE m == outbox[v][taken[v] + 1]
<1>0. IndInv /\ TypeOK /\ Own /\ OneInHand /\ Rising /\ OneAtATime
  BY DEF OrderInv, IndInv
<1>1. UNCHANGED <<lang, reader, program, inHand, shown, attached>>
  BY DEF BrokerTakes, mapVars
<1>2. /\ outbox \in [Vehicles -> Seq(Message)] /\ inbox \in [Vehicles -> Seq(Message)]
      /\ inHand \in Seq(Message) /\ taken \in [Vehicles -> Nat]
      /\ \A u \in Vehicles : shown[u].k \in Nat
  BY <1>0, SMT DEF TypeOK, VehicleTypeOK, MapTypeOK
<1>3. taken[v] + 1 \in 1..Len(outbox[v]) /\ Len(outbox[v]) \in Nat /\ outbox[v] # <<>>
  BY <1>2, SMT DEF BrokerTakes
<1>4. m \in Message /\ m.k \in Nat /\ m.vehicle = v
  BY <1>0, <1>2, <1>3, Numbered DEF Own
<1>5. inbox' = [inbox EXCEPT ![v] = inbox[v]] \/ inbox' = [inbox EXCEPT ![v] = Append(inbox[v], m)]
  BY Zenon DEF BrokerTakes
<1>6. \A u \in Vehicles \ {v} :
        inbox'[u] = inbox[u] /\ outbox'[u] = outbox[u] /\ taken'[u] = taken[u]
  <2>1. \A u \in Vehicles \ {v} : inbox'[u] = inbox[u]
    <3> HIDE DEF m
    <3> QED
      BY <1>2, <1>5
  <2>2. \A u \in Vehicles \ {v} : outbox'[u] = outbox[u] /\ taken'[u] = taken[u]
    BY <1>2 DEF BrokerTakes
  <2> QED
    BY <2>1, <2>2
<1>7. inbox'[v] = inbox[v] \/ inbox'[v] = Append(inbox[v], m)
  <2> HIDE DEF m
  <2> QED
    BY <1>2, <1>5
<1>8. \/ lang[v] = "python" /\ outbox'[v] = Tail(outbox[v]) /\ taken'[v] = taken[v]
      \/ lang[v] # "python" /\ outbox'[v] = outbox[v]
  BY <1>2 DEF BrokerTakes
<1> HIDE DEF m
<1>9. OneInHand'
  BY <1>0, <1>1 DEF OneInHand
<1>10. OneAtATime'
  <2>1. lang[v] = "python" => taken'[v] = 0
    BY <1>0, <1>8 DEF OneAtATime
  <2>2. lang[v] \in Waits => outbox'[v] = outbox[v]
    BY <1>8 DEF Waits
  <2> QED
    BY <1>0, <1>1, <1>6, <2>1, <2>2 DEF OneAtATime
<1>11. Own'
  <2>1. \A i \in 1..Len(inbox'[v]) : inbox'[v][i].vehicle = v
    <3>1. CASE inbox'[v] = inbox[v]
      BY <1>0, <3>1 DEF Own
    <3>2. CASE inbox'[v] = Append(inbox[v], m)
      BY <1>0, <1>2, <1>4, <3>2, AppendInOrder DEF Own
    <3> QED
      BY <1>7, <3>1, <3>2
  <2>2. \A i \in 1..Len(outbox'[v]) : outbox'[v][i].vehicle = v
    <3>1. CASE outbox'[v] = outbox[v]
      BY <1>0, <3>1 DEF Own
    <3>2. CASE outbox'[v] = Tail(outbox[v])
      <4>1. \A i \in 1..Len(outbox'[v]) : i + 1 \in 1..Len(outbox[v]) /\ outbox'[v][i] = outbox[v][i + 1]
        BY <1>2, <1>3, <3>2, TailInOrder
      <4> QED
        BY <1>0, <4>1 DEF Own
    <3> QED
      BY <1>8, <3>1, <3>2
  <2> QED
    BY <1>0, <1>6, <2>1, <2>2 DEF Own
<1>12. ASSUME lang[v] # "c" PROVE RisingAt(v)'
  <2>0. RisingAt(v)
    BY <1>0, <1>12 DEF Rising
  <2>1. /\ \A i \in 1..Len(inbox[v]) : inbox[v][i].k \in Nat /\ inbox[v][i].k <= m.k
        /\ shown[v].k <= m.k
        /\ \A i \in 1..Len(inHand) : inHand[i].k \in Nat /\ (inHand[i].vehicle = v => inHand[i].k <= m.k)
    BY <1>2, <1>3, <2>0, Numbered DEF RisingAt, Below, m
  <2>2. /\ Below(m.k, outbox'[v]) /\ Sorted(outbox'[v])
        /\ \A n \in Nat : Below(n, outbox[v]) => Below(n, outbox'[v])
    <3>1. CASE lang[v] = "python"
      <4>1. taken[v] = 0 /\ outbox'[v] = Tail(outbox[v])
        BY <1>0, <1>8, <3>1 DEF OneAtATime
      <4>2. m = Head(outbox[v])
        BY <1>2, <1>3, <4>1, TailInOrder DEF m
      <4> QED
        BY <1>2, <1>3, <2>0, <4>1, <4>2, TailInOrder DEF RisingAt
    <3>2. CASE lang[v] # "python"
      <4>1. lang[v] \in Waits
        BY <1>0, <1>12, <3>2 DEF TypeOK, Languages, Waits
      <4>2. Len(outbox[v]) <= 1 /\ outbox'[v] = outbox[v]
        BY <1>0, <1>8, <3>2, <4>1 DEF OneAtATime
      <4>3. \A i \in 1..Len(outbox[v]) : i = taken[v] + 1
        BY <1>2, <1>3, <4>2, SMT
      <4>4. Below(m.k, outbox[v])
        BY <1>4, <4>3, SMT DEF Below, m
      <4> QED
        BY <2>0, <4>2, <4>4 DEF RisingAt
    <3> QED
      BY <3>1, <3>2
  <2>3. CASE inbox'[v] = inbox[v]
    BY <1>1, <1>2, <2>0, <2>1, <2>2, <2>3 DEF RisingAt
  <2>4. CASE inbox'[v] = Append(inbox[v], m)
    <3>1. /\ \A i \in 1..Len(inbox'[v]) : \/ i \in 1..Len(inbox[v]) /\ inbox'[v][i] = inbox[v][i]
                                          \/ inbox'[v][i] = m
          /\ Sorted(inbox'[v])
          /\ \A n \in Nat : Below(n, inbox[v]) /\ n <= m.k => Below(n, inbox'[v])
      BY <1>2, <1>4, <2>0, <2>1, <2>4, AppendInOrder DEF RisingAt
    <3>2. \A i \in 1..Len(inbox'[v]) : Below(inbox'[v][i].k, outbox'[v])
      BY <2>0, <2>1, <2>2, <3>1 DEF RisingAt
    <3>3. Below(shown[v].k, inbox'[v]) /\ Below(shown[v].k, outbox'[v])
      BY <1>2, <2>0, <2>1, <2>2, <3>1 DEF RisingAt
    <3>4. \A i \in 1..Len(inHand) : inHand[i].vehicle = v =>
            /\ shown[v].k <= inHand[i].k
            /\ Below(inHand[i].k, inbox'[v]) /\ Below(inHand[i].k, outbox'[v])
      BY <2>0, <2>1, <2>2, <3>1 DEF RisingAt
    <3> QED
      BY <1>1, <2>2, <3>1, <3>2, <3>3, <3>4 DEF RisingAt
  <2> QED
    BY <1>7, <2>3, <2>4
<1>13. \A u \in Vehicles \ {v} : lang[u] # "c" => RisingAt(u)'
  BY <1>0, <1>1, <1>6 DEF Rising, RisingAt
<1> QED
  BY <1>1, <1>9, <1>10, <1>11, <1>12, <1>13 DEF Rising

(* What the handler is given comes after what it showed.                        *)
LEMMA ConsumerKeepsOrder ==
  ASSUME OrderInv, Consumer
  PROVE  /\ Own' /\ OneAtATime' /\ OneInHand' /\ Rising'
         /\ \A v \in Vehicles : lang[v] # "c" => shown'[v].k >= shown[v].k
<1>0. IndInv /\ TypeOK /\ Own /\ OneInHand /\ Rising /\ OneAtATime
  BY DEF OrderInv, IndInv
<1>1. UNCHANGED <<lang, reader, program, outbox, taken>>
  BY DEF Consumer, Attach, Subscribe, Report, ParseThrows, Yield, Resume, MapLinkLost,
         MapLinkReturns, vehicleVars
<1>2. /\ outbox \in [Vehicles -> Seq(Message)] /\ inbox \in [Vehicles -> Seq(Message)]
      /\ inHand \in Seq(Message) /\ shown \in [Vehicles -> [k : Nat, at : Int \X Int]]
      /\ \A u \in Vehicles : shown[u].k \in Nat
  BY <1>0, SMT DEF TypeOK, VehicleTypeOK, MapTypeOK
<1>3. OneAtATime'
  BY <1>0, <1>1 DEF OneAtATime
<1>4. \A i : i \notin 1..0
  BY SMT
<1>5. Len(<<>>) = 0
  BY SMT
<1>6. CASE Attach \/ Subscribe \/ MapLinkReturns
  <2>1. UNCHANGED <<inbox, inHand, shown>> /\ (attached => attached')
    BY <1>6 DEF Attach, Subscribe, MapLinkReturns
  <2>2. OneInHand'
    BY <1>0, <1>1, <2>1 DEF OneInHand
  <2>3. Own' /\ Rising'
    BY <1>0, <1>1, <2>1 DEF Own, Rising, RisingAt
  <2>4. \A v \in Vehicles : shown'[v].k >= shown[v].k
    BY <1>2, <2>1, SMT
  <2> QED
    BY <1>3, <2>2, <2>3, <2>4
<1>7. CASE MapLinkLost \/ \E v \in Vehicles : ParseThrows(v)
  <2>1. UNCHANGED <<inHand, shown, attached>> /\ \A v \in Vehicles : inbox'[v] = <<>>
    BY <1>7 DEF MapLinkLost, ParseThrows
  <2>2. OneInHand'
    BY <1>0, <1>1, <2>1 DEF OneInHand
  <2>3. Own'
    BY <1>0, <1>1, <1>4, <1>5, <2>1 DEF Own
  <2>4. Rising'
    BY <1>0, <1>1, <1>4, <1>5, <2>1, NothingOutOfOrder DEF Rising, RisingAt
  <2>5. \A v \in Vehicles : shown'[v].k >= shown[v].k
    BY <1>2, <2>1, SMT
  <2> QED
    BY <1>3, <2>2, <2>3, <2>4, <2>5
<1>8. ASSUME NEW v \in Vehicles, inbox[v] # <<>>, inbox' = [inbox EXCEPT ![v] = Tail(@)]
      PROVE  /\ Own'
             /\ \A u \in Vehicles \ {v} : inbox'[u] = inbox[u]
             /\ inbox'[v] = Tail(inbox[v])
             /\ Head(inbox[v]) \in Message /\ Head(inbox[v]).vehicle = v
             /\ Head(inbox[v]).k \in Nat
             /\ \A n \in Nat : Below(n, inbox[v]) => n <= Head(inbox[v]).k /\ Below(n, inbox'[v])
             /\ RisingAt(v) => /\ Sorted(inbox'[v])
                               /\ Below(Head(inbox[v]).k, inbox'[v])
                               /\ Below(Head(inbox[v]).k, outbox[v])
                               /\ \A i \in 1..Len(inbox'[v]) : Below(inbox'[v][i].k, outbox[v])
  <2>1. inbox'[v] = Tail(inbox[v]) /\ inbox[v] \in Seq(Message)
    BY <1>2, <1>8
  <2>2. \A u \in Vehicles \ {v} : inbox'[u] = inbox[u]
    BY <1>2, <1>8
  <2>3. /\ Len(inbox[v]) >= 1 /\ Head(inbox[v]) = inbox[v][1]
        /\ \A i \in 1..Len(inbox'[v]) : i + 1 \in 1..Len(inbox[v]) /\ inbox'[v][i] = inbox[v][i + 1]
        /\ Sorted(inbox[v]) => Sorted(inbox'[v]) /\ Below(Head(inbox[v]).k, inbox'[v])
        /\ \A n \in Nat : Below(n, inbox[v]) => n <= Head(inbox[v]).k /\ Below(n, inbox'[v])
    BY <1>8, <2>1, TailInOrder
  <2>4. 1 \in 1..Len(inbox[v])
    BY <2>1, <2>3, SMT
  <2>5. /\ Head(inbox[v]) \in Message /\ Head(inbox[v]).vehicle = v
        /\ Head(inbox[v]).k \in Nat
    BY <1>0, <2>1, <2>3, <2>4, Numbered DEF Own
  <2>6. Own'
    BY <1>0, <1>1, <2>2, <2>3 DEF Own
  <2>7. RisingAt(v) => /\ Below(Head(inbox[v]).k, outbox[v])
                       /\ \A i \in 1..Len(inbox'[v]) : Below(inbox'[v][i].k, outbox[v])
    BY <2>3, <2>4 DEF RisingAt
  <2> QED
    BY <2>1, <2>2, <2>3, <2>5, <2>6, <2>7 DEF RisingAt
<1>9. ASSUME NEW m \in Message, Show(m)
      PROVE  /\ \A u \in Vehicles : u # m.vehicle => shown'[u] = shown[u]
             /\ m.vehicle \in Vehicles
             /\ shown'[m.vehicle] = shown[m.vehicle] \/ (attached /\ shown'[m.vehicle].k = m.k)
  <2>1. m.vehicle \in Vehicles
    BY SMT DEF Message
  <2> DEFINE new == [k |-> m.k, at |-> PositionIn(reader, m.text)]
  <2>2. \/ shown' = shown
        \/ attached /\ shown' = [shown EXCEPT ![m.vehicle] = new]
    BY <1>9, Zenon DEF Show
  <2>3. new.k = m.k
    OBVIOUS
  <2> HIDE DEF new
  <2> QED
    BY <1>2, <2>1, <2>2, <2>3
<1>10. ASSUME NEW v \in Vehicles, Report(v)
       PROVE  /\ Own' /\ OneInHand' /\ Rising'
              /\ \A u \in Vehicles : lang[u] # "c" => shown'[u].k >= shown[u].k
  <2> DEFINE m == Head(inbox[v])
  <2>1. /\ inbox[v] # <<>> /\ inbox' = [inbox EXCEPT ![v] = Tail(@)] /\ Show(m)
        /\ UNCHANGED <<inHand, attached>> /\ (attached => reader # "dotnet")
    BY <1>10 DEF Report
  <2>2. OneInHand'
    BY <1>0, <1>1, <2>1 DEF OneInHand
  <2>3. /\ m \in Message /\ m.vehicle = v /\ m.k \in Nat /\ inbox'[v] = Tail(inbox[v])
        /\ Own' /\ \A u \in Vehicles \ {v} : inbox'[u] = inbox[u]
        /\ \A n \in Nat : Below(n, inbox[v]) => n <= m.k /\ Below(n, inbox'[v])
        /\ RisingAt(v) => /\ Sorted(inbox'[v]) /\ Below(m.k, inbox'[v]) /\ Below(m.k, outbox[v])
                          /\ \A i \in 1..Len(inbox'[v]) : Below(inbox'[v][i].k, outbox[v])
    BY <1>8, <2>1
  <2>4. /\ \A u \in Vehicles \ {v} : shown'[u] = shown[u]
        /\ shown'[v] = shown[v] \/ (attached /\ shown'[v].k = m.k)
    BY <1>9, <2>1, <2>3
  <2>5. attached => inHand = <<>>
    BY <1>0, <2>1 DEF OneInHand
  <2> HIDE DEF m
  <2>6. \A i \in 1..Len(inHand) : inHand[i].k \in Nat
    BY <1>2, Numbered
  <2>7. ASSUME NEW u \in Vehicles, lang[u] # "c"
        PROVE  RisingAt(u)' /\ shown'[u].k >= shown[u].k
    <3>0. RisingAt(u)
      BY <1>0, <2>7 DEF Rising
    <3>1. CASE u # v
      <4>1. shown[u].k >= shown[u].k
        BY <1>2, SMT
      <4> QED
        BY <1>1, <2>1, <2>3, <2>4, <3>0, <3>1, <4>1 DEF RisingAt
    <3>2. CASE u = v /\ shown'[v] = shown[v]
      <4>1. shown[u].k >= shown[u].k
        BY <1>2, SMT
      <4> QED
        BY <1>1, <1>2, <2>1, <2>3, <2>6, <3>0, <3>2, <4>1 DEF RisingAt
    <3>3. CASE u = v /\ attached /\ shown'[v].k = m.k
      <4>1. shown[v].k <= m.k
        BY <1>2, <2>3, <3>0, <3>3 DEF RisingAt
      <4>2. Len(inHand) = 0
        BY <1>5, <2>5, <3>3
      <4>3. RisingAt(v)'
        BY <1>1, <1>4, <2>1, <2>3, <3>0, <3>3, <4>2 DEF RisingAt
      <4> QED
        BY <3>3, <4>1, <4>3
    <3> QED
      BY <2>4, <3>1, <3>2, <3>3
  <2> QED
    BY <1>1, <2>2, <2>3, <2>7 DEF Rising
<1>11. ASSUME NEW v \in Vehicles, Yield(v)
       PROVE  /\ Own' /\ OneInHand' /\ Rising'
              /\ \A u \in Vehicles : lang[u] # "c" => shown'[u].k >= shown[u].k
  <2> DEFINE m == Head(inbox[v])
  <2>1. /\ inbox[v] # <<>> /\ inbox' = [inbox EXCEPT ![v] = Tail(@)]
        /\ inHand' = <<m>> /\ attached /\ reader = "dotnet" /\ UNCHANGED <<shown, attached>>
    BY <1>11 DEF Yield
  <2>2. /\ m \in Message /\ m.vehicle = v /\ m.k \in Nat /\ inbox'[v] = Tail(inbox[v])
        /\ Own' /\ \A u \in Vehicles \ {v} : inbox'[u] = inbox[u]
        /\ \A n \in Nat : Below(n, inbox[v]) => n <= m.k /\ Below(n, inbox'[v])
        /\ RisingAt(v) => /\ Sorted(inbox'[v]) /\ Below(m.k, inbox'[v]) /\ Below(m.k, outbox[v])
                          /\ \A i \in 1..Len(inbox'[v]) : Below(inbox'[v][i].k, outbox[v])
    BY <1>8, <2>1
  <2> HIDE DEF m
  <2>3. Len(inHand') = 1 /\ inHand'[1] = m /\ \A i \in 1..Len(inHand') : inHand'[i] = m
    BY <2>1, SMT
  <2>4. OneInHand'
    BY <1>1, <2>1, <2>3, SMT DEF OneInHand
  <2>5. ASSUME NEW u \in Vehicles, lang[u] # "c" PROVE RisingAt(u)'
    <3>0. RisingAt(u)
      BY <1>0, <2>5 DEF Rising
    <3>1. CASE u # v
      BY <1>1, <2>1, <2>2, <2>3, <3>0, <3>1 DEF RisingAt
    <3>2. CASE u = v
      BY <1>1, <1>2, <2>1, <2>2, <2>3, <3>0, <3>2 DEF RisingAt
    <3> QED
      BY <3>1, <3>2
  <2>6. \A u \in Vehicles : shown'[u].k >= shown[u].k
    BY <1>2, <2>1, SMT
  <2> QED
    BY <1>1, <2>2, <2>4, <2>5, <2>6 DEF Rising
<1>12. CASE Resume
  <2> DEFINE m == Head(inHand)
  <2>1. inHand # <<>> /\ Show(m) /\ inHand' = Tail(inHand) /\ UNCHANGED <<attached, inbox>>
    BY <1>12 DEF Resume
  <2>2. Len(inHand) = 1 /\ Len(inHand') = 0 /\ m = inHand[1]
    <3>1. Len(inHand) >= 1 /\ m = inHand[1] /\ Len(inHand') = Len(inHand) - 1
      BY <1>2, <2>1, TailInOrder
    <3>2. Len(inHand) <= 1 /\ Len(inHand) \in Nat
      BY <1>0, <1>2, SMT DEF OneInHand
    <3> QED
      BY <3>1, <3>2, SMT
  <2>3. m \in Message /\ m.k \in Nat
    <3>1. 1 \in 1..Len(inHand)
      BY <2>2, SMT
    <3> QED
      BY <1>2, <2>2, <3>1, Numbered
  <2>4. /\ m.vehicle \in Vehicles /\ \A u \in Vehicles : u # m.vehicle => shown'[u] = shown[u]
        /\ shown'[m.vehicle] = shown[m.vehicle] \/ shown'[m.vehicle].k = m.k
    BY <1>9, <2>1, <2>3
  <2>5. inHand' = <<>>
    <3>1. inHand' \in Seq(Message)
      BY <1>2, <2>1, HeadTailProperties
    <3> QED
      BY <2>2, <3>1, EmptySeq
  <2>6. OneInHand'
    BY <1>5, <2>5, SMT DEF OneInHand
  <2>7. 1 \in 1..Len(inHand)
    BY <2>2, SMT
  <2> HIDE DEF m
  <2>8. ASSUME NEW u \in Vehicles, lang[u] # "c"
        PROVE  RisingAt(u)' /\ shown'[u].k >= shown[u].k
    <3>0. RisingAt(u)
      BY <1>0, <2>8 DEF Rising
    <3>1. CASE shown'[u] = shown[u]
      <4>1. shown[u].k >= shown[u].k
        BY <1>2, SMT
      <4> QED
        BY <1>1, <1>4, <2>1, <2>2, <3>0, <3>1, <4>1 DEF RisingAt
    <3>2. CASE u = m.vehicle /\ shown'[u].k = m.k
      <4>1. shown[u].k <= m.k /\ Below(m.k, inbox[u]) /\ Below(m.k, outbox[u])
        BY <2>2, <2>7, <3>0, <3>2 DEF RisingAt
      <4> QED
        BY <1>1, <1>4, <2>1, <2>2, <3>0, <3>2, <4>1, ZenonT(60) DEF RisingAt
    <3> QED
      BY <2>4, <3>1, <3>2
  <2>9. Own'
    BY <1>0, <1>1, <2>1 DEF Own
  <2> QED
    BY <1>1, <1>3, <2>6, <2>8, <2>9 DEF Rising
<1> QED
  BY <1>3, <1>6, <1>7, <1>10, <1>11, <1>12 DEF Consumer

LEMMA OrderStep ==
  OrderInv /\ [Next]_vars =>
    OrderInv' /\ \A v \in Vehicles : lang[v] # "c" => shown'[v].k >= shown[v].k
<1> SUFFICES ASSUME OrderInv, [Next]_vars
             PROVE  OrderInv' /\ \A v \in Vehicles : lang[v] # "c" => shown'[v].k >= shown[v].k
  OBVIOUS
<1>0. IndInv /\ IndInv' /\ Own /\ OneAtATime /\ OneInHand /\ Rising
  BY StepKeeps DEF OrderInv
<1>1. \A v \in Vehicles : shown[v].k \in Nat
  BY <1>0, SMT DEF IndInv, TypeOK, MapTypeOK
<1>2. ASSUME UNCHANGED shown PROVE \A v \in Vehicles : shown'[v].k >= shown[v].k
  BY <1>1, <1>2, SMT
<1>3. ASSUME NEW v \in Vehicles, Vehicle(v) \/ BrokerTakes(v)
      PROVE  OrderInv' /\ \A u \in Vehicles : shown'[u].k >= shown[u].k
  <2>1. UNCHANGED shown
    BY <1>3 DEF Vehicle, CSend, CPublishFails, AwaitedSend, PythonSend, Acknowledged, End, LinkLost,
         LinkReturns, BrokerTakes, mapVars
  <2> QED
    BY <1>0, <1>2, <1>3, <2>1, VehicleKeepsOrder, VehicleKeepsPace, BrokerKeepsOrder DEF OrderInv
<1>4. CASE Consumer
  BY <1>0, <1>4, ConsumerKeepsOrder DEF OrderInv
<1>5. CASE UNCHANGED vars
  <2>1. UNCHANGED <<lang, reader, inbox, outbox, taken, program, inHand, shown, attached>>
    BY <1>5 DEF vars, vehicleVars, mapVars
  <2> QED
    BY <1>0, <1>2, <2>1 DEF OrderInv, Own, OneAtATime, OneInHand, Rising, RisingAt
<1> QED
  BY <1>3, <1>4, <1>5 DEF Next

(* The map never takes a vehicle of Python, TypeScript or .NET back to an earlier   *)
(* position, for every number of vehicles, messages and lost connections: what a    *)
(* client sends again after a reconnection is the one message its program waits    *)
(* for.                                                                      *)
THEOREM MapNeverGoesBack == Spec => NeverBack
<1>1. Init => OrderInv
  BY InitHolds, InitIsTrue, InitIsOrdered DEF OrderInv, IndInv
<1>2. OrderInv /\ [Next]_vars =>
        OrderInv' /\ [\A v \in Vehicles : lang[v] # "c" => shown'[v].k >= shown[v].k]_vars
  BY OrderStep
<1> QED
  BY <1>1, <1>2, PTL DEF Spec, NeverBack
=============================================================================
