----------------------------- MODULE Telemetry -----------------------------
(***************************************************************************)
(* The telemetry scenario: vehicles publish their positions on a topic each,    *)
(* and one consumer shows them on a map.  Vehicles and map may be of any of     *)
(* the four languages; the model starts with every program connected (CSample,   *)
(* PySample and AppSample are about how they get there).                       *)
(*   C, TypeScript, .NET: QoS 1.  C publishes every 5 s whether or not the last  *)
(*   message was acknowledged; TypeScript and .NET wait for the PUBACK.           *)
(*   Python: QoS 0.                                                        *)
(* The clients of C and TypeScript keep what is not acknowledged and send it      *)
(* again after a reconnection; the one of .NET does not reconnect.               *)
(***************************************************************************)
EXTENDS GeoJson

CONSTANTS
  Vehicles,
  Fleets,     \* the languages of the vehicles a run considers
  Maps,       \* the languages of the consumer a run considers
  Positions,  \* the positions a run considers
  MaxSends,   \* bound: messages of a vehicle
  MaxLosses   \* bound: connections lost in a run

ASSUME TelemetryAssumption ==
  /\ Fleets \subseteq [Vehicles -> Languages]
  /\ Maps \subseteq Languages
  /\ Positions \subseteq Turn \X Turn
  /\ MaxSends \in Nat /\ MaxLosses \in Nat

VARIABLES
  lang,     \* per vehicle: its language
  reader,   \* the language of the consumer
  program,  \* per vehicle: "ready", "waiting" for its PUBACK, or "ended"
  payload,  \* per vehicle: the buffer of the C program
  sent,     \* history: the positions it published
  outbox,   \* per vehicle: messages its client holds
  taken,    \* how many of them the broker has taken over this connection
  link,     \* per vehicle: its connection stands
  mapLink,  \* the connection of the consumer stands
  attached, \* its message handler is attached
  asked,    \* it has subscribed at least once
  listening, \* the broker has its subscription, over this connection
  mapAlive, \* its process runs
  inbox,    \* per vehicle: messages on their way to the consumer
  inHand,   \* messages its handler has not reported yet
  shown,    \* per vehicle: the last position reported
  losses    \* connections lost

vehicleVars == <<program, payload, sent, outbox, taken, link>>
mapVars     == <<mapLink, attached, asked, listening, mapAlive, inHand, shown>>
vars == <<lang, reader, vehicleVars, mapVars, inbox, losses>>

Message == [vehicle : Vehicles, k : Nat, text : Texts]

VehicleTypeOK ==
  /\ program \in [Vehicles -> {"ready", "waiting", "ended"}]
  /\ payload \in [Vehicles -> [text : Texts, size : Nat, payload_length : Nat,
                               max_payload_length : Nat]]
  /\ sent \in [Vehicles -> Seq(Turn \X Turn)]
  /\ outbox \in [Vehicles -> Seq(Message)]
  /\ taken \in [Vehicles -> Nat]
  /\ \A v \in Vehicles : taken[v] <= Len(outbox[v])
  /\ link \in [Vehicles -> BOOLEAN]

MapTypeOK ==
  /\ mapLink \in BOOLEAN /\ attached \in BOOLEAN /\ asked \in BOOLEAN
  /\ listening \in BOOLEAN /\ mapAlive \in BOOLEAN
  /\ inHand \in Seq(Message)
  /\ shown \in [Vehicles -> [k : Nat, at : Int \X Int]]

TypeOK ==
  /\ lang \in [Vehicles -> Languages] /\ reader \in Languages
  /\ VehicleTypeOK /\ MapTypeOK
  /\ inbox \in [Vehicles -> Seq(Message)]
  /\ losses \in 0..MaxLosses

Resends == {"c", "ts"}      \* clients that send again what was not acknowledged
Waits   == {"ts", "dotnet"} \* programs that wait for the PUBACK

Init ==
  /\ lang \in Fleets /\ reader \in Maps
  /\ program = [v \in Vehicles |-> "ready"]
  /\ payload = [v \in Vehicles |-> IF lang[v] = "c" THEN PayloadInit(MAX_PAYLOAD_LENGTH)
                                                    ELSE PayloadDestroyed]
  /\ sent = [v \in Vehicles |-> <<>>]
  /\ outbox = [v \in Vehicles |-> <<>>] /\ inbox = [v \in Vehicles |-> <<>>]
  /\ taken = [v \in Vehicles |-> 0]
  /\ link = [v \in Vehicles |-> TRUE]
  /\ mapLink = TRUE /\ attached = (reader \in {"c", "python"})
  /\ asked = FALSE /\ listening = FALSE /\ mapAlive = TRUE
  /\ inHand = <<>>
  /\ shown = [v \in Vehicles |-> [k |-> 0, at |-> <<0, 0>>]]
  /\ losses = 0

-----------------------------------------------------------------------------
(* The vehicles.                                                            *)

(* The positions a program draws: C takes x and y from [-90, 90], TypeScript     *)
(* whole degrees, Python six decimals; the one of .NET does not move.           *)
Draws(language) ==
  IF language = "c" THEN Positions \cap (Quarter \X Quarter)
  ELSE IF language = "ts" THEN {p \in Positions : p[1] % Degree = 0 /\ p[2] % Degree = 0}
  ELSE IF language = "python" THEN {p \in Positions : p[1] % 10 = 0 /\ p[2] % 10 = 0}
  ELSE {<<518995230, -21241560>>}

Send(v, p, text) ==
  /\ sent' = [sent EXCEPT ![v] = Append(@, p)]
  /\ outbox' = [outbox EXCEPT ![v] =
                  Append(@, [vehicle |-> v, k |-> Len(sent[v]) + 1, text |-> text])]

Turns(v) == program[v] = "ready" /\ Len(sent[v]) < MaxSends

(* One turn of the C loop: the point is set, written to the buffer, published.   *)
(* A text that cannot be made or does not fit changes nothing, and no message goes *)
(* out: such a turn is a stutter.  The buffer is one thread's own, and is copied   *)
(* when it is published, so its writing is one step.                            *)
CWrite(v, p) ==
  /\ Turns(v) /\ lang[v] = "c"
  /\ p \in Draws("c")
  /\ Fits(p, payload[v])
  /\ payload' = [payload EXCEPT ![v] = Stored(p, @)]

CSend_BeforeWriting(v, p) ==
  /\ CWrite(v, p)
  /\ Send(v, p, Published(payload[v]))
  /\ UNCHANGED <<lang, reader, program, taken, link, mapVars, inbox, losses>>

CSend(v, p) ==
  /\ CWrite(v, p)
  /\ Send(v, p, Published(payload'[v]))
  /\ UNCHANGED <<lang, reader, program, taken, link, mapVars, inbox, losses>>

(* mosquitto_publish_v5 takes no message.                                     *)
CPublishFails(v, p) ==
  /\ CWrite(v, p)
  /\ UNCHANGED <<lang, reader, program, sent, outbox, taken, link, mapVars, inbox, losses>>

AwaitedSend_Unawaited(v, p) ==
  /\ Turns(v) /\ lang[v] \in Waits
  /\ p \in Draws(lang[v])
  /\ lang[v] = "dotnet" => link[v]
  /\ Send(v, p, Text(lang[v], p))
  /\ UNCHANGED <<lang, reader, program, payload, taken, link, mapVars, inbox, losses>>

(* publishAsync and PublishBinaryAsync are awaited.  A TypeScript client that    *)
(* is not connected keeps the message.                                       *)
AwaitedSend(v, p) ==
  /\ Turns(v) /\ lang[v] \in Waits
  /\ p \in Draws(lang[v])
  /\ lang[v] = "dotnet" => link[v]
  /\ Send(v, p, Text(lang[v], p))
  /\ program' = [program EXCEPT ![v] = "waiting"]
  /\ UNCHANGED <<lang, reader, payload, taken, link, mapVars, inbox, losses>>

(* publish() at QoS 0 sends at once or not at all; its result is not read.      *)
PythonSend(v, p) ==
  /\ Turns(v) /\ lang[v] = "python"
  /\ p \in Draws("python")
  /\ link[v]
  /\ Send(v, p, PythonText(p))
  /\ UNCHANGED <<lang, reader, program, payload, taken, link, mapVars, inbox, losses>>

(* The PUBACK of the oldest message.                                          *)
Acknowledged(v) ==
  /\ link[v] /\ taken[v] > 0
  /\ outbox' = [outbox EXCEPT ![v] = Tail(@)]
  /\ taken' = [taken EXCEPT ![v] = @ - 1]
  /\ program' = [program EXCEPT ![v] = IF @ = "waiting" THEN "ready" ELSE @]
  /\ UNCHANGED <<lang, reader, payload, sent, link, mapVars, inbox, losses>>

(* The program ends: Ctrl-C, or the exception that the publish of .NET throws    *)
(* when its connection is gone.                                              *)
End(v) ==
  /\ program[v] # "ended"
  /\ program' = [program EXCEPT ![v] = "ended"]
  /\ payload' = [payload EXCEPT ![v] = PayloadDestroyed]
  /\ outbox' = [outbox EXCEPT ![v] = <<>>]
  /\ taken' = [taken EXCEPT ![v] = 0]
  /\ link' = [link EXCEPT ![v] = FALSE]
  /\ UNCHANGED <<lang, reader, sent, mapVars, inbox, losses>>

LinkLost(v) ==
  /\ link[v] /\ losses < MaxLosses
  /\ losses' = losses + 1
  /\ link' = [link EXCEPT ![v] = FALSE]
  /\ taken' = [taken EXCEPT ![v] = 0]
  /\ outbox' = [outbox EXCEPT ![v] = IF lang[v] = "python" THEN <<>> ELSE @]
  /\ UNCHANGED <<lang, reader, program, payload, sent, mapVars, inbox>>

(* libmosquitto, MQTT.js and paho connect again by themselves.                 *)
LinkReturns(v) ==
  /\ ~link[v] /\ program[v] # "ended"
  /\ lang[v] # "dotnet"
  /\ link' = [link EXCEPT ![v] = TRUE]
  /\ UNCHANGED <<lang, reader, program, payload, sent, outbox, taken, mapVars, inbox, losses>>

Vehicle(v) ==
  \/ \E p \in Positions \cup Draws("dotnet") :
       CSend(v, p) \/ CPublishFails(v, p) \/ AwaitedSend(v, p) \/ PythonSend(v, p)
  \/ Acknowledged(v) \/ End(v) \/ LinkLost(v) \/ LinkReturns(v)

-----------------------------------------------------------------------------
(* The broker takes the next message of a vehicle and passes it to the consumer   *)
(* if that one is subscribed.  It keeps the order of a topic.                   *)
BrokerTakes(v) ==
  /\ link[v] /\ taken[v] < Len(outbox[v])
  /\ inbox' = [inbox EXCEPT ![v] = IF listening THEN Append(@, outbox[v][taken[v] + 1]) ELSE @]
  /\ IF lang[v] = "python"
     THEN outbox' = [outbox EXCEPT ![v] = Tail(@)] /\ UNCHANGED taken
     ELSE taken' = [taken EXCEPT ![v] = @ + 1] /\ UNCHANGED outbox
  /\ UNCHANGED <<lang, reader, program, payload, sent, link, mapVars, losses>>

-----------------------------------------------------------------------------
(* The consumer.                                                            *)

(* StartAsync of .NET and TypeScript attaches the handler first.                *)
Attach ==
  /\ mapAlive /\ ~attached
  /\ attached' = TRUE
  /\ UNCHANGED <<lang, reader, vehicleVars, mapLink, asked, listening, mapAlive, inHand, shown,
                 inbox, losses>>

Subscribe_BeforeAttaching ==
  /\ mapAlive /\ mapLink /\ ~listening
  /\ asked => reader \in {"c", "ts"}
  /\ listening' = TRUE /\ asked' = TRUE
  /\ UNCHANGED <<lang, reader, vehicleVars, mapLink, attached, mapAlive, inHand, shown, inbox,
                 losses>>

(* C subscribes on every connection; MQTT.js does so for the program; the others *)
(* subscribe once.                                                          *)
Subscribe ==
  /\ mapAlive /\ mapLink /\ attached /\ ~listening
  /\ asked => reader \in {"c", "ts"}
  /\ listening' = TRUE /\ asked' = TRUE
  /\ UNCHANGED <<lang, reader, vehicleVars, mapLink, attached, mapAlive, inHand, shown, inbox,
                 losses>>

Show(m) ==
  shown' = IF attached /\ Readable(reader, m.text)
           THEN [shown EXCEPT ![m.vehicle] = [k |-> m.k, at |-> PositionIn(reader, m.text)]]
           ELSE shown

(* A handler that reports at once: C logs a text it cannot read, Python prints    *)
(* any.  A message that finds no handler is dropped.                           *)
Report(v) ==
  /\ mapAlive /\ mapLink /\ inbox[v] # <<>>
  /\ attached => reader # "dotnet"
  /\ attached /\ reader = "ts" => Readable("ts", Head(inbox[v]).text)
  /\ inbox' = [inbox EXCEPT ![v] = Tail(@)]
  /\ Show(Head(inbox[v]))
  /\ UNCHANGED <<lang, reader, vehicleVars, mapLink, attached, asked, listening, mapAlive,
                 inHand, losses>>

(* JSON.parse throws in the listener of MQTT.js, and nothing catches it.         *)
ParseThrows(v) ==
  /\ mapAlive /\ mapLink /\ inbox[v] # <<>>
  /\ attached /\ reader = "ts"
  /\ ~Readable("ts", Head(inbox[v]).text)
  /\ mapAlive' = FALSE /\ mapLink' = FALSE /\ listening' = FALSE
  /\ inbox' = [u \in Vehicles |-> <<>>]
  /\ UNCHANGED <<lang, reader, vehicleVars, attached, asked, inHand, shown, losses>>

(* The handler of .NET yields before it reads the message; MQTTnet awaits it      *)
(* before it takes the next one, and logs what it throws.                       *)
Yield(v) ==
  /\ mapAlive /\ mapLink /\ inbox[v] # <<>>
  /\ attached /\ reader = "dotnet" /\ inHand = <<>>
  /\ inbox' = [inbox EXCEPT ![v] = Tail(@)]
  /\ inHand' = <<Head(inbox[v])>>
  /\ UNCHANGED <<lang, reader, vehicleVars, mapLink, attached, asked, listening, mapAlive,
                 shown, losses>>

Resume ==
  /\ mapAlive /\ inHand # <<>>
  /\ Show(Head(inHand))
  /\ inHand' = Tail(inHand)
  /\ UNCHANGED <<lang, reader, vehicleVars, mapLink, attached, asked, listening, mapAlive,
                 inbox, losses>>

(* The session is clean: what was on its way is lost with the connection.       *)
MapLinkLost ==
  /\ mapLink /\ losses < MaxLosses
  /\ losses' = losses + 1
  /\ mapLink' = FALSE /\ listening' = FALSE
  /\ inbox' = [v \in Vehicles |-> <<>>]
  /\ UNCHANGED <<lang, reader, vehicleVars, attached, asked, mapAlive, inHand, shown>>

MapLinkReturns ==
  /\ mapAlive /\ ~mapLink
  /\ reader # "dotnet"
  /\ mapLink' = TRUE
  /\ UNCHANGED <<lang, reader, vehicleVars, attached, asked, listening, mapAlive, inHand, shown,
                 inbox, losses>>

Consumer ==
  \/ Attach \/ Subscribe \/ Resume \/ MapLinkLost \/ MapLinkReturns
  \/ \E v \in Vehicles : Report(v) \/ ParseThrows(v) \/ Yield(v)

Next == Consumer \/ \E v \in Vehicles : Vehicle(v) \/ BrokerTakes(v)

Spec == Init /\ [][Next]_vars

(* Callbacks and continuations are scheduled; a connection that stands carries    *)
(* what is sent over it, and a client that reconnects succeeds in the end.         *)
(* Nothing makes a program send, or a user stop it.                            *)
Fairness ==
  /\ \A v \in Vehicles :
       /\ WF_vars(BrokerTakes(v)) /\ WF_vars(LinkReturns(v))
       /\ WF_vars(Report(v)) /\ WF_vars(ParseThrows(v)) /\ SF_vars(Yield(v))
  /\ WF_vars(Resume)

FairSpec == Spec /\ Fairness

-----------------------------------------------------------------------------
Near(a, b) == a - b \in -5..5

(* What the map shows of a vehicle is a position that this vehicle published,     *)
(* to half a micro-degree: never that of another vehicle, or of another turn of    *)
(* the loop.  The axes are exchanged between .NET, which writes longitude first as  *)
(* GeoJSON does, and the others, which do not.                                *)
ReportsAreTrue ==
  \A v \in Vehicles :
    shown[v].k > 0 =>
      /\ shown[v].k <= Len(sent[v])
      /\ LET p == sent[v][shown[v].k]
             q == shown[v].at
         IN  IF lang[v] = "dotnet" <=> reader = "dotnet"
             THEN Near(q[1], p[1]) /\ Near(q[2], p[2])
             ELSE Near(q[1], p[2]) /\ Near(q[2], p[1])

(* geo_json_handler.c:152-159: the check lets a text of exactly the maximum      *)
(* through, and strcpy adds its terminator.  No position the program draws makes *)
(* a text that long.                                                        *)
BufferHolds ==
  \A v \in Vehicles : payload[v].size <= payload[v].max_payload_length

(* A vehicle whose program waits for its PUBACK, or sends at QoS 0, never jumps    *)
(* back to an earlier position, whatever is sent again and whichever connection   *)
(* is lost.  (C has several messages in flight, and may.)                       *)
NeverBack ==
  [][\A v \in Vehicles : lang[v] # "c" => shown'[v].k >= shown[v].k]_vars

(* A position that a client which sends again still has to hand to the broker is   *)
(* shown, however often the connection of the vehicle is lost: unless the vehicle *)
(* ends first, or the map is not subscribed, as after the loss of its own        *)
(* connection or after a text that ended it.                                   *)
PositionsArrive ==
  \A v \in Vehicles, n \in 1..MaxSends :
    lang[v] \in Resends /\ (\E i \in taken[v] + 1 .. Len(outbox[v]) : outbox[v][i].k = n)
      ~> shown[v].k = n \/ ~listening \/ program[v] = "ended"
=============================================================================
