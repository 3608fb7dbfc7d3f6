--------------------------- MODULE CommandBroker ---------------------------
(***************************************************************************)
(* The MQTT broker and the MQTT client libraries, as the command scenario   *)
(* uses them.  None of this is code of the repository: it is the external   *)
(* environment, described by what the samples rely on.                      *)
(*                                                                         *)
(* Every command client of a vehicle publishes to one request topic and     *)
(* subscribes to one response topic (vehicles/vehicle03/command/unlock/...),*)
(* so a response is delivered to every subscribed client, whoever asked.    *)
(*                                                                         *)
(* A correlation id is a fresh GUID per call; here it is the pair of the    *)
(* client and the number of the call, which is all a property can tell.     *)
(***************************************************************************)
EXTENDS Naturals, Sequences, FiniteSets

CONSTANTS
  Clients,    \* the command clients (processes) sharing the response topic
  MaxCalls,   \* bound: calls one client makes
  MaxDup,     \* bound: QoS 1 redeliveries in a behaviour
  Lossy       \* may messages be lost (QoS 0, clean session while offline)?

ASSUME BrokerAssumption ==
  /\ MaxCalls \in Nat \ {0}
  /\ MaxDup \in Nat
  /\ Lossy \in BOOLEAN

VARIABLES
  requests,   \* requests delivered to the command server, not yet handled
  responses,  \* per client: messages of the response topic, not yet handled
  subscribed, \* clients subscribed to the response topic
  dups        \* redeliveries so far

brokerVars == <<requests, responses, subscribed, dups>>

Calls  == Clients \X (1..MaxCalls)
NoId   == <<"no-correlation-data", 0>>   \* the property is missing
NullId == <<"null-uuid", 0>>             \* sixteen zero bytes
Ids    == Calls \cup {NoId, NullId}

ContentTypes == {"protobuf", "none"}

(* What the payload decodes to: an unlock request, the Python sample's       *)
(* literal "placeholder" (bytes that parse as a message with no known        *)
(* field), or bytes that do not parse.                                       *)
RequestPayloads == {"unlock", "placeholder", "junk"}

Request == [id: Ids, ctype: ContentTypes, payload: RequestPayloads, reply: BOOLEAN]

ResponseBodies == {"success", "failure", "placeholder", "text"}
Statuses       == {"200", "500", "none"}

Response == [id: Ids, ctype: ContentTypes, status: Statuses, body: ResponseBodies]

BrokerTypeOK ==
  /\ requests \in Seq(Request)
  /\ responses \in [Clients -> Seq(Response)]
  /\ subscribed \in SUBSET Clients
  /\ dups \in 0..MaxDup

BrokerInit ==
  /\ requests = <<>>
  /\ responses = [c \in Clients |-> <<>>]
  /\ subscribed = {}
  /\ dups = 0

(* The response topic: every subscriber gets a copy.                        *)
FanOut(r) ==
  [c \in Clients |-> IF c \in subscribed THEN Append(responses[c], r) ELSE responses[c]]

LoseRequest ==
  /\ Lossy
  /\ requests # <<>>
  /\ requests' = Tail(requests)
  /\ UNCHANGED <<responses, subscribed, dups>>

LoseResponse(c) ==
  /\ Lossy
  /\ responses[c] # <<>>
  /\ responses' = [responses EXCEPT ![c] = Tail(@)]
  /\ UNCHANGED <<requests, subscribed, dups>>

(* A PUBLISH whose PUBACK was lost is sent again after the reconnection,     *)
(* behind what was already in flight.                                       *)
RedeliverRequest ==
  /\ dups < MaxDup
  /\ requests # <<>>
  /\ requests' = Append(requests, Head(requests))
  /\ dups' = dups + 1
  /\ UNCHANGED <<responses, subscribed>>

RedeliverResponse(c) ==
  /\ dups < MaxDup
  /\ responses[c] # <<>>
  /\ responses' = [responses EXCEPT ![c] = Append(@, Head(@))]
  /\ dups' = dups + 1
  /\ UNCHANGED <<requests, subscribed>>
=============================================================================
