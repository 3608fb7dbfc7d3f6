------------------------ MODULE CommandServerSystem ------------------------
(***************************************************************************)
(* A command server facing arbitrary MQTT clients: every call is published   *)
(* once, in any of the request forms a run admits, and the responses are     *)
(* left in the inboxes.  The subject is what a server does with one request, *)
(* whatever its language, and what one bad request does to the others.       *)
(***************************************************************************)
EXTENDS CommandServer

CONSTANT RequestForms   \* records [ctype, payload, reply, corr] that may be published

VARIABLES
  published,   \* the requests published so far
  silent       \* history: executions whose handler published no response

systemVars == <<brokerVars, serverVars, published, silent>>

ASSUME FormsAssumption ==
  RequestForms \subseteq [ctype: ContentTypes, payload: RequestPayloads,
                          reply: BOOLEAN, corr: BOOLEAN]

SystemTypeOK ==
  /\ BrokerTypeOK
  /\ ServerTypeOK
  /\ published \subseteq [call: Calls, request: Request]
  /\ silent \in [Ids -> Nat]

SystemInit ==
  /\ BrokerInit
  /\ ServerInit
  /\ published = {}
  /\ silent = [i \in Ids |-> 0]

SystemSubscribe(c) ==
  /\ c \notin subscribed
  /\ subscribed' = subscribed \cup {c}
  /\ UNCHANGED <<requests, responses, dups, published, silent>>
  /\ UNCHANGED serverVars

SystemPublish(i, f) ==
  LET m == [id |-> IF f.corr THEN i ELSE NoId, ctype |-> f.ctype,
            payload |-> f.payload, reply |-> f.reply]
  IN /\ i[1] \in subscribed
     /\ \A p \in published : p.call # i
     /\ published' = published \cup {[call |-> i, request |-> m]}
     /\ requests' = Append(requests, m)
     /\ UNCHANGED <<responses, subscribed, dups, silent>>
     /\ UNCHANGED serverVars

(* A handler that executes and publishes nothing: the request names no response *)
(* topic, there is no memory, or the broker refuses.  Python's handler leaves   *)
(* the response to the pool.                                                 *)
CountSilent ==
  silent' = IF kind # "python" /\ UNCHANGED responses
              THEN [i \in Ids |-> silent[i] + (executed'[i] - executed[i])]
              ELSE silent

SystemNext ==
  \/ \E c \in Clients : SystemSubscribe(c)
  \/ \E i \in Calls, f \in RequestForms : SystemPublish(i, f)
  \/ BrokerNext /\ UNCHANGED <<published, silent>>
  \/ ServerNext /\ CountSilent /\ UNCHANGED published

SystemSpec == SystemInit /\ [][SystemNext]_systemVars

(* The network threads and event loops run, and a pool's workers finish.     *)
SystemFairness ==
  /\ WF_systemVars(Handle /\ CountSilent /\ UNCHANGED published)
  /\ WF_systemVars((\E i \in DOMAIN jobs : Finish(i)) /\ CountSilent /\ UNCHANGED published)

SystemFairSpec == SystemSpec /\ SystemFairness

-----------------------------------------------------------------------------
ResponsesTo(c, i) == {n \in DOMAIN responses[c] : responses[c][n].id = i}

Reported(c, i, status) ==
  \E n \in ResponsesTo(c, i) : responses[c][n].status = status

(* A caller is told of success at most as often as the command really ran,   *)
(* plus the copies the network made: no handler answers twice and no handler *)
(* answers for another request (Reply/jobs of the four servers).             *)
SuccessBacked ==
  \A c \in Clients, i \in Calls :
    Cardinality({n \in ResponsesTo(c, i) : responses[c][n].status # "500"
                                          /\ responses[c][n].body # "failure"})
      <= executed[i] + dups

(* scenarios/command/README.md:29: the status tells the client whether the   *)
(* execution was successful.  A 200 is only sent for a command that was        *)
(* executed.  A 500 never goes with a 200, and is sent for an executed command *)
(* only where its response was refused: the catch block of the TypeScript      *)
(* server (commandServer.ts:58) answers then, too.                            *)
StatusTellsOutcome ==
  \A c \in Clients, i \in Calls :
    /\ Reported(c, i, "200") => executed[i] > 0
    /\ Reported(c, i, "500") =>
         \/ dups > 0
         \/ ~Reported(c, i, "200") /\ (executed[i] = 0 \/ silent[i] > 0)

(* A request as the .NET, TypeScript and C clients write it.                 *)
WellFormed(m) == m.ctype = "protobuf" /\ m.payload = "unlock" /\ m.reply /\ m.id # NoId

(* The .NET server refuses a request without harm: its handler's exception     *)
(* stays inside MQTTnet.  A request that is not well formed may end the others. *)
Unharmed == kind = "dotnet" \/ \A p \in published : WellFormed(p.request)

(* The TypeScript and the C server publish at QoS 1: the broker may refuse, and *)
(* one response that did not leave may be the last (the second refusal of a     *)
(* TypeScript response ends the process).                                    *)
Silenced == kind \in {"ts", "c"} /\ \E i \in Calls : silent[i] > 0

(* Each well-formed request that is waiting is eventually answered in the      *)
(* caller's inbox, whichever server runs, however often it is redelivered and  *)
(* in whatever order a pool sends the responses: always by the .NET server,    *)
(* whatever is refused before it, by the others as long as all are well formed *)
(* and every response leaves.                                                *)
EveryRequestAnswered ==
  \A i \in Calls :
    Unharmed /\ (\E n \in DOMAIN requests : requests[n].id = i /\ WellFormed(requests[n]))
      ~> ResponsesTo(i[1], i) # {} \/ ~Unharmed \/ Silenced
=============================================================================
