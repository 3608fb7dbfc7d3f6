--------------------------- MODULE CommandServer ---------------------------
(***************************************************************************)
(* The command server of the four languages.  `kind' says which one runs;   *)
(* it never changes.  All of them take requests off one topic, execute the   *)
(* unlock and publish a response that carries the request's correlation      *)
(* data, but they differ in what they check, in what a bad request does to   *)
(* them and in when the response leaves:                                    *)
(*   dotnet  CommandServer.cs        one awaited handler, QoS 0 response      *)
(*   ts      commandServer.ts        async handler, a refused 200 becomes 500 *)
(*   c       command_server/main.c   one callback on the network thread       *)
(*   python  command_receiver.py     the response is a job of a thread pool   *)
(***************************************************************************)
EXTENDS CommandBroker, SequencesExt

CONSTANTS
  ServerKinds,       \* the servers a run starts, one per behaviour
  CallbackMayThrow,  \* may the application's OnCommandReceived throw?
  PublishMayFail,    \* may the broker refuse a QoS 1 publish (error PUBACK)?
  AllocMayFail,      \* may malloc fail in the C server?
  PoolSize           \* worker threads of the Python server's executor

ASSUME ServerAssumption ==
  /\ ServerKinds \subseteq {"dotnet", "ts", "c", "python"}
  /\ {CallbackMayThrow, PublishMayFail, AllocMayFail} \subseteq BOOLEAN
  /\ PoolSize \in Nat \ {0}

VARIABLES
  kind,      \* the language of the running server
  serverUp,  \* does the server process (Python: its network thread) live?
  executed,  \* how many times the unlock of an id was executed
  jobs       \* python: submitted responses; ts: executed, its 200 was refused

serverVars == <<kind, serverUp, executed, jobs>>

ServerTypeOK ==
  /\ kind \in ServerKinds
  /\ serverUp \in BOOLEAN
  /\ executed \in [Ids -> Nat]
  /\ jobs \in Seq(Request)

ServerInit ==
  /\ kind \in ServerKinds
  /\ serverUp = TRUE
  /\ executed = [i \in Ids |-> 0]
  /\ jobs = <<>>

SuccessOf_NoCorrelation(m) ==
  [id |-> NoId, ctype |-> "protobuf", status |-> "200", body |-> "success"]
ErrorOf_NoStatus(m) == [id |-> m.id, ctype |-> "none", status |-> "", body |-> "text"]
ErrorOf_Ok(m)       == [id |-> m.id, ctype |-> "none", status |-> "200", body |-> "text"]

SuccessOf(m) == [id |-> m.id, ctype |-> "protobuf", status |-> "200", body |-> "success"]
ErrorOf(m)   == [id |-> m.id, ctype |-> "none", status |-> "500", body |-> "text"]

(* Without a response topic the publish throws and nothing is sent.          *)
Reply(m, r) == IF m.reply THEN FanOut(r) ELSE responses

Execute(m) == executed' = [executed EXCEPT ![m.id] = @ + 1]

Without_Kept(i) == jobs
Without_Last(i) == RemoveAt(jobs, Len(jobs))
Without(i)      == RemoveAt(jobs, i)

(* The next request of the topic is handed to the server's handler.          *)
Takes(k) ==
  /\ kind = k
  /\ serverUp
  /\ requests # <<>>
  /\ requests' = Tail(requests)
  /\ UNCHANGED <<kind, subscribed, dups>>

(***************************************************************************)
(* .NET: ApplicationMessageReceivedAsync is awaited by MQTTnet message by   *)
(* message.  An exception that leaves the handler is logged by MQTTnet.      *)
(***************************************************************************)
DotnetAccepts(m) == m.ctype = "protobuf" /\ m.payload # "junk"

DotnetReject ==
  /\ Takes("dotnet")
  /\ ~DotnetAccepts(Head(requests))
  /\ UNCHANGED <<responses, serverUp, executed, jobs>>

DotnetRespond ==
  /\ Takes("dotnet")
  /\ DotnetAccepts(Head(requests))
  /\ Execute(Head(requests))
  /\ responses' = Reply(Head(requests), SuccessOf(Head(requests)))
  /\ UNCHANGED <<serverUp, jobs>>

DotnetRespondError ==
  /\ Takes("dotnet")
  /\ CallbackMayThrow
  /\ DotnetAccepts(Head(requests))
  /\ responses' = Reply(Head(requests), ErrorOf(Head(requests)))
  /\ UNCHANGED <<serverUp, executed, jobs>>

(***************************************************************************)
(* TypeScript: the handler runs up to the publish in one turn of the event   *)
(* loop.  A content type mismatch and an undecodable payload throw outside   *)
(* the try: an unhandled rejection, which ends the process.  When the        *)
(* awaited publish of the 200 rejects, the catch block publishes a 500       *)
(* although the command was executed.                                        *)
(***************************************************************************)
TsAccepts(m) == m.ctype = "protobuf" /\ m.payload # "junk"

TsReject ==
  /\ Takes("ts")
  /\ ~TsAccepts(Head(requests))
  /\ serverUp' = FALSE
  /\ UNCHANGED <<responses, executed, jobs>>

TsRespond ==
  /\ Takes("ts")
  /\ TsAccepts(Head(requests))
  /\ Execute(Head(requests))
  /\ \/ /\ responses' = Reply(Head(requests), SuccessOf(Head(requests)))
        /\ UNCHANGED jobs
     \/ /\ PublishMayFail
        /\ jobs' = Append(jobs, Head(requests))
        /\ UNCHANGED responses
  /\ UNCHANGED serverUp

TsCallbackThrows ==
  /\ Takes("ts")
  /\ CallbackMayThrow
  /\ TsAccepts(Head(requests))
  /\ responses' = Reply(Head(requests), ErrorOf(Head(requests)))
  /\ UNCHANGED <<serverUp, executed, jobs>>

(* The rejected await resumes in the catch block; a second refusal leaves    *)
(* the handler as an unhandled rejection.                                    *)
TsPublishError(i) ==
  /\ kind = "ts"
  /\ serverUp
  /\ i \in DOMAIN jobs
  /\ jobs' = Without(i)
  /\ \/ /\ responses' = Reply(jobs[i], ErrorOf(jobs[i]))
        /\ UNCHANGED serverUp
     \/ /\ serverUp' = FALSE
        /\ UNCHANGED responses
  /\ UNCHANGED <<requests, subscribed, dups, kind, executed>>

(***************************************************************************)
(* C: handle_message on libmosquitto's network thread.  It executes first    *)
(* and looks at the response topic and the correlation data afterwards; it   *)
(* never reads the content type and sets no status.  A message without the   *)
(* `when' field makes handle_unlock dereference a null pointer.              *)
(***************************************************************************)
CResponseOf(m) ==
  [id |-> m.id, ctype |-> "protobuf", status |-> "none",
   body |-> IF m.payload = "junk" THEN "failure" ELSE "success"]

CUnlock_Skip(m) == UNCHANGED executed
CUnlock(m) == IF m.payload = "junk" THEN UNCHANGED executed ELSE Execute(m)

CAnswerable_Swapped(m) == m.reply /\ m.id = NoId
CAnswerable(m) == m.reply /\ m.id # NoId

CCrash ==
  /\ Takes("c")
  /\ Head(requests).payload = "placeholder"
  /\ serverUp' = FALSE
  /\ UNCHANGED <<responses, executed, jobs>>

CRespond ==
  /\ Takes("c")
  /\ Head(requests).payload # "placeholder"
  /\ CAnswerable(Head(requests))
  /\ CUnlock(Head(requests))
  /\ responses' = FanOut(CResponseOf(Head(requests)))
  /\ UNCHANGED <<serverUp, jobs>>

CNoResponse ==
  /\ Takes("c")
  /\ Head(requests).payload # "placeholder"
  /\ \/ ~CAnswerable(Head(requests))
     \/ AllocMayFail
     \/ PublishMayFail
  /\ CUnlock(Head(requests))
  /\ UNCHANGED <<responses, serverUp, jobs>>

(***************************************************************************)
(* Python: on_unlock_command runs on paho's network thread and hands the     *)
(* response to a ThreadPoolExecutor.  A missing correlation data or response *)
(* topic is an AttributeError that ends the network thread; the pool cannot  *)
(* send anything after that.                                                 *)
(***************************************************************************)
PyResponseOf(m) == [id |-> m.id, ctype |-> "none", status |-> "none", body |-> "placeholder"]

PySubmit ==
  /\ Takes("python")
  /\ Head(requests).reply /\ Head(requests).id # NoId
  /\ Execute(Head(requests))
  /\ jobs' = Append(jobs, Head(requests))
  /\ UNCHANGED <<responses, serverUp>>

PyThreadDies ==
  /\ Takes("python")
  /\ ~(Head(requests).reply /\ Head(requests).id # NoId)
  /\ serverUp' = FALSE
  /\ UNCHANGED <<responses, executed, jobs>>

(* Any of the jobs that have a worker may publish next.                      *)
PyRespond(i) ==
  /\ kind = "python"
  /\ serverUp
  /\ i \in DOMAIN jobs /\ i <= PoolSize
  /\ responses' = FanOut(PyResponseOf(jobs[i]))
  /\ jobs' = Without(i)
  /\ UNCHANGED <<requests, subscribed, dups, kind, serverUp, executed>>

-----------------------------------------------------------------------------
(* A response is redelivered only where the server publishes it at QoS 1;    *)
(* the .NET server leaves the default, QoS 0.                                *)
BrokerNext ==
  /\ \/ LoseRequest
     \/ \E c \in Clients : LoseResponse(c)
     \/ RedeliverRequest
     \/ \E c \in Clients : kind # "dotnet" /\ RedeliverResponse(c)
  /\ UNCHANGED serverVars

Handle ==
  \/ DotnetReject \/ DotnetRespond \/ DotnetRespondError
  \/ TsReject \/ TsRespond \/ TsCallbackThrows
  \/ CCrash \/ CRespond \/ CNoResponse
  \/ PySubmit \/ PyThreadDies

Finish(i) == TsPublishError(i) \/ PyRespond(i)

ServerNext == Handle \/ \E i \in DOMAIN jobs : Finish(i)
=============================================================================
