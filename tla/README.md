# A TLA+ verification of the MQTT application samples

The repository is a set of MQTT samples in six languages: small client
libraries under `mqttclients/` and programs under `scenarios/` that use them
(getting started, telemetry, command, alert, JWT authentication). There is no
server of its own; every program talks to an MQTT broker through a third-party
client (MQTTnet, MQTT.js, libmosquitto, paho). What can go wrong lies between a
program's own thread, the thread or callbacks of its MQTT client, the broker, and
the other programs on the same topics. This directory models those interactions,
model-checks them with TLC and proves the results that matter most with TLAPS.

To repeat a check: `tlc -config <run>.cfg <MC module>`; a proof: `tlapm
<module>.tla`. `PROJECT.json` lists the runs, the mutants, the map from each
definition to the lines it models, the hazards, the findings and the theorems.

## 1. Inventory

| Component | State it keeps | Operations | Hard behaviour | What makes it correct |
|---|---|---|---|---|
| Command servers: `CommandServer.cs`, `commandServer.ts`, `command_server/main.c`, `command_receiver.py` | none, but a process (or network thread) that may end; Python: jobs of a thread pool | one request handler each | failing publishes and allocations, missing properties, redelivered requests, exceptions in a callback | a success is backed by an execution; a bad request neither executes nor kills; a good one is answered |
| .NET command client: `CommandClient.cs`, `TaskTimeoutExtension.cs`, the worker | correlation id, completion source | `InvokeAsync`, message handler, timeout | the handler and `InvokeAsync` share both fields across awaits | a call ends once, with its own response or a failure |
| TypeScript command client: `commandClient.ts`, `deferredPromise.ts` | correlation id, deferred promise | `invokeAsync`, listener, timeout | a promise created after the publish; a shared response topic | as above |
| Python invoker: `command_invoker.py`, `request_ledger.py` | ledger of futures, locked | send, callback, timeout | a callback that raises ends the network thread | as above |
| C command client: `command_client/main.c` | `pending_correlation_id`, time of the last command | polling loop, callback | two threads without a lock | one pending command; each accepted response is its own |
| Alert: `control_tower/`, `vehicle/`, `AlertConsumer.cs` | a persistent session at the broker | send, connect, attach, subscribe | a resumed session delivers before the handler exists; nothing reconnects | no alert is missed |
| Connection settings, six loaders | the process environment | load | conversions, defaults, precedence, a second load | the documented settings, or an error |
| Life of the C samples: `mqtt_setup.c`, `mqtt_callbacks.c`, five `main.c` | `keep_running` | set up, callbacks, tear down, Ctrl-C | main thread, network thread and signal handler | subscribed while connected; no callback after destroy; ends when asked |
| Life of the Python samples: five programs | condition flags | waits with timeouts, callbacks, Ctrl-C | stale flags, a dead network thread, refusals | a wait tells the truth and ends |
| Telemetry in four languages: producers, consumers, `geo_json_handler.c` | C: a reused payload buffer; the queue of unacknowledged messages in each client | draw, write, publish; receive, read, show | messages in flight over a lost connection, texts another language cannot read, a handler that yields | the map shows a position of that vehicle, in order, and comes to show it |
| TypeScript samples over `SampleMqttClient`; getting started in Go, Rust and .NET | a reference that becomes null; a cancelled context; a channel | start or fail to, connect, subscribe, publish, wait, end | Ctrl-C at any await; a client that reconnects or does not; a start that fails | ends when asked, and says success only then |
| JWT: `WithJWT.cs` and its program | a timer, the tasks it started, the token the broker knows | renew | renewals nobody awaits, a turn without a connection | the token outlives the session; a lost session ends the sample |
| TLS and X509 helpers, protobuf, tests and build files | none | | | not modelled: straight-line calls into libraries |

Interactions: the command clients of a vehicle share one request topic and one
response topic (`vehicles/vehicle03/command/unlock/...`), so every client sees
every response. Each server answers any client of any language that sends the
properties it reads; the Python invoker sends no content type and a placeholder
payload, so it works only with the Python server, and its placeholder ends the C
one. In the telemetry scenario every vehicle may be of another language than the
map, and the texts they write differ: .NET writes longitude first as the example in
`scenarios/telemetry/README.md:20` does, C, TypeScript and Python latitude first, and Python
writes no JSON document at all, only a position that a C consumer skips and that ends a
TypeScript one. All programs load their settings with the loader of their language. C and
Python programs share one process between a main thread and a network thread; the
.NET and TypeScript programs interleave at their awaits.

## 2. Modules

| Module | Models | Composes |
|---|---|---|
| `CommandBroker` | the topics of the command scenario: FIFO, loss, redelivery (external) | |
| `CommandServer` | the four servers, one `kind` per behaviour | `CommandBroker` |
| `CommandServerSystem` | a server with clients that publish requests of any form | `CommandServer` |
| `DotnetCommand`, `TsCommand`, `PyCommand`, `CCommand` | the clients of the four languages with any server | `CommandServer` |
| `CommandCall` | the abstract promise: a call ends once, and is answered only if it was performed; and what is left of it for clients that may mix up their answers | |
| `AlertFanOut` | control tower, broker sessions and vehicles | |
| `ConnectionSettings` | six loaders of `.env` file and environment | |
| `CSample` | the threads of the C programs | |
| `PySample` | the threads of the Python programs | |
| `GeoJson` | positions, the texts each language makes of them, the C payload buffer, what each reader reads | |
| `Telemetry` | vehicles, sessions, broker and map of the telemetry scenario | `GeoJson` |
| `JwtRenewal` | the renewal timer of `WithJWT.cs`, its tasks and the life of a token | |
| `AppSample` | the TypeScript telemetry and getting started programs, getting started in Go, Rust, .NET, and the .NET sample with a token | `JwtRenewal` |
| `*_proofs` | theorems about the module named; `CCommand_proofs` also about `CSample`, `CommandServer_proofs` about `CommandServerSystem`, `Sample_proofs` about `PySample`, `AppSample` and `ConnectionSettings` | those modules |
| `MC*` | instances for TLC | that module |

How state and actions correspond to the code, in short (`map` has every line):

- **Command messages** are records: correlation id, whether the content type is
  protobuf, what the payload decodes to, whether there is a response topic. A
  GUID is the pair of client and call number: a fresh one per call is all that
  matters. `executed` counts, per id, how often the unlock callback ran.
- **.NET client**: `Invoke`, `Subscribe`, `Publish`, `Install`, `Complete`,
  `TimeOut` are the stretches of `InvokeAsync` between its awaits; `Receive` and
  `SetResult` are the handler before and after the point where another thread may
  run (`CommandClient.cs` l.41 and l.48). `task[c][k]` is the completion source of
  call k. Two history variables serve the properties only: `straddled`, the calls begun while
  the handler held a checked response, and `spent`, on which source a response was spent. The .NET success response sets the user property `Status`, the error
  response `status` (`CommandServer.cs` l.48 and l.58); the model tells the value,
  not the spelling.
- **TypeScript client**: the same stretches; the listener reads the promise that is
  installed when it runs, and its checks only log. `seen` is a history variable.
- **Servers**: `silent` of `CommandServerSystem` is a history variable: it counts, per id, the
  executions whose handler published nothing.
- **Python invoker**: `Register` is the ledger's entry, made after the publish;
  `Respond` pops it on the network thread; an id that is not there raises and the
  network thread ends.
- **C client**: the main loop is cut at each read or write of
  `pending_correlation_id` (`Check`, `Expire`, `Generate`, `Copy`), the callback
  between its compare and its clear. `uuid_clear` and `uuid_generate` write sixteen
  bytes; a torn read is not modelled, the null id and an old id are.
- **Alert**: `inbox[v]` is what the session of a vehicle holds; `Unheard` is a
  message MQTTnet acknowledges for want of a handler; `owed[v]` records what the
  broker promised to keep.
- **Settings**: a text is one of a few representatives per class of conversion
  (number, number with a tail, too large, boolean words, quoted, empty); the file is
  a function from variables to texts; each loader's precedence, defaulting,
  conversion and refusal is an operator.
- **C and Python samples**: `main` is the statement the main thread stands before,
  `net` the network thread, `link` the connection, and each callback an action.
  `mosq` of `CSample` is the client object: none, live or freed. `mqtt_client_init` fails before
  it is made, when it is made, or after, and then frees it. The disconnect after a refused
  SUBSCRIBE may be refused in turn; that of `main()` and of `on_connect` is taken to leave.
- **Positions** are pairs of angles in units of 10^-7 degrees. A text is a record: its language,
  whether it is a JSON document, and the elements of its coordinates, each the number the text
  spells after rounding; `TextLength` counts its characters from digits, signs and points.
  `payload[v]` is the `mosquitto_payload` of a C vehicle: `Fits` is the length check,
  `Stored` the copy with its terminator.
- **Telemetry**: `outbox[v]` is what the client of a vehicle holds unacknowledged, `taken[v]` how
  much of it the broker has over this connection; a reconnection sets it back, and the messages
  go out again in order. `Yield` and `Resume` are the two halves of the .NET handler.
- **Samples of `AppSample`**: `phase` is the await the program is in. `StartFails` is every way
  the settings, the client or a certificate may fail to load, with what the process then ends with. `nones` and `closed` are
  the channel of the Rust program; `stop_consuming` may put a None or close it. In
  `JwtRenewal` time is discrete: the timer is punctual, a renewal takes at most `Delay`, and
  `issued` is when the token was made that the broker last accepted.

## 3. Abstract specification and refinement

`CommandCall` says what a caller of the command pattern is promised. `DotnetCommand`,
`TsCommand` and `PyCommand` instantiate it as `Promise`, with `phase` read off the outcome
of each call and `performed` off `executed`. `CallSpec` has a safety part,
the initial states and the steps, and a liveness part, `EveryCallEnds`: every call that is made
ends. The run `py_calls` checks `Promise!CallSpec`. A .NET or TypeScript call may end with the
response to another call (how, is what `MixUpNeedsTheRace` and `MixUpHasACause` say), so these
clients implement `SharedSpec`: `CallSpec` with one more step, `Mistake`, by which an open call
ends as "mistaken" while some other call has been performed. What they keep is that a call ends, ends
once, and with a response that vouches for an execution. The C client has no call
that returns, so it has its own properties instead.

## 4. Runs

One passing run per component, each of a configuration of its own name over the component's `MC`
module, under the fairness of section 5 where it has a liveness property. The type invariant is a
property of the runs `server_requests` (`SystemTypeOK`), `py_calls` and `c_calls` (`TypeOK`):

| Run | Instance | Shows |
|---|---|---|
| `server_requests` | 2 clients, 1 request each of any of 6 forms, 2 redeliveries, throwing callbacks, refused publishes, 4 servers | a success is backed by an execution (`SuccessBacked`); the status tells the outcome (`StatusTellsOutcome`); a well-formed request is answered, by the .NET server whatever comes before it, by the others as long as all are well formed and no response is refused (`EveryRequestAnswered`) |
| `dotnet_calls` | 2 clients with 2 and 1 calls, a caller that goes on after a failure, loss, every failure, 3 servers | only a call begun between check and completion ends with another's response (`MixUpNeedsTheRace`); a timely response is lost only before its source is installed (`LostOnlyBeforeInstall`); refinement, so that every call ends (`ImplementsCall`) |
| `ts_calls` | 2 clients with 2 and 1 calls on one topic, loss, every failure but refused publishes of servers, 3 servers | where a foreign answer may come from (`MixUpHasACause`), a first timeout is real (`FirstTimeoutIsReal`), refinement (`ImplementsCall`) |
| `py_calls` | 2 clients, 2 calls, 1 redelivery, every failure, 4 servers | own response (`OwnResponse`), refinement (`ImplementsCall`), a deaf invoker stops (`DeafInvokerStops`) |
| `c_calls` | 2 clients with 2 and 1 commands, threads interleaved, loss | accepted answers are own (`AnswersAreOwn`); a command overtakes another only through the race (`OvertakingNeedsTheRace`); a pending command ends (`PendingEnds`) |
| `alert_fleet` | 2 vehicles, 2 alerts, 2 runs of each | first runs miss nothing (`FirstRunMissesNothing`); handled before forgotten, in every run (`HandledBeforeForgotten`); alerts arrive while connected (`AlertsArriveWhileConnected`) |
| `settings_loads` | 6 loaders, every text in every two typed variables, 7 environments, 2 loads | documented (`LoadsAsDocumented`), not misread (`NothingMisread`), reload fresh (`ReloadIsFresh`) |
| `csample_threads` | 5 programs, 3 connections | subscribed while connected (`SubscribedWhileConnected`), no callback after destroy (`NoCallbackAfterDestroy`), no retry of a refusal (`RefusedOnce`), ends when asked (`StopsWhenAsked`) |
| `pysample_threads` | 5 programs, 3 connections | a refusal is raised (`RefusalIsRaised`), running is subscribed (`RunsSubscribed`), getting started succeeded over a subscription (`StarterWasSubscribed`), every wait ends (`WaitsEnd`) |
| `telemetry_fanin` | 2 vehicles (C and Python, or TypeScript and .NET), a map of each of 4 languages, 3 positions, 2 messages each, 1 lost connection | a map shows true positions (`ReportsAreTrue`), the C buffer holds every text (`BufferHolds`), no vehicle jumps back but one of C (`NeverBack`), positions arrive (`PositionsArrive`) |
| `app_samples` | 7 programs, 2 lost connections; for the one with a token 12 units of time, a period of 2, a life of 6, a delay of 1 | ends when asked (`EndsWhenAsked`), success is meant (`SuccessIsMeant`), the token outlives the session (`TokenOutlivesSession`), a lost session ends the sample (`LossEndsSample`) |

One run, `ts_foreign`, ends in a violation: `commandClient.ts` logs that the correlation id of a
response does not match and takes the response all the same, so `OwnResponse` fails when two
clients share the response topic (quoted in `findings`).

Other divergences between documents and code are modelled as they are in the code, and the
properties name the programs they leave out:

- A C client may send a request with the null id: the callback thread clears
  `pending_correlation_id` between `uuid_generate` and its copy (`command_client/main.c:236-239`),
  although `scenarios/command/README.md:26` has a new Guid in every request. `CCommand` has the
  interleaving (`Clear` between `Generate` and `Copy`).
- A restarted vehicle misses an alert that its session kept and that comes before the handler is
  attached (`Unheard` in `AlertFanOut`), although `scenarios/alert/README.md:5` has the
  persistent session "to avoid missing any message". `FirstRunMissesNothing` is what holds, and
  `HandledBeforeForgotten` names the exception.
- A TypeScript program whose settings or client cannot be made logs the exception and ends with
  code 0 (`index.ts:71` of the telemetry producer), as does the Rust one when its trust store,
  certificate or key does not load (`main.rs:56`, 70, 83): `SuccessIsMeant` names them.
- The producers of C, TypeScript and Python write latitude first; the example of
  `scenarios/telemetry/README.md:20` and .NET have longitude first. `ReportsAreTrue` names the
  exchange of the axes.
- "SIGINT received: ending the session and exiting the sample..." (`index.ts:86` of the telemetry
  producer): a TypeScript program that has not been connected yet goes on polling (`polling` in
  `EndsWhenAsked`). Nor does the Rust program end on Ctrl-C while its connection is gone, if
  `stop_consuming` gives it a None.
- The C and Python servers never read the content type (`scenarios/command/README.md:28`), and
  set no `status` (`README.md:29`): `CRespond` and `PySubmit` execute whatever it is.
- After a refused publish of a 200, the TypeScript server sends a 500 for an executed command
  (`commandServer.ts:58`): `StatusTellsOutcome` names the case (`silent`).
- The response to a second TypeScript call that comes before its promise resolves the promise of
  the first and is lost: `FirstTimeoutIsReal` is about first calls.
- .NET turns clean session off when it is not set: `LoadsAsDocumented` names the exception.
  TypeScript reads `false` as true and drops `MQTT_KEY_FILE_PASSWORD`: the property is about the
  other five. Go accepts an empty host name (`HasHost`), and C takes `12abc` for 12 (`Atoi`):
  `NothingMisread` allows C that much and no more.
- .NET and C write their file into the environment (`MqttConnectionSettings.cs:70`,
  `mqtt_setup.c:72`), so a later load in the same process sees lines that its own file does not
  have: `ReloadIsFresh` is about loads whose file names what the earlier one set (`NothingLeft`).
- The C telemetry producer and command server end with a crash when `MQTT_CLIENT_ID` is not set
  (`Crash` in `CSample`), and getting started returns success after a refused connection
  (`result`).
- A vehicle whose connection is lost is not connected again (`LoseLink`).

Bounds, and why they are enough. Two clients are the least that can take each other's
responses, and by symmetry no more are told apart by a property about one call. Two
calls are the least in which a late response meets a later call. One redelivery
is enough for a message to meet the state after it. Three connections let a
connection be lost, refused and resumed within one run. Two alerts let one be
handled while another waits. Two telemetry messages are the least that can be out of order, and
the three positions are the longest text, one that is rounded and one of whole degrees; the proofs
are for all. Twelve units of time hold two lives of a token and six turns of the timer. `MaxCalls`, `MaxDup`, `MaxAlerts`, `MaxRuns`, `MaxOpens`
and `MaxLoads` are guards of the actions that would go on for ever and of nothing else.
Deadlock is not checked: every program may stop, and every bounded run does.

Where the instances are narrow, on purpose. In `dotnet_calls`, `ts_calls` and `c_calls` one
client makes two calls and the other one (`OneBusy`), for each client with two calls
multiplies the states by eight and adds only the mirror image; the proofs are for any number of each.
The runs of the .NET and TypeScript clients have no redelivery (`MaxDup = 0`) and leave out one of
the two servers that answer alike: with them TLC needs more than five minutes. What redelivery adds to
`MixUpNeedsTheRace`, `LostOnlyBeforeInstall`, `FirstTimeoutIsReal` and the steps of `ImplementsCall`
is covered by their proofs, which hold for every `MaxDup`; `MixUpHasACause` names it (`dups > 0`). The mix-up itself
is in both runs: a .NET caller that goes on after a timeout while the handler stands
between the check of the id and the completion of the source, a TypeScript client that takes the other's response.
A later load in `settings_loads` names the same file or one of four.
`RefusalIsRaised` is about the two Python programs that declare `connection_error` global.

## 5. Fairness

Weak fairness is assumed of what a scheduler or timer runs: a program that can take its
next statement, a callback whose message has arrived, a timeout that is armed. It is
not assumed of the broker (it may lose or never deliver, except in the runs that
say so: `server_requests`, and `alert_fleet` over a connection that is up), of a user, or of a
network that connects. Hence each liveness property ends in an answer *or* a timeout. In
`CSample` the callbacks are fair, because libmosquitto's loop runs them, and the
main thread's `Leave` and `Crash`, because the busy loop that could starve the rest of
`MainThread` is left by the flag alone. In `PySample` only the main thread is fair: its
waits have timeouts, and the network thread may be dead. In `Telemetry` a connection that stands
carries what is sent over it and a client that reconnects succeeds in the end, which is what
`PositionsArrive` is about; no program is obliged to send. The .NET handler's `Yield` is strongly fair:
it competes for one thread with the handlers of other messages, all of which run in turn. In
`AppSample` the awaits go on where they can, and a call that can fail again and again does fail
(`SF` of `CallFails`: the calls of Rust and .NET have timeouts); time need not pass.

## 6. Proofs

All theorems are proved for every value of the constants under the named assumptions of
the modules (`BrokerAssumption`, `ServerAssumption`, `CallerAssumption`, `FormsAssumption`,
`FleetAssumption`, `SampleAssumption`, `TelemetryAssumption`, `AppAssumption`,
`LoadAssumption`), which bound nothing but the kinds of the constants. `JwtAssumption` adds that
a renewal takes less than a period (`Delay < Period`; the sample renews every hour). No theorem
about a specification has a hypothesis of its own. Every invariant and action
property of the passing runs is proved, and the safety part of every refinement.

Where a module of proofs covers more than one system, they share nothing but the file.

**`CommandServer_proofs`**, the broker and the four servers.

- `ServersOnlyEcho`: they put nothing on the response topic whose id is not one of the requests.
  One lemma per server follows its steps; the invariant is `MessagesWithin(I)`: every request,
  job and response carries an id of the set I, for any I. It is what lets each client be
  reasoned about without its server.
- `HandleEffect` and `FinishEffect` say once, for all servers, what becomes of a request: it is dropped,
  answered at once by a true response, or executed and left to a job. The clients' proofs use
  them as `PassOn`: what is true of the requests, and so of the jobs and of the answers, stays true
  of all messages; `ExecutedOnce`: a step executes what was requested, once; and
  `TrafficFalls`: for one call and one client, the requests, jobs and responses together never
  become more, but by a copy of the network.
- `SystemTypeCorrect`, `SuccessIsBacked`, `StatusIsTrue`, of a server with arbitrary clients. A claim
  about what a response says needs to know what is owed: `Honest` (no response, and no job that
  will send one, vouches for a command that was not executed) and two accounts per call,
  `Backing` (responses that vouch, and responses a Python pool still owes, against executions and
  copies) and `Ledger` (requests that wait, executions and errors against publications, copies and executions
  that were left without a response). `StatusTellsOutcome` needs a third, `OneMessage`: of a call
  there is one message on its way, or one for each copy more.
  `Copies`, the number of places of a sequence with an element of a set, and its lemmas for
  `Append`, `Tail` and `RemoveAt` carry both. `SuccessBacked` alone is not inductive: it says
  nothing of a submitted job.

**`PyCommand_proofs`**: `TypeCorrect`, `LedgerNeverMixesUp`, `InvokerKeepsPromise`. `Filed`: an id
in the ledger is the invoker's own, and a future holds nothing but the response to its own call,
which was executed. That it was executed comes from `AllVouched`: an invoker publishes placeholders
only, and whatever a server answers to one says that it was carried out (the C server crashes, .NET and
TypeScript refuse it). No hypothesis: the ledger keeps what it promises with any number of
invokers, workers and redeliveries.

**`DotnetCommand_proofs`**

- `TypeCorrect`, `AnswersAreNotForeign`. The invariant `IndInv` joins the
  types, the control state (`InCall`: a call under way is the last one), `OwnIds` (the id of
  client c is one of c's) and `SourceOrder` (the installed source is the call's or an earlier
  one, and only an installed source holds a response, one of c's). `NoForeignResponse` alone is
  not inductive: it says nothing of the response in the handler's hands, nor of a source that is
  installed and not yet read.
- `MixUpsNeedTheRace`, `LossIsBeforeInstall`, for callers that go on after a failure and any number of
  redeliveries. `RaceInv`: what the handler holds is the response of the current call, or of an
  earlier one if this call was begun meanwhile (`Explained`); what a source holds is explained by
  the call of the source; and a call whose response was spent on its own source
  holds it there, and is open or answered.
- `ClientKeepsPromise`: every step is one of `CommandCall` (`SharedNext`). `CallInv` adds that
  calls are made in order, that no message carries the id of a call that was not made, and that
  what a client took up was executed (`Told`).

**`TsCommand_proofs`**

- `TypeCorrect`, `FirstTimeoutsAreReal`, `AnswersTellTheTruth`, for any number of clients and
  calls. `Fields`: between two awaits the correlation id is the current call's, and the
  promise is that of an earlier call until it is installed. `FirstSeen`: a first call whose
  response was handled has its promise resolved or its process ended. `Resolved`: a promise
  holds only a response to a command that some client made and that was executed (`AllTelling`: what
  a listener can decode says so).
- `MixUpsHaveACause`. The argument counts, while nothing was repeated: by `OneCopy` there is one
  message of a call, or one promise that holds its response; by `NoLater` the promise of a call that may
  still end by it holds no response to a later call. So the response to an earlier call, found in this
  call's promise, is not also in that call's own.
- `ClientKeepsPromise`: every step is one of `CommandCall` (`SharedNext`), whoever shares the
  topic and whatever is repeated.

**`CCommand_proofs`**, the C programs.

- `TypeCorrect`, `OnlyOwnIdsMatch`, `OvertakingIsTheRace` of `CCommand`. `Mine` holds with or
  without the race: the static is null or the latest uuid, and nothing else is copied or matched.
  `Calm` holds in every state of a history without a race (`NoRace => Calm`): no null id was sent, a
  callback that is about to clear holds an answered command, and only the pending command is
  outstanding. As `answered` and `expired` only grow, a state without a race has such states
  only before it (`RacesRemain`).
- `SampleTypeCorrect`, `DestroyIsSafe`, `SubscriptionIsRestored`, `NoRetryAfterRefusal` of
  `CSample`. The strengthening, `Refusals`: no network thread before the loop starts, and after a
  refusal the callback has disconnected or is about to.

**`Sample_proofs`**, the other programs and the settings.

- `TypeCorrect`, `RefusalsAreRaised`, `RunningIsSubscribed`, `StarterEndsSubscribed` of
  `PySample`. The strengthening: `Acknowledged` (a SUBACK stands for a subscription until
  something is lost, denied or killed), `Refusal` (a refused program is still waiting or has
  ended), `Early` (no flag is up before the thread that sets it exists) and `Returned` (a message
  proves the grant of the subscription, until the connection goes).
- `AppTypeCorrect`, `SuccessWasAskedFor`, `TokenIsRenewed` of `AppSample`. `Meant`: a program
  that has not started has had no connection; without MQTT.js a lost connection stays lost, and what wakes the Rust program is its user or a loss.
  `Renewals` reckons the next turn of the timer from the token the broker knows: at most one
  period for every renewal that failed since, one for the next, and one more while a task is under
  way. `TokenOutlivesSession` alone says nothing about when the next turn comes.
- `SettingsTypeCorrect`, `ReloadsAreFresh`, `NothingIsMisread`, `PortableFilesLoad` of
  `ConnectionSettings`, for any files and environments over the texts of the model (the run has
  one file per text and variable). `EndsAs`: the outcome of a first load, and of every load to which an
  earlier one left nothing (`NothingLeft`), is that of the operators on the environment the
  process started with. `PortableSource`: of a portable file no loader loses or changes a line, so
  it does not matter which side has a variable.

**`AlertFanOut_proofs`**: `TypeCorrect`, `FirstRunIsSafe`, `AlertsAreHandledFirst`.
`FirstRunMissesNothing` needs to know that a vehicle in its first run is unknown to the broker
until it subscribes, that what is unacknowledged was handled, and that a link exists only while
the program runs. `HandledBeforeForgotten`, of steps, follows from these three.

**`Telemetry_proofs`**

- `TypeCorrect`, `NothingOverflows`, `MapIsTrue`. The invariant follows a position from `sent`
  through buffer, `outbox`, `inbox` and the handler's hands: each message is the text of the
  position of its number. The lemmas about `GeoJson` bound the length of each number's text and
  show that what is read back is what was written, to its rounding.
- `MapNeverGoesBack`. A reconnection sends again what was not acknowledged, so the order of the
  messages does not follow from the queues being FIFO. `OneAtATime`: a program that waits for its
  PUBACK, or sends at QoS 0, has at most one message that can be sent again; hence `Rising`: what the
  map shows, what its handler holds, what is on its way and what is still to be sent follow one
  another. C, whose producer does not wait, is left out in the property as in the model.

Only model-checked: liveness, which the prover cannot do (`EveryRequestAnswered`, `DeafInvokerStops`,
`PendingEnds`, `AlertsArriveWhileConnected`, `StopsWhenAsked`, `WaitsEnd`, `PositionsArrive`,
`EndsWhenAsked`, `LossEndsSample`, and `EveryCallEnds` within `ImplementsCall`). The initial states
and the steps of `ImplementsCall` are proved; the conclusion is written out as
`Promise!CallInit /\ [][...]_...` with `Promise!CallNext` or `Promise!SharedNext`, since the
specifications of `CommandCall` include the liveness part.

## 7. Not modelled, and the plan

In order:

1. Proofs: an abstract specification of the alert promise (an alert owed is handled or expired) and
   of the C client's pending command, with the steps shown to implement it, as far as the hazards
   call for it.
2. Shared lemmas: the proofs of the four command clients each show that a client's step keeps the
   messages' ids; the parts that are alike could become one lemma about `Append` and `Tail` of
   any set of messages.
3. Connection strings in `ConnectionSettings` (`MqttConnectionSettings.cs` l.105-150), which only
   the unit tests of the repository use.
4. Two clients with a token in one process, which the static fields of `WithJWT.cs` do not support
   and no program of the repository has.

Left out for good: TLS, certificates and the encodings of the libraries; logging and
printing; the wording of messages; the exact times of timeouts (a timeout may happen
whenever its answer has not come).
