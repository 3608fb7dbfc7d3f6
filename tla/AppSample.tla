----------------------------- MODULE AppSample -----------------------------
(***************************************************************************)
(* The life of the samples that have no module of their own: TypeScript           *)
(* telemetry producer and consumer and getting started, over SampleMqttClient;    *)
(* getting started in Go, Rust and .NET; and the .NET sample with a token.        *)
(* Each connects, most subscribe and publish, and then each waits in its own way    *)
(* for its user.  (CSample and PySample are about C and Python.)                *)
(***************************************************************************)
EXTENDS JwtRenewal

CONSTANTS
  Programs,   \* the programs a run considers
  MaxLosses   \* bound: connections that break

ASSUME AppAssumption ==
  /\ Programs \subseteq {"tsProducer", "tsConsumer", "tsStarter", "go", "rust", "dotnet", "jwt"}
  /\ MaxLosses \in Nat

VARIABLES
  prog,        \* the program
  phase,       \* its main flow of control
  connection,  \* its connection; "ended": the MQTT.js client was ended
  ref,         \* sampleMqttClient is not null
  nones,       \* None's in the channel of the Rust program
  closed,      \* that channel is closed
  ending,      \* how the process ended
  asked,       \* its user asked it to end
  losses       \* connections that broke

programVars == <<prog, phase, connection, ref, nones, closed, ending, asked, losses>>
appVars == <<programVars, jwtVars>>

Ts     == {"tsProducer", "tsConsumer", "tsStarter"}
DotNet == {"dotnet", "jwt"}

AppTypeOK ==
  /\ prog \in Programs
  /\ phase \in {"start", "polling", "connecting", "subscribing", "publishing", "sleeping", "run",
                "over", "leaving", "ended"}
  /\ connection \in {"none", "opening", "up", "down", "ended"}
  /\ ending \in {"none", "ok", "error", "killed"}
  /\ ref \in BOOLEAN /\ closed \in BOOLEAN /\ asked \in BOOLEAN
  /\ nones \in Nat /\ losses \in 0..MaxLosses
  /\ JwtTypeOK

AppInit ==
  /\ prog \in Programs
  /\ phase = "start" /\ connection = "none" /\ ending = "none"
  /\ ref = FALSE /\ closed = FALSE /\ asked = FALSE
  /\ nones = 0 /\ losses = 0
  /\ JwtInit

EndWith(code) == phase' = "ended" /\ ending' = code

-----------------------------------------------------------------------------
(* The way up.                                                              *)

(* A TypeScript program runs to its first await, in connectAsync, in one go.      *)
Start ==
  /\ phase = "start"
  /\ phase' = IF prog \in Ts THEN "polling" ELSE "connecting"
  /\ ref' = (prog \in Ts)
  /\ connection' = "opening"
  /\ IF prog = "jwt" THEN WithJWT ELSE UNCHANGED jwtVars
  /\ UNCHANGED <<prog, nones, closed, ending, asked, losses>>

(* The settings, the client or a certificate cannot be loaded.  A TypeScript program *)
(* logs the exception and has nothing left to do; the Rust program returns from main  *)
(* when the trust store, the certificate or the key does not load (l.56, 70, 83), and  *)
(* panics or exits with 1 otherwise; Go panics, .NET throws.                     *)
StartFails ==
  /\ phase = "start"
  /\ \/ prog \in Ts /\ phase' = "over" /\ UNCHANGED ending
     \/ prog = "rust" /\ EndWith("ok")
     \/ prog \notin Ts /\ EndWith("error")
  /\ UNCHANGED <<prog, connection, ref, nones, closed, asked, losses, jwtVars>>

AfterConnect == IF prog = "tsProducer" THEN "publishing" ELSE "subscribing"

(* The interval of connectAsync finds the client connected; the other programs     *)
(* wait for the CONNACK itself.                                              *)
Connected ==
  /\ phase \in {"polling", "connecting"}
  /\ connection = "up"
  /\ phase' = AfterConnect
  /\ UNCHANGED <<prog, connection, ref, nones, closed, ending, asked, losses, jwtVars>>

AfterSubscribe == IF prog = "tsConsumer" THEN "over" ELSE "publishing"

(* Granted or not: Go, .NET do not read the answer.                            *)
Subscribed ==
  /\ phase = "subscribing" /\ connection = "up"
  /\ phase' = AfterSubscribe
  /\ UNCHANGED <<prog, connection, ref, nones, closed, ending, asked, losses, jwtVars>>

AfterPublish ==
  IF prog = "tsProducer" THEN "sleeping"
  ELSE IF prog = "tsStarter" THEN "over"
  ELSE IF prog = "jwt" THEN "publishing"
  ELSE "run"

Published ==
  /\ phase = "publishing" /\ connection = "up"
  /\ phase' = AfterPublish
  /\ UNCHANGED <<prog, connection, ref, nones, closed, ending, asked, losses, jwtVars>>

CallFails_Caught ==
  /\ phase \in {"subscribing", "publishing"}
  /\ prog \in DotNet /\ connection # "up"
  /\ phase' = IF phase = "subscribing" THEN AfterSubscribe ELSE AfterPublish
  /\ UNCHANGED <<prog, connection, ref, nones, closed, ending, asked, losses, jwtVars>>

(* subscribe or publish fails: TypeScript logs the exception of a client that was   *)
(* ended, and keeps the message of one that reconnects; Rust exits; .NET throws on a *)
(* connection that is gone; Go does not read the result.                        *)
CallFails ==
  /\ phase \in {"subscribing", "publishing"}
  /\ \/ prog \in Ts /\ connection = "ended" /\ phase' = "over" /\ UNCHANGED ending
     \/ prog = "rust" /\ EndWith("error")
     \/ prog \in DotNet /\ connection # "up" /\ EndWith("error")
     \/ /\ prog = "go" /\ (connection # "up" \/ asked)
        /\ phase' = IF phase = "subscribing" THEN AfterSubscribe ELSE AfterPublish
        /\ UNCHANGED ending
  /\ UNCHANGED <<prog, connection, ref, nones, closed, asked, losses, jwtVars>>

(* The loop of the producer, after its pause.                                  *)
Wake ==
  /\ phase = "sleeping"
  /\ phase' = IF ref THEN "publishing" ELSE "over"
  /\ UNCHANGED <<prog, connection, ref, nones, closed, ending, asked, losses, jwtVars>>

-----------------------------------------------------------------------------
(* The connection.                                                          *)
Accepted ==
  /\ phase # "ended" /\ connection = "opening"
  /\ connection' = "up"
  /\ UNCHANGED <<prog, phase, ref, nones, closed, ending, asked, losses, jwtVars>>

(* The CONNACK refuses, or the socket fails: onError of SampleMqttClient ends the    *)
(* process, even later on; the others fail in their call to connect.             *)
Refused ==
  /\ phase # "ended" /\ connection = "opening"
  /\ EndWith("error")
  /\ UNCHANGED <<prog, connection, ref, nones, closed, asked, losses, jwtVars>>

(* A connection breaks without an error, or does not come about.  The Rust client    *)
(* puts a None into the channel.                                             *)
Breaks ==
  /\ phase # "ended" /\ losses < MaxLosses
  /\ connection = "up" \/ (connection = "opening" /\ prog \in Ts)
  /\ connection' = "down"
  /\ losses' = losses + 1
  /\ nones' = IF prog = "rust" THEN nones + 1 ELSE nones
  /\ UNCHANGED <<prog, phase, ref, closed, ending, asked, jwtVars>>

(* The call to connect fails with it.                                         *)
ConnectFails ==
  /\ phase = "connecting"
  /\ connection = "down" \/ (prog = "go" /\ asked)
  /\ EndWith("error")
  /\ UNCHANGED <<prog, connection, ref, nones, closed, asked, losses, jwtVars>>

(* Only MQTT.js is set up to connect again.                                    *)
Reopen ==
  /\ phase # "ended" /\ prog \in Ts /\ connection = "down"
  /\ connection' = "opening"
  /\ UNCHANGED <<prog, phase, ref, nones, closed, ending, asked, losses, jwtVars>>

-----------------------------------------------------------------------------
(* The way down.                                                            *)

(* Ctrl-C, or Enter.  TypeScript ends its client.  Go cancels its context.  The      *)
(* others are killed until they have a handler, or wait for a line.              *)
Ask ==
  /\ ~asked /\ phase \notin {"start", "ended"}
  /\ asked' = TRUE
  /\ connection' = IF prog \in Ts /\ ref THEN "ended" ELSE connection
  /\ \/ prog \in Ts \cup {"go"} /\ UNCHANGED <<phase, ending, nones, closed>>
     \/ /\ prog = "rust" /\ phase = "run"
        /\ \/ nones' = nones + 1 /\ UNCHANGED closed
           \/ closed' = TRUE /\ UNCHANGED nones
        /\ UNCHANGED <<phase, ending>>
     \/ prog = "dotnet" /\ phase = "run" /\ EndWith("ok") /\ UNCHANGED <<nones, closed>>
     \/ /\ prog \in {"rust", "dotnet", "jwt"} /\ ~(prog = "rust" /\ phase = "run")
        /\ EndWith("killed") /\ UNCHANGED <<nones, closed>>
  /\ UNCHANGED <<prog, ref, losses, jwtVars>>

(* endAsync of stopSample is through; getting started keeps its reference.        *)
Forget ==
  /\ connection = "ended" /\ ref /\ prog # "tsStarter" /\ phase # "ended"
  /\ ref' = FALSE
  /\ UNCHANGED <<prog, phase, connection, nones, closed, ending, asked, losses, jwtVars>>

(* Node exits when there is neither a connection nor a timer: a promise that nobody  *)
(* will keep does not hold it.                                               *)
NodeExits ==
  /\ prog \in Ts /\ connection \in {"none", "ended"}
  /\ phase \notin {"start", "polling", "sleeping", "ended"}
  /\ EndWith("ok")
  /\ UNCHANGED <<prog, connection, ref, nones, closed, asked, losses, jwtVars>>

(* Go: the context is done.                                                  *)
Done ==
  /\ prog = "go" /\ phase = "run" /\ asked
  /\ EndWith("ok")
  /\ UNCHANGED <<prog, connection, ref, nones, closed, asked, losses, jwtVars>>

Receive_BreaksWhenLost ==
  /\ prog = "rust" /\ phase = "run"
  /\ nones > 0 \/ closed
  /\ IF nones > 0 THEN nones' = nones - 1 ELSE UNCHANGED nones
  /\ phase' = IF nones = 0 \/ connection # "up" THEN "leaving" ELSE "run"
  /\ UNCHANGED <<prog, connection, ref, closed, ending, asked, losses, jwtVars>>

(* The loop of the Rust program: a None ends it if the client is connected, and      *)
(* the end of the channel does.                                              *)
Receive ==
  /\ prog = "rust" /\ phase = "run"
  /\ nones > 0 \/ closed
  /\ IF nones > 0 THEN nones' = nones - 1 ELSE UNCHANGED nones
  /\ phase' = IF nones = 0 \/ connection = "up" THEN "leaving" ELSE "run"
  /\ UNCHANGED <<prog, connection, ref, closed, ending, asked, losses, jwtVars>>

RustDisconnect_Unchecked ==
  /\ phase = "leaving"
  /\ EndWith("ok")
  /\ UNCHANGED <<prog, connection, ref, nones, closed, asked, losses, jwtVars>>

RustDisconnect ==
  /\ phase = "leaving"
  /\ EndWith(IF connection = "up" THEN "ok" ELSE "error")
  /\ UNCHANGED <<prog, connection, ref, nones, closed, asked, losses, jwtVars>>

-----------------------------------------------------------------------------
(* The token of the sample with one.                                          *)
Running == prog = "jwt" /\ phase \notin {"start", "ended"}

TimerFires == Running /\ RefreshToken(connection = "up") /\ UNCHANGED programVars

(* A renewal over a connection that is gone throws.                            *)
TaskRuns ==
  /\ Running
  /\ \E t \in tasks : (connection = "up" /\ Renewed(t)) \/ RenewalThrows(t)
  /\ UNCHANGED programVars

(* ConnectAsync has a timeout; it is within Delay.                             *)
TimePasses ==
  /\ Running
  /\ connection = "opening" => now < Delay
  /\ connection = "up" => ~Expired
  /\ Tick
  /\ UNCHANGED programVars

(* The broker closes a session whose token has expired.                        *)
SessionExpires ==
  /\ Running /\ connection = "up" /\ Expired
  /\ connection' = "down"
  /\ UNCHANGED <<prog, phase, ref, nones, closed, ending, asked, losses, jwtVars>>

-----------------------------------------------------------------------------
Program ==
  \/ Start \/ StartFails \/ Connected \/ Subscribed \/ Published \/ CallFails \/ Wake \/ ConnectFails
  \/ Forget \/ NodeExits \/ Done \/ Receive \/ RustDisconnect

Network == Accepted \/ Refused \/ Breaks \/ Reopen

Token == TimerFires \/ TaskRuns \/ TimePasses \/ SessionExpires

AppNext == Program \/ Network \/ Token \/ Ask

AppSpec == AppInit /\ [][AppNext]_appVars

(* Every flow of control goes on where it can: a pending call of Go or .NET has a    *)
(* timeout.  Nothing makes a broker answer, a user act, or time pass.              *)
AppFairness ==
  /\ WF_appVars(Connected \/ Wake \/ ConnectFails \/ NodeExits \/ Done \/ Receive \/ RustDisconnect)
  /\ SF_appVars(CallFails)

AppFairSpec == AppSpec /\ AppFairness

-----------------------------------------------------------------------------
(* "ending the session and exiting the sample..." (index.ts), "stop the consumer,    *)
(* breaking us out of the loop" (main.rs): a program that is asked to end does end,  *)
(* wherever it is in its calls.  But for two: a TypeScript program that has never     *)
(* been connected polls on, and the Rust program that lost its connection may wait  *)
(* on in its loop.                                                          *)
EndsWhenAsked ==
  asked ~> \/ phase = "ended"
           \/ prog \in Ts /\ phase = "polling"
           \/ prog = "rust" /\ connection # "up"

(* A process that opened a connection ends with success only if it was asked to, and  *)
(* that of Rust only once it has disconnected from a connection that never broke.     *)
(* One that could not start ends with success in TypeScript, where the exception is   *)
(* only logged, and in Rust, where main returns (StartFails); in Go and .NET it fails. *)
SuccessIsMeant ==
  ending = "ok" =>
    \/ asked /\ (prog = "rust" => losses = 0)
    \/ connection = "none" /\ prog \in Ts \cup {"rust"}

(* WithJWT renews in time: while the session stands its token is good, for as long    *)
(* as the renewals that failed in a row leave time for one more.                  *)
TokenOutlivesSession ==
  prog = "jwt" /\ connection = "up" /\ (misses + 1) * Period + Delay < Lifetime => ~Expired

(* A session that is lost, to an expired token or otherwise, ends the sample with a   *)
(* token: its next publish throws.                                            *)
LossEndsSample ==
  prog = "jwt" /\ connection = "down" ~> phase = "ended"
=============================================================================
