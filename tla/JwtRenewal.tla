----------------------------- MODULE JwtRenewal -----------------------------
(***************************************************************************)
(* WithJWT of the .NET extensions: the token in the options of a connection, the *)
(* timer that renews it, and the tasks the timer starts and forgets.            *)
(* Time is in units of the timer's choosing; the timer is punctual and a task     *)
(* takes at most Delay, which is all that time is needed for.                   *)
(* The connection itself belongs to the program (AppSample).                   *)
(***************************************************************************)
EXTENDS Naturals, FiniteSets

CONSTANTS
  Period,    \* refreshPeriod
  Lifetime,  \* for how long a token is good when the credential returns it
  Delay,     \* bound: time a connection or a renewal takes
  MaxTime    \* bound: time

ASSUME JwtAssumption ==
  /\ Period \in Nat \ {0} /\ Lifetime \in Nat /\ Delay \in Nat /\ MaxTime \in Nat
  /\ Delay < Period

VARIABLES
  now,
  issued,   \* when the token that the broker knows was issued
  due,      \* when the timer fires next
  tasks,    \* when the renewals that are under way were started
  misses    \* renewals that failed since

jwtVars == <<now, issued, due, tasks, misses>>

JwtTypeOK ==
  /\ now \in Nat /\ issued \in Nat /\ due \in Nat /\ misses \in Nat
  /\ tasks \subseteq Nat

JwtInit ==
  /\ now = 0 /\ issued = 0 /\ due = 0
  /\ tasks = {} /\ misses = 0

(* The options are built: a token at once, and a timer that is due at once.      *)
WithJWT ==
  /\ issued' = now /\ due' = now
  /\ UNCHANGED <<now, tasks, misses>>

RefreshToken_Once(connected) ==
  /\ due = now
  /\ due' = IF connected THEN now + MaxTime + 1 ELSE now + Period
  /\ tasks' = IF connected THEN tasks \cup {now} ELSE tasks
  /\ UNCHANGED <<now, issued, misses>>

(* The timer fires; without a connection it lets the turn pass.                 *)
RefreshToken(connected) ==
  /\ due = now
  /\ due' = now + Period
  /\ tasks' = IF connected THEN tasks \cup {now} ELSE tasks
  /\ UNCHANGED <<now, issued, misses>>

(* A task obtained a token since it started, and now the broker has it.          *)
Renewed(t) ==
  /\ t \in tasks
  /\ tasks' = tasks \ {t}
  /\ issued' \in t..now /\ misses' = 0
  /\ UNCHANGED <<now, due>>

(* The callback or the exchange throws; nobody awaits the task.                 *)
RenewalThrows(t) ==
  /\ t \in tasks
  /\ tasks' = tasks \ {t}
  /\ misses' = misses + 1
  /\ UNCHANGED <<now, issued, due>>

(* Time passes, but for a timer that is due and for work that is late.           *)
Tick ==
  /\ now < MaxTime
  /\ due > now
  /\ \A t \in tasks : now < t + Delay
  /\ now' = now + 1
  /\ UNCHANGED <<issued, due, tasks, misses>>

Expired == now >= issued + Lifetime
=============================================================================
