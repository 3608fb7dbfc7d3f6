---------------------------- MODULE CommandCall ----------------------------
(***************************************************************************)
(* What the command pattern promises its callers, whatever the language: a   *)
(* client makes one call at a time, a call ends once, as answered or failed, *)
(* and it ends as answered only after the vehicle performed that very call.  *)
(* The vehicle may perform a call that has failed already (its client gave    *)
(* up waiting), never one that was not made.                                 *)
(*                                                                         *)
(* CallSpec is the whole promise.  SharedSpec is what is left of it for a      *)
(* client that may take another call's response for its own: such a call ends *)
(* as "mistaken", and even then some call was performed.                      *)
(***************************************************************************)
EXTENDS Naturals

CONSTANTS Clients, MaxCalls

VARIABLES
  phase,     \* per client and call: "new", "open", or how it ended
  performed  \* the calls the vehicle executed

callVars == <<phase, performed>>

Closed == {"answered", "failed", "mistaken"}
Phases == {"new", "open"} \cup Closed

CallTypeOK ==
  /\ phase \in [Clients -> [1..MaxCalls -> Phases]]
  /\ performed \subseteq Clients \X (1..MaxCalls)

CallInit ==
  /\ phase = [c \in Clients |-> [k \in 1..MaxCalls |-> "new"]]
  /\ performed = {}

Open(c, k) ==
  /\ phase[c][k] = "new"
  /\ \A j \in 1..(k - 1) : phase[c][j] \in Closed
  /\ phase' = [phase EXCEPT ![c][k] = "open"]
  /\ UNCHANGED performed

Perform(c, k) ==
  /\ phase[c][k] # "new"
  /\ performed' = performed \cup {<<c, k>>}
  /\ UNCHANGED phase

Answer(c, k) ==
  /\ phase[c][k] = "open"
  /\ <<c, k>> \in performed
  /\ phase' = [phase EXCEPT ![c][k] = "answered"]
  /\ UNCHANGED performed

Fail(c, k) ==
  /\ phase[c][k] = "open"
  /\ phase' = [phase EXCEPT ![c][k] = "failed"]
  /\ UNCHANGED performed

(* The call ends with the response to another one.                           *)
Mistake(c, k) ==
  /\ phase[c][k] = "open"
  /\ performed \ {<<c, k>>} # {}
  /\ phase' = [phase EXCEPT ![c][k] = "mistaken"]
  /\ UNCHANGED performed

CallNext ==
  \E c \in Clients, k \in 1..MaxCalls :
    Open(c, k) \/ Perform(c, k) \/ Answer(c, k) \/ Fail(c, k)

(* Every call that is made ends.                                            *)
EveryCallEnds ==
  \A c \in Clients, k \in 1..MaxCalls :
    phase[c][k] = "open" ~> phase[c][k] \in Closed

SharedNext == CallNext \/ \E c \in Clients, k \in 1..MaxCalls : Mistake(c, k)

SharedSpec == CallInit /\ [][SharedNext]_callVars /\ EveryCallEnds

CallSpec == CallInit /\ [][CallNext]_callVars /\ EveryCallEnds
=============================================================================
