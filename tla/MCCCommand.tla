----------------------------- MODULE MCCCommand ----------------------------
(* Instances of CCommand for TLC.                                           *)
EXTENDS CCommand

Every == [c \in Clients |-> MaxCalls]

(* One client makes every call it may, the others one each.                   *)
OneBusy == [c \in Clients |-> IF c = CHOOSE d \in Clients : TRUE THEN MaxCalls ELSE 1]
=============================================================================
