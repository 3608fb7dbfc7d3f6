---------------------------- MODULE MCDotnetCommand -------------------------
(* Instances of DotnetCommand for TLC.                                      *)
EXTENDS DotnetCommand

(* One client makes every call it may, the others one each.                   *)
OneBusy == [c \in Clients |-> IF c = CHOOSE d \in Clients : TRUE THEN MaxCalls ELSE 1]
=============================================================================
