---------------------------- MODULE MCAppSample ----------------------------
(* Instances of AppSample for TLC: see the configurations.                     *)
EXTENDS AppSample
=============================================================================
