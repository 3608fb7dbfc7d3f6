----------------------------- MODULE MCCSample -----------------------------
(* Instances of CSample for TLC: see the configurations.                     *)
EXTENDS CSample
=============================================================================
