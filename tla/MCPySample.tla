----------------------------- MODULE MCPySample -----------------------------
(* Instances of PySample for TLC: see the configurations.                    *)
EXTENDS PySample
=============================================================================
