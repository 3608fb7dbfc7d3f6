---------------------------- MODULE MCPyCommand ----------------------------
(* Instances of PyCommand for TLC.                                          *)
EXTENDS PyCommand
=============================================================================
