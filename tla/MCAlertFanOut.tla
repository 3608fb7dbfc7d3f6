--------------------------- MODULE MCAlertFanOut ---------------------------
(* Instances of AlertFanOut for TLC.                                        *)
EXTENDS AlertFanOut
=============================================================================
