----------------------------- MODULE MCKalshiFeed -----------------------------
(* Instances of KalshiFeed for TLC.                                         *)
EXTENDS KalshiFeed
=============================================================================
