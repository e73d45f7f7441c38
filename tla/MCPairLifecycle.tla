--------------------------- MODULE MCPairLifecycle ---------------------------
(* Instances of PairLifecycle for TLC.                                      *)
EXTENDS PairLifecycle

=============================================================================
