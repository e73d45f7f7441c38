----------------------------- MODULE MCLocalBook -----------------------------
(* Instances of LocalBook for TLC.                                          *)
EXTENDS LocalBook

=============================================================================
