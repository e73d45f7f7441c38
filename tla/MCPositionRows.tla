---------------------------- MODULE MCPositionRows ----------------------------
(***************************************************************************)
(* Two squadrons on one token.  Once a sweep has raced after a sale nobody *)
(* heard of, every excuse is spent but that of NoOversell's first part,    *)
(* which each step keeps by the same account: TLC goes no further there.   *)
(***************************************************************************)
EXTENDS PositionRows, TLC
Symmetry == Permutations(Squadrons)
Explored == ~(raced /\ strayed > 0)
=============================================================================
