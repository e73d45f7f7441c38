---------------------------- MODULE MCRestingExits ----------------------------
(* Instances of RestingExits for TLC: model values for prices.              *)
EXTENDS RestingExits

CONSTANTS p1, p2
TwoPrices == {p1, p2}
=============================================================================
