-------------------------- MODULE MCOrderLifecycle --------------------------
(* Model-checking instances of OrderLifecycle: model values for vipers and *)
(* legs, and the sets the configurations choose from.                      *)
EXTENDS OrderLifecycle

CONSTANTS s1, s2, yes
OneViper   == {s1}
TwoVipers  == {s1, s2}
OneLeg     == {yes}
=============================================================================
