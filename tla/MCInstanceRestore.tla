------------------------- MODULE MCInstanceRestore -------------------------
EXTENDS InstanceRestore
\* A whole backup, and one made without models.
BothCarry == [a \in Archives |-> IF a = "whole" THEN Units ELSE {Ledger}]
=============================================================================
