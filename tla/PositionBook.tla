---------------------------- MODULE PositionBook ----------------------------
(***************************************************************************)
(* What the position map promises its readers (the vipers, the caps, the   *)
(* exit arms), whoever fills, cancels or reads in between.  An entry is a  *)
(* quote until it is said to have filled and a holding from then on.  A    *)
(* quote may be let go; a holding leaves only when it is sold; and no two  *)
(* entries ever carry the same instant, so an instant names an entry.      *)
(***************************************************************************)
EXTENDS Naturals

CONSTANT Keys   \* strategy and leg

VARIABLES
    clock,      \* the instant of the last order
    opened,     \* [Keys -> Nat]: Position.opened_at; 0 is no entry
    holding,    \* keys whose entry has filled (fill_confirmed_at)
    sale        \* the key, if any, of which contracts were just sold

vars == <<clock, opened, holding, sale>>

Entries == {k \in Keys : opened[k] # 0}

Init ==
    /\ clock = 0
    /\ opened = [k \in Keys |-> 0]
    /\ holding = {}
    /\ sale = {}

\* An order is sent; whether it will open an entry is not known yet.
Tick ==
    /\ clock' = clock + 1
    /\ UNCHANGED <<opened, holding, sale>>

Open(k) ==
    /\ k \notin Entries
    /\ \A j \in Entries : opened[j] # clock
    /\ opened' = [opened EXCEPT ![k] = clock]
    /\ UNCHANGED <<clock, holding, sale>>

Fill(keys) ==
    /\ holding' = holding \cup keys
    /\ UNCHANGED <<clock, opened, sale>>

Remove(k) == opened' = [opened EXCEPT ![k] = 0]

LetGo(k) ==
    /\ k \in Entries \ holding
    /\ Remove(k)
    /\ UNCHANGED <<clock, holding, sale>>

Sell(k) ==
    /\ sale = {}
    /\ k \in holding
    /\ sale' = {k}
    /\ UNCHANGED <<clock, opened, holding>>

\* The sale is booked: all of the entry was sold, or part of it.
SoldOut(k) ==
    /\ k \in sale
    /\ Remove(k)
    /\ holding' = holding \ {k}
    /\ sale' = {}
    /\ UNCHANGED clock

SoldPart ==
    /\ sale' = {}
    /\ UNCHANGED <<clock, opened, holding>>

Next ==
    \/ Tick
    \/ \E k \in Keys : Open(k) \/ LetGo(k) \/ Sell(k) \/ SoldOut(k)
    \/ \E keys \in SUBSET Entries : Fill(keys)
    \/ SoldPart

Spec == Init /\ [][Next]_vars
=============================================================================
