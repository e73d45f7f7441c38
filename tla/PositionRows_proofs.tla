------------------------- MODULE PositionRows_proofs -------------------------
(***************************************************************************)
(* Proofs about PositionRows, for every set of squadrons, every lot size   *)
(* and every number of contracts and restarts:                             *)
(*                                                                         *)
(*   TypeCorrect             Spec => []TypeOK                              *)
(*   HoldingsAreAdoptedOnce  Spec => []AdoptedOnce                         *)
(*   NeverOversold           Spec => []NoOversell                          *)
(*   GuardsAreKept           Spec => LotsGuarded                           *)
(*   DeparturesAreBookedOnce Spec => []BookedOnce                          *)
(*                                                                         *)
(* They count contracts, so they rest on what sums over finite sets do     *)
(* when one of their terms changes.                                        *)
(***************************************************************************)
EXTENDS PositionRows, FiniteSetTheorems, WellFoundedInduction, TLAPS

-----------------------------------------------------------------------------
(* Sums over finite sets.                                                  *)

\* A nonempty set of finite sets has one that is in it with no element less.
LEMMA SmallestSet ==
  ASSUME NEW B, B # {}, \A T \in B : IsFiniteSet(T)
  PROVE  \E T \in B : \A x \in T : T \ {x} \notin B
<1> DEFINE R == {p \in Nat \X Nat : p[1] < p[2]}
           N == {Cardinality(T) : T \in B}
<1>1. IsWellFoundedOn(R, Nat)
  BY NatLessThanWellFounded DEF OpToRel
<1>2. \A i, j \in Nat : j < i => <<j, i>> \in R
  OBVIOUS
<1>3. N \in SUBSET Nat /\ N # {}
  BY FS_CardinalityType
<1> HIDE DEF R
<1>4. PICK n \in N : \A k \in N : ~ (<<k, n>> \in R)
  BY <1>1, <1>3, WFMin
<1>5. PICK T \in B : n = Cardinality(T)
  BY <1>4
<1>6. ASSUME NEW x \in T, T \ {x} \in B PROVE FALSE
  <2>1. Cardinality(T \ {x}) = n - 1
    BY <1>5, <1>6, FS_RemoveElement
  <2>2. Cardinality(T \ {x}) \in N /\ n \in Nat
    BY <1>3, <1>4, <1>6
  <2> HIDE DEF N
  <2>3. Cardinality(T \ {x}) \in Nat
    BY <2>2, <1>3
  <2>4. <<Cardinality(T \ {x}), n>> \in R
    BY <1>2, <2>1, <2>2, <2>3
  <2> QED BY <1>4, <2>2, <2>4
<1> QED BY <1>5, <1>6

\* The function that the definition of the folds chooses.
One(T) == CHOOSE x \in T : TRUE
Adds(g, f, S) == g = [T \in SUBSET S |-> IF T = {} THEN 0 ELSE f[One(T)] + g[T \ {One(T)}]]

LEMMA ContractsChosen ==
  ASSUME NEW f, NEW S
  PROVE  Contracts(f, S) = (CHOOSE g : Adds(g, f, S))[S]
BY DEF Contracts, MapThenSumSet, MapThenFoldSet, Adds, One

\* It exists: by the number of elements.
AddsUpTo(g, f, S, n) ==
  g = [T \in {U \in SUBSET S : Cardinality(U) <= n} |->
          IF T = {} THEN 0 ELSE f[One(T)] + g[T \ {One(T)}]]

LEMMA OneIn == ASSUME NEW T, T # {} PROVE One(T) \in T
BY DEF One

LEMMA AddsNext ==
  ASSUME NEW f, NEW S, IsFiniteSet(S), NEW n \in Nat, NEW g, AddsUpTo(g, f, S, n)
  PROVE  \E h : AddsUpTo(h, f, S, n + 1)
<1> DEFINE D(m) == {U \in SUBSET S : Cardinality(U) <= m}
           h == [T \in D(n + 1) |-> IF T = {} THEN 0 ELSE f[One(T)] + g[T \ {One(T)}]]
<1>1. \A U \in SUBSET S : Cardinality(U) \in Nat
  BY FS_Subset, FS_CardinalityType
<1>2. ASSUME NEW T \in D(n + 1), T # {}
      PROVE  T \ {One(T)} \in D(n) /\ T \ {One(T)} \in D(n + 1)
  <2>1. One(T) \in T
    BY <1>2, OneIn
  <2>2. IsFiniteSet(T)
    BY FS_Subset
  <2>3. Cardinality(T \ {One(T)}) = Cardinality(T) - 1
    BY <2>1, <2>2, FS_RemoveElement
  <2>4. Cardinality(T) \in Nat /\ Cardinality(T) <= n + 1
    BY <1>1
  <2>5. T \ {One(T)} \in SUBSET S
    OBVIOUS
  <2>6. Cardinality(T) - 1 <= n /\ Cardinality(T) - 1 <= n + 1
    BY <2>4
  <2> QED BY <2>3, <2>5, <2>6
<1>3. \A T \in D(n) : T \in D(n + 1)
  BY <1>1
<1>4. \A T \in D(n) : g[T] = IF T = {} THEN 0 ELSE f[One(T)] + g[T \ {One(T)}]
  BY DEF AddsUpTo
<1>5. \A T \in D(n + 1) : h[T] = IF T = {} THEN 0 ELSE f[One(T)] + g[T \ {One(T)}]
  OBVIOUS
<1>6. \A T \in D(n) : h[T] = g[T]
  BY <1>3, <1>4, <1>5
<1>7. h = [T \in D(n + 1) |-> h[T]]
  OBVIOUS
<1>8. \A T \in D(n + 1) : h[T] = IF T = {} THEN 0 ELSE f[One(T)] + h[T \ {One(T)}]
  BY <1>2, <1>5, <1>6
<1> HIDE DEF h
<1>9. h = [T \in D(n + 1) |-> IF T = {} THEN 0 ELSE f[One(T)] + h[T \ {One(T)}]]
  BY <1>7, <1>8
<1> QED BY <1>9 DEF AddsUpTo

LEMMA AddsExists ==
  ASSUME NEW f, NEW S, IsFiniteSet(S)
  PROVE  \E g : Adds(g, f, S)
<1> DEFINE B == {T \in SUBSET S : ~ \E g : AddsUpTo(g, f, S, Cardinality(T))}
<1>0. \A U \in SUBSET S : IsFiniteSet(U) /\ Cardinality(U) \in Nat /\ Cardinality(U) <= Cardinality(S)
  BY FS_Subset, FS_CardinalityType
<1>1. B = {}
  <2> SUFFICES ASSUME B # {} PROVE FALSE
    OBVIOUS
  <2>1. PICK T \in B : \A x \in T : T \ {x} \notin B
    <3>1. \A T \in B : IsFiniteSet(T)
      BY <1>0
    <3> HIDE DEF B
    <3> QED BY <3>1, SmallestSet
  <2>2. CASE T = {}
    <3> DEFINE g == [U \in {{}} |-> 0]
    <3>1. \A U : U \in {V \in SUBSET S : Cardinality(V) <= 0} <=> U = {}
      BY <1>0, FS_EmptySet
    <3>2. {V \in SUBSET S : Cardinality(V) <= 0} = {{}}
      BY <3>1
    <3>3. AddsUpTo(g, f, S, 0)
      BY <3>2 DEF AddsUpTo
    <3>4. Cardinality(T) = 0
      BY <2>2, FS_EmptySet
    <3> HIDE DEF g
    <3>5. \E gg : AddsUpTo(gg, f, S, Cardinality(T))
      BY <3>3, <3>4
    <3> QED BY <3>5
  <2>3. CASE T # {}
    <3>1. One(T) \in T
      BY <2>3, OneIn
    <3>2. T \ {One(T)} \in SUBSET S /\ T \ {One(T)} \notin B
      BY <2>1, <3>1
    <3>3. PICK g : AddsUpTo(g, f, S, Cardinality(T \ {One(T)}))
      BY <3>2
    <3>4. Cardinality(T \ {One(T)}) = Cardinality(T) - 1 /\ Cardinality(T \ {One(T)}) \in Nat /\ Cardinality(T) \in Nat
      BY <1>0, <2>1, <3>1, <3>2, FS_RemoveElement
    <3>5. PICK h : AddsUpTo(h, f, S, Cardinality(T \ {One(T)}) + 1)
      BY <3>3, <3>4, AddsNext
    <3>6. Cardinality(T \ {One(T)}) + 1 = Cardinality(T)
      BY <3>4
    <3>7. \E gg : AddsUpTo(gg, f, S, Cardinality(T))
      BY <3>5, <3>6
    <3> QED BY <3>7
  <2> QED BY <2>2, <2>3
<1>2. PICK g : AddsUpTo(g, f, S, Cardinality(S))
  BY <1>1
<1>3. {U \in SUBSET S : Cardinality(U) <= Cardinality(S)} = SUBSET S
  BY <1>0
<1>4. Adds(g, f, S)
  BY <1>2, <1>3 DEF AddsUpTo, Adds
<1> QED BY <1>4

\* Sums that add the same numbers agree, over whatever larger set they were defined.
LEMMA AddsAgree ==
  ASSUME NEW f1, NEW f2, NEW S1, NEW S2, NEW g1, NEW g2, Adds(g1, f1, S1), Adds(g2, f2, S2),
         NEW U, U \subseteq S1, U \subseteq S2, IsFiniteSet(U), \A x \in U : f1[x] = f2[x]
  PROVE  g1[U] = g2[U]
<1> DEFINE B == {T \in SUBSET U : g1[T] # g2[T]}
<1>1. \A T \in SUBSET U : /\ g1[T] = IF T = {} THEN 0 ELSE f1[One(T)] + g1[T \ {One(T)}]
                          /\ g2[T] = IF T = {} THEN 0 ELSE f2[One(T)] + g2[T \ {One(T)}]
  BY DEF Adds
<1>2. SUFFICES ASSUME B # {} PROVE FALSE
  OBVIOUS
<1>3. PICK T \in B : \A x \in T : T \ {x} \notin B
  <2>1. \A T \in B : IsFiniteSet(T)
    BY FS_Subset
  <2> HIDE DEF B
  <2> QED BY <1>2, <2>1, SmallestSet
<1>4. T # {}
  BY <1>1
<1>5. One(T) \in T
  BY <1>4, OneIn
<1>6. T \ {One(T)} \in SUBSET U /\ g1[T \ {One(T)}] = g2[T \ {One(T)}]
  BY <1>3, <1>5
<1>7. g1[T] = g2[T]
  BY <1>1, <1>4, <1>5, <1>6
<1> QED BY <1>7

LEMMA ContractsAdds ==
  ASSUME NEW f, NEW S, IsFiniteSet(S)
  PROVE  \E g : Adds(g, f, S) /\ \A T \in SUBSET S : Contracts(f, T) = g[T]
<1> DEFINE c(T) == CHOOSE g : Adds(g, f, T)
<1>1. \A T \in SUBSET S : IsFiniteSet(T)
  BY FS_Subset
<1>2. \A T \in SUBSET S : Adds(c(T), f, T)
  <2> SUFFICES ASSUME NEW T \in SUBSET S PROVE Adds(c(T), f, T)
    OBVIOUS
  <2>1. \E g : Adds(g, f, T)
    BY <1>1, AddsExists
  <2> QED BY <2>1
<1>3. \A T \in SUBSET S : Contracts(f, T) = c(T)[T]
  BY ContractsChosen
<1> HIDE DEF c
<1>4. ASSUME NEW T \in SUBSET S PROVE c(T)[T] = c(S)[T]
  <2>1. Adds(c(T), f, T) /\ Adds(c(S), f, S)
    BY <1>2
  <2> QED BY <1>1, <2>1, AddsAgree
<1> QED BY <1>2, <1>3, <1>4

LEMMA ContractsEmpty == ASSUME NEW f PROVE Contracts(f, {}) = 0
<1>1. PICK g : Adds(g, f, {}) /\ \A T \in SUBSET {} : Contracts(f, T) = g[T]
  BY FS_EmptySet, ContractsAdds
<1>2. g[{}] = 0
  BY <1>1 DEF Adds
<1> QED BY <1>1, <1>2

LEMMA ContractsOne ==
  ASSUME NEW f, NEW S, IsFiniteSet(S), S # {}
  PROVE  Contracts(f, S) = f[One(S)] + Contracts(f, S \ {One(S)})
<1>1. PICK g : Adds(g, f, S) /\ \A T \in SUBSET S : Contracts(f, T) = g[T]
  BY ContractsAdds
<1>2. g[S] = f[One(S)] + g[S \ {One(S)}]
  BY <1>1 DEF Adds
<1> QED BY <1>1, <1>2

LEMMA ContractsAgree ==
  ASSUME NEW f1, NEW f2, NEW S, IsFiniteSet(S), \A x \in S : f1[x] = f2[x]
  PROVE  Contracts(f1, S) = Contracts(f2, S)
<1>1. PICK g1 : Adds(g1, f1, S) /\ \A T \in SUBSET S : Contracts(f1, T) = g1[T]
  BY ContractsAdds
<1>2. PICK g2 : Adds(g2, f2, S) /\ \A T \in SUBSET S : Contracts(f2, T) = g2[T]
  BY ContractsAdds
<1>3. g1[S] = g2[S]
  BY <1>1, <1>2, AddsAgree
<1> QED BY <1>1, <1>2, <1>3

LEMMA ContractsNat ==
  ASSUME NEW f, NEW S, IsFiniteSet(S), \A x \in S : f[x] \in Nat
  PROVE  Contracts(f, S) \in Nat
<1> DEFINE B == {T \in SUBSET S : Contracts(f, T) \notin Nat}
<1>0. \A T \in SUBSET S : IsFiniteSet(T)
  BY FS_Subset
<1>1. SUFFICES ASSUME B # {} PROVE FALSE
  OBVIOUS
<1>2. PICK T \in B : \A x \in T : T \ {x} \notin B
  <2>1. \A T \in B : IsFiniteSet(T)
    BY <1>0
  <2> HIDE DEF B
  <2> QED BY <1>1, <2>1, SmallestSet
<1>3. T # {}
  BY <1>2, ContractsEmpty
<1>4. One(T) \in T
  BY <1>3, OneIn
<1>5. Contracts(f, T \ {One(T)}) \in Nat
  BY <1>2, <1>4
<1>6. Contracts(f, T) = f[One(T)] + Contracts(f, T \ {One(T)})
  BY <1>0, <1>2, <1>3, ContractsOne
<1> QED BY <1>2, <1>4, <1>5, <1>6

\* Any element may be taken out of a sum.
LEMMA ContractsLess ==
  ASSUME NEW f, NEW S, IsFiniteSet(S), \A x \in S : f[x] \in Nat, NEW e \in S
  PROVE  Contracts(f, S) = f[e] + Contracts(f, S \ {e})
<1> DEFINE B == {T \in SUBSET S : \E x \in T : Contracts(f, T) # f[x] + Contracts(f, T \ {x})}
<1>0. \A T \in SUBSET S : IsFiniteSet(T) /\ Contracts(f, T) \in Nat
  <2>1. \A T \in SUBSET S : IsFiniteSet(T)
    BY FS_Subset
  <2> QED BY <2>1, ContractsNat
<1>1. SUFFICES ASSUME B # {} PROVE FALSE
  <2>1. S \notin B
    BY <1>1
  <2> QED BY <2>1
<1>2. PICK T \in B : \A y \in T : T \ {y} \notin B
  <2>1. \A T \in B : IsFiniteSet(T)
    BY <1>0
  <2> HIDE DEF B
  <2> QED BY <1>1, <2>1, SmallestSet
<1>3. PICK x \in T : Contracts(f, T) # f[x] + Contracts(f, T \ {x})
  BY <1>2
<1> DEFINE y == One(T)
<1>4. y \in T
  BY <1>2, OneIn
<1>5. Contracts(f, T) = f[y] + Contracts(f, T \ {y})
  BY <1>0, <1>2, ContractsOne
<1>6. y # x
  BY <1>3, <1>5
<1> HIDE DEF y
<1>7. /\ T \ {y} \in SUBSET S /\ T \ {x} \in SUBSET S /\ (T \ {y}) \ {x} \in SUBSET S
      /\ (T \ {y}) \ {x} = (T \ {x}) \ {y} /\ x \in T \ {y} /\ y \in T \ {x}
  BY <1>2, <1>3, <1>4, <1>6
<1>8. T \ {y} \notin B /\ T \ {x} \notin B
  BY <1>2, <1>3, <1>4
<1>9. Contracts(f, T \ {y}) = f[x] + Contracts(f, (T \ {y}) \ {x})
  BY <1>7, <1>8
<1>10. Contracts(f, T \ {x}) = f[y] + Contracts(f, (T \ {y}) \ {x})
  BY <1>7, <1>8
<1>11. f[x] \in Nat /\ f[y] \in Nat /\ Contracts(f, (T \ {y}) \ {x}) \in Nat
  BY <1>0, <1>2, <1>3, <1>4, <1>7
<1> QED BY <1>3, <1>5, <1>9, <1>10, <1>11

\* Two sums whose numbers differ at one element differ by as much.
LEMMA ContractsChange ==
  ASSUME NEW f1, NEW f2, NEW S, IsFiniteSet(S), NEW e \in S,
         \A x \in S : f1[x] \in Nat /\ f2[x] \in Nat, \A x \in S \ {e} : f1[x] = f2[x]
  PROVE  Contracts(f2, S) - f2[e] = Contracts(f1, S) - f1[e]
<1>1. IsFiniteSet(S \ {e})
  BY FS_RemoveElement
<1>2. Contracts(f1, S \ {e}) = Contracts(f2, S \ {e})
  BY <1>1, ContractsAgree
<1>3. Contracts(f1, S) = f1[e] + Contracts(f1, S \ {e}) /\ Contracts(f2, S) = f2[e] + Contracts(f2, S \ {e})
  BY ContractsLess
<1>4. Contracts(f1, S \ {e}) \in Nat /\ Contracts(f2, S \ {e}) \in Nat
  BY <1>1, ContractsNat
<1> QED BY <1>2, <1>3, <1>4

\* Nothing adds up to nothing.
LEMMA ContractsZero ==
  ASSUME NEW f, NEW S, IsFiniteSet(S), \A x \in S : f[x] = 0
  PROVE  Contracts(f, S) = 0
<1> DEFINE B == {T \in SUBSET S : Contracts(f, T) # 0}
<1>0. \A T \in SUBSET S : IsFiniteSet(T)
  BY FS_Subset
<1>1. SUFFICES ASSUME B # {} PROVE FALSE
  OBVIOUS
<1>2. PICK T \in B : \A x \in T : T \ {x} \notin B
  <2>1. \A T \in B : IsFiniteSet(T)
    BY <1>0
  <2> HIDE DEF B
  <2> QED BY <1>1, <2>1, SmallestSet
<1>3. T # {}
  BY <1>2, ContractsEmpty
<1>4. One(T) \in T
  BY <1>3, OneIn
<1>5. Contracts(f, T \ {One(T)}) = 0
  BY <1>2, <1>4
<1>6. Contracts(f, T) = f[One(T)] + Contracts(f, T \ {One(T)})
  BY <1>0, <1>2, <1>3, ContractsOne
<1> QED BY <1>2, <1>4, <1>5, <1>6

\* Larger numbers add up to no less.
LEMMA ContractsMonotone ==
  ASSUME NEW f1, NEW f2, NEW S, IsFiniteSet(S),
         \A x \in S : f1[x] \in Nat /\ f2[x] \in Nat /\ f1[x] <= f2[x]
  PROVE  Contracts(f1, S) <= Contracts(f2, S)
<1> DEFINE B == {T \in SUBSET S : ~ (Contracts(f1, T) <= Contracts(f2, T))}
<1>0. \A T \in SUBSET S : /\ IsFiniteSet(T)
                          /\ Contracts(f1, T) \in Nat /\ Contracts(f2, T) \in Nat
  <2>1. \A T \in SUBSET S : IsFiniteSet(T)
    BY FS_Subset
  <2> QED BY <2>1, ContractsNat
<1>1. SUFFICES ASSUME B # {} PROVE FALSE
  <2>1. S \notin B
    BY <1>1
  <2> QED BY <2>1
<1>2. PICK T \in B : \A x \in T : T \ {x} \notin B
  <2>1. \A T \in B : IsFiniteSet(T)
    BY <1>0
  <2> HIDE DEF B
  <2> QED BY <1>1, <2>1, SmallestSet
<1>3. T # {}
  BY <1>2, ContractsEmpty
<1> DEFINE y == One(T)
<1>4. y \in T
  BY <1>3, OneIn
<1>5. /\ Contracts(f1, T) = f1[y] + Contracts(f1, T \ {y})
      /\ Contracts(f2, T) = f2[y] + Contracts(f2, T \ {y})
  BY <1>0, <1>2, <1>3, ContractsOne
<1> HIDE DEF y
<1>6. T \ {y} \in SUBSET S /\ T \ {y} \notin B /\ y \in S
  BY <1>2, <1>4
<1>7. Contracts(f1, T \ {y}) <= Contracts(f2, T \ {y})
  BY <1>6
<1>8. /\ Contracts(f1, T \ {y}) \in Nat /\ Contracts(f2, T \ {y}) \in Nat
      /\ f1[y] \in Nat /\ f2[y] \in Nat /\ f1[y] <= f2[y]
  BY <1>0, <1>6
<1>9. Contracts(f1, T) <= Contracts(f2, T)
  BY <1>5, <1>7, <1>8
<1> QED BY <1>2, <1>9

\* A sum is that of a part and of the rest.
LEMMA ContractsSplit ==
  ASSUME NEW f, NEW S, IsFiniteSet(S), \A x \in S : f[x] \in Nat, NEW P \in SUBSET S
  PROVE  Contracts(f, S) = Contracts(f, P) + Contracts(f, S \ P)
<1> DEFINE B == {T \in SUBSET S : Contracts(f, S) # Contracts(f, T) + Contracts(f, S \ T)}
<1>0. \A T \in SUBSET S : /\ IsFiniteSet(T) /\ Contracts(f, T) \in Nat
                          /\ S \ T \in SUBSET S
  <2>1. \A T \in SUBSET S : IsFiniteSet(T)
    BY FS_Subset
  <2> QED BY <2>1, ContractsNat
<1>1. SUFFICES ASSUME B # {} PROVE FALSE
  <2>1. P \notin B
    BY <1>1
  <2> QED BY <2>1
<1>2. PICK T \in B : \A x \in T : T \ {x} \notin B
  <2>1. \A T \in B : IsFiniteSet(T)
    BY <1>0
  <2> HIDE DEF B
  <2> QED BY <1>1, <2>1, SmallestSet
<1>3. CASE T = {}
  <2>1. S \ T = S /\ Contracts(f, T) = 0 /\ Contracts(f, S) \in Nat
    BY <1>0, <1>3, ContractsEmpty
  <2> QED BY <1>2, <2>1
<1>4. CASE T # {}
  <2>1. PICK x \in T : TRUE
    BY <1>4
  <2> DEFINE R == S \ (T \ {x})
  <2>2. /\ T \ {x} \in SUBSET S /\ T \ {x} \notin B /\ x \in S /\ T \in SUBSET S
        /\ R \in SUBSET S /\ x \in R /\ R \ {x} = S \ T
    BY <1>2, <2>1
  <2>3. Contracts(f, S) = Contracts(f, T \ {x}) + Contracts(f, R)
    BY <2>2
  <2> HIDE DEF R
  <2>4. Contracts(f, R) = f[x] + Contracts(f, S \ T)
    BY <1>0, <2>2, ContractsLess
  <2>5. Contracts(f, T) = f[x] + Contracts(f, T \ {x})
    BY <1>0, <2>1, <2>2, ContractsLess
  <2>6. /\ f[x] \in Nat /\ Contracts(f, S \ T) \in Nat
        /\ Contracts(f, T \ {x}) \in Nat
    BY <1>0, <2>2
  <2>7. Contracts(f, S) = Contracts(f, T) + Contracts(f, S \ T)
    BY <2>3, <2>4, <2>5, <2>6
  <2> QED BY <1>2, <2>7
<1> QED BY <1>3, <1>4

-----------------------------------------------------------------------------
(* Types.                                                                  *)

USE RowsAssumption, NamesAssumption
    DEF Operator, Nobody, Adopted, Settlement, Lots, Sizes, Kinds, Row, NoRow, Keys,
        Resting, Unswept, Unasked, NoSighting, Strategies,
        market, loops, ledger, memory, bounds, history

Stages == {"idle", "claim", "adopt", "follow", "probe", "settle", "purge", "book", "release"}
Held   == {"claim", "adopt", "follow"}
Selling == {"idle", "selling", "sold", "booked"}
Gone    == {"sold", "booked"}
Exits  == [at : Selling, n : 0..MaxHeld, k : 0..MaxHeld]
Sweeps == [at : Stages, seen : Int, due : SUBSET (Keys \X Sizes)]

TypeVenue ==
    /\ held \in Int /\ held <= bought /\ unbooked \in Int /\ strayed \in Nat
    /\ bought \in 0..MaxHeld /\ restarts \in 0..MaxRestarts

TypeFlags ==
    /\ settled \in BOOLEAN /\ torn \in BOOLEAN /\ raced \in BOOLEAN
    /\ released \in BOOLEAN /\ protected \in BOOLEAN
    /\ flying \in SUBSET Squadrons /\ gap \in SUBSET Squadrons
    /\ noted \in [Squadrons -> {"no", "new", "old"}]
    /\ sighting \in [target : -1..MaxHeld, old : BOOLEAN]

TypeLoops ==
    /\ guard \in [Squadrons -> 0..MaxHeld]
    /\ mine \in [Squadrons -> Nat] /\ \A s \in Squadrons : mine[s] <= bought
    /\ entering \in [Squadrons -> 0..MaxLot] /\ \A s \in Squadrons : entering[s] <= MaxHeld
    /\ opRelease \in [Squadrons -> BOOLEAN]

TypeExits ==
    /\ exit \in [Squadrons -> Exits]
    /\ \A s \in Squadrons :
          /\ exit[s].at # "idle" => exit[s].n > 0
          /\ exit[s].at \in Gone => exit[s].k \in 1..exit[s].n
          /\ claim = s <=> exit[s].at # "idle"

TypeSweeps ==
    /\ sweep \in [Squadrons -> Sweeps]
    /\ \A s \in Squadrons : /\ sweep[s].seen <= MaxHeld
                            /\ sweep[s].at \in Held => sweep[s].seen > 0

TypeManual ==
    /\ manual \in [at : Selling, strategy : Strategies, of : Squadrons \cup {"none"},
                   n : 0..MaxHeld, k : 0..MaxHeld]
    /\ manual.k <= manual.n /\ (manual.at \in Gone => manual.k > 0)
    /\ manual.at # "idle" => /\ manual.n > 0 /\ manual.of \in Squadrons
                             /\ manual.strategy \in {Adopted, manual.of}
    /\ claim \in Squadrons \cup {Operator, Nobody}
    /\ claim = Operator <=> manual.at # "idle"

TypeLedger ==
    /\ rows \in [Keys -> Row]
    /\ trades \in SUBSET ((Strategies \cup {Settlement}) \X Sizes)

TypeInv == /\ TypeVenue /\ TypeFlags /\ TypeLoops /\ TypeExits
           /\ TypeSweeps /\ TypeManual /\ TypeLedger

LEMMA TypeInit == Init => TypeInv
<1> SUFFICES ASSUME Init PROVE TypeInv
  OBVIOUS
<1>1. TypeVenue
  BY DEF Init, TypeVenue
<1>2. TypeFlags
  <2>1. settled \in BOOLEAN /\ torn \in BOOLEAN /\ raced \in BOOLEAN
    BY DEF Init
  <2>2. released \in BOOLEAN /\ protected \in BOOLEAN
    BY DEF Init
  <2>3. flying \in SUBSET Squadrons /\ gap \in SUBSET Squadrons
    BY DEF Init
  <2>4. /\ noted \in [Squadrons -> {"no", "new", "old"}]
        /\ sighting \in [target : -1..MaxHeld, old : BOOLEAN]
    BY DEF Init
  <2> QED BY <2>1, <2>2, <2>3, <2>4 DEF TypeFlags
<1>3. TypeLoops
  BY DEF Init, TypeLoops
<1>4. TypeExits
  BY DEF Init, TypeExits, Exits, Selling, Gone
<1>5. TypeSweeps
  BY DEF Init, TypeSweeps, Sweeps, Stages, Held
<1>6. TypeManual
  BY DEF Init, TypeManual, Selling, Gone
<1>7. TypeLedger
  BY DEF Init, TypeLedger
<1> QED BY <1>1, <1>2, <1>3, <1>4, <1>5, <1>6, <1>7 DEF TypeInv

LEMMA TypeImplies == TypeInv => TypeOK
<1> SUFFICES ASSUME TypeInv PROVE TypeOK
  OBVIOUS
<1> USE DEF TypeInv
<1>1. mine \in [Squadrons -> 0..MaxHeld]
  BY DEF TypeLoops, TypeVenue
<1>2. \A s \in Squadrons :
        /\ sweep[s].at \in {"idle", "claim", "adopt", "follow", "probe", "settle", "purge", "book", "release"}
        /\ sweep[s].seen \in Int /\ sweep[s].due \in SUBSET (Keys \X Sizes)
  BY DEF TypeSweeps, Sweeps, Stages
<1>3. /\ exit \in [Squadrons -> [at : {"idle", "selling", "sold", "booked"}, n : 0..MaxHeld, k : 0..MaxHeld]]
      /\ \A s \in Squadrons : claim = s <=> exit[s].at # "idle"
  BY DEF TypeExits, Exits, Selling
<1>4. /\ manual.at \in {"idle", "selling", "sold", "booked"}
      /\ manual.strategy \in Strategies /\ manual.n \in 0..MaxHeld /\ manual.k \in 0..manual.n
      /\ claim \in Squadrons \cup {Operator, Nobody}
      /\ claim = Operator <=> manual.at # "idle"
  BY DEF TypeManual, Selling
<1> QED BY <1>1, <1>2, <1>3, <1>4 DEF TypeOK, TypeVenue, TypeFlags, TypeLoops, TypeLedger

-----------------------------------------------------------------------------
(* What the steps do to the parts.                                         *)

LEMMA MinOfTwo ==
  ASSUME NEW a \in Int, NEW b \in Int
  PROVE  Min({a, b}) = IF a <= b THEN a ELSE b
BY DEF Min

\* One exit arm at a time moves, and has the claim while it sells.
LEMMA ExitMoves ==
  ASSUME TypeInv, NEW s \in Squadrons, NEW e \in Exits, claim \in {s, Nobody},
         e.at # "idle" => e.n > 0, e.at \in Gone => e.k \in 1..e.n,
         exit' = [exit EXCEPT ![s] = e], claim' = IF e.at = "idle" THEN Nobody ELSE s
  PROVE  TypeExits' /\ (manual' = manual => TypeManual')
<1>1. exit \in [Squadrons -> Exits] /\ \A q \in Squadrons : claim = q <=> exit[q].at # "idle"
  BY DEF TypeInv, TypeExits
<1>2. exit' \in [Squadrons -> Exits]
  BY <1>1
<1>3. exit'[s] = e /\ \A q \in Squadrons \ {s} : exit'[q].at = "idle"
  BY <1>1
<1>4. \A q \in Squadrons \ {s} : claim' # q
  OBVIOUS
<1>5. claim' = s <=> e.at # "idle"
  OBVIOUS
<1>6. TypeExits'
  BY <1>2, <1>3, <1>4, <1>5 DEF TypeExits, Gone
<1>7. ASSUME manual' = manual PROVE TypeManual'
  <2>1. manual.at = "idle" /\ claim' # Operator /\ claim' \in Squadrons \cup {Operator, Nobody}
    BY DEF TypeInv, TypeManual
  <2> QED BY <1>7, <2>1 DEF TypeInv, TypeManual
<1> QED BY <1>6, <1>7

LEMMA ExitTyped ==
  ASSUME TypeInv, NEW s \in Squadrons
  PROVE  /\ exit[s] \in Exits /\ exit[s].n \in 0..MaxHeld /\ exit[s].k \in 0..MaxHeld
         /\ exit[s].at # "idle" => exit[s].n > 0
         /\ exit[s].at \in Gone => exit[s].k \in 1..exit[s].n
         /\ exit[s].at # "idle" <=> claim = s
BY DEF TypeInv, TypeExits, Exits

LEMMA SweepTyped ==
  ASSUME TypeInv, NEW s \in Squadrons
  PROVE  /\ sweep[s] \in Sweeps /\ sweep[s].seen \in Int /\ sweep[s].seen <= MaxHeld
         /\ sweep[s].due \in SUBSET (Keys \X Sizes)
         /\ sweep[s].at \in Held => sweep[s].seen \in Sizes
BY DEF TypeInv, TypeSweeps, Sweeps

LEMMA LoopsTyped ==
  ASSUME TypeInv, NEW s \in Squadrons
  PROVE  /\ guard[s] \in 0..MaxHeld /\ mine[s] \in Nat /\ mine[s] <= bought
         /\ entering[s] \in Nat /\ entering[s] <= MaxHeld /\ opRelease[s] \in BOOLEAN
         /\ bought \in Nat /\ bought <= MaxHeld /\ held \in Int /\ held <= bought
BY DEF TypeInv, TypeLoops, TypeVenue

\* One sweep at a time moves.
LEMMA SweepMoves ==
  ASSUME TypeInv, NEW s \in Squadrons, NEW w \in Sweeps, sweep' = [sweep EXCEPT ![s] = w],
         w.seen <= MaxHeld, w.at \in Held => w.seen > 0
  PROVE  TypeSweeps'
<1>1. sweep \in [Squadrons -> Sweeps]
  BY DEF TypeInv, TypeSweeps
<1>2. sweep' \in [Squadrons -> Sweeps]
  BY <1>1
<1>3. sweep'[s] = w /\ \A q \in Squadrons \ {s} : sweep'[q] = sweep[q]
  BY <1>1
<1> QED BY <1>2, <1>3 DEF TypeInv, TypeSweeps

LEMMA SweepSteps ==
  ASSUME TypeInv, NEW s \in Squadrons, NEW at \in Stages, at \in Held => sweep[s].at \in Held,
         sweep' \in {Over(s), MoveTo(s, at), [sweep EXCEPT ![s] = Unswept]}
  PROVE  TypeSweeps'
<1>1. /\ Unswept \in Sweeps /\ [Unswept EXCEPT !.at = "release"] \in Sweeps
      /\ [sweep[s] EXCEPT !.at = at] \in Sweeps
      /\ [sweep[s] EXCEPT !.at = at].at = at /\ [sweep[s] EXCEPT !.at = at].seen = sweep[s].seen
  BY SweepTyped DEF Sweeps, Stages
<1>2. sweep[s].seen <= MaxHeld /\ (at \in Held => sweep[s].seen > 0)
  BY SweepTyped
<1>3. CASE sweep' = MoveTo(s, at)
  <2> DEFINE w == [sweep[s] EXCEPT !.at = at]
  <2>1. sweep' = [sweep EXCEPT ![s] = w]
    BY <1>3 DEF MoveTo
  <2>2. w \in Sweeps /\ w.seen <= MaxHeld /\ (w.at \in Held => w.seen > 0)
    BY <1>1, <1>2
  <2> HIDE DEF w
  <2> QED BY <2>1, <2>2, SweepMoves
<1>4. CASE sweep' \in {Over(s), [sweep EXCEPT ![s] = Unswept]}
  <2>1. PICK w \in {Unswept, [Unswept EXCEPT !.at = "release"]} : sweep' = [sweep EXCEPT ![s] = w]
    BY <1>4 DEF Over
  <2>2. w \in Sweeps /\ w.seen <= MaxHeld /\ (w.at \in Held => w.seen > 0)
    BY <1>1, <2>1 DEF Held
  <2> QED BY <2>1, <2>2, SweepMoves
<1> QED BY <1>3, <1>4

-----------------------------------------------------------------------------
(* Every step keeps the types.                                             *)

LEMMA EnterType ==
  ASSUME TypeInv, NEW s \in Squadrons, NEW n \in Lots, Enter(s, n)
  PROVE  TypeInv'
<1>1. TypeVenue'
  BY DEF Enter, TypeInv, TypeVenue
<1>2. TypeFlags'
  BY DEF Enter, TypeInv, TypeFlags
<1>3. TypeLoops'
  <2>1. n \in 1..MaxLot /\ n <= MaxHeld /\ bought' = bought + n
    BY LoopsTyped DEF Enter
  <2>2. /\ guard' = [guard EXCEPT ![s] = n] /\ entering' = [entering EXCEPT ![s] = n]
        /\ mine' = [mine EXCEPT ![s] = @ + n] /\ opRelease' = [opRelease EXCEPT ![s] = FALSE]
    BY DEF Enter
  <2>3. guard' \in [Squadrons -> 0..MaxHeld]
    BY <2>1, <2>2 DEF TypeInv, TypeLoops
  <2>4. mine' \in [Squadrons -> Nat] /\ \A q \in Squadrons : mine'[q] <= bought'
    BY <2>1, <2>2 DEF TypeInv, TypeLoops, TypeVenue
  <2>5. entering' \in [Squadrons -> 0..MaxLot] /\ \A q \in Squadrons : entering'[q] <= MaxHeld
    BY <2>1, <2>2 DEF TypeInv, TypeLoops
  <2>6. opRelease' \in [Squadrons -> BOOLEAN]
    BY <2>2 DEF TypeInv, TypeLoops
  <2> QED BY <2>3, <2>4, <2>5, <2>6 DEF TypeLoops
<1>4. TypeExits'
  BY DEF Enter, TypeInv, TypeExits
<1>5. TypeSweeps'
  BY DEF Enter, TypeInv, TypeSweeps
<1>6. TypeManual'
  BY DEF Enter, TypeInv, TypeManual
<1>7. TypeLedger'
  BY DEF Enter, TypeInv, TypeLedger
<1> QED BY <1>1, <1>2, <1>3, <1>4, <1>5, <1>6, <1>7 DEF TypeInv

LEMMA EnterRowType ==
  ASSUME TypeInv, NEW s \in Squadrons, EnterRow(s)
  PROVE  TypeInv'
<1>1. TypeVenue'
  BY DEF EnterRow, TypeInv, TypeVenue
<1>2. TypeFlags'
  BY DEF EnterRow, TypeInv, TypeFlags
<1>3. TypeLoops'
  BY DEF EnterRow, TypeInv, TypeLoops
<1>4. TypeExits'
  BY DEF EnterRow, TypeInv, TypeExits
<1>5. TypeSweeps'
  BY DEF EnterRow, TypeInv, TypeSweeps
<1>6. TypeManual'
  BY DEF EnterRow, TypeInv, TypeManual
<1>7. TypeLedger'
  <2>1. [n |-> entering[s], fill |-> TRUE] \in Row
    BY LoopsTyped
  <2> QED BY <2>1 DEF EnterRow, TypeInv, TypeLedger
<1> QED BY <1>1, <1>2, <1>3, <1>4, <1>5, <1>6, <1>7 DEF TypeInv

LEMMA ExitStartType ==
  ASSUME TypeInv, NEW s \in Squadrons, ExitStart(s)
  PROVE  TypeInv'
<1>0. TypeExits' /\ TypeManual'
  <2>1. CASE Dropped(s)
    BY <2>1 DEF ExitStart, TypeInv, TypeExits, TypeManual
  <2>2. CASE ~Dropped(s)
    <3> DEFINE e == [at |-> "selling", n |-> guard[s], k |-> 0]
    <3>1. /\ exit' = [exit EXCEPT ![s] = e] /\ claim' = s /\ claim = Nobody /\ guard[s] > 0
          /\ manual' = manual
      BY <2>2 DEF ExitStart, Claimable
    <3>2. e \in Exits /\ e.at = "selling" /\ e.n > 0
      BY <3>1, LoopsTyped DEF Exits, Selling
    <3> HIDE DEF e
    <3> QED BY <3>1, <3>2, ExitMoves DEF Gone
  <2> QED BY <2>1, <2>2
<1>1. TypeVenue'
  BY DEF ExitStart, TypeInv, TypeVenue
<1>2. TypeFlags'
  BY DEF ExitStart, TypeInv, TypeFlags
<1>3. TypeLoops'
  <2>1. CASE Dropped(s)
    <3>1. /\ guard' = [guard EXCEPT ![s] = 0] /\ opRelease' = [opRelease EXCEPT ![s] = FALSE]
          /\ UNCHANGED <<mine, entering, bought>>
      BY <2>1 DEF ExitStart, Drop
    <3>2. guard' \in [Squadrons -> 0..MaxHeld]
      BY <3>1 DEF TypeInv, TypeLoops
    <3>3. opRelease' \in [Squadrons -> BOOLEAN]
      BY <3>1 DEF TypeInv, TypeLoops
    <3> QED BY <3>1, <3>2, <3>3 DEF TypeInv, TypeLoops
  <2>2. CASE ~Dropped(s)
    BY <2>2 DEF ExitStart, TypeInv, TypeLoops
  <2> QED BY <2>1, <2>2
<1>4. TypeExits'
  BY <1>0
<1>5. TypeSweeps'
  BY DEF ExitStart, TypeInv, TypeSweeps
<1>6. TypeManual'
  BY <1>0
<1>7. TypeLedger'
  BY DEF ExitStart, TypeInv, TypeLedger
<1> QED BY <1>1, <1>2, <1>3, <1>4, <1>5, <1>6, <1>7 DEF TypeInv

LEMMA ExitSellType ==
  ASSUME TypeInv, NEW s \in Squadrons, NEW k \in 0..MaxHeld, ExitSell(s, k)
  PROVE  TypeInv'
<1>0. TypeExits' /\ TypeManual'
  <2> DEFINE e == IF k = 0 THEN Resting ELSE [exit[s] EXCEPT !.at = "sold", !.k = k]
  <2>1. /\ exit[s].at = "selling" /\ k <= exit[s].n /\ manual' = manual
        /\ exit' = [exit EXCEPT ![s] = e] /\ claim' = IF k = 0 THEN Nobody ELSE claim
    BY DEF ExitSell
  <2>2. claim = s /\ exit[s] \in Exits /\ exit[s].n > 0
    BY <2>1, ExitTyped
  <2>3. /\ e \in Exits /\ (e.at = "idle" <=> k = 0)
        /\ e.at # "idle" => e.n > 0
        /\ e.at \in Gone => e.k \in 1..e.n
    <3>1. CASE k = 0
      <4>1. e = Resting
        BY <3>1
      <4> HIDE DEF e
      <4> QED BY <3>1, <4>1 DEF Exits, Selling, Gone
    <3>2. CASE k # 0
      <4>1. e = [exit[s] EXCEPT !.at = "sold", !.k = k] /\ k \in 1..exit[s].n
        BY <2>1, <2>2, <3>2 DEF Exits
      <4> HIDE DEF e
      <4>2. e \in Exits /\ e.at = "sold" /\ e.n = exit[s].n /\ e.k = k
        BY <2>2, <4>1 DEF Exits, Selling
      <4> QED BY <2>2, <3>2, <4>1, <4>2
    <3> QED BY <3>1, <3>2
  <2> HIDE DEF e
  <2> QED BY <2>1, <2>2, <2>3, ExitMoves
<1>1. TypeVenue'
  BY DEF ExitSell, TypeInv, TypeVenue
<1>2. TypeFlags'
  BY DEF ExitSell, TypeInv, TypeFlags
<1>3. TypeLoops'
  <2>1. mine[s] - Min({k, mine[s]}) \in Nat /\ mine[s] - Min({k, mine[s]}) <= bought
    BY LoopsTyped, MinOfTwo
  <2>2. mine' \in [Squadrons -> Nat] /\ \A q \in Squadrons : mine'[q] <= bought
    BY <2>1 DEF ExitSell, TypeInv, TypeLoops
  <2> QED BY <2>2 DEF ExitSell, TypeInv, TypeLoops
<1>4. TypeExits'
  BY <1>0
<1>5. TypeSweeps'
  BY DEF ExitSell, TypeInv, TypeSweeps
<1>6. TypeManual'
  BY <1>0
<1>7. TypeLedger'
  BY DEF ExitSell, TypeInv, TypeLedger
<1> QED BY <1>1, <1>2, <1>3, <1>4, <1>5, <1>6, <1>7 DEF TypeInv

\* A sale that goes unheard moves the account and what has strayed, nothing else.
LEMMA StrayMoves ==
  ASSUME TypeInv, NEW k \in 0..MaxHeld, Stray(k), UNCHANGED <<bought, restarts>>
  PROVE  TypeVenue'
BY DEF Stray, TypeInv, TypeVenue

LEMMA ExitUnheardType ==
  ASSUME TypeInv, NEW s \in Squadrons, NEW k \in 0..MaxHeld, ExitUnheard(s, k)
  PROVE  TypeInv'
<1>0. TypeExits' /\ TypeManual'
  <2>1. /\ exit[s].at = "selling" /\ exit' = [exit EXCEPT ![s] = Resting] /\ claim' = Nobody
        /\ manual' = manual
    BY DEF ExitUnheard
  <2>2. claim = s /\ Resting \in Exits /\ Resting.at = "idle"
    BY <2>1, ExitTyped DEF Exits, Selling
  <2> QED BY <2>1, <2>2, ExitMoves DEF Gone
<1>1. TypeVenue'
  BY StrayMoves DEF ExitUnheard
<1>2. TypeFlags'
  BY DEF ExitUnheard, TypeInv, TypeFlags
<1>3. TypeLoops'
  BY DEF ExitUnheard, TypeInv, TypeLoops
<1>5. TypeSweeps'
  BY DEF ExitUnheard, TypeInv, TypeSweeps
<1>7. TypeLedger'
  BY DEF ExitUnheard, TypeInv, TypeLedger
<1> QED BY <1>0, <1>1, <1>2, <1>3, <1>5, <1>7 DEF TypeInv

LEMMA ExitBookType ==
  ASSUME TypeInv, NEW s \in Squadrons, ExitBook(s)
  PROVE  TypeInv'
<1>0. TypeExits' /\ TypeManual'
  <2> DEFINE e == [exit[s] EXCEPT !.at = "booked"]
  <2>1. exit[s].at = "sold" /\ exit' = [exit EXCEPT ![s] = e] /\ UNCHANGED <<claim, manual>>
    BY DEF ExitBook
  <2>2. claim = s /\ exit[s] \in Exits /\ exit[s].n > 0 /\ exit[s].k \in 1..exit[s].n
    BY <2>1, ExitTyped DEF Gone
  <2>3. e \in Exits /\ e.at = "booked" /\ e.n > 0 /\ e.k \in 1..e.n
    BY <2>1, <2>2 DEF Exits, Selling
  <2> HIDE DEF e
  <2> QED BY <2>1, <2>2, <2>3, ExitMoves
<1>1. TypeVenue'
  BY ExitTyped DEF ExitBook, TypeInv, TypeVenue
<1>2. TypeFlags'
  BY DEF ExitBook, TypeInv, TypeFlags
<1>3. TypeLoops'
  BY DEF ExitBook, TypeInv, TypeLoops
<1>4. TypeExits'
  BY <1>0
<1>5. TypeSweeps'
  BY DEF ExitBook, TypeInv, TypeSweeps
<1>6. TypeManual'
  BY <1>0
<1>7. TypeLedger'
  <2>1. <<s, exit[s].k>> \in Strategies \X Sizes
    BY ExitTyped DEF ExitBook, Gone
  <2> QED BY <2>1 DEF ExitBook, TypeInv, TypeLedger
<1> QED BY <1>1, <1>2, <1>3, <1>4, <1>5, <1>6, <1>7 DEF TypeInv

LEMMA RowsClosed ==
  ASSUME TypeInv, NEW strategy \in Strategies
  PROVE  Closed(strategy) \in [Keys -> Row]
BY DEF Closed, TypeInv, TypeLedger

LEMMA RowsShrunk ==
  ASSUME TypeInv, NEW key \in Keys, NEW n \in 0..MaxHeld
  PROVE  Shrunk(key, n) \in [Keys -> Row]
BY DEF Shrunk, TypeInv, TypeLedger

LEMMA RowsReduced ==
  ASSUME TypeInv, NEW strategy \in Strategies, NEW n \in 0..MaxHeld
  PROVE  Reduced(strategy, n) \in [Keys -> Row]
BY DEF Reduced, TypeInv, TypeLedger

LEMMA ExitCloseType ==
  ASSUME TypeInv, NEW s \in Squadrons, ExitClose(s)
  PROVE  TypeInv'
<1>0. TypeExits' /\ TypeManual'
  <2>1. exit[s].at = "booked" /\ exit' = [exit EXCEPT ![s] = Resting] /\ claim' = Nobody /\ manual' = manual
    BY DEF ExitClose
  <2>2. claim = s /\ Resting \in Exits /\ Resting.at = "idle"
    BY <2>1, ExitTyped DEF Exits, Selling
  <2> QED BY <2>1, <2>2, ExitMoves DEF Gone
<1>1. TypeVenue'
  BY DEF ExitClose, TypeInv, TypeVenue
<1>2. TypeFlags'
  BY DEF ExitClose, TypeInv, TypeFlags
<1>3. TypeLoops'
  <2>1. guard' = [guard EXCEPT ![s] = exit[s].n - exit[s].k]
    BY DEF ExitClose
  <2>2. exit[s].n - exit[s].k \in 0..MaxHeld
    BY ExitTyped DEF ExitClose, Gone
  <2>3. guard' \in [Squadrons -> 0..MaxHeld]
    BY <2>1, <2>2 DEF TypeInv, TypeLoops
  <2> QED BY <2>3 DEF ExitClose, TypeInv, TypeLoops
<1>4. TypeExits'
  BY <1>0
<1>5. TypeSweeps'
  BY DEF ExitClose, TypeInv, TypeSweeps
<1>6. TypeManual'
  BY <1>0
<1>7. TypeLedger'
  <2>1. exit[s].n - exit[s].k \in 0..MaxHeld /\ <<"viper", s>> \in Keys /\ s \in Strategies
    BY ExitTyped DEF ExitClose, Gone
  <2>2. rows' \in [Keys -> Row]
    BY <2>1, RowsClosed, RowsShrunk DEF ExitClose
  <2> QED BY <2>2 DEF ExitClose, TypeInv, TypeLedger
<1> QED BY <1>1, <1>2, <1>3, <1>4, <1>5, <1>6, <1>7 DEF TypeInv

LEMMA ManualStartType ==
  ASSUME TypeInv, NEW key \in Keys, ManualStart(key)
  PROVE  TypeInv'
<1>1. TypeVenue'
  BY DEF ManualStart, TypeInv, TypeVenue
<1>2. TypeFlags'
  BY DEF ManualStart, TypeInv, TypeFlags
<1>3. TypeLoops'
  BY DEF ManualStart, TypeInv, TypeLoops
<1>4. TypeExits'
  BY DEF ManualStart, Claimable, TypeInv, TypeExits
<1>5. TypeSweeps'
  BY DEF ManualStart, TypeInv, TypeSweeps
<1>6. TypeManual'
  <2>1. rows[key] \in Row /\ rows[key].n > 0 /\ key[1] \in Kinds /\ key[2] \in Squadrons
    BY DEF ManualStart, Live, TypeInv, TypeLedger
  <2>2. /\ manual' = [at |-> "selling", strategy |-> StrategyOf(key), of |-> key[2], n |-> rows[key].n, k |-> 0]
        /\ claim' = Operator
    BY DEF ManualStart
  <2>3. StrategyOf(key) \in Strategies /\ StrategyOf(key) \in {Adopted, key[2]}
    BY <2>1 DEF StrategyOf
  <2> QED BY <2>1, <2>2, <2>3 DEF TypeManual, Selling, Gone
<1>7. TypeLedger'
  BY DEF ManualStart, TypeInv, TypeLedger
<1> QED BY <1>1, <1>2, <1>3, <1>4, <1>5, <1>6, <1>7 DEF TypeInv

\* What Close Now knows of its sale.
LEMMA ManualTyped ==
  ASSUME TypeInv
  PROVE  /\ manual.n \in Nat /\ manual.n <= MaxHeld /\ manual.k \in 0..manual.n
         /\ manual.at \in Gone => manual.k > 0
         /\ manual.at # "idle" => /\ manual.n > 0 /\ manual.of \in Squadrons /\ claim = Operator
                                  /\ manual.strategy \in {Adopted, manual.of}
BY DEF TypeInv, TypeManual

\* What a sale takes beyond the account's own is no less than nothing.
LEMMA BeyondNat ==
  ASSUME TypeInv, NEW k \in Nat
  PROVE  LET spare == held + strayed - Contracts(mine, OtherVipers)
         IN  Beyond(k) \in Nat /\ k - spare <= Beyond(k)
<1> DEFINE x == k + Contracts(mine, OtherVipers) - (held + strayed)
<1>1. Contracts(mine, OtherVipers) \in Nat
  BY FS_Subset, ContractsNat DEF OtherVipers, TypeInv, TypeLoops
<1>2. x \in Int /\ held \in Int /\ strayed \in Nat
  BY <1>1 DEF TypeInv, TypeVenue
<1>3. Beyond(k) = Max({0, x})
  BY DEF Beyond
<1> HIDE DEF x
<1>4. Max({0, x}) = IF x <= 0 THEN 0 ELSE x
  BY <1>2 DEF Max
<1>5. Beyond(k) \in Nat /\ x <= Beyond(k)
  BY <1>2, <1>3, <1>4
<1> QED BY <1>1, <1>2, <1>5 DEF x

LEMMA ManualSellType ==
  ASSUME TypeInv, NEW k \in 0..MaxHeld, ManualSell(k)
  PROVE  TypeInv'
<1>0. k \in Nat /\ k <= manual.n /\ manual.at = "selling"
  BY DEF ManualSell
<1>1. TypeVenue'
  <2>1. strayed' \in Nat
    <3>1. strayed' = strayed + k \/ strayed' = strayed + Beyond(k)
      BY DEF ManualSell
    <3>2. Beyond(k) \in Nat /\ strayed \in Nat
      BY <1>0, BeyondNat DEF TypeInv, TypeVenue
    <3> QED BY <1>0, <3>1, <3>2
  <2>2. held' = held - k /\ unbooked' = unbooked + k /\ UNCHANGED <<bought, restarts>>
    BY DEF ManualSell
  <2> QED BY <1>0, <2>1, <2>2 DEF TypeInv, TypeVenue
<1>2. TypeFlags'
  <2>1. raced' \in BOOLEAN
    BY DEF ManualSell, TypeInv, TypeFlags
  <2> QED BY <2>1 DEF ManualSell, TypeInv, TypeFlags
<1>3. TypeLoops'
  <2>1. CASE mine' = mine
    BY <2>1 DEF ManualSell, TypeInv, TypeLoops
  <2>2. CASE mine' # mine
    <3>1. /\ manual.strategy # Adopted
          /\ mine' = [mine EXCEPT ![manual.of] = @ - Min({k, @})]
      BY <2>2 DEF ManualSell
    <3>2. manual.of \in Squadrons
      BY <1>0, ManualTyped
    <3>3. /\ mine[manual.of] - Min({k, mine[manual.of]}) \in Nat
          /\ mine[manual.of] - Min({k, mine[manual.of]}) <= bought
      BY <1>0, <3>2, LoopsTyped, MinOfTwo
    <3>4. mine' \in [Squadrons -> Nat] /\ \A q \in Squadrons : mine'[q] <= bought
      BY <3>1, <3>3 DEF TypeInv, TypeLoops
    <3> QED BY <3>4 DEF ManualSell, TypeInv, TypeLoops
  <2> QED BY <2>1, <2>2
<1>4. TypeExits'
  <2>1. claim = Operator /\ claim' \in {Operator, Nobody} /\ exit' = exit
    BY DEF ManualSell, TypeInv, TypeManual
  <2> QED BY <2>1 DEF TypeInv, TypeExits
<1>5. TypeSweeps'
  BY DEF ManualSell, TypeInv, TypeSweeps
<1>6. TypeManual'
  <2>1. CASE k = 0
    <3>1. manual' = Unasked /\ claim' = Nobody
      BY <2>1 DEF ManualSell
    <3> QED BY <3>1 DEF TypeInv, TypeManual, Selling, Gone
  <2>2. CASE k # 0
    <3>1. manual' = [manual EXCEPT !.at = "sold", !.k = k] /\ claim' = claim
      BY <2>2 DEF ManualSell
    <3>2. /\ manual \in [at : Selling, strategy : Strategies, of : Squadrons \cup {"none"},
                         n : 0..MaxHeld, k : 0..MaxHeld]
          /\ manual.n > 0 /\ manual.of \in Squadrons /\ manual.strategy \in {Adopted, manual.of}
          /\ claim = Operator
      BY <1>0 DEF TypeInv, TypeManual
    <3>3. /\ manual'.at = "sold" /\ manual'.k = k /\ manual'.n = manual.n
          /\ manual'.of = manual.of /\ manual'.strategy = manual.strategy
      BY <3>1, <3>2
    <3>4. manual' \in [at : Selling, strategy : Strategies, of : Squadrons \cup {"none"},
                       n : 0..MaxHeld, k : 0..MaxHeld]
      BY <3>1, <3>2 DEF Selling
    <3> QED BY <1>0, <2>2, <3>1, <3>2, <3>3, <3>4 DEF TypeManual, Gone
  <2> QED BY <2>1, <2>2
<1>7. TypeLedger'
  BY DEF ManualSell, TypeInv, TypeLedger
<1> QED BY <1>1, <1>2, <1>3, <1>4, <1>5, <1>6, <1>7 DEF TypeInv

LEMMA ManualUnheardType ==
  ASSUME TypeInv, NEW k \in 0..MaxHeld, ManualUnheard(k)
  PROVE  TypeInv'
<1>1. TypeVenue'
  BY StrayMoves DEF ManualUnheard
<1>2. TypeFlags'
  BY DEF ManualUnheard, TypeInv, TypeFlags
<1>3. TypeLoops'
  BY DEF ManualUnheard, TypeInv, TypeLoops
<1>4. TypeExits'
  <2>1. claim = Operator /\ claim' = Nobody /\ exit' = exit
    BY DEF ManualUnheard, TypeInv, TypeManual
  <2> QED BY <2>1 DEF TypeInv, TypeExits
<1>5. TypeSweeps'
  BY DEF ManualUnheard, TypeInv, TypeSweeps
<1>6. TypeManual'
  <2>1. manual' = Unasked /\ claim' = Nobody
    BY DEF ManualUnheard
  <2> QED BY <2>1 DEF TypeInv, TypeManual, Selling, Gone
<1>7. TypeLedger'
  BY DEF ManualUnheard, TypeInv, TypeLedger
<1> QED BY <1>1, <1>2, <1>3, <1>4, <1>5, <1>6, <1>7 DEF TypeInv

LEMMA ManualBookType ==
  ASSUME TypeInv, ManualBook
  PROVE  TypeInv'
<1>1. TypeVenue'
  <2>1. manual.k \in Nat
    BY ManualTyped
  <2> QED BY <2>1 DEF ManualBook, TypeInv, TypeVenue
<1>2. TypeFlags'
  BY DEF ManualBook, TypeInv, TypeFlags
<1>3. TypeLoops'
  BY DEF ManualBook, TypeInv, TypeLoops
<1>4. TypeExits'
  BY DEF ManualBook, TypeInv, TypeExits
<1>5. TypeSweeps'
  BY DEF ManualBook, TypeInv, TypeSweeps
<1>6. TypeManual'
  BY DEF ManualBook, TypeInv, TypeManual, Selling, Gone
<1>7. TypeLedger'
  <2>1. manual.k \in Sizes /\ manual.strategy \in Strategies
    BY ManualTyped DEF ManualBook, TypeInv, TypeManual, Gone
  <2> QED BY <2>1 DEF ManualBook, TypeInv, TypeLedger
<1> QED BY <1>1, <1>2, <1>3, <1>4, <1>5, <1>6, <1>7 DEF TypeInv

LEMMA ManualCloseType ==
  ASSUME TypeInv, ManualClose
  PROVE  TypeInv'
<1>1. TypeVenue'
  BY DEF ManualClose, TypeInv, TypeVenue
<1>2. TypeFlags'
  BY DEF ManualClose, TypeInv, TypeFlags
<1>3. TypeLoops'
  <2>1. opRelease' \in [Squadrons -> BOOLEAN]
    BY DEF ManualClose, TypeInv, TypeLoops
  <2> QED BY <2>1 DEF ManualClose, TypeInv, TypeLoops
<1>4. TypeExits'
  <2>1. claim = Operator /\ claim' = Nobody /\ exit' = exit
    BY DEF ManualClose, TypeInv, TypeManual
  <2> QED BY <2>1 DEF TypeInv, TypeExits
<1>5. TypeSweeps'
  BY DEF ManualClose, TypeInv, TypeSweeps
<1>6. TypeManual'
  BY DEF ManualClose, TypeInv, TypeManual, Selling, Gone
<1>7. TypeLedger'
  <2>1. manual.n - manual.k \in 0..MaxHeld /\ manual.strategy \in Strategies
    BY ManualTyped DEF TypeInv, TypeManual
  <2>2. rows' \in [Keys -> Row]
    <3>1. \/ rows' = Reduced(manual.strategy, manual.n - manual.k)
          \/ rows' = Closed(manual.strategy)
      BY DEF ManualClose
    <3>2. Reduced(manual.strategy, manual.n - manual.k) \in [Keys -> Row]
      BY <2>1, RowsReduced
    <3>3. Closed(manual.strategy) \in [Keys -> Row]
      BY <2>1, RowsClosed
    <3> QED BY <3>1, <3>2, <3>3
  <2> QED BY <2>2 DEF ManualClose, TypeInv, TypeLedger
<1> QED BY <1>1, <1>2, <1>3, <1>4, <1>5, <1>6, <1>7 DEF TypeInv

LEMMA SweepReadType ==
  ASSUME TypeInv, NEW s \in Squadrons, SweepRead(s)
  PROVE  TypeInv'
<1>1. TypeVenue'
  BY DEF SweepRead, TypeInv, TypeVenue
<1>2. TypeFlags'
  BY DEF SweepRead, TypeInv, TypeFlags
<1>3. TypeLoops'
  BY DEF SweepRead, TypeInv, TypeLoops
<1>4. TypeExits'
  BY DEF SweepRead, TypeInv, TypeExits
<1>5. TypeSweeps'
  <2>1. CASE sweep' = Over(s)
    BY <2>1, SweepSteps DEF Stages, Held
  <2>2. CASE sweep' # Over(s)
    <3> DEFINE w == [at |-> IF held > 0 THEN "claim" ELSE "probe", seen |-> held, due |-> {}]
    <3>1. sweep' = [sweep EXCEPT ![s] = w]
      BY <2>2 DEF SweepRead
    <3>2. w \in Sweeps /\ w.seen <= MaxHeld /\ (w.at \in Held => w.seen > 0)
      BY LoopsTyped DEF Sweeps, Stages, Held
    <3> HIDE DEF w
    <3> QED BY <3>1, <3>2, SweepMoves
  <2> QED BY <2>1, <2>2
<1>6. TypeManual'
  BY DEF SweepRead, TypeInv, TypeManual
<1>7. TypeLedger'
  BY DEF SweepRead, TypeInv, TypeLedger
<1> QED BY <1>1, <1>2, <1>3, <1>4, <1>5, <1>6, <1>7 DEF TypeInv

LEMMA Adopting ==
  ASSUME TypeInv, NEW key \in Keys, NEW n \in Sizes, Adopt(key, n), UNCHANGED trades
  PROVE  TypeLedger' /\ raced' \in BOOLEAN
<1>1. [n |-> n, fill |-> FALSE] \in Row
  OBVIOUS
<1>2. rows' \in [Keys -> Row]
  BY <1>1 DEF Adopt, TypeInv, TypeLedger
<1>3. raced' \in BOOLEAN
  BY DEF Adopt
<1> QED BY <1>2, <1>3 DEF TypeInv, TypeLedger

LEMMA SweepClaimType ==
  ASSUME TypeInv, NEW s \in Squadrons, SweepClaim(s)
  PROVE  TypeInv'
<1>0. <<"viper", s>> \in Keys /\ sweep[s].seen \in Sizes
  BY SweepTyped DEF SweepClaim, Held
<1>1. TypeVenue'
  BY DEF SweepClaim, TypeInv, TypeVenue
<1>2. TypeFlags'
  <2>1. CASE guard[s] > 0
    <3>1. raced' \in BOOLEAN
      BY <1>0, <2>1, Adopting DEF SweepClaim
    <3>2. protected' = TRUE /\ UNCHANGED <<settled, torn, released, flying, gap, noted, sighting>>
      BY <2>1 DEF SweepClaim
    <3> QED BY <3>1, <3>2 DEF TypeInv, TypeFlags
  <2>2. CASE ~(guard[s] > 0)
    <3>1. noted' = [noted EXCEPT ![s] = IF Claimed \/ @ = "old" THEN "no" ELSE "new"]
      BY <2>2 DEF SweepClaim
    <3>2. noted' \in [Squadrons -> {"no", "new", "old"}]
      BY <3>1 DEF TypeInv, TypeFlags
    <3>3. UNCHANGED <<settled, torn, raced, released, protected, flying, gap, sighting>>
      BY <2>2 DEF SweepClaim
    <3> QED BY <3>2, <3>3 DEF TypeInv, TypeFlags
  <2> QED BY <2>1, <2>2
<1>3. TypeLoops'
  BY DEF SweepClaim, TypeInv, TypeLoops
<1>4. TypeExits'
  BY DEF SweepClaim, TypeInv, TypeExits
<1>5. TypeSweeps'
  <2>1. sweep' \in {MoveTo(s, "follow"), MoveTo(s, "adopt")} /\ sweep[s].at \in Held
    BY DEF SweepClaim, Held
  <2> QED BY <2>1, SweepSteps DEF Stages
<1>6. TypeManual'
  BY DEF SweepClaim, TypeInv, TypeManual
<1>7. TypeLedger'
  <2>1. CASE guard[s] > 0
    BY <1>0, <2>1, Adopting DEF SweepClaim
  <2>2. CASE ~(guard[s] > 0)
    BY <2>2 DEF SweepClaim, TypeInv, TypeLedger
  <2> QED BY <2>1, <2>2
<1> QED BY <1>1, <1>2, <1>3, <1>4, <1>5, <1>6, <1>7 DEF TypeInv

LEMMA SweepAdoptType ==
  ASSUME TypeInv, NEW s \in Squadrons, SweepAdopt(s)
  PROVE  TypeInv'
<1>0. <<"adopted", s>> \in Keys /\ sweep[s].seen \in Sizes
  BY SweepTyped DEF SweepAdopt, Held
<1>1. TypeVenue'
  BY DEF SweepAdopt, TypeInv, TypeVenue
<1>2. TypeFlags'
  <2>1. raced' \in BOOLEAN
    BY <1>0, Adopting DEF SweepAdopt
  <2>2. protected' \in BOOLEAN /\ UNCHANGED <<settled, torn, released, flying, gap, noted, sighting>>
    BY DEF SweepAdopt
  <2> QED BY <2>1, <2>2 DEF TypeInv, TypeFlags
<1>3. TypeLoops'
  BY DEF SweepAdopt, TypeInv, TypeLoops
<1>4. TypeExits'
  BY DEF SweepAdopt, TypeInv, TypeExits
<1>5. TypeSweeps'
  <2>1. sweep' = MoveTo(s, "follow") /\ sweep[s].at \in Held
    BY DEF SweepAdopt, Held
  <2> QED BY <2>1, SweepSteps DEF Stages
<1>6. TypeManual'
  BY DEF SweepAdopt, TypeInv, TypeManual
<1>7. TypeLedger'
  BY <1>0, Adopting DEF SweepAdopt
<1> QED BY <1>1, <1>2, <1>3, <1>4, <1>5, <1>6, <1>7 DEF TypeInv

LEMMA SweepProbeType ==
  ASSUME TypeInv, NEW s \in Squadrons, SweepProbe(s)
  PROVE  TypeInv'
<1>1. TypeVenue'
  BY DEF SweepProbe, TypeInv, TypeVenue
<1>2. TypeFlags'
  BY DEF SweepProbe, TypeInv, TypeFlags
<1>3. TypeLoops'
  BY DEF SweepProbe, TypeInv, TypeLoops
<1>4. TypeExits'
  BY DEF SweepProbe, TypeInv, TypeExits
<1>5. TypeSweeps'
  <2>1. sweep' \in {Over(s), MoveTo(s, "settle"), MoveTo(s, "purge")}
    BY DEF SweepProbe
  <2> QED BY <2>1, SweepSteps DEF Stages, Held
<1>6. TypeManual'
  BY DEF SweepProbe, TypeInv, TypeManual
<1>7. TypeLedger'
  BY DEF SweepProbe, TypeInv, TypeLedger
<1> QED BY <1>1, <1>2, <1>3, <1>4, <1>5, <1>6, <1>7 DEF TypeInv

LEMMA KeysFinite == IsFiniteSet(Keys) /\ \A K \in SUBSET Keys : IsFiniteSet(K)
<1>1. IsFiniteSet({"viper", "adopted"})
  <2>1. IsFiniteSet({"viper"}) /\ {"viper"} \cup {"adopted"} = {"viper", "adopted"}
    BY FS_Singleton
  <2>2. IsFiniteSet({"viper"} \cup {"adopted"})
    BY <2>1, FS_AddElement
  <2> QED BY <2>1, <2>2
<1>2. IsFiniteSet(Keys)
  BY <1>1, FS_Product
<1> QED BY <1>2, FS_Subset

LEMMA TotalNat ==
  ASSUME TypeInv, NEW K \in SUBSET Keys
  PROVE  Total(K) \in Nat
<1> DEFINE f == [key \in Keys |-> rows[key].n]
<1>1. \A key \in K : f[key] \in Nat
  BY DEF TypeInv, TypeLedger
<1> HIDE DEF f
<1>2. Contracts(f, K) \in Nat
  BY <1>1, KeysFinite, ContractsNat
<1> QED BY <1>2 DEF Total, f

\* The figures of rows: a set of pairs, finite because the keys are.
LEMMA DueFinite ==
  ASSUME NEW due \in SUBSET (Keys \X Sizes)
  PROVE  IsFiniteSet(due)
<1>1. IsFiniteSet(Sizes)
  BY FS_Interval
<1>2. IsFiniteSet(Keys \X Sizes)
  BY <1>1, KeysFinite, FS_Product
<1> QED BY <1>2, FS_Subset

LEMMA FiguresNat ==
  ASSUME NEW A, NEW due \in SUBSET (A \X Sizes), IsFiniteSet(due)
  PROVE  Figures(due) \in Nat
<1> DEFINE f == [d \in due |-> d[2]]
<1>1. \A d \in due : f[d] \in Nat
  OBVIOUS
<1> HIDE DEF f
<1>2. Contracts(f, due) \in Nat
  BY <1>1, ContractsNat
<1> QED BY <1>2 DEF Figures, f

LEMMA SettlementType ==
  ASSUME TypeInv
  PROVE  SettlementOf \in SUBSET ({Settlement} \X Sizes) /\ IsFiniteSet(SettlementOf \ trades)
<1>1. \A key \in Live : rows[key].n \in Sizes
  BY DEF Live, TypeInv, TypeLedger
<1>2. SettlementOf \in SUBSET ({Settlement} \X Sizes)
  BY <1>1 DEF SettlementOf
<1>3. IsFiniteSet({Settlement} \X Sizes)
  <2>1. IsFiniteSet(Sizes)
    BY FS_Interval
  <2>2. IsFiniteSet({Settlement})
    BY FS_Singleton
  <2> QED BY <2>1, <2>2, FS_Product
<1> QED BY <1>2, <1>3, FS_Subset

LEMMA SightType ==
  ASSUME TypeInv, NEW target \in 0..MaxHeld, Sight(target)
  PROVE  sighting' \in [target : -1..MaxHeld, old : BOOLEAN]
BY DEF Sight, TypeInv, TypeFlags

LEMMA BookLeftType ==
  ASSUME TypeInv, NEW key \in Keys, NEW n \in Sizes, NEW covered \in BOOLEAN, BookLeft(key, n, covered)
  PROVE  /\ unbooked' \in Int
         /\ trades' \in SUBSET ((Strategies \cup {Settlement}) \X Sizes)
<1>1. StrategyOf(key) \in Strategies
  BY DEF StrategyOf
<1> QED BY <1>1 DEF BookLeft, TypeInv, TypeVenue, TypeLedger

LEMMA ResizeType ==
  ASSUME TypeInv, NEW key \in Keys, NEW target \in 0..MaxHeld, Resize(key, target)
  PROVE  /\ sighting' \in [target : -1..MaxHeld, old : BOOLEAN]
         /\ unbooked' \in Int /\ TypeLedger'
<1>1. CASE target = rows[key].n
  <2>1. sighting' = NoSighting /\ UNCHANGED <<rows, trades, unbooked>>
    BY <1>1 DEF Resize
  <2>2. sighting' \in [target : -1..MaxHeld, old : BOOLEAN]
    BY <2>1
  <2> QED BY <2>1, <2>2 DEF TypeInv, TypeVenue, TypeLedger
<1>2. CASE target # rows[key].n
  <2>1. sighting' \in [target : -1..MaxHeld, old : BOOLEAN]
    BY <1>2, SightType DEF Resize
  <2>2. CASE UNCHANGED <<rows, trades, unbooked>>
    BY <2>1, <2>2 DEF TypeInv, TypeVenue, TypeLedger
  <2>3. CASE ~ UNCHANGED <<rows, trades, unbooked>>
    <3>1. /\ rows' = [rows EXCEPT ![key] = IF target = 0 THEN NoRow ELSE [@ EXCEPT !.n = target]]
          /\ \/ target >= rows[key].n /\ UNCHANGED <<trades, unbooked>>
             \/ /\ ~(target >= rows[key].n)
                /\ \E covered \in BOOLEAN : BookLeft(key, rows[key].n - target, covered)
      BY <1>2, <2>3 DEF Resize
    <3>2. rows[key] \in Row
      BY DEF TypeInv, TypeLedger
    <3>3. rows' \in [Keys -> Row]
      BY <3>1, <3>2 DEF TypeInv, TypeLedger
    <3>4. ~(target >= rows[key].n) => rows[key].n - target \in Sizes
      BY <3>2
    <3>5. /\ unbooked' \in Int
          /\ trades' \in SUBSET ((Strategies \cup {Settlement}) \X Sizes)
      BY <3>1, <3>4, BookLeftType DEF TypeInv, TypeVenue, TypeLedger
    <3> QED BY <2>1, <3>3, <3>5 DEF TypeLedger
  <2> QED BY <2>2, <2>3
<1> QED BY <1>1, <1>2

LEMMA ExcessType ==
  ASSUME TypeInv, NEW s, NEW excess \in 0..MaxHeld, AdoptExcess(s, excess)
  PROVE  /\ sighting' \in [target : -1..MaxHeld, old : BOOLEAN]
         /\ protected' \in BOOLEAN /\ unbooked' \in Int /\ TypeLedger'
<1>1. CASE EngineRows # {} /\ excess > 0 /\ guard[s] > 0
  <2>1. Sight(excess) /\ UNCHANGED <<trades, unbooked>>
    BY <1>1 DEF AdoptExcess
  <2>2. CASE Due(excess)
    <3>1. PICK key \in EngineRows :
            rows' = [rows EXCEPT ![<<"adopted", key[2]>>] = [n |-> excess, fill |-> FALSE]]
      BY <1>1, <2>2 DEF AdoptExcess
    <3>2. <<"adopted", key[2]>> \in Keys /\ [n |-> excess, fill |-> FALSE] \in Row
      BY DEF EngineRows, Live
    <3>3. rows' \in [Keys -> Row]
      BY <3>1, <3>2 DEF TypeInv, TypeLedger
    <3>4. protected' = TRUE
      BY <1>1, <2>2 DEF AdoptExcess
    <3> QED BY <2>1, <3>3, <3>4, SightType DEF TypeInv, TypeVenue, TypeLedger
  <2>3. CASE ~Due(excess)
    <3>1. UNCHANGED <<rows, protected>>
      BY <1>1, <2>3 DEF AdoptExcess
    <3> QED BY <2>1, <3>1, SightType DEF TypeInv, TypeVenue, TypeFlags, TypeLedger
  <2> QED BY <2>2, <2>3
<1>2. CASE ~ (EngineRows # {} /\ excess > 0 /\ guard[s] > 0)
  <2>1. sighting' = NoSighting /\ UNCHANGED <<rows, trades, unbooked, protected>>
    BY <1>2 DEF AdoptExcess
  <2> QED BY <2>1 DEF TypeInv, TypeVenue, TypeFlags, TypeLedger
<1> QED BY <1>1, <1>2

LEMMA FollowParts ==
  ASSUME TypeInv, NEW s \in Squadrons, SweepFollow(s)
  PROVE  /\ sighting' \in [target : -1..MaxHeld, old : BOOLEAN]
         /\ protected' \in BOOLEAN /\ unbooked' \in Int /\ TypeLedger'
<1> DEFINE remainder == sweep[s].seen - Total(EngineRows)
<1>1. Total(EngineRows) \in Nat
  BY TotalNat DEF EngineRows, Live
<1>2. sweep[s].seen \in Int /\ sweep[s].seen <= MaxHeld
  BY SweepTyped
<1>3. \/ sighting' = NoSighting /\ UNCHANGED <<rows, trades, unbooked, protected>>
      \/ ~Unclear(remainder) /\ AdoptExcess(s, remainder)
      \/ /\ ~Unclear(remainder) /\ WalletRows # {}
         /\ \A key \in WalletRows : Resize(key, remainder)
         /\ UNCHANGED protected
  BY DEF SweepFollow
<1>4. ~Unclear(remainder) => remainder \in 0..MaxHeld
  BY <1>1, <1>2 DEF Unclear
<1>5. WalletRows \subseteq Keys
  BY DEF WalletRows, Live
<1> HIDE DEF remainder
<1>6. CASE sighting' = NoSighting /\ UNCHANGED <<rows, trades, unbooked, protected>>
  BY <1>6 DEF TypeInv, TypeVenue, TypeFlags, TypeLedger
<1>7. CASE ~Unclear(remainder) /\ AdoptExcess(s, remainder)
  BY <1>4, <1>7, ExcessType
<1>8. CASE /\ ~Unclear(remainder) /\ WalletRows # {}
           /\ \A key \in WalletRows : Resize(key, remainder)
           /\ UNCHANGED protected
  <2>1. PICK key \in WalletRows : Resize(key, remainder)
    BY <1>8
  <2>2. protected' \in BOOLEAN
    BY <1>8 DEF TypeInv, TypeFlags
  <2> QED BY <1>4, <1>5, <1>8, <2>1, <2>2, ResizeType
<1> QED BY <1>3, <1>6, <1>7, <1>8

LEMMA SweepFollowType ==
  ASSUME TypeInv, NEW s \in Squadrons, SweepFollow(s)
  PROVE  TypeInv'
<1>1. TypeVenue'
  BY FollowParts DEF SweepFollow, TypeInv, TypeVenue
<1>2. TypeFlags'
  <2>1. raced' \in BOOLEAN
    BY DEF SweepFollow
  <2>2. gap' \in SUBSET Squadrons
    BY DEF SweepFollow, TypeInv, TypeFlags
  <2>3. UNCHANGED <<settled, torn, released, flying, noted>>
    BY DEF SweepFollow
  <2> QED BY <2>1, <2>2, <2>3, FollowParts DEF TypeInv, TypeFlags
<1>3. TypeLoops'
  BY DEF SweepFollow, TypeInv, TypeLoops
<1>4. TypeExits'
  BY DEF SweepFollow, TypeInv, TypeExits
<1>5. TypeSweeps'
  <2>1. sweep' = Over(s)
    BY DEF SweepFollow
  <2> QED BY <2>1, SweepSteps DEF Stages, Held
<1>6. TypeManual'
  BY DEF SweepFollow, TypeInv, TypeManual
<1>7. TypeLedger'
  BY FollowParts
<1> QED BY <1>1, <1>2, <1>3, <1>4, <1>5, <1>6, <1>7 DEF TypeInv

LEMMA SweepSettleType ==
  ASSUME TypeInv, NEW s \in Squadrons, SweepSettle(s)
  PROVE  TypeInv'
<1>1. TypeVenue'
  <2>1. Figures(SettlementOf \ trades) \in Nat
    BY SettlementType, FiguresNat
  <2> QED BY <2>1 DEF SweepSettle, TypeInv, TypeVenue
<1>2. TypeFlags'
  <2>1. released' \in BOOLEAN
    BY DEF SweepSettle
  <2> QED BY <2>1 DEF SweepSettle, TypeInv, TypeFlags
<1>3. TypeLoops'
  BY DEF SweepSettle, TypeInv, TypeLoops
<1>4. TypeExits'
  BY DEF SweepSettle, TypeInv, TypeExits
<1>5. TypeSweeps'
  <2>1. sweep' = Over(s)
    BY DEF SweepSettle
  <2> QED BY <2>1, SweepSteps DEF Stages, Held
<1>6. TypeManual'
  BY DEF SweepSettle, TypeInv, TypeManual
<1>7. TypeLedger'
  <2>1. rows' \in [Keys -> Row]
    BY DEF SweepSettle
  <2>2. trades' \in SUBSET ((Strategies \cup {Settlement}) \X Sizes)
    BY SettlementType DEF SweepSettle, TypeInv, TypeLedger
  <2> QED BY <2>1, <2>2 DEF TypeLedger
<1> QED BY <1>1, <1>2, <1>3, <1>4, <1>5, <1>6, <1>7 DEF TypeInv

LEMMA SweepPurgeType ==
  ASSUME TypeInv, NEW s \in Squadrons, SweepPurge(s)
  PROVE  TypeInv'
<1>1. TypeVenue'
  BY DEF SweepPurge, TypeInv, TypeVenue
<1>2. TypeFlags'
  <2>1. released' \in BOOLEAN /\ raced' \in BOOLEAN
    BY DEF SweepPurge, TypeInv, TypeFlags
  <2> QED BY <2>1 DEF SweepPurge, TypeInv, TypeFlags
<1>3. TypeLoops'
  BY DEF SweepPurge, TypeInv, TypeLoops
<1>4. TypeExits'
  BY DEF SweepPurge, TypeInv, TypeExits
<1>5. TypeSweeps'
  <2>1. CASE protected
    <3>1. sweep' = Over(s)
      BY <2>1 DEF SweepPurge
    <3> QED BY <3>1, SweepSteps DEF Stages, Held
  <2>2. CASE ~protected
    <3> DEFINE due == {<<key, rows[key].n>> : key \in {key \in Live : ~Booked(rows[key].n)}}
               w == [at |-> "book", seen |-> sweep[s].seen, due |-> due]
    <3>1. due \in SUBSET (Keys \X Sizes)
      BY DEF Live, TypeInv, TypeLedger
    <3>2. sweep' = [sweep EXCEPT ![s].at = "book", ![s].due = due]
      BY <2>2 DEF SweepPurge
    <3> HIDE DEF due
    <3>3. w \in Sweeps /\ w.at = "book" /\ w.seen <= MaxHeld
      BY <3>1, SweepTyped DEF Sweeps, Stages
    <3> HIDE DEF w
    <3>4. sweep' = [sweep EXCEPT ![s] = w]
      <4>1. sweep \in [Squadrons -> Sweeps] /\ sweep[s] \in Sweeps
        BY SweepTyped DEF TypeInv, TypeSweeps
      <4>2. \A q \in Squadrons : sweep'[q] = [sweep EXCEPT ![s] = w][q]
        <5>1. \A q \in Squadrons \ {s} : sweep'[q] = sweep[q]
          BY <3>2, <4>1
        <5>2. sweep'[s] = [[sweep[s] EXCEPT !.at = "book"] EXCEPT !.due = due]
          BY <3>2, <4>1
        <5>3. sweep'[s] = w
          BY <4>1, <5>2 DEF w, Sweeps
        <5> QED BY <4>1, <5>1, <5>3
      <4> QED BY <3>2, <4>1, <4>2
    <3> QED BY <3>3, <3>4, SweepMoves DEF Held
  <2> QED BY <2>1, <2>2
<1>6. TypeManual'
  BY DEF SweepPurge, TypeInv, TypeManual
<1>7. TypeLedger'
  <2>1. rows' \in [Keys -> Row]
    <3>1. \/ rows' = rows
          \/ \E due : rows' = [key \in Keys |-> IF key \in due THEN rows[key] ELSE NoRow]
      BY DEF SweepPurge
    <3>2. rows \in [Keys -> Row] /\ NoRow \in Row
      BY DEF TypeInv, TypeLedger
    <3>3. ASSUME NEW due PROVE [key \in Keys |-> IF key \in due THEN rows[key] ELSE NoRow] \in [Keys -> Row]
      BY <3>2
    <3> QED BY <3>1, <3>2, <3>3
  <2> QED BY <2>1 DEF SweepPurge, TypeInv, TypeLedger
<1> QED BY <1>1, <1>2, <1>3, <1>4, <1>5, <1>6, <1>7 DEF TypeInv

LEMMA SweepBookType ==
  ASSUME TypeInv, NEW s \in Squadrons, SweepBook(s)
  PROVE  TypeInv'
<1>1. TypeVenue'
  <2>1. Figures(sweep[s].due) \in Nat
    BY SweepTyped, DueFinite, FiguresNat
  <2> QED BY <2>1 DEF SweepBook, TypeInv, TypeVenue
<1>2. TypeFlags'
  <2>1. released' \in BOOLEAN /\ raced' \in BOOLEAN
    BY DEF SweepBook
  <2> QED BY <2>1 DEF SweepBook, TypeInv, TypeFlags
<1>3. TypeLoops'
  BY DEF SweepBook, TypeInv, TypeLoops
<1>4. TypeExits'
  BY DEF SweepBook, TypeInv, TypeExits
<1>5. TypeSweeps'
  <2>1. sweep' = Over(s)
    BY DEF SweepBook
  <2> QED BY <2>1, SweepSteps DEF Stages, Held
<1>6. TypeManual'
  BY DEF SweepBook, TypeInv, TypeManual
<1>7. TypeLedger'
  <2>1. rows' \in [Keys -> Row]
    BY DEF SweepBook, TypeInv, TypeLedger
  <2>2. \A d \in sweep[s].due : <<StrategyOf(d[1]), d[2]>> \in (Strategies \cup {Settlement}) \X Sizes
    BY SweepTyped DEF StrategyOf
  <2>3. trades' \in SUBSET ((Strategies \cup {Settlement}) \X Sizes)
    BY <2>2 DEF SweepBook, TypeInv, TypeLedger
  <2> QED BY <2>1, <2>3 DEF TypeLedger
<1> QED BY <1>1, <1>2, <1>3, <1>4, <1>5, <1>6, <1>7 DEF TypeInv

LEMMA ReleaseClosedType ==
  ASSUME TypeInv, NEW s \in Squadrons, ReleaseClosed(s)
  PROVE  TypeInv'
<1>1. TypeVenue'
  BY DEF ReleaseClosed, TypeInv, TypeVenue
<1>2. TypeFlags'
  <2>1. released' = FALSE /\ raced' \in BOOLEAN
    BY DEF ReleaseClosed
  <2> QED BY <2>1 DEF ReleaseClosed, TypeInv, TypeFlags
<1>3. TypeLoops'
  <2>1. guard' \in [Squadrons -> 0..MaxHeld]
    BY DEF ReleaseClosed, Drop, TypeInv, TypeLoops
  <2>2. opRelease' \in [Squadrons -> BOOLEAN]
    BY DEF ReleaseClosed, TypeInv, TypeLoops
  <2> QED BY <2>1, <2>2 DEF ReleaseClosed, TypeInv, TypeLoops
<1>4. TypeExits'
  BY DEF ReleaseClosed, TypeInv, TypeExits
<1>5. TypeSweeps'
  <2>1. sweep' = [sweep EXCEPT ![s] = Unswept]
    BY DEF ReleaseClosed
  <2> QED BY <2>1, SweepSteps DEF Stages, Held
<1>6. TypeManual'
  BY DEF ReleaseClosed, TypeInv, TypeManual
<1>7. TypeLedger'
  BY DEF ReleaseClosed, TypeInv, TypeLedger
<1> QED BY <1>1, <1>2, <1>3, <1>4, <1>5, <1>6, <1>7 DEF TypeInv

LEMMA OutsideBuyType ==
  ASSUME TypeInv, OutsideBuy
  PROVE  TypeInv'
<1>1. TypeVenue'
  BY DEF OutsideBuy, TypeInv, TypeVenue
<1>2. TypeFlags'
  BY DEF OutsideBuy, TypeInv, TypeFlags
<1>3. TypeLoops'
  BY DEF OutsideBuy, TypeInv, TypeLoops, TypeVenue
<1>4. TypeExits'
  BY DEF OutsideBuy, TypeInv, TypeExits
<1>5. TypeSweeps'
  BY DEF OutsideBuy, TypeInv, TypeSweeps
<1>6. TypeManual'
  BY DEF OutsideBuy, TypeInv, TypeManual
<1>7. TypeLedger'
  BY DEF OutsideBuy, TypeInv, TypeLedger
<1> QED BY <1>1, <1>2, <1>3, <1>4, <1>5, <1>6, <1>7 DEF TypeInv

LEMMA OutsideSaleType ==
  ASSUME TypeInv, OutsideSale
  PROVE  TypeInv'
<1>1. TypeVenue'
  BY DEF OutsideSale, TypeInv, TypeVenue
<1>2. TypeFlags'
  BY DEF OutsideSale, TypeInv, TypeFlags
<1>3. TypeLoops'
  BY DEF OutsideSale, TypeInv, TypeLoops
<1>4. TypeExits'
  BY DEF OutsideSale, TypeInv, TypeExits
<1>5. TypeSweeps'
  BY DEF OutsideSale, TypeInv, TypeSweeps
<1>6. TypeManual'
  BY DEF OutsideSale, TypeInv, TypeManual
<1>7. TypeLedger'
  BY DEF OutsideSale, TypeInv, TypeLedger
<1> QED BY <1>1, <1>2, <1>3, <1>4, <1>5, <1>6, <1>7 DEF TypeInv

LEMMA SettleType ==
  ASSUME TypeInv, Settle
  PROVE  TypeInv'
<1>1. TypeVenue'
  BY DEF Settle, TypeInv, TypeVenue
<1>2. TypeFlags'
  BY DEF Settle, TypeInv, TypeFlags
<1>3. TypeLoops'
  BY DEF Settle, TypeInv, TypeLoops, TypeVenue
<1>4. TypeExits'
  BY DEF Settle, TypeInv, TypeExits
<1>5. TypeSweeps'
  BY DEF Settle, TypeInv, TypeSweeps
<1>6. TypeManual'
  BY DEF Settle, TypeInv, TypeManual
<1>7. TypeLedger'
  BY DEF Settle, TypeInv, TypeLedger
<1> QED BY <1>1, <1>2, <1>3, <1>4, <1>5, <1>6, <1>7 DEF TypeInv

LEMMA RestartType ==
  ASSUME TypeInv, Restart
  PROVE  TypeInv'
<1>1. TypeVenue'
  BY DEF Restart, TypeInv, TypeVenue
<1>2. TypeFlags'
  <2>1. torn' \in BOOLEAN
    BY DEF Restart
  <2>2. noted' \in [Squadrons -> {"no", "new", "old"}] /\ sighting' \in [target : -1..MaxHeld, old : BOOLEAN]
    BY DEF Restart
  <2>3. protected' = FALSE /\ released' = FALSE /\ gap' = {} /\ UNCHANGED <<settled, raced, flying>>
    BY DEF Restart
  <2> QED BY <2>1, <2>2, <2>3 DEF TypeInv, TypeFlags
<1>3. TypeLoops'
  <2>1. guard' = [s \in Squadrons |-> 0] /\ entering' = guard' /\ mine' = guard' /\ bought' = bought
    BY DEF Restart
  <2>2. opRelease' \in [Squadrons -> BOOLEAN]
    BY DEF Restart
  <2> QED BY <2>1, <2>2 DEF TypeInv, TypeLoops, TypeVenue
<1>4. TypeExits'
  BY DEF Restart, TypeInv, TypeExits, Exits, Selling, Gone
<1>5. TypeSweeps'
  BY DEF Restart, TypeInv, TypeSweeps, Sweeps, Stages, Held
<1>6. TypeManual'
  BY DEF Restart, TypeInv, TypeManual, Selling, Gone
<1>7. TypeLedger'
  BY DEF Restart, TypeInv, TypeLedger
<1> QED BY <1>1, <1>2, <1>3, <1>4, <1>5, <1>6, <1>7 DEF TypeInv

LEMMA GraceEndsType ==
  ASSUME TypeInv, GraceEnds
  PROVE  TypeInv'
<1>1. TypeVenue'
  BY DEF GraceEnds, TypeInv, TypeVenue
<1>2. TypeFlags'
  <2>1. noted' \in [Squadrons -> {"no", "new", "old"}]
    BY DEF GraceEnds, TypeInv, TypeFlags
  <2>2. sighting' \in [target : -1..MaxHeld, old : BOOLEAN]
    <3>1. sighting' \in {[sighting EXCEPT !.old = TRUE], NoSighting}
      BY DEF GraceEnds
    <3>2. [sighting EXCEPT !.old = TRUE] \in [target : -1..MaxHeld, old : BOOLEAN]
      BY DEF TypeInv, TypeFlags
    <3>3. NoSighting \in [target : -1..MaxHeld, old : BOOLEAN]
      OBVIOUS
    <3>4. CASE sighting' = [sighting EXCEPT !.old = TRUE]
      BY <3>2, <3>4
    <3>5. CASE sighting' = NoSighting
      BY <3>3, <3>5
    <3> QED BY <3>1, <3>4, <3>5
  <2> QED BY <2>1, <2>2 DEF GraceEnds, TypeInv, TypeFlags
<1>3. TypeLoops'
  BY DEF GraceEnds, TypeInv, TypeLoops
<1>4. TypeExits'
  BY DEF GraceEnds, TypeInv, TypeExits
<1>5. TypeSweeps'
  BY DEF GraceEnds, TypeInv, TypeSweeps
<1>6. TypeManual'
  BY DEF GraceEnds, TypeInv, TypeManual
<1>7. TypeLedger'
  BY DEF GraceEnds, TypeInv, TypeLedger
<1> QED BY <1>1, <1>2, <1>3, <1>4, <1>5, <1>6, <1>7 DEF TypeInv

LEMMA ProtectionEndsType ==
  ASSUME TypeInv, ProtectionEnds
  PROVE  TypeInv'
<1>1. TypeVenue'
  BY DEF ProtectionEnds, TypeInv, TypeVenue
<1>2. TypeFlags'
  BY DEF ProtectionEnds, TypeInv, TypeFlags
<1>3. TypeLoops'
  BY DEF ProtectionEnds, TypeInv, TypeLoops
<1>4. TypeExits'
  BY DEF ProtectionEnds, TypeInv, TypeExits
<1>5. TypeSweeps'
  BY DEF ProtectionEnds, TypeInv, TypeSweeps
<1>6. TypeManual'
  BY DEF ProtectionEnds, TypeInv, TypeManual
<1>7. TypeLedger'
  BY DEF ProtectionEnds, TypeInv, TypeLedger
<1> QED BY <1>1, <1>2, <1>3, <1>4, <1>5, <1>6, <1>7 DEF TypeInv

LEMMA TypeNext == TypeInv /\ [Next]_vars => TypeInv'
<1> SUFFICES ASSUME TypeInv, [Next]_vars PROVE TypeInv'
  OBVIOUS
<1>1. ASSUME NEW s \in Squadrons, Loop(s) PROVE TypeInv'
  BY <1>1, EnterType, EnterRowType, ExitStartType, ExitSellType, ExitUnheardType, ExitBookType, ExitCloseType DEF Loop
<1>2. ASSUME NEW s \in Squadrons, Sweep(s) PROVE TypeInv'
  BY <1>2, SweepReadType, SweepClaimType, SweepAdoptType, SweepFollowType, SweepProbeType,
     SweepSettleType, SweepPurgeType, SweepBookType, ReleaseClosedType DEF Sweep
<1>3. ASSUME CloseNow PROVE TypeInv'
  BY <1>3, ManualStartType, ManualSellType, ManualUnheardType, ManualBookType, ManualCloseType DEF CloseNow
<1>4. CASE UNCHANGED vars
  BY <1>4 DEF vars, TypeInv, TypeVenue, TypeFlags, TypeLoops, TypeExits, TypeSweeps, TypeManual, TypeLedger
<1> QED BY <1>1, <1>2, <1>3, <1>4, OutsideBuyType, OutsideSaleType, SettleType, RestartType,
           GraceEndsType, ProtectionEndsType DEF Next

LEMMA TypeAlways == Spec => []TypeInv
<1> QED BY TypeInit, TypeNext, PTL DEF Spec

\* Rows, guards, claims and sweeps have their types: no row, guard or sale is larger
\* than what was bought, and the claim is held exactly while its holder sells.
THEOREM TypeCorrect == Spec => []TypeOK
<1> QED BY TypeAlways, TypeImplies, PTL

-----------------------------------------------------------------------------
(* AdoptedOnce.  No two rows are the wallet's: an adoption is checked      *)
(* again under the gate the rows are written under, an excess is adopted   *)
(* only beside no other wallet row, and the other steps make none.         *)

OneWallet == \A key1, key2 \in WalletRows : key1 = key2

LEMMA OneWalletCounts ==
  ASSUME TypeInv, OneWallet
  PROVE  AdoptedOnce
<1>1. CASE WalletRows = {}
  BY <1>1, FS_EmptySet DEF AdoptedOnce
<1>2. CASE WalletRows # {}
  <2>1. PICK key \in WalletRows : WalletRows = {key}
    BY <1>2 DEF OneWallet
  <2> QED BY <2>1, FS_Singleton DEF AdoptedOnce
<1> QED BY <1>1, <1>2

\* Rows that were the wallet's before are the only ones that are.
LEMMA NoNewWallet ==
  ASSUME OneWallet, WalletRows' \subseteq WalletRows
  PROVE  OneWallet'
BY DEF OneWallet

LEMMA ClosedWallet ==
  ASSUME NEW strategy, rows' = Closed(strategy)
  PROVE  WalletRows' \subseteq WalletRows
BY DEF Closed, WalletRows, Live

LEMMA AdoptingOne ==
  ASSUME TypeInv, OneWallet, NEW key \in Keys, NEW n, Adopt(key, n)
  PROVE  OneWallet'
<1>1. CASE Claimed
  BY <1>1 DEF Adopt, OneWallet, WalletRows, Live
<1>2. CASE ~Claimed
  <2>1. rows' = [rows EXCEPT ![key] = [n |-> n, fill |-> FALSE]]
    BY <1>2 DEF Adopt
  <2>2. \A k \in Keys \ {key} : rows'[k] = rows[k] /\ k \notin Live
    BY <1>2, <2>1 DEF Claimed, TypeInv, TypeLedger
  <2>3. WalletRows' \subseteq {key}
    BY <2>2 DEF WalletRows, Live
  <2> QED BY <2>3 DEF OneWallet
<1> QED BY <1>1, <1>2

LEMMA ResizingWallet ==
  ASSUME TypeInv, NEW key \in WalletRows, NEW target, Resize(key, target)
  PROVE  WalletRows' \subseteq WalletRows
<1>1. \/ rows' = rows
      \/ rows' = [rows EXCEPT ![key] = NoRow]
      \/ rows' = [rows EXCEPT ![key] = [@ EXCEPT !.n = target]]
  BY DEF Resize
<1>2. rows \in [Keys -> Row] /\ key \in Keys
  BY DEF TypeInv, TypeLedger, WalletRows, Live
<1>3. \A k \in Keys \ {key} : rows'[k] = rows[k]
  BY <1>1, <1>2
<1> QED BY <1>2, <1>3 DEF WalletRows, Live

LEMMA ExcessOne ==
  ASSUME TypeInv, WalletRows = {}, NEW s, NEW excess, AdoptExcess(s, excess)
  PROVE  OneWallet'
<1>1. CASE rows' = rows
  BY <1>1 DEF OneWallet, WalletRows, Live
<1>2. CASE rows' # rows
  <2>1. PICK key \in EngineRows :
          rows' = [rows EXCEPT ![<<"adopted", key[2]>>] = [n |-> excess, fill |-> FALSE]]
    BY <1>2 DEF AdoptExcess
  <2> DEFINE new == <<"adopted", key[2]>>
  <2>2. \A k \in Keys \ {new} : rows'[k] = rows[k]
    BY <2>1 DEF TypeInv, TypeLedger
  <2> HIDE DEF new
  <2>3. WalletRows' \subseteq {new}
    BY <2>2 DEF WalletRows, Live
  <2> QED BY <2>3 DEF OneWallet
<1> QED BY <1>1, <1>2

LEMMA OneWalletNext ==
  ASSUME TypeInv, OneWallet, [Next]_vars
  PROVE  OneWallet'
<1> DEFINE Goal == OneWallet'
<1>1. CASE rows' = rows
  BY <1>1 DEF OneWallet, WalletRows, Live
<1>2. ASSUME NEW s \in Squadrons, EnterRow(s) PROVE WalletRows' \subseteq WalletRows
  <2>1. <<"viper", s>> \in Keys /\ rows \in [Keys -> Row]
    BY DEF TypeInv, TypeLedger
  <2> QED BY <1>2, <2>1 DEF EnterRow, WalletRows, Live
<1>3. ASSUME NEW s \in Squadrons, ExitClose(s) PROVE WalletRows' \subseteq WalletRows
  <2>1. \/ rows' = Closed(s)
        \/ rows' = Shrunk(<<"viper", s>>, exit[s].n - exit[s].k)
    BY <1>3 DEF ExitClose
  <2>2. CASE rows' = Shrunk(<<"viper", s>>, exit[s].n - exit[s].k)
    <3>1. <<"viper", s>> \in Keys /\ rows \in [Keys -> Row]
      BY DEF TypeInv, TypeLedger
    <3> QED BY <2>2, <3>1 DEF Shrunk, WalletRows, Live
  <2> QED BY <2>1, <2>2, ClosedWallet
<1>4. ASSUME ManualClose PROVE WalletRows' \subseteq WalletRows
  <2>1. rows \in [Keys -> Row]
    BY DEF TypeInv, TypeLedger
  <2>2. CASE manual.k < manual.n
    BY <1>4, <2>1, <2>2 DEF ManualClose, Reduced, WalletRows, Live
  <2>3. CASE ~(manual.k < manual.n)
    BY <1>4, <2>3, ClosedWallet DEF ManualClose
  <2> QED BY <2>2, <2>3
<1>5. ASSUME NEW s \in Squadrons, SweepClaim(s) PROVE OneWallet'
  <2>1. CASE guard[s] > 0
    <3>1. <<"viper", s>> \in Keys /\ Adopt(<<"viper", s>>, sweep[s].seen)
      BY <1>5, <2>1 DEF SweepClaim
    <3> QED BY <3>1, AdoptingOne
  <2>2. CASE ~(guard[s] > 0)
    BY <1>1, <1>5, <2>2 DEF SweepClaim
  <2> QED BY <2>1, <2>2
<1>6. ASSUME NEW s \in Squadrons, SweepAdopt(s) PROVE OneWallet'
  <2>1. <<"adopted", s>> \in Keys /\ Adopt(<<"adopted", s>>, sweep[s].seen)
    BY <1>6 DEF SweepAdopt
  <2> QED BY <2>1, AdoptingOne
<1>7. ASSUME NEW s \in Squadrons, SweepFollow(s) PROVE OneWallet'
  <2> DEFINE remainder == sweep[s].seen - Total(EngineRows)
  <2>1. \/ rows' = rows
        \/ WalletRows = {} /\ AdoptExcess(s, remainder)
        \/ \E key \in WalletRows : Resize(key, remainder)
    BY <1>7 DEF SweepFollow
  <2> HIDE DEF remainder
  <2> QED BY <1>1, <2>1, ExcessOne, ResizingWallet, NoNewWallet
<1>8. ASSUME NEW s \in Squadrons, \/ SweepSettle(s) \/ SweepPurge(s) \/ SweepBook(s)
      PROVE  WalletRows' \subseteq WalletRows
  <2>1. rows \in [Keys -> Row] /\ \A key \in Keys : rows'[key] \in {rows[key], NoRow}
    <3>1. CASE SweepSettle(s)
      BY <3>1 DEF SweepSettle, TypeInv, TypeLedger
    <3>2. CASE SweepPurge(s)
      BY <3>2 DEF SweepPurge, TypeInv, TypeLedger
    <3>3. CASE SweepBook(s)
      BY <3>3 DEF SweepBook, TypeInv, TypeLedger
    <3> QED BY <1>8, <3>1, <3>2, <3>3
  <2> QED BY <2>1 DEF WalletRows, Live
<1>9. ASSUME NEW s \in Squadrons,
             \/ \E n \in Lots : Enter(s, n)
             \/ ExitStart(s) \/ ExitBook(s)
             \/ \E k \in 0..MaxHeld : ExitSell(s, k) \/ ExitUnheard(s, k)
             \/ SweepRead(s) \/ SweepProbe(s) \/ ReleaseClosed(s)
      PROVE  rows' = rows
  <2>1. ASSUME NEW n \in Lots, Enter(s, n) PROVE rows' = rows
    BY <2>1 DEF Enter
  <2>2. ASSUME NEW k \in 0..MaxHeld, ExitSell(s, k) \/ ExitUnheard(s, k) PROVE rows' = rows
    BY <2>2 DEF ExitSell, ExitUnheard
  <2>3. ASSUME ExitStart(s) \/ ExitBook(s) PROVE rows' = rows
    BY <2>3 DEF ExitStart, ExitBook
  <2>4. ASSUME SweepRead(s) \/ SweepProbe(s) \/ ReleaseClosed(s) PROVE rows' = rows
    BY <2>4 DEF SweepRead, SweepProbe, ReleaseClosed
  <2> QED BY <1>9, <2>1, <2>2, <2>3, <2>4
<1>10. ASSUME \/ \E key \in Keys : ManualStart(key)
              \/ \E k \in 0..MaxHeld : ManualSell(k) \/ ManualUnheard(k)
              \/ ManualBook \/ OutsideBuy \/ OutsideSale \/ Settle \/ Restart
              \/ GraceEnds \/ ProtectionEnds \/ UNCHANGED vars
       PROVE  rows' = rows
  <2>1. ASSUME NEW key \in Keys, ManualStart(key) PROVE rows' = rows
    BY <2>1 DEF ManualStart
  <2>2. ASSUME NEW k \in 0..MaxHeld, ManualSell(k) \/ ManualUnheard(k) PROVE rows' = rows
    BY <2>2 DEF ManualSell, ManualUnheard
  <2>3. ASSUME ManualBook \/ OutsideBuy \/ OutsideSale \/ Settle PROVE rows' = rows
    BY <2>3 DEF ManualBook, OutsideBuy, OutsideSale, Settle
  <2>4. ASSUME Restart \/ GraceEnds \/ ProtectionEnds \/ UNCHANGED vars PROVE rows' = rows
    BY <2>4 DEF Restart, GraceEnds, ProtectionEnds, vars
  <2> QED BY <1>10, <2>1, <2>2, <2>3, <2>4
<1>11. ASSUME NEW s \in Squadrons, Loop(s) PROVE OneWallet'
  <2>1. ASSUME NEW k \in 0..MaxHeld, ExitSell(s, k) \/ ExitUnheard(s, k) PROVE OneWallet'
    BY <1>1, <1>9, <2>1
  <2> QED BY <1>1, <1>2, <1>3, <1>9, <1>11, <2>1, NoNewWallet DEF Loop
<1>12. ASSUME NEW s \in Squadrons, Sweep(s) PROVE OneWallet'
  BY <1>1, <1>5, <1>6, <1>7, <1>8, <1>9, <1>12, NoNewWallet DEF Sweep
<1>13. CASE CloseNow
  <2>1. ASSUME NEW k \in 0..MaxHeld, ManualSell(k) \/ ManualUnheard(k) PROVE OneWallet'
    BY <1>1, <1>10, <2>1
  <2> QED BY <1>1, <1>4, <1>10, <1>13, <2>1, NoNewWallet DEF CloseNow
<1> QED BY <1>1, <1>10, <1>11, <1>12, <1>13 DEF Next

\* At most one adopted row claims a holding, however many sweeps read it unclaimed.
THEOREM HoldingsAreAdoptedOnce == Spec => []AdoptedOnce
<1>1. Init => OneWallet
  BY DEF Init, OneWallet, WalletRows, Live
<1>2. Spec => []OneWallet
  BY <1>1, TypeAlways, OneWalletNext, PTL DEF Spec
<1> QED BY <1>2, TypeAlways, OneWalletCounts, PTL

-----------------------------------------------------------------------------
(* Counting on the account.  The account has what the vipers count on,     *)
(* but for what has strayed; and a guard is no larger than what its viper  *)
(* counts on, unless its lot is already sold and the loop is about to be   *)
(* told.                                                                   *)

OwnTotal == Contracts(mine, Squadrons) <= held + strayed

OwnGuard ==
    \A s \in Squadrons :
        \/ guard[s] <= mine[s] \/ settled \/ opRelease[s] \/ exit[s].at \in Gone
        \/ manual.strategy = s /\ manual.at \in Gone /\ manual.k = manual.n

OwnExit ==
    \A s \in Squadrons :
        /\ exit[s].at = "selling" => exit[s].n <= mine[s] \/ settled
        /\ exit[s].at \in Gone => exit[s].n - exit[s].k <= mine[s] \/ settled
        /\ exit[s].at # "idle" => ~opRelease[s] /\ guard[s] = exit[s].n

\* A sweep runs beside an exit only between its fill and its booking.
OwnSweep ==
    \A s \in Squadrons :
        exit[s].at # "idle" => \/ sweep[s].at = "idle"
                               \/ exit[s].at = "sold" /\ sweep[s].at # "release"

OwnInv == OwnTotal /\ OwnGuard /\ OwnExit /\ OwnSweep

\* What the vipers of a set hold, when one viper's lot changes.
LEMMA MineSum ==
  ASSUME mine \in [Squadrons -> Nat], mine' \in [Squadrons -> Nat], NEW s \in Squadrons,
         \A q \in Squadrons \ {s} : mine'[q] = mine[q], NEW S \in SUBSET Squadrons
  PROVE  /\ Contracts(mine, S) \in Nat /\ Contracts(mine', S) \in Nat
         /\ s \in S => Contracts(mine', S) - mine'[s] = Contracts(mine, S) - mine[s]
         /\ s \notin S => Contracts(mine', S) = Contracts(mine, S)
<1>1. IsFiniteSet(S)
  BY FS_Subset
<1>2. Contracts(mine, S) \in Nat /\ Contracts(mine', S) \in Nat
  BY <1>1, ContractsNat
<1>3. ASSUME s \in S PROVE Contracts(mine', S) - mine'[s] = Contracts(mine, S) - mine[s]
  BY <1>1, <1>3, ContractsChange
<1>4. ASSUME s \notin S PROVE Contracts(mine', S) = Contracts(mine, S)
  BY <1>1, <1>4, ContractsAgree
<1> QED BY <1>2, <1>3, <1>4

LEMMA MineNat ==
  ASSUME TypeInv
  PROVE  Contracts(mine, Squadrons) \in Nat
BY ContractsNat DEF TypeInv, TypeLoops

LEMMA OwnShows ==
  ASSUME TypeInv, OwnInv
  PROVE  held + strayed >= 0
BY MineNat DEF OwnInv, OwnTotal, TypeInv, TypeVenue

LEMMA OwnInit == Init => OwnInv
<1> SUFFICES ASSUME Init PROVE OwnInv
  OBVIOUS
<1>1. mine = [s \in Squadrons |-> 0]
  BY DEF Init
<1>2. Contracts(mine, Squadrons) = 0
  BY <1>1, ContractsZero
<1> QED BY <1>1, <1>2 DEF Init, OwnInv, OwnTotal, OwnGuard, OwnExit, OwnSweep

\* The total changes only when contracts do.
LEMMA OwnStays ==
  ASSUME TypeInv, OwnInv, UNCHANGED <<held, strayed, mine>>
  PROVE  OwnTotal'
BY DEF OwnInv, OwnTotal

LEMMA EnterOwn ==
  ASSUME TypeInv, TypeInv', OwnInv, NEW s \in Squadrons, NEW n \in Lots, Enter(s, n)
  PROVE  OwnInv'
<1>1. /\ mine' = [mine EXCEPT ![s] = @ + n] /\ held' = held + n
      /\ guard' = [guard EXCEPT ![s] = n] /\ opRelease' = [opRelease EXCEPT ![s] = FALSE]
      /\ UNCHANGED <<settled, strayed, exit, manual, sweep>> /\ Between(s)
  BY DEF Enter
<1>2. /\ mine'[s] = mine[s] + n /\ \A q \in Squadrons \ {s} : mine'[q] = mine[q]
      /\ mine \in [Squadrons -> Nat] /\ mine' \in [Squadrons -> Nat] /\ n \in Nat /\ held \in Int /\ strayed \in Nat
  BY <1>1 DEF TypeInv, TypeLoops, TypeVenue
<1>3. ASSUME NEW S \in SUBSET Squadrons
      PROVE  /\ Contracts(mine, S) \in Nat /\ Contracts(mine', S) \in Nat
             /\ Contracts(mine', S) <= Contracts(mine, S) + n
  BY <1>2, MineSum
<1>4. OwnTotal'
  <2>1. /\ Contracts(mine, Squadrons) \in Nat /\ Contracts(mine', Squadrons) \in Nat
        /\ Contracts(mine', Squadrons) <= Contracts(mine, Squadrons) + n
    BY <1>3
  <2> QED BY <1>1, <1>2, <2>1 DEF OwnInv, OwnTotal
<1>6. OwnGuard'
  <2>1. guard'[s] = n /\ \A q \in Squadrons \ {s} : guard'[q] = guard[q] /\ opRelease'[q] = opRelease[q]
    BY <1>1 DEF TypeInv, TypeLoops
  <2> QED BY <1>1, <1>2, <2>1 DEF OwnInv, OwnGuard
<1>7. OwnExit'
  <2>1. exit[s].at = "idle" /\ \A q \in Squadrons \ {s} : guard'[q] = guard[q] /\ opRelease'[q] = opRelease[q]
    BY <1>1 DEF TypeInv, TypeLoops, Between
  <2> QED BY <1>1, <1>2, <2>1 DEF OwnInv, OwnExit, Gone
<1>8. OwnSweep'
  BY <1>1 DEF OwnInv, OwnSweep
<1> QED BY <1>4, <1>6, <1>7, <1>8 DEF OwnInv

LEMMA ExitStartOwn ==
  ASSUME TypeInv, OwnInv, NEW s \in Squadrons, ExitStart(s)
  PROVE  OwnInv'
<1>1. OwnTotal'
  BY OwnStays DEF ExitStart
<1>2. /\ UNCHANGED <<settled, mine, manual, sweep>> /\ exit[s].at = "idle" /\ sweep[s].at = "idle"
      /\ claim = Nobody
  BY DEF ExitStart, Between, Claimable
<1>3. CASE Dropped(s)
  <2>1. /\ guard' = [guard EXCEPT ![s] = 0] /\ opRelease' = [opRelease EXCEPT ![s] = FALSE]
        /\ UNCHANGED exit
    BY <1>3 DEF ExitStart, Drop
  <2>2. /\ guard'[s] = 0 /\ \A q \in Squadrons \ {s} : guard'[q] = guard[q] /\ opRelease'[q] = opRelease[q]
    BY <2>1 DEF TypeInv, TypeLoops
  <2>3. mine[s] \in Nat
    BY DEF TypeInv, TypeLoops
  <2>4. OwnGuard'
    BY <1>2, <2>1, <2>2, <2>3 DEF OwnInv, OwnGuard
  <2>5. OwnExit' /\ OwnSweep'
    BY <1>2, <2>1, <2>2 DEF OwnInv, OwnExit, OwnSweep, Gone
  <2> QED BY <1>1, <2>4, <2>5 DEF OwnInv
<1>4. CASE ~Dropped(s)
  <2>1. /\ exit' = [exit EXCEPT ![s] = [at |-> "selling", n |-> guard[s], k |-> 0]]
        /\ UNCHANGED <<guard, opRelease>> /\ guard[s] > 0
    BY <1>4 DEF ExitStart
  <2>2. ~opRelease[s]
    BY <1>4, <2>1 DEF Dropped
  <2>3. /\ exit'[s] = [at |-> "selling", n |-> guard[s], k |-> 0]
        /\ \A q \in Squadrons \ {s} : exit'[q] = exit[q]
    BY <2>1 DEF TypeInv, TypeExits
  <2>4. manual.at = "idle"
    BY <1>2 DEF TypeInv, TypeManual
  <2>5. guard[s] <= mine[s] \/ settled
    BY <1>2, <2>2, <2>4 DEF OwnInv, OwnGuard, Gone
  <2>6. OwnGuard'
    BY <1>2, <2>1, <2>3, <2>5 DEF OwnInv, OwnGuard, Gone
  <2>7. OwnExit' /\ OwnSweep'
    BY <1>2, <2>1, <2>2, <2>3, <2>5 DEF OwnInv, OwnExit, OwnSweep, Gone
  <2> QED BY <1>1, <2>6, <2>7 DEF OwnInv
<1> QED BY <1>3, <1>4

LEMMA ExitSellOwn ==
  ASSUME TypeInv, TypeInv', OwnInv, NEW s \in Squadrons, NEW k \in 0..MaxHeld, ExitSell(s, k)
  PROVE  OwnInv'
<1>1. /\ exit[s].at = "selling" /\ k <= exit[s].n /\ (settled => k = 0) /\ held' = held - k
      /\ mine' = [mine EXCEPT ![s] = @ - Min({k, @})]
      /\ exit' = [exit EXCEPT ![s] = IF k = 0 THEN Resting ELSE [@ EXCEPT !.at = "sold", !.k = k]]
      /\ UNCHANGED <<settled, strayed, guard, opRelease, manual, sweep>>
  BY DEF ExitSell
<1>2. /\ exit[s] \in Exits /\ exit[s].n \in Nat /\ claim = s /\ mine[s] \in Nat
      /\ guard[s] \in Nat /\ held \in Int /\ strayed \in Nat
  BY <1>1, ExitTyped, LoopsTyped DEF TypeInv, TypeVenue
<1>3. k <= mine[s] /\ (exit[s].n <= mine[s] \/ settled)
  BY <1>1, <1>2 DEF OwnInv, OwnExit
<1>4. /\ mine'[s] = mine[s] - k /\ \A q \in Squadrons \ {s} : mine'[q] = mine[q]
      /\ mine \in [Squadrons -> Nat] /\ mine' \in [Squadrons -> Nat]
  <2>1. Min({k, mine[s]}) = k
    BY <1>2, <1>3, MinOfTwo
  <2> QED BY <1>1, <2>1 DEF TypeInv, TypeLoops
<1>5. OwnTotal'
  <2>1. /\ Contracts(mine, Squadrons) \in Nat /\ Contracts(mine', Squadrons) \in Nat
        /\ Contracts(mine', Squadrons) - mine'[s] = Contracts(mine, Squadrons) - mine[s]
    BY <1>4, MineSum
  <2> QED BY <1>1, <1>2, <1>4, <2>1 DEF OwnInv, OwnTotal
<1>6. manual.at = "idle"
  BY <1>2 DEF TypeInv, TypeManual
<1>7. \A q \in Squadrons \ {s} : exit'[q] = exit[q]
  BY <1>1 DEF TypeInv, TypeExits
<1>8. /\ k = 0 => exit'[s].at = "idle"
      /\ k # 0 => exit'[s].at = "sold" /\ exit'[s].n = exit[s].n /\ exit'[s].k = k
  BY <1>1, <1>2 DEF TypeInv, TypeExits, Exits
<1>9. OwnGuard'
  <2>1. guard[s] = exit[s].n
    BY <1>1 DEF OwnInv, OwnExit
  <2>2. CASE k = 0
    BY <1>1, <1>2, <1>3, <1>4, <1>6, <1>7, <2>1, <2>2 DEF OwnInv, OwnGuard
  <2>3. CASE k # 0
    BY <1>1, <1>4, <1>6, <1>7, <1>8, <2>3 DEF OwnInv, OwnGuard, Gone
  <2> QED BY <2>2, <2>3
<1>10. OwnExit'
  <2>1. \A q \in Squadrons \ {s} : exit[q].at = "idle"
    BY <1>2, ExitTyped
  <2>2. ~opRelease[s] /\ guard[s] = exit[s].n
    BY <1>1 DEF OwnInv, OwnExit
  <2>3. k # 0 => exit[s].n - k <= mine[s] - k \/ settled
    BY <1>2, <1>3
  <2> QED BY <1>1, <1>4, <1>7, <1>8, <2>1, <2>2, <2>3 DEF OwnExit, Gone
<1>11. OwnSweep'
  <2>1. sweep[s].at = "idle"
    BY <1>1 DEF OwnInv, OwnSweep
  <2> QED BY <1>1, <1>7, <2>1 DEF OwnInv, OwnSweep
<1> QED BY <1>5, <1>9, <1>10, <1>11 DEF OwnInv

LEMMA ExitUnheardOwn ==
  ASSUME TypeInv, OwnInv, NEW s \in Squadrons, NEW k \in 0..MaxHeld, ExitUnheard(s, k)
  PROVE  OwnInv'
<1>1. /\ exit[s].at = "selling" /\ exit' = [exit EXCEPT ![s] = Resting]
      /\ held' = held - k /\ strayed' = strayed + k
      /\ UNCHANGED <<settled, mine, guard, opRelease, manual, sweep>>
  BY DEF ExitUnheard, Stray
<1>2. exit'[s].at = "idle" /\ \A q \in Squadrons \ {s} : exit'[q] = exit[q]
  BY <1>1 DEF TypeInv, TypeExits
<1>3. OwnTotal'
  BY <1>1, MineNat DEF OwnInv, OwnTotal, TypeInv, TypeVenue
<1>4. OwnGuard'
  <2>1. guard[s] <= mine[s] \/ settled
    BY <1>1 DEF OwnInv, OwnExit
  <2> QED BY <1>1, <1>2, <2>1 DEF OwnInv, OwnGuard
<1>5. OwnExit' /\ OwnSweep'
  BY <1>1, <1>2 DEF OwnInv, OwnExit, OwnSweep, Gone
<1> QED BY <1>3, <1>4, <1>5 DEF OwnInv

LEMMA ExitBookOwn ==
  ASSUME TypeInv, OwnInv, NEW s \in Squadrons, ExitBook(s)
  PROVE  OwnInv'
<1>1. OwnTotal'
  BY OwnStays DEF ExitBook
<1>2. /\ exit[s].at = "sold" /\ exit' = [exit EXCEPT ![s].at = "booked"] /\ sweep[s].at = "idle"
      /\ UNCHANGED <<settled, mine, guard, opRelease, manual, sweep>>
  BY DEF ExitBook
<1>3. /\ exit'[s].at = "booked" /\ exit'[s].n = exit[s].n /\ exit'[s].k = exit[s].k
      /\ \A q \in Squadrons \ {s} : exit'[q] = exit[q]
  BY <1>2, ExitTyped DEF TypeInv, TypeExits, Exits
<1>4. OwnGuard'
  BY <1>2, <1>3 DEF OwnInv, OwnGuard, Gone
<1>5. OwnExit' /\ OwnSweep'
  BY <1>2, <1>3 DEF OwnInv, OwnExit, OwnSweep, Gone
<1> QED BY <1>1, <1>4, <1>5 DEF OwnInv

LEMMA ExitCloseOwn ==
  ASSUME TypeInv, OwnInv, NEW s \in Squadrons, ExitClose(s)
  PROVE  OwnInv'
<1>1. OwnTotal'
  BY OwnStays DEF ExitClose
<1>2. /\ exit[s].at = "booked" /\ exit' = [exit EXCEPT ![s] = Resting]
      /\ guard' = [guard EXCEPT ![s] = exit[s].n - exit[s].k]
      /\ UNCHANGED <<settled, mine, opRelease, manual, sweep>>
  BY DEF ExitClose
<1>3. exit[s].n - exit[s].k <= mine[s] \/ settled
  BY <1>2 DEF OwnInv, OwnExit, Gone
<1>4. /\ exit'[s].at = "idle" /\ guard'[s] = exit[s].n - exit[s].k
      /\ \A q \in Squadrons \ {s} : exit'[q] = exit[q] /\ guard'[q] = guard[q]
  BY <1>2 DEF TypeInv, TypeExits, TypeLoops
<1>5. OwnGuard'
  BY <1>2, <1>3, <1>4 DEF OwnInv, OwnGuard
<1>6. OwnExit' /\ OwnSweep'
  BY <1>2, <1>4 DEF OwnInv, OwnExit, OwnSweep, Gone
<1> QED BY <1>1, <1>5, <1>6 DEF OwnInv

LEMMA ManualStartOwn ==
  ASSUME TypeInv, OwnInv, NEW key \in Keys, ManualStart(key)
  PROVE  OwnInv'
<1>1. /\ manual.at = "idle" /\ manual'.at = "selling"
      /\ UNCHANGED <<held, strayed, settled, mine, guard, exit, opRelease, sweep>>
  BY DEF ManualStart
<1>2. OwnTotal' /\ OwnExit' /\ OwnSweep'
  BY <1>1 DEF OwnInv, OwnTotal, OwnExit, OwnSweep
<1>3. OwnGuard'
  BY <1>1 DEF OwnInv, OwnGuard, Gone
<1> QED BY <1>2, <1>3 DEF OwnInv

\* The vipers count on no more than before, and what Close Now takes beyond has strayed.
LEMMA ManualSellTotal ==
  ASSUME TypeInv, TypeInv', OwnInv, NEW k \in 0..MaxHeld, ManualSell(k)
  PROVE  OwnTotal'
<1>1. k \in Nat /\ held' = held - k /\ held \in Int /\ strayed \in Nat /\ strayed' \in Nat
  BY DEF ManualSell, TypeInv, TypeVenue
<1>2. CASE Untold(k)
  <2>1. strayed' = strayed + k /\ mine' = mine
    BY <1>2 DEF ManualSell
  <2> QED BY <1>1, <2>1, MineNat DEF OwnInv, OwnTotal
<1>3. CASE ~Untold(k)
  <2>1. /\ strayed' = strayed + Beyond(k) /\ manual.at = "selling"
        /\ mine' = IF manual.strategy = Adopted THEN mine
                   ELSE [mine EXCEPT ![manual.of] = @ - Min({k, @})]
    BY <1>3 DEF ManualSell
  <2>2. k - (held + strayed - Contracts(mine, OtherVipers)) <= Beyond(k) /\ Beyond(k) \in Nat
    BY <1>1, BeyondNat
  <2>3. CASE manual.strategy = Adopted
    <3>1. OtherVipers = Squadrons /\ mine' = mine
      BY <2>1, <2>3 DEF OtherVipers
    <3>2. Contracts(mine, Squadrons) <= (held - k) + (strayed + Beyond(k))
      BY <1>1, <2>2, <3>1, MineNat
    <3> QED BY <1>1, <2>1, <3>1, <3>2 DEF OwnTotal
  <2>4. CASE manual.strategy # Adopted
    <3> DEFINE s == manual.of
    <3>1. s \in Squadrons /\ OtherVipers = Squadrons \ {s} /\ mine[s] \in Nat
      BY <2>1, <2>4, ManualTyped, LoopsTyped DEF OtherVipers
    <3>2. mine' = [mine EXCEPT ![s] = @ - Min({k, @})]
      BY <2>1, <2>4
    <3> HIDE DEF s
    <3>3. /\ mine'[s] = mine[s] - Min({k, mine[s]})
          /\ \A q \in Squadrons \ {s} : mine'[q] = mine[q]
          /\ mine \in [Squadrons -> Nat] /\ mine' \in [Squadrons -> Nat]
      BY <3>1, <3>2 DEF TypeInv, TypeLoops
    <3>4. mine'[s] = IF k <= mine[s] THEN mine[s] - k ELSE 0
      BY <1>1, <3>1, <3>3, MinOfTwo
    <3>5. /\ Contracts(mine, Squadrons) \in Nat /\ Contracts(mine', Squadrons) \in Nat
          /\ Contracts(mine', Squadrons) - mine'[s] = Contracts(mine, Squadrons) - mine[s]
      BY <3>1, <3>3, MineSum
    <3>6. Contracts(mine, Squadrons) = mine[s] + Contracts(mine, Squadrons \ {s})
      BY <3>1, <3>3, ContractsLess
    <3>7. Contracts(mine, Squadrons \ {s}) \in Nat
      BY <3>1, <3>3, MineSum
    <3>8. Contracts(mine', Squadrons) <= (held - k) + (strayed + Beyond(k))
      BY <1>1, <2>2, <3>1, <3>4, <3>5, <3>6, <3>7 DEF OwnInv, OwnTotal
    <3> QED BY <1>1, <2>1, <3>8 DEF OwnTotal
  <2> QED BY <2>3, <2>4
<1> QED BY <1>2, <1>3

LEMMA ManualSellOwn ==
  ASSUME TypeInv, TypeInv', OwnInv, NEW k \in 0..MaxHeld, ManualSell(k)
  PROVE  OwnInv'
<1>1. /\ manual.at = "selling" /\ k <= manual.n
      /\ UNCHANGED <<settled, guard, exit, opRelease, sweep>>
  BY DEF ManualSell
<1>2. /\ \A s \in Squadrons : exit[s].at = "idle"
      /\ manual.of \in Squadrons /\ manual.strategy \in {Adopted, manual.of} /\ manual.n > 0
  BY <1>1, ExitTyped, ManualTyped DEF TypeInv, TypeManual
<1>3. OwnExit' /\ OwnSweep'
  BY <1>1, <1>2 DEF OwnExit, OwnSweep, Gone
<1>4. OwnTotal'
  BY ManualSellTotal
<1>5. ASSUME NEW s \in Squadrons
      PROVE  \/ guard[s] <= mine'[s] \/ settled \/ opRelease[s]
             \/ manual'.strategy = s /\ manual'.at \in Gone /\ manual'.k = manual'.n
  <2>1. guard[s] <= mine[s] \/ settled \/ opRelease[s]
    BY <1>1, <1>2 DEF OwnInv, OwnGuard, Gone
  <2>2. mine[s] \in Nat /\ mine'[s] \in Nat /\ guard[s] \in Nat /\ k \in Nat /\ manual.n \in Nat
    BY ManualTyped, LoopsTyped DEF TypeInv, TypeLoops
  <2>3. CASE mine'[s] = mine[s]
    BY <2>1, <2>3
  <2>4. CASE mine'[s] # mine[s]
    <3>1. ~Untold(k) /\ manual.strategy # Adopted /\ s = manual.of
      BY <1>2, <2>4 DEF ManualSell, TypeInv, TypeLoops
    <3>2. k # 0
      <4>1. k = 0 => mine[s] - Min({k, mine[s]}) = mine[s]
        BY <2>2, MinOfTwo
      <4> QED BY <2>4, <3>1, <4>1 DEF ManualSell, TypeInv, TypeLoops
    <3>3. CASE k = manual.n
      <4>1. manual' = [manual EXCEPT !.at = "sold", !.k = k]
        BY <3>2 DEF ManualSell
      <4>2. manual'.strategy = s /\ manual'.at = "sold" /\ manual'.k = manual'.n
        BY <1>2, <3>1, <3>3, <4>1 DEF TypeInv, TypeManual
      <4> QED BY <4>2 DEF Gone
    <3>4. CASE k # manual.n
      <4>1. guard[s] = 0
        BY <1>1, <2>2, <3>1, <3>2, <3>4 DEF Untold
      <4> QED BY <2>2, <4>1
    <3> QED BY <3>3, <3>4
  <2> QED BY <2>3, <2>4
<1>6. OwnGuard'
  BY <1>1, <1>5 DEF OwnGuard
<1> QED BY <1>3, <1>4, <1>6 DEF OwnInv

LEMMA ManualUnheardOwn ==
  ASSUME TypeInv, OwnInv, NEW k \in 0..MaxHeld, ManualUnheard(k)
  PROVE  OwnInv'
<1>1. /\ manual.at = "selling" /\ manual' = Unasked /\ held' = held - k /\ strayed' = strayed + k
      /\ UNCHANGED <<settled, mine, guard, exit, opRelease, sweep>>
  BY DEF ManualUnheard, Stray
<1>2. OwnTotal'
  BY <1>1, MineNat DEF OwnInv, OwnTotal, TypeInv, TypeVenue
<1>3. OwnGuard' /\ OwnExit' /\ OwnSweep'
  BY <1>1 DEF OwnInv, OwnGuard, OwnExit, OwnSweep, Gone
<1> QED BY <1>2, <1>3 DEF OwnInv

LEMMA ManualBookOwn ==
  ASSUME TypeInv, OwnInv, ManualBook
  PROVE  OwnInv'
<1>1. /\ manual.at = "sold" /\ manual' = [manual EXCEPT !.at = "booked"]
      /\ UNCHANGED <<held, strayed, settled, mine, guard, exit, opRelease, sweep>>
  BY DEF ManualBook
<1>2. /\ manual'.at = "booked" /\ manual'.strategy = manual.strategy
      /\ manual'.n = manual.n /\ manual'.k = manual.k
  BY <1>1 DEF TypeInv, TypeManual
<1>3. OwnTotal' /\ OwnExit' /\ OwnSweep'
  BY <1>1 DEF OwnInv, OwnTotal, OwnExit, OwnSweep
<1>4. OwnGuard'
  BY <1>1, <1>2 DEF OwnInv, OwnGuard, Gone
<1> QED BY <1>3, <1>4 DEF OwnInv

LEMMA ManualCloseOwn ==
  ASSUME TypeInv, OwnInv, ManualClose
  PROVE  OwnInv'
<1>1. /\ manual.at = "booked" /\ manual' = Unasked
      /\ UNCHANGED <<held, strayed, settled, mine, guard, exit, sweep>>
      /\ IF manual.k < manual.n THEN UNCHANGED opRelease
         ELSE opRelease' = [s \in Squadrons |-> opRelease[s] \/ s = manual.strategy]
  BY DEF ManualClose
<1>2. \A s \in Squadrons : exit[s].at = "idle"
  BY <1>1, ExitTyped DEF TypeInv, TypeManual
<1>3. OwnTotal' /\ OwnExit' /\ OwnSweep'
  BY <1>1, <1>2 DEF OwnInv, OwnTotal, OwnExit, OwnSweep, Gone
<1>4. OwnGuard'
  <2>1. manual.k \in 0..manual.n /\ manual.n \in Nat
    BY ManualTyped
  <2>2. ASSUME NEW s \in Squadrons
        PROVE  guard'[s] <= mine'[s] \/ settled' \/ opRelease'[s]
    <3>1. \/ guard[s] <= mine[s] \/ settled \/ opRelease[s]
          \/ manual.strategy = s /\ manual.k = manual.n
      BY <1>2 DEF OwnInv, OwnGuard, Gone
    <3>2. opRelease[s] => opRelease'[s]
      BY <1>1
    <3>3. manual.strategy = s /\ manual.k = manual.n => opRelease'[s]
      <4>1. manual.k = manual.n => ~(manual.k < manual.n)
        BY <2>1
      <4>2. manual.k = manual.n => opRelease' = [q \in Squadrons |-> opRelease[q] \/ q = manual.strategy]
        BY <1>1, <4>1
      <4> QED BY <4>2
    <3> QED BY <1>1, <3>1, <3>2, <3>3
  <2> QED BY <2>2 DEF OwnGuard
<1> QED BY <1>3, <1>4 DEF OwnInv

\* The steps of a sweep before its releases.
LEMMA SweepOwn ==
  ASSUME TypeInv, OwnInv, NEW s \in Squadrons, UNCHANGED <<held, strayed, settled, mine, guard, exit, opRelease, manual>>,
         \/ exit[s].at \in {"idle", "sold"} /\ sweep' = Over(s)
         \/ exit[s].at \in {"idle", "sold"} /\ \E w : w.at # "release" /\ sweep' = [sweep EXCEPT ![s] = w]
  PROVE  OwnInv'
<1>1. OwnTotal' /\ OwnExit' /\ OwnGuard'
  BY DEF OwnInv, OwnTotal, OwnExit, OwnGuard
<1>2. /\ \A q \in Squadrons \ {s} : sweep'[q] = sweep[q]
      /\ exit[s].at \in {"idle", "sold"}
      /\ sweep'[s].at # "release" \/ exit[s].at = "idle"
  BY DEF Over, TypeInv, TypeSweeps
<1>3. OwnSweep'
  BY <1>2 DEF OwnInv, OwnSweep
<1> QED BY <1>1, <1>3 DEF OwnInv

LEMMA ReleaseClosedOwn ==
  ASSUME TypeInv, OwnInv, NEW s \in Squadrons, ReleaseClosed(s)
  PROVE  OwnInv'
<1>1. OwnTotal'
  BY OwnStays DEF ReleaseClosed
<1>2. /\ sweep[s].at = "release" /\ sweep' = [sweep EXCEPT ![s] = Unswept]
      /\ guard' = IF released \/ Dropped(s) THEN Drop(guard, s) ELSE guard
      /\ opRelease' = [opRelease EXCEPT ![s] = @ /\ (released \/ guard[s] = 0)]
      /\ UNCHANGED <<settled, mine, exit, manual>>
  BY DEF ReleaseClosed
<1>3. exit[s].at = "idle"
  BY <1>2 DEF OwnInv, OwnSweep
<1>4. /\ \A q \in Squadrons \ {s} : sweep'[q] = sweep[q] /\ guard'[q] = guard[q] /\ opRelease'[q] = opRelease[q]
      /\ mine[s] \in Nat /\ guard[s] \in Nat
  <2>1. \A q \in Squadrons \ {s} : sweep'[q] = sweep[q]
    BY <1>2 DEF TypeInv, TypeSweeps
  <2>2. \A q \in Squadrons \ {s} : guard'[q] = guard[q]
    BY <1>2 DEF Drop, TypeInv, TypeLoops
  <2>3. \A q \in Squadrons \ {s} : opRelease'[q] = opRelease[q]
    BY <1>2 DEF TypeInv, TypeLoops
  <2> QED BY <2>1, <2>2, <2>3, LoopsTyped
<1>5. guard'[s] = 0 \/ (guard'[s] = guard[s] /\ ~Dropped(s))
  BY <1>2 DEF Drop, TypeInv, TypeLoops
<1>6. OwnExit' /\ OwnSweep'
  BY <1>2, <1>3, <1>4 DEF OwnInv, OwnExit, OwnSweep, Gone
<1>7. OwnGuard'
  <2>1. CASE guard'[s] = 0
    BY <1>2, <1>4, <2>1 DEF OwnInv, OwnGuard
  <2>2. CASE guard'[s] = guard[s] /\ guard[s] > 0 /\ ~opRelease[s]
    BY <1>2, <1>4, <2>2 DEF OwnInv, OwnGuard
  <2> QED BY <1>4, <1>5, <2>1, <2>2 DEF Dropped
<1> QED BY <1>1, <1>6, <1>7 DEF OwnInv

LEMMA OutsideBuyOwn ==
  ASSUME TypeInv, OwnInv, OutsideBuy
  PROVE  OwnInv'
<1>1. held' = held + 1 /\ UNCHANGED <<strayed, settled, mine, guard, exit, opRelease, sweep, manual>>
  BY DEF OutsideBuy
<1>2. OwnTotal'
  BY <1>1, MineNat DEF OwnInv, OwnTotal, TypeInv, TypeVenue
<1>4. OwnGuard' /\ OwnExit' /\ OwnSweep'
  BY <1>1 DEF OwnInv, OwnGuard, OwnExit, OwnSweep
<1> QED BY <1>2, <1>4 DEF OwnInv

LEMMA OutsideSaleOwn ==
  ASSUME TypeInv, OwnInv, OutsideSale
  PROVE  OwnInv'
<1>1. /\ held' = held - 1 /\ held > Contracts(mine, Squadrons)
      /\ UNCHANGED <<strayed, settled, mine, guard, exit, opRelease, sweep, manual>>
  BY DEF OutsideSale
<1>2. OwnTotal'
  BY <1>1, MineNat DEF OwnTotal, TypeInv, TypeVenue
<1>3. OwnGuard' /\ OwnExit' /\ OwnSweep'
  BY <1>1 DEF OwnInv, OwnGuard, OwnExit, OwnSweep
<1> QED BY <1>2, <1>3 DEF OwnInv

LEMMA SettleOwn ==
  ASSUME TypeInv, OwnInv, Settle
  PROVE  OwnInv'
<1>1. /\ settled' = TRUE /\ held' = 0 /\ mine' = [s \in Squadrons |-> 0]
      /\ UNCHANGED <<strayed, guard, exit, opRelease, sweep, manual>>
  BY DEF Settle
<1>2. Contracts(mine', Squadrons) = 0
  BY <1>1, ContractsZero
<1>3. strayed \in Nat
  BY DEF TypeInv, TypeVenue
<1> QED BY <1>1, <1>2, <1>3 DEF OwnInv, OwnTotal, OwnGuard, OwnExit, OwnSweep

LEMMA RestartOwn ==
  ASSUME TypeInv, OwnInv, Restart
  PROVE  OwnInv'
<1>1. /\ guard' = [s \in Squadrons |-> 0] /\ mine' = [s \in Squadrons |-> 0] /\ UNCHANGED <<held, strayed>>
      /\ exit' = [s \in Squadrons |-> Resting] /\ manual' = Unasked
  BY DEF Restart
<1>2. Contracts(mine', Squadrons) = 0
  BY <1>1, ContractsZero
<1>3. OwnTotal'
  BY <1>1, <1>2, MineNat DEF OwnInv, OwnTotal, TypeInv, TypeVenue
<1> QED BY <1>1, <1>3 DEF OwnInv, OwnGuard, OwnExit, OwnSweep, Gone

\* The steps that leave every part alone.
LEMMA OthersOwn ==
  ASSUME TypeInv, OwnInv,
         \/ \E s \in Squadrons : EnterRow(s)
         \/ GraceEnds \/ ProtectionEnds \/ UNCHANGED vars
  PROVE  OwnInv'
<1>1. UNCHANGED <<held, strayed, settled, mine, guard, exit, opRelease, sweep, manual>>
  BY DEF EnterRow, GraceEnds, ProtectionEnds, vars, market, bounds, loops, history
<1> QED BY <1>1 DEF OwnInv, OwnTotal, OwnGuard, OwnExit, OwnSweep

LEMMA SweepStepOwn ==
  ASSUME TypeInv, OwnInv, NEW s \in Squadrons,
         \/ SweepRead(s) \/ SweepClaim(s) \/ SweepAdopt(s) \/ SweepFollow(s)
         \/ SweepProbe(s) \/ SweepSettle(s) \/ SweepPurge(s) \/ SweepBook(s)
  PROVE  OwnInv'
<1>1. UNCHANGED <<held, strayed, settled, mine, guard, exit, opRelease, manual>>
  BY DEF SweepRead, SweepClaim, SweepAdopt, SweepFollow, SweepProbe, SweepSettle, SweepPurge,
         SweepBook, market, loops
<1>2. exit[s].at \in {"idle", "sold"}
  <2>1. CASE sweep[s].at = "idle"
    BY <2>1 DEF SweepRead, SweepClaim, SweepAdopt, SweepFollow, SweepProbe, SweepSettle, SweepPurge, SweepBook
  <2> QED BY <2>1 DEF OwnInv, OwnSweep
<1>3. CASE SweepRead(s)
  <2>1. CASE sweep' = Over(s)
    BY <1>1, <1>2, <2>1, SweepOwn
  <2>2. CASE sweep' # Over(s)
    <3> DEFINE w == [at |-> IF held > 0 THEN "claim" ELSE "probe", seen |-> held, due |-> {}]
    <3>1. w.at # "release" /\ sweep' = [sweep EXCEPT ![s] = w]
      BY <1>3, <2>2 DEF SweepRead
    <3> QED BY <1>1, <1>2, <3>1, SweepOwn
  <2> QED BY <2>1, <2>2
<1>4. ASSUME \E at \in {"follow", "adopt", "settle", "purge"} : sweep' = MoveTo(s, at)
      PROVE  OwnInv'
  <2>1. PICK at \in {"follow", "adopt", "settle", "purge"} : sweep' = MoveTo(s, at)
    BY <1>4
  <2> DEFINE w == [sweep[s] EXCEPT !.at = at]
  <2>2. w.at # "release" /\ sweep' = [sweep EXCEPT ![s] = w]
    BY <2>1, SweepTyped DEF MoveTo, Sweeps
  <2> QED BY <1>1, <1>2, <2>2, SweepOwn
<1>5. ASSUME sweep' = Over(s) PROVE OwnInv'
  BY <1>1, <1>2, <1>5, SweepOwn
<1>6. CASE SweepClaim(s) \/ SweepAdopt(s)
  BY <1>4, <1>6 DEF SweepClaim, SweepAdopt
<1>7. CASE SweepFollow(s) \/ SweepSettle(s) \/ SweepBook(s)
  BY <1>5, <1>7 DEF SweepFollow, SweepSettle, SweepBook
<1>8. CASE SweepProbe(s)
  BY <1>4, <1>5, <1>8 DEF SweepProbe
<1>9. CASE SweepPurge(s)
  <2>1. CASE protected
    BY <1>5, <1>9, <2>1 DEF SweepPurge
  <2>2. CASE ~protected
    <3> DEFINE due == {key \in Live : ~Booked(rows[key].n)}
               w == [sweep[s] EXCEPT !.at = "book", !.due = {<<key, rows[key].n>> : key \in due}]
    <3>1. w.at # "release" /\ sweep' = [sweep EXCEPT ![s] = w]
      BY <1>9, <2>2, SweepTyped DEF SweepPurge, Sweeps, TypeInv, TypeSweeps
    <3> QED BY <1>1, <1>2, <3>1, SweepOwn
  <2> QED BY <2>1, <2>2
<1> QED BY <1>3, <1>6, <1>7, <1>8, <1>9

LEMMA OwnNext == TypeInv /\ TypeInv' /\ OwnInv /\ [Next]_vars => OwnInv'
<1> SUFFICES ASSUME TypeInv, TypeInv', OwnInv, [Next]_vars PROVE OwnInv'
  OBVIOUS
<1>1. ASSUME NEW s \in Squadrons, Loop(s) PROVE OwnInv'
  BY <1>1, EnterOwn, OthersOwn, ExitStartOwn, ExitSellOwn, ExitUnheardOwn, ExitBookOwn, ExitCloseOwn DEF Loop
<1>2. ASSUME NEW s \in Squadrons, Sweep(s) PROVE OwnInv'
  BY <1>2, SweepStepOwn, ReleaseClosedOwn DEF Sweep
<1>3. CASE CloseNow
  BY <1>3, ManualStartOwn, ManualSellOwn, ManualUnheardOwn, ManualBookOwn, ManualCloseOwn DEF CloseNow
<1>4. CASE OutsideBuy \/ OutsideSale \/ Settle \/ Restart
  BY <1>4, OutsideBuyOwn, OutsideSaleOwn, SettleOwn, RestartOwn
<1>5. CASE GraceEnds \/ ProtectionEnds \/ UNCHANGED vars
  BY <1>5, OthersOwn
<1> QED BY <1>1, <1>2, <1>3, <1>4, <1>5 DEF Next

-----------------------------------------------------------------------------
(* Who is busy.  A squadron that is not deployed does nothing; a loop that *)
(* sweeps or sells has written the row of its last buy; and once the       *)
(* market has settled, nobody has contracts or is about to book a loss.    *)

BusyOf(s) ==
    /\ s \notin flying => entering[s] = 0 /\ exit[s].at = "idle" /\ sweep[s].at = "idle"
    /\ sweep[s].at # "idle" \/ exit[s].at # "idle" => entering[s] = 0
    /\ settled => /\ mine[s] = 0 /\ entering[s] = 0 /\ exit[s].at \notin Gone
                  /\ sweep[s].at \notin Held \cup {"purge", "book"}
    /\ sweep[s].at = "settle" => settled

PaidOut == settled => held = 0 /\ manual.at \notin Gone

BusyInv == PaidOut /\ \A s \in Squadrons : BusyOf(s)

\* Nothing of a squadron moves.
LEMMA BusySame ==
  ASSUME NEW q \in Squadrons, BusyOf(q), UNCHANGED <<flying, settled>>,
         UNCHANGED <<mine[q], entering[q], exit[q], sweep[q]>>
  PROVE  BusyOf(q)'
BY DEF BusyOf

LEMMA BusyOne ==
  ASSUME BusyInv, NEW s \in Squadrons, UNCHANGED <<flying, settled>>, PaidOut', BusyOf(s)',
         \A q \in Squadrons \ {s} : UNCHANGED <<mine[q], entering[q], exit[q], sweep[q]>>
  PROVE  BusyInv'
BY BusySame DEF BusyInv

LEMMA BusyInit == Init => BusyInv
BY DEF Init, BusyInv, BusyOf, PaidOut, Gone, Held

LEMMA LoopBusy ==
  ASSUME TypeInv, TypeInv', OwnInv, BusyInv, NEW s \in Squadrons, Loop(s)
  PROVE  BusyInv'
<1>0. BusyOf(s) /\ PaidOut
  BY DEF BusyInv
<1>1. CASE \E n \in Lots : Enter(s, n)
  <2>1. PICK n \in Lots : Enter(s, n)
    BY <1>1
  <2>2. /\ Between(s) /\ ~settled /\ UNCHANGED <<flying, settled, exit, sweep, manual>>
        /\ entering' = [entering EXCEPT ![s] = n] /\ mine' = [mine EXCEPT ![s] = @ + n]
    BY <2>1 DEF Enter
  <2>3. \A q \in Squadrons \ {s} : UNCHANGED <<mine[q], entering[q], exit[q], sweep[q]>>
    BY <2>2 DEF TypeInv, TypeLoops
  <2>4. BusyOf(s)' /\ PaidOut'
    BY <2>2 DEF BusyOf, PaidOut, Between
  <2> QED BY <2>2, <2>3, <2>4, BusyOne
<1>2. CASE EnterRow(s)
  <2>1. /\ UNCHANGED <<flying, settled, held, mine, exit, sweep, manual>>
        /\ entering' = [entering EXCEPT ![s] = 0]
    BY <1>2 DEF EnterRow
  <2>2. entering'[s] = 0 /\ \A q \in Squadrons \ {s} : UNCHANGED <<mine[q], entering[q], exit[q], sweep[q]>>
    BY <2>1 DEF TypeInv, TypeLoops
  <2>3. BusyOf(s)' /\ PaidOut'
    BY <1>0, <2>1, <2>2 DEF BusyOf, PaidOut
  <2> QED BY <2>1, <2>2, <2>3, BusyOne
<1>3. CASE ExitStart(s)
  <2>1. /\ Between(s) /\ UNCHANGED <<flying, settled, held, mine, entering, sweep, manual>>
    BY <1>3 DEF ExitStart
  <2>2. exit' = exit \/ exit' = [exit EXCEPT ![s] = [at |-> "selling", n |-> guard[s], k |-> 0]]
    BY <1>3 DEF ExitStart
  <2>3. /\ exit'[s].at \in {"idle", "selling"}
        /\ \A q \in Squadrons \ {s} : UNCHANGED <<mine[q], entering[q], exit[q], sweep[q]>>
    BY <2>1, <2>2 DEF TypeInv, TypeExits, Between
  <2>4. BusyOf(s)' /\ PaidOut'
    BY <1>0, <2>1, <2>3 DEF BusyOf, PaidOut, Between, Gone
  <2> QED BY <2>1, <2>3, <2>4, BusyOne
<1>4. CASE ExitBook(s)
  <2>1. /\ exit[s].at = "sold" /\ UNCHANGED <<flying, settled, held, mine, entering, sweep, manual>>
        /\ exit' = [exit EXCEPT ![s].at = "booked"]
    BY <1>4 DEF ExitBook
  <2>2. \A q \in Squadrons \ {s} : UNCHANGED <<mine[q], entering[q], exit[q], sweep[q]>>
    BY <2>1 DEF TypeInv, TypeExits
  <2>3. BusyOf(s)' /\ PaidOut'
    BY <1>0, <2>1 DEF BusyOf, PaidOut, Gone
  <2> QED BY <2>1, <2>2, <2>3, BusyOne
<1>5. CASE ExitClose(s)
  <2>1. /\ exit[s].at = "booked" /\ UNCHANGED <<flying, settled, held, mine, entering, sweep, manual>>
        /\ exit' = [exit EXCEPT ![s] = Resting]
    BY <1>5 DEF ExitClose
  <2>2. \A q \in Squadrons \ {s} : UNCHANGED <<mine[q], entering[q], exit[q], sweep[q]>>
    BY <2>1 DEF TypeInv, TypeExits
  <2>3. BusyOf(s)' /\ PaidOut'
    BY <1>0, <2>1 DEF BusyOf, PaidOut, Gone
  <2> QED BY <2>1, <2>2, <2>3, BusyOne
<1>6. CASE \E k \in 0..MaxHeld : ExitSell(s, k)
  <2>1. PICK k \in 0..MaxHeld : ExitSell(s, k)
    BY <1>6
  <2>2. /\ exit[s].at = "selling" /\ (settled => k = 0) /\ held' = held - k
        /\ mine' = [mine EXCEPT ![s] = @ - Min({k, @})]
        /\ exit' = [exit EXCEPT ![s] = IF k = 0 THEN Resting ELSE [@ EXCEPT !.at = "sold", !.k = k]]
        /\ UNCHANGED <<flying, settled, entering, sweep, manual>>
    BY <2>1 DEF ExitSell
  <2>3. \A q \in Squadrons \ {s} : UNCHANGED <<mine[q], entering[q], exit[q], sweep[q]>>
    BY <2>2 DEF TypeInv, TypeExits, TypeLoops
  <2>4. PaidOut'
    BY <1>0, <2>2 DEF PaidOut
  <2>5. settled => mine'[s] = mine[s]
    <3>1. k = 0 => Min({k, mine[s]}) = 0
      BY MinOfTwo, LoopsTyped
    <3> QED BY <2>2, <3>1, LoopsTyped DEF TypeInv, TypeLoops
  <2>6. settled => exit'[s].at = "idle"
    BY <2>2 DEF TypeInv, TypeExits
  <2>7. BusyOf(s)'
    <3>1. s \in flying
      BY <1>0, <2>2 DEF BusyOf
    <3> QED BY <1>0, <2>2, <2>5, <2>6, <3>1 DEF BusyOf, Gone
  <2> QED BY <2>2, <2>3, <2>4, <2>7, BusyOne
<1>7. CASE \E k \in 0..MaxHeld : ExitUnheard(s, k)
  <2>1. PICK k \in 0..MaxHeld : ExitUnheard(s, k)
    BY <1>7
  <2>2. /\ exit[s].at = "selling" /\ (settled => k = 0) /\ held' = held - k
        /\ exit' = [exit EXCEPT ![s] = Resting]
        /\ UNCHANGED <<flying, settled, mine, entering, sweep, manual>>
    BY <2>1 DEF ExitUnheard, Stray, bounds
  <2>3. /\ exit'[s].at = "idle"
        /\ \A q \in Squadrons \ {s} : UNCHANGED <<mine[q], entering[q], exit[q], sweep[q]>>
    BY <2>2 DEF TypeInv, TypeExits
  <2>4. PaidOut'
    BY <1>0, <2>2 DEF PaidOut
  <2>5. BusyOf(s)'
    BY <1>0, <2>2, <2>3 DEF BusyOf, Gone
  <2> QED BY <2>2, <2>3, <2>4, <2>5, BusyOne
<1>8. ASSUME NEW k \in 0..MaxHeld, ExitSell(s, k) \/ ExitUnheard(s, k) PROVE BusyInv'
  BY <1>6, <1>7, <1>8
<1> QED BY <1>1, <1>2, <1>3, <1>4, <1>5, <1>8 DEF Loop

LEMMA SweepBusy ==
  ASSUME TypeInv, TypeInv', OwnInv, BusyInv, NEW s \in Squadrons, Sweep(s)
  PROVE  BusyInv'
<1>0. BusyOf(s) /\ PaidOut
  BY DEF BusyInv
<1>1. UNCHANGED <<flying, settled, held, mine, entering, exit, manual>>
  BY DEF Sweep, SweepRead, SweepClaim, SweepAdopt, SweepFollow, SweepProbe, SweepSettle, SweepPurge,
         SweepBook, ReleaseClosed
<1>2. s \in flying /\ entering[s] = 0
  BY <1>0 DEF Sweep, SweepRead, SweepClaim, SweepAdopt, SweepFollow, SweepProbe, SweepSettle, SweepPurge,
         SweepBook, ReleaseClosed, BusyOf
<1>3. ASSUME NEW w, sweep' = [sweep EXCEPT ![s] = w],
             settled => w.at \notin Held \cup {"purge", "book"}, w.at = "settle" => settled
      PROVE  BusyInv'
  <2>1. sweep'[s] = w /\ \A q \in Squadrons \ {s} : UNCHANGED <<mine[q], entering[q], exit[q], sweep[q]>>
    BY <1>1, <1>3 DEF TypeInv, TypeSweeps
  <2>2. BusyOf(s)' /\ PaidOut'
    BY <1>0, <1>1, <1>2, <1>3, <2>1 DEF BusyOf, PaidOut
  <2> QED BY <1>1, <2>1, <2>2, BusyOne
<1>5. ASSUME sweep' \in {Over(s), [sweep EXCEPT ![s] = Unswept]} PROVE BusyInv'
  <2>1. PICK w \in {Unswept, [Unswept EXCEPT !.at = "release"]} : sweep' = [sweep EXCEPT ![s] = w]
    BY <1>5 DEF Over
  <2>2. w.at \in {"idle", "release"}
    OBVIOUS
  <2> HIDE DEF Unswept
  <2> QED BY <1>3, <2>1, <2>2 DEF Held
<1>6. ASSUME NEW at \in Stages, sweep' = MoveTo(s, at),
             settled => at \notin Held \cup {"purge", "book"}, at = "settle" => settled
      PROVE  BusyInv'
  <2> DEFINE w == [sweep[s] EXCEPT !.at = at]
  <2>1. w.at = at /\ sweep' = [sweep EXCEPT ![s] = w]
    BY <1>6, SweepTyped DEF MoveTo, Sweeps
  <2> HIDE DEF w
  <2> QED BY <1>3, <1>6, <2>1
<1>7. CASE SweepRead(s)
  <2>1. CASE sweep' # Over(s)
    <3> DEFINE w == [at |-> IF held > 0 THEN "claim" ELSE "probe", seen |-> held, due |-> {}]
    <3>1. sweep' = [sweep EXCEPT ![s] = w]
      BY <1>7, <2>1 DEF SweepRead
    <3>2. settled => w.at = "probe"
      BY <1>0 DEF PaidOut
    <3>3. w.at \in {"claim", "probe"}
      OBVIOUS
    <3> HIDE DEF w
    <3> QED BY <1>3, <3>1, <3>2, <3>3 DEF Held
  <2> QED BY <1>5, <2>1
<1>8. CASE SweepClaim(s) \/ SweepAdopt(s)
  <2>1. ~settled /\ \E at \in {"follow", "adopt"} : sweep' = MoveTo(s, at)
    BY <1>0, <1>8 DEF SweepClaim, SweepAdopt, BusyOf, Held
  <2> QED BY <1>6, <2>1 DEF Stages
<1>9. CASE SweepFollow(s) \/ SweepSettle(s) \/ SweepBook(s) \/ ReleaseClosed(s)
  BY <1>5, <1>9 DEF SweepFollow, SweepSettle, SweepBook, ReleaseClosed
<1>10. CASE SweepProbe(s)
  <2>1. \/ sweep' = Over(s)
        \/ sweep' = MoveTo(s, "settle") /\ settled
        \/ sweep' = MoveTo(s, "purge") /\ ~settled
    BY <1>10 DEF SweepProbe
  <2> QED BY <1>5, <1>6, <2>1 DEF Stages, Held
<1>11. CASE SweepPurge(s)
  <2>1. CASE protected
    BY <1>5, <1>11, <2>1 DEF SweepPurge
  <2>2. CASE ~protected
    <3> DEFINE due == {key \in Live : ~Booked(rows[key].n)}
               w == [sweep[s] EXCEPT !.at = "book", !.due = {<<key, rows[key].n>> : key \in due}]
    <3>1. w.at = "book" /\ sweep' = [sweep EXCEPT ![s] = w]
      BY <1>11, <2>2, SweepTyped DEF SweepPurge, Sweeps, TypeInv, TypeSweeps
    <3>2. ~settled
      BY <1>0, <1>11 DEF SweepPurge, BusyOf
    <3> HIDE DEF w
    <3> QED BY <1>3, <3>1, <3>2
  <2> QED BY <2>1, <2>2
<1> QED BY <1>7, <1>8, <1>9, <1>10, <1>11 DEF Sweep

LEMMA CloseNowBusy ==
  ASSUME TypeInv, BusyInv, CloseNow
  PROVE  BusyInv'
<1>1. UNCHANGED <<flying, settled, entering, exit, sweep>>
  BY DEF CloseNow, ManualStart, ManualSell, ManualUnheard, ManualBook, ManualClose, bounds, loops
<1>2. settled => UNCHANGED <<held, mine>> /\ manual'.at \notin Gone
  <2>1. ASSUME NEW key \in Keys, ManualStart(key)
        PROVE  UNCHANGED <<held, mine>> /\ manual'.at \notin Gone
    BY <2>1 DEF ManualStart, Gone
  <2>2. ASSUME NEW k \in 0..MaxHeld, ManualSell(k), settled
        PROVE  UNCHANGED <<held, mine>> /\ manual'.at \notin Gone
    <3>1. k = 0 /\ held \in Int /\ ~Untold(k)
      BY <2>2 DEF ManualSell, Untold, TypeInv, TypeVenue
    <3>2. held' = held /\ manual' = Unasked
      BY <2>2, <3>1 DEF ManualSell
    <3>3. mine' = IF manual.strategy = Adopted THEN mine
                  ELSE [mine EXCEPT ![manual.of] = @ - Min({k, @})]
      BY <2>2, <3>1 DEF ManualSell
    <3>4. manual.of \in Squadrons \/ manual.strategy = Adopted
      BY <2>2, ManualTyped DEF ManualSell
    <3>5. manual.of \in Squadrons => mine[manual.of] - Min({k, mine[manual.of]}) = mine[manual.of]
      BY <3>1, LoopsTyped, MinOfTwo
    <3>6. mine' = mine
      BY <3>3, <3>4, <3>5 DEF TypeInv, TypeLoops
    <3> QED BY <3>2, <3>6 DEF Gone
  <2>4. ASSUME NEW k \in 0..MaxHeld, ManualUnheard(k), settled
        PROVE  UNCHANGED <<held, mine>> /\ manual'.at \notin Gone
    BY <2>4 DEF ManualUnheard, Stray, Gone, TypeInv, TypeVenue
  <2>3. ASSUME ManualBook \/ ManualClose PROVE ~settled
    BY <2>3 DEF ManualBook, ManualClose, BusyInv, PaidOut, Gone
  <2> QED BY <2>1, <2>2, <2>3, <2>4 DEF CloseNow
<1>3. PaidOut'
  BY <1>1, <1>2 DEF BusyInv, PaidOut
<1>4. ASSUME NEW s \in Squadrons PROVE BusyOf(s)'
  BY <1>1, <1>2 DEF BusyInv, BusyOf
<1> QED BY <1>3, <1>4 DEF BusyInv

LEMMA SettleBusy ==
  ASSUME TypeInv, BusyInv, Settle
  PROVE  BusyInv'
<1>1. /\ settled' = TRUE /\ held' = 0 /\ mine' = [s \in Squadrons |-> 0]
      /\ Quiet /\ UNCHANGED <<flying, entering, exit, sweep, manual>>
  BY DEF Settle
<1>2. PaidOut'
  BY <1>1 DEF PaidOut, Quiet, Gone
<1>3. ASSUME NEW s \in Squadrons PROVE BusyOf(s)'
  <2>1. entering[s] = 0 /\ exit[s].at = "idle" /\ sweep[s].at = "idle"
    BY <1>1 DEF BusyInv, BusyOf, Quiet, Between
  <2> QED BY <1>1, <2>1 DEF BusyOf, Gone, Held
<1> QED BY <1>2, <1>3 DEF BusyInv

LEMMA RestartBusy ==
  ASSUME TypeInv, BusyInv, Restart
  PROVE  BusyInv'
<1>1. /\ guard' = [s \in Squadrons |-> 0] /\ entering' = guard' /\ mine' = guard'
      /\ exit' = [s \in Squadrons |-> Resting] /\ sweep' = [s \in Squadrons |-> Unswept]
      /\ manual' = Unasked /\ UNCHANGED <<held, settled, flying>>
  BY DEF Restart
<1> QED BY <1>1 DEF BusyInv, BusyOf, PaidOut, Gone, Held

LEMMA BusyNext == TypeInv /\ TypeInv' /\ OwnInv /\ BusyInv /\ [Next]_vars => BusyInv'
<1> SUFFICES ASSUME TypeInv, TypeInv', OwnInv, BusyInv, [Next]_vars PROVE BusyInv'
  OBVIOUS
<1>1. CASE OutsideBuy \/ OutsideSale
  <2>1. ~settled /\ UNCHANGED <<settled, flying, mine, entering, exit, sweep, manual>>
    BY <1>1 DEF OutsideBuy, OutsideSale
  <2> QED BY <2>1, BusySame DEF BusyInv, PaidOut
<1>2. CASE GraceEnds \/ ProtectionEnds \/ UNCHANGED vars
  <2>1. UNCHANGED <<held, settled, flying, mine, entering, exit, sweep, manual>>
    BY <1>2 DEF GraceEnds, ProtectionEnds, vars
  <2> QED BY <2>1, BusySame DEF BusyInv, PaidOut
<1> QED BY <1>1, <1>2, LoopBusy, SweepBusy, CloseNowBusy, SettleBusy, RestartBusy DEF Next

LEMMA BusyAlways == Spec => [](TypeInv /\ OwnInv /\ BusyInv)
<1>1. Spec => []OwnInv
  BY OwnInit, OwnNext, TypeAlways, PTL DEF Spec
<1> QED BY <1>1, BusyInit, BusyNext, TypeAlways, PTL DEF Spec

-----------------------------------------------------------------------------
(* LotsGuarded.  Until a sweep races, what a viper still holds is covered  *)
(* by its guard and, once the buy is recorded, by its row: the row that    *)
(* an exit sells from, or that Close Now is selling.                       *)

LotOf(s) ==
    /\ mine[s] <= guard[s] /\ entering[s] <= mine[s]
    /\ opRelease[s] /\ guard[s] > 0 => mine[s] = 0
    /\ exit[s].at \in Gone => mine[s] <= exit[s].n - exit[s].k

Covers(row, n) == row.fill /\ row.n >= n

RowOf(s) ==
    /\ mine[s] > 0 => mine[s] <= entering[s] \/ Covers(rows[<<"viper", s>>], mine[s])
    /\ entering[s] > 0 => rows[<<"viper", s>>].n = 0
    /\ exit[s].at \in Gone => Covers(rows[<<"viper", s>>], exit[s].n)

\* The row Close Now is about.
ManualKey == <<IF manual.strategy = Adopted THEN "adopted" ELSE "viper", manual.of>>

ManualRow ==
    /\ manual.at # "idle" /\ ~settled => rows[ManualKey].n = manual.n
    /\ manual.at \in Gone /\ manual.strategy # Adopted => mine[manual.of] = 0

LotsInv == ~raced => ManualRow /\ \A s \in Squadrons : LotOf(s) /\ RowOf(s)

KeptInv == TypeInv /\ OwnInv /\ BusyInv /\ LotsInv

LEMMA LotSame ==
  ASSUME NEW q \in Squadrons, LotOf(q), UNCHANGED <<mine[q], guard[q], entering[q], opRelease[q], exit[q]>>
  PROVE  LotOf(q)'
BY DEF LotOf

LEMMA RowSame ==
  ASSUME NEW q \in Squadrons, RowOf(q), UNCHANGED <<mine[q], entering[q], exit[q], rows[<<"viper", q>>]>>
  PROVE  RowOf(q)'
BY DEF RowOf

\* One loop moves.
LEMMA LotsOne ==
  ASSUME LotsInv, ~raced, NEW s \in Squadrons,
         \A q \in Squadrons \ {s} :
            UNCHANGED <<mine[q], guard[q], entering[q], opRelease[q], exit[q], rows[<<"viper", q>>]>>,
         LotOf(s)', RowOf(s)', ManualRow'
  PROVE  LotsInv'
BY LotSame, RowSame DEF LotsInv

\* While an exit arm has the claim, Close Now is not at work.
LEMMA OneSale ==
  ASSUME TypeInv, NEW s \in Squadrons, exit[s].at # "idle"
  PROVE  manual.at = "idle" /\ \A q \in Squadrons \ {s} : exit[q].at = "idle"
BY ExitTyped DEF TypeInv, TypeManual

LEMMA RowsTyped ==
  ASSUME TypeInv, NEW key \in Keys
  PROVE  rows[key] \in Row /\ rows[key].n \in Nat /\ rows[key].n <= MaxHeld
BY DEF TypeInv, TypeLedger

LEMMA ViperKeys ==
  ASSUME NEW s \in Squadrons, NEW q \in Squadrons
  PROVE  <<"viper", q>> \in Keys /\ <<"adopted", q>> \in Keys
         /\ (<<"viper", q>> = <<"viper", s>> <=> q = s) /\ <<"adopted", q>> # <<"viper", s>>
OBVIOUS

LEMMA LotsInit == Init => LotsInv
BY DEF Init, LotsInv, LotOf, RowOf, ManualRow, Gone

LEMMA EnterLots ==
  ASSUME KeptInv, TypeInv', NEW s \in Squadrons, NEW n \in Lots, Enter(s, n)
  PROVE  LotsInv'
<1> SUFFICES ASSUME ~raced' PROVE LotsInv'
  BY DEF LotsInv
<1>1. /\ Between(s) /\ guard[s] = 0 /\ n \in Nat /\ n > 0 /\ ~raced /\ ~ (rows[<<"viper", s>>].n > 0)
      /\ guard' = [guard EXCEPT ![s] = n] /\ entering' = [entering EXCEPT ![s] = n]
      /\ opRelease' = [opRelease EXCEPT ![s] = FALSE] /\ mine' = [mine EXCEPT ![s] = @ + n]
      /\ UNCHANGED <<settled, exit, manual, rows>>
  <2>1. n \in Nat /\ n > 0
    OBVIOUS
  <2>2. /\ Between(s) /\ guard[s] = 0
        /\ guard' = [guard EXCEPT ![s] = n] /\ entering' = [entering EXCEPT ![s] = n]
        /\ opRelease' = [opRelease EXCEPT ![s] = FALSE] /\ mine' = [mine EXCEPT ![s] = @ + n]
        /\ UNCHANGED <<settled, exit, manual, rows>>
    BY DEF Enter
  <2>3. ~raced /\ ~ (rows[<<"viper", s>>].n > 0)
    BY DEF Enter
  <2> QED BY <2>1, <2>2, <2>3
<1>2. LotOf(s) /\ RowOf(s) /\ ManualRow
  BY <1>1 DEF KeptInv, LotsInv
<1>3. mine[s] = 0
  BY <1>1, <1>2, LoopsTyped DEF LotOf, KeptInv
<1>4. mine'[s] = n /\ guard'[s] = n /\ entering'[s] = n /\ ~opRelease'[s] /\ exit'[s].at = "idle"
  BY <1>1, <1>3 DEF KeptInv, TypeInv, TypeLoops, Between
<1>5. \A q \in Squadrons \ {s} :
         UNCHANGED <<mine[q], guard[q], entering[q], opRelease[q], exit[q], rows[<<"viper", q>>]>>
  BY <1>1 DEF KeptInv, TypeInv, TypeLoops
<1>6. LotOf(s)'
  BY <1>1, <1>4 DEF LotOf, Gone
<1>7. RowOf(s)'
  <2>1. rows[<<"viper", s>>].n = 0
    BY <1>1, ViperKeys, RowsTyped DEF KeptInv
  <2> QED BY <1>1, <1>4, <2>1 DEF RowOf, Gone
<1>8. ManualRow'
  <2>1. ManualKey' = ManualKey
    BY <1>1 DEF ManualKey
  <2>2. ASSUME manual.at \in Gone, manual.strategy # Adopted PROVE mine'[manual.of] = 0
    <3>1. ~settled /\ manual.of \in Squadrons /\ manual.strategy = manual.of /\ manual.n > 0
      BY <2>2 DEF KeptInv, BusyInv, PaidOut, TypeInv, TypeManual, Gone
    <3>2. manual.of # s
      BY <1>1, <1>2, <2>2, <3>1, ViperKeys, RowsTyped DEF ManualRow, ManualKey, KeptInv, Gone
    <3> QED BY <1>2, <1>5, <2>2, <3>1, <3>2 DEF ManualRow
  <2> QED BY <1>1, <1>2, <2>1, <2>2 DEF ManualRow
<1> QED BY <1>1, <1>5, <1>6, <1>7, <1>8, LotsOne DEF KeptInv

LEMMA EnterRowLots ==
  ASSUME KeptInv, TypeInv', NEW s \in Squadrons, EnterRow(s)
  PROVE  LotsInv'
<1> SUFFICES ASSUME ~raced' PROVE LotsInv'
  BY DEF LotsInv
<1> DEFINE v == <<"viper", s>>
<1>1. /\ entering[s] > 0 /\ ~raced /\ entering' = [entering EXCEPT ![s] = 0]
      /\ rows' = IF rows[v].n > 0 THEN rows ELSE [rows EXCEPT ![v] = [n |-> entering[s], fill |-> TRUE]]
      /\ UNCHANGED <<settled, mine, guard, opRelease, exit, manual>>
  BY DEF EnterRow
<1>2. LotOf(s) /\ RowOf(s) /\ ManualRow
  BY <1>1 DEF KeptInv, LotsInv
<1>3. rows[v].n = 0 /\ v \in Keys /\ exit[s].at = "idle"
  BY <1>1, <1>2, ViperKeys DEF RowOf, KeptInv, BusyInv, BusyOf
<1>4. rows' = [rows EXCEPT ![v] = [n |-> entering[s], fill |-> TRUE]]
  BY <1>1, <1>3
<1>5. entering'[s] = 0 /\ rows'[v] = [n |-> entering[s], fill |-> TRUE]
  BY <1>1, <1>3, <1>4 DEF KeptInv, TypeInv, TypeLoops, TypeLedger
<1>6. \A q \in Squadrons \ {s} :
         UNCHANGED <<mine[q], guard[q], entering[q], opRelease[q], exit[q], rows[<<"viper", q>>]>>
  <2>1. \A q \in Squadrons \ {s} : UNCHANGED <<mine[q], guard[q], entering[q], opRelease[q], exit[q]>>
    BY <1>1 DEF KeptInv, TypeInv, TypeLoops
  <2>2. \A q \in Squadrons \ {s} : UNCHANGED rows[<<"viper", q>>]
    BY <1>4, ViperKeys DEF KeptInv, TypeInv, TypeLedger
  <2> QED BY <2>1, <2>2
<1>7. LotOf(s)'
  BY <1>1, <1>2, <1>3, <1>5, LoopsTyped DEF LotOf, Gone, KeptInv
<1>8. RowOf(s)'
  <2>1. mine[s] > 0 => mine[s] <= entering[s]
    BY <1>2, <1>3, LoopsTyped DEF RowOf, Covers, KeptInv
  <2> QED BY <1>1, <1>3, <1>5, <2>1 DEF RowOf, Covers, Gone
<1>9. ManualRow'
  <2>1. ASSUME manual.at # "idle", ~settled
        PROVE  rows'[ManualKey] = rows[ManualKey]
    <3>1. rows[ManualKey].n > 0 /\ ManualKey \in Keys
      BY <1>2, <2>1 DEF ManualRow, ManualKey, KeptInv, TypeInv, TypeManual
    <3>2. ManualKey # v
      BY <1>3, <3>1
    <3> HIDE DEF v
    <3> QED BY <1>4, <3>1, <3>2 DEF KeptInv, TypeInv, TypeLedger
  <2> QED BY <1>1, <1>2, <2>1 DEF ManualRow, ManualKey
<1> QED BY <1>1, <1>6, <1>7, <1>8, <1>9, LotsOne DEF KeptInv

LEMMA ExitStartLots ==
  ASSUME KeptInv, TypeInv', NEW s \in Squadrons, ExitStart(s)
  PROVE  LotsInv'
<1> SUFFICES ASSUME ~raced' PROVE LotsInv'
  BY DEF LotsInv
<1>1. /\ Between(s) /\ ~raced /\ UNCHANGED <<settled, mine, entering, manual, rows>>
  BY DEF ExitStart
<1>2. LotOf(s) /\ RowOf(s) /\ ManualRow
  BY <1>1 DEF KeptInv, LotsInv
<1>3. /\ \A q \in Squadrons \ {s} : UNCHANGED <<guard[q], opRelease[q], exit[q]>>
      /\ exit'[s].at \in {"idle", "selling"}
  <2>1. CASE Dropped(s)
    <3>1. guard' = [guard EXCEPT ![s] = 0] /\ opRelease' = [opRelease EXCEPT ![s] = FALSE] /\ exit' = exit
      BY <2>1 DEF ExitStart, Drop
    <3> QED BY <1>1, <3>1 DEF KeptInv, TypeInv, TypeLoops, Between
  <2>2. CASE ~Dropped(s)
    BY <2>2 DEF ExitStart, KeptInv, TypeInv, TypeExits
  <2> QED BY <2>1, <2>2
<1>4. LotOf(s)'
  <2>1. CASE Dropped(s)
    <3>1. mine[s] = 0 /\ entering[s] = 0
      BY <1>1, <1>2, <2>1 DEF LotOf, Dropped, Between
    <3>2. guard'[s] = 0 /\ ~opRelease'[s]
      BY <2>1 DEF ExitStart, Drop, KeptInv, TypeInv, TypeLoops
    <3> QED BY <1>1, <1>3, <3>1, <3>2 DEF LotOf, Gone
  <2>2. CASE ~Dropped(s)
    BY <1>1, <1>2, <1>3, <2>2 DEF ExitStart, LotOf, Gone
  <2> QED BY <2>1, <2>2
<1>5. RowOf(s)' /\ ManualRow'
  BY <1>1, <1>2, <1>3 DEF RowOf, ManualRow, ManualKey, Gone
<1> QED BY <1>1, <1>3, <1>4, <1>5, LotsOne DEF KeptInv

LEMMA ExitSellLots ==
  ASSUME KeptInv, TypeInv', NEW s \in Squadrons, NEW k \in 0..MaxHeld, ExitSell(s, k)
  PROVE  LotsInv'
<1> SUFFICES ASSUME ~raced' PROVE LotsInv'
  BY DEF LotsInv
<1>1. /\ exit[s].at = "selling" /\ k <= exit[s].n /\ (settled => k = 0) /\ ~raced
      /\ mine' = [mine EXCEPT ![s] = @ - Min({k, @})]
      /\ exit' = [exit EXCEPT ![s] = IF k = 0 THEN Resting ELSE [@ EXCEPT !.at = "sold", !.k = k]]
      /\ UNCHANGED <<settled, guard, entering, opRelease, manual, rows>>
  BY DEF ExitSell
<1>2. LotOf(s) /\ RowOf(s) /\ ManualRow
  BY <1>1 DEF KeptInv, LotsInv
<1>3. manual.at = "idle" /\ entering[s] = 0 /\ exit[s].n \in Nat /\ exit[s].n > 0 /\ guard[s] = exit[s].n
  BY <1>1, OneSale, ExitTyped DEF KeptInv, BusyInv, BusyOf, OwnInv, OwnExit
<1>4. /\ mine'[s] \in Nat /\ mine'[s] <= mine[s] /\ mine'[s] <= guard[s]
      /\ mine'[s] <= exit[s].n - k
  <2>1. mine'[s] = mine[s] - Min({k, mine[s]}) /\ mine[s] \in Nat
    BY <1>1, LoopsTyped DEF KeptInv, TypeInv, TypeLoops
  <2>2. mine[s] <= guard[s]
    BY <1>2 DEF LotOf
  <2> QED BY <1>1, <1>3, <2>1, <2>2, MinOfTwo
<1>5. \A q \in Squadrons \ {s} :
         UNCHANGED <<mine[q], guard[q], entering[q], opRelease[q], exit[q], rows[<<"viper", q>>]>>
  BY <1>1 DEF KeptInv, TypeInv, TypeLoops, TypeExits
<1>6. /\ k = 0 => exit'[s].at = "idle"
      /\ k # 0 => exit'[s].at = "sold" /\ exit'[s].n = exit[s].n /\ exit'[s].k = k
  BY <1>1 DEF KeptInv, TypeInv, TypeExits, Exits
<1>7. mine[s] \in Nat
  BY LoopsTyped DEF KeptInv
<1>8. LotOf(s)'
  <2>1. ~opRelease[s]
    BY <1>1 DEF KeptInv, OwnInv, OwnExit
  <2> QED BY <1>1, <1>3, <1>4, <1>6, <2>1 DEF LotOf, Gone
<1>9. RowOf(s)'
  <2>1. mine'[s] > 0 => Covers(rows[<<"viper", s>>], mine'[s])
    <3>1. rows[<<"viper", s>>].n \in Nat
      BY ViperKeys, RowsTyped DEF KeptInv
    <3> QED BY <1>2, <1>3, <1>4, <1>7, <3>1 DEF RowOf, Covers
  <2>2. k # 0 => Covers(rows[<<"viper", s>>], exit[s].n)
    <3>1. k # 0 => exit[s].n <= mine[s]
      BY <1>1 DEF KeptInv, OwnInv, OwnExit
    <3>2. rows[<<"viper", s>>].n \in Nat
      BY ViperKeys, RowsTyped DEF KeptInv
    <3> QED BY <1>2, <1>3, <1>7, <3>1, <3>2 DEF RowOf, Covers
  <2> QED BY <1>1, <1>3, <1>6, <2>1, <2>2 DEF RowOf, Gone
<1>10. ManualRow'
  BY <1>1, <1>3 DEF ManualRow, Gone
<1> QED BY <1>1, <1>5, <1>8, <1>9, <1>10, LotsOne DEF KeptInv

LEMMA ExitUnheardLots ==
  ASSUME KeptInv, TypeInv', NEW s \in Squadrons, NEW k \in 0..MaxHeld, ExitUnheard(s, k)
  PROVE  LotsInv'
<1> SUFFICES ASSUME ~raced' PROVE LotsInv'
  BY DEF LotsInv
<1>1. /\ exit[s].at = "selling" /\ ~raced /\ exit' = [exit EXCEPT ![s] = Resting]
      /\ UNCHANGED <<settled, guard, mine, entering, opRelease, manual, rows>>
  BY DEF ExitUnheard
<1>2. LotOf(s) /\ RowOf(s) /\ ManualRow
  BY <1>1 DEF KeptInv, LotsInv
<1>3. exit'[s].at = "idle" /\ \A q \in Squadrons \ {s} : exit'[q] = exit[q]
  BY <1>1 DEF KeptInv, TypeInv, TypeExits
<1>4. LotOf(s)' /\ RowOf(s)' /\ ManualRow'
  BY <1>1, <1>2, <1>3 DEF LotOf, RowOf, ManualRow, ManualKey, Gone
<1> QED BY <1>1, <1>3, <1>4, LotsOne DEF KeptInv

LEMMA ExitBookLots ==
  ASSUME KeptInv, TypeInv', NEW s \in Squadrons, ExitBook(s)
  PROVE  LotsInv'
<1> SUFFICES ASSUME ~raced' PROVE LotsInv'
  BY DEF LotsInv
<1>1. /\ exit[s].at = "sold" /\ ~raced /\ exit' = [exit EXCEPT ![s].at = "booked"]
      /\ UNCHANGED <<settled, guard, mine, entering, opRelease, manual, rows>>
  BY DEF ExitBook
<1>2. LotOf(s) /\ RowOf(s) /\ ManualRow
  BY <1>1 DEF KeptInv, LotsInv
<1>3. /\ exit'[s].at = "booked" /\ exit'[s].n = exit[s].n /\ exit'[s].k = exit[s].k
      /\ \A q \in Squadrons \ {s} : exit'[q] = exit[q]
  BY <1>1, ExitTyped DEF KeptInv, TypeInv, TypeExits, Exits
<1>4. LotOf(s)' /\ RowOf(s)' /\ ManualRow'
  BY <1>1, <1>2, <1>3 DEF LotOf, RowOf, ManualRow, ManualKey, Gone
<1> QED BY <1>1, <1>3, <1>4, LotsOne DEF KeptInv

\* What closing the rows of a strategy leaves.
LEMMA ClosedRows ==
  ASSUME NEW strategy \in Strategies
  PROVE  /\ \A key \in Keys : Closed(strategy)[key] = IF StrategyOf(key) = strategy THEN NoRow ELSE rows[key]
         /\ \A q \in Squadrons : q # strategy => Closed(strategy)[<<"viper", q>>] = rows[<<"viper", q>>]
BY ViperKeys DEF Closed, StrategyOf

LEMMA ExitCloseLots ==
  ASSUME KeptInv, TypeInv', NEW s \in Squadrons, ExitClose(s)
  PROVE  LotsInv'
<1> SUFFICES ASSUME ~raced' PROVE LotsInv'
  BY DEF LotsInv
<1> DEFINE v == <<"viper", s>>
           left == exit[s].n - exit[s].k
<1>1. /\ exit[s].at = "booked" /\ ~raced /\ exit' = [exit EXCEPT ![s] = Resting]
      /\ rows' = IF left > 0 THEN Shrunk(v, left) ELSE Closed(s)
      /\ guard' = [guard EXCEPT ![s] = left]
      /\ UNCHANGED <<settled, mine, entering, opRelease, manual>>
  BY DEF ExitClose
<1>2. LotOf(s) /\ RowOf(s) /\ ManualRow
  BY <1>1 DEF KeptInv, LotsInv
<1>3. /\ manual.at = "idle" /\ entering[s] = 0 /\ left \in Nat /\ mine[s] \in Nat /\ mine[s] <= left
      /\ ~opRelease[s] /\ Covers(rows[v], exit[s].n)
  <2>1. left \in Nat
    BY <1>1, ExitTyped DEF KeptInv, Gone
  <2>2. mine[s] <= left /\ Covers(rows[v], exit[s].n)
    BY <1>1, <1>2 DEF LotOf, RowOf, Gone
  <2>3. ~opRelease[s] /\ entering[s] = 0
    BY <1>1 DEF KeptInv, BusyInv, BusyOf, OwnInv, OwnExit
  <2> QED BY <1>1, <2>1, <2>2, <2>3, OneSale, LoopsTyped DEF KeptInv
<1>4. guard'[s] = left /\ exit'[s].at = "idle"
  BY <1>1 DEF KeptInv, TypeInv, TypeLoops, TypeExits
<1>5. \A q \in Squadrons \ {s} : UNCHANGED rows[<<"viper", q>>]
  <2>1. CASE left > 0
    <3>1. rows' = Shrunk(v, left)
      BY <1>1, <2>1
    <3> QED BY <3>1, ViperKeys DEF Shrunk, KeptInv, TypeInv, TypeLedger
  <2>2. CASE ~ (left > 0)
    <3>1. rows' = Closed(s)
      BY <1>1, <2>2
    <3> QED BY <3>1, ClosedRows
  <2> QED BY <2>1, <2>2
<1>6. \A q \in Squadrons \ {s} :
         UNCHANGED <<mine[q], guard[q], entering[q], opRelease[q], exit[q], rows[<<"viper", q>>]>>
  BY <1>1, <1>5 DEF KeptInv, TypeInv, TypeLoops, TypeExits
<1>7. LotOf(s)'
  BY <1>1, <1>3, <1>4 DEF LotOf, Gone
<1>8. RowOf(s)'
  <2>1. ASSUME mine[s] > 0 PROVE Covers(rows'[v], mine[s])
    <3>1. left > 0 /\ rows[v].n # 0 /\ rows[v].fill /\ rows \in [Keys -> Row] /\ v \in Keys
      BY <1>3, <2>1, ViperKeys, ExitTyped DEF Covers, KeptInv, TypeInv, TypeLedger
    <3>2. rows'[v] = [rows[v] EXCEPT !.n = left]
      BY <1>1, <3>1 DEF Shrunk
    <3> QED BY <1>3, <3>1, <3>2 DEF Covers
  <2> QED BY <1>1, <1>3, <1>4, <2>1 DEF RowOf, Gone
<1>9. ManualRow'
  BY <1>1, <1>3 DEF ManualRow, Gone
<1> QED BY <1>1, <1>6, <1>7, <1>8, <1>9, LotsOne DEF KeptInv

LEMMA ManualStartLots ==
  ASSUME KeptInv, NEW key \in Keys, ManualStart(key)
  PROVE  LotsInv'
<1> SUFFICES ASSUME ~raced' PROVE LotsInv'
  BY DEF LotsInv
<1>1. /\ ~raced /\ UNCHANGED <<settled, mine, guard, entering, opRelease, exit, rows>>
      /\ manual' = [at |-> "selling", strategy |-> StrategyOf(key), of |-> key[2], n |-> rows[key].n, k |-> 0]
  BY DEF ManualStart
<1>2. ManualKey' = key
  BY <1>1 DEF ManualKey, StrategyOf
<1>3. ManualRow'
  BY <1>1, <1>2 DEF ManualRow, Gone
<1>4. ASSUME NEW q \in Squadrons PROVE LotOf(q)' /\ RowOf(q)'
  BY <1>1, LotSame, RowSame DEF KeptInv, LotsInv
<1> QED BY <1>3, <1>4 DEF LotsInv

\* All of its viper's contracts are in the row Close Now sells.
LEMMA ManualHasAll ==
  ASSUME KeptInv, ~raced, ~settled, manual.at # "idle", manual.strategy # Adopted
  PROVE  /\ manual.of \in Squadrons /\ manual.strategy = manual.of
         /\ entering[manual.of] = 0 /\ mine[manual.of] <= manual.n
<1> DEFINE s == manual.of
<1>1. s \in Squadrons /\ manual.strategy = s /\ manual.n > 0 /\ manual.n \in Nat
  BY DEF KeptInv, TypeInv, TypeManual
<1>2. rows[<<"viper", s>>].n = manual.n
  BY DEF KeptInv, LotsInv, ManualRow, ManualKey
<1> HIDE DEF s
<1>3. RowOf(s) /\ mine[s] \in Nat /\ entering[s] \in Nat
  BY <1>1, LoopsTyped DEF KeptInv, LotsInv
<1>4. entering[s] = 0
  BY <1>1, <1>2, <1>3 DEF RowOf
<1>5. mine[s] <= manual.n
  BY <1>1, <1>2, <1>3, <1>4 DEF RowOf, Covers
<1> QED BY <1>1, <1>4, <1>5 DEF s

LEMMA ManualSellLots ==
  ASSUME KeptInv, TypeInv', NEW k \in 0..MaxHeld, ManualSell(k)
  PROVE  LotsInv'
<1> SUFFICES ASSUME ~raced' PROVE LotsInv'
  BY DEF LotsInv
<1>1. /\ manual.at = "selling" /\ k <= manual.n /\ (settled => k = 0) /\ ~raced /\ ~Untold(k)
      /\ UNCHANGED <<settled, guard, entering, opRelease, exit, rows>>
      /\ mine' = IF manual.strategy = Adopted THEN mine
                 ELSE [mine EXCEPT ![manual.of] = @ - Min({k, @})]
      /\ manual' = IF k = 0 THEN Unasked ELSE [manual EXCEPT !.at = "sold", !.k = k]
  <2>1. ~Untold(k)
    BY DEF ManualSell
  <2> QED BY <2>1 DEF ManualSell
<1>2. ManualRow /\ \A q \in Squadrons : LotOf(q) /\ RowOf(q)
  BY <1>1 DEF KeptInv, LotsInv
<1>3. CASE k = 0
  <2>1. manual' = Unasked
    BY <1>1, <1>3
  <2>2. mine' = mine
    <3>1. manual.strategy # Adopted => mine[manual.of] - Min({k, mine[manual.of]}) = mine[manual.of]
      BY <1>1, <1>3, ManualTyped, LoopsTyped, MinOfTwo DEF KeptInv
    <3> QED BY <1>1, <3>1 DEF KeptInv, TypeInv, TypeLoops
  <2>3. ASSUME NEW q \in Squadrons PROVE LotOf(q)' /\ RowOf(q)'
    BY <1>1, <1>2, <2>2, LotSame, RowSame
  <2> QED BY <2>1, <2>3 DEF LotsInv, ManualRow, Gone
<1>4. CASE k # 0
  <2>1. manual' = [manual EXCEPT !.at = "sold", !.k = k] /\ ~settled
    BY <1>1, <1>4
  <2>2. /\ manual'.n = manual.n /\ ManualKey' = ManualKey /\ manual'.of = manual.of
        /\ manual'.strategy = manual.strategy
    BY <2>1 DEF ManualKey, KeptInv, TypeInv, TypeManual
  <2>3. rows'[ManualKey'].n = manual'.n
    BY <1>1, <1>2, <2>1, <2>2 DEF ManualRow
  <2>4. CASE manual.strategy = Adopted
    <3>1. mine' = mine
      BY <1>1, <2>4
    <3>2. ASSUME NEW q \in Squadrons PROVE LotOf(q)' /\ RowOf(q)'
      BY <1>1, <1>2, <3>1, LotSame, RowSame
    <3> QED BY <2>2, <2>3, <2>4, <3>2 DEF LotsInv, ManualRow
  <2>5. CASE manual.strategy # Adopted
    <3>1. PICK s \in Squadrons : s = manual.of /\ entering[s] = 0 /\ mine[s] <= manual.n
      BY <1>1, <2>1, <2>5, ManualHasAll
    <3>2. mine'[s] = 0 /\ \A q \in Squadrons \ {s} : mine'[q] = mine[q]
      <4>1. mine[s] \in Nat /\ manual.n \in Nat /\ guard[s] \in Nat
        BY <1>1, <3>1, ManualTyped, LoopsTyped DEF KeptInv
      <4>2. k = manual.n \/ guard[s] = 0
        BY <1>1, <1>4, <2>5, <3>1, <4>1 DEF Untold
      <4>3. guard[s] = 0 => mine[s] = 0
        BY <1>2, <4>1 DEF LotOf
      <4>4. mine[s] <= k
        BY <3>1, <4>1, <4>2, <4>3
      <4>5. Min({k, mine[s]}) = mine[s]
        BY <4>1, <4>4, MinOfTwo
      <4>6. mine' = [mine EXCEPT ![s] = mine[s] - Min({k, mine[s]})]
        BY <1>1, <2>5, <3>1
      <4> QED BY <3>1, <4>1, <4>5, <4>6 DEF KeptInv, TypeInv, TypeLoops
    <3>3. exit[s].at = "idle" /\ guard[s] \in Nat
      BY <1>1, <3>1, OneSale, LoopsTyped DEF KeptInv
    <3>4. LotOf(s)' /\ RowOf(s)'
      <4>1. LotOf(s)'
        BY <1>1, <3>1, <3>2, <3>3 DEF LotOf, Gone
      <4>2. RowOf(s)'
        BY <1>1, <3>1, <3>2, <3>3 DEF RowOf, Gone
      <4> QED BY <4>1, <4>2
    <3>5. ASSUME NEW q \in Squadrons, q # s PROVE LotOf(q)' /\ RowOf(q)'
      BY <1>1, <1>2, <3>2, <3>5, LotSame, RowSame
    <3> QED BY <2>2, <2>3, <3>2, <3>4, <3>5, <3>1 DEF LotsInv, ManualRow
  <2> QED BY <2>4, <2>5
<1> QED BY <1>3, <1>4

LEMMA ManualUnheardLots ==
  ASSUME KeptInv, NEW k \in 0..MaxHeld, ManualUnheard(k)
  PROVE  LotsInv'
<1> SUFFICES ASSUME ~raced' PROVE LotsInv'
  BY DEF LotsInv
<1>1. /\ ~raced /\ manual' = Unasked
      /\ UNCHANGED <<settled, mine, guard, entering, opRelease, exit, rows>>
  BY DEF ManualUnheard, loops
<1>2. ManualRow'
  BY <1>1 DEF ManualRow, Gone
<1>3. ASSUME NEW q \in Squadrons PROVE LotOf(q)' /\ RowOf(q)'
  BY <1>1, LotSame, RowSame DEF KeptInv, LotsInv
<1> QED BY <1>2, <1>3 DEF LotsInv

LEMMA ManualBookLots ==
  ASSUME KeptInv, ManualBook
  PROVE  LotsInv'
<1> SUFFICES ASSUME ~raced' PROVE LotsInv'
  BY DEF LotsInv
<1>1. /\ manual.at = "sold" /\ ~raced /\ manual' = [manual EXCEPT !.at = "booked"]
      /\ UNCHANGED <<settled, mine, guard, entering, opRelease, exit, rows>>
  BY DEF ManualBook
<1>2. ManualRow'
  BY <1>1 DEF KeptInv, LotsInv, ManualRow, ManualKey, Gone, TypeInv, TypeManual
<1>3. ASSUME NEW q \in Squadrons PROVE LotOf(q)' /\ RowOf(q)'
  BY <1>1, LotSame, RowSame DEF KeptInv, LotsInv
<1> QED BY <1>2, <1>3 DEF LotsInv

LEMMA ManualCloseLots ==
  ASSUME KeptInv, ManualClose
  PROVE  LotsInv'
<1> SUFFICES ASSUME ~raced' PROVE LotsInv'
  BY DEF LotsInv
<1>1. /\ manual.at = "booked" /\ ~raced /\ manual' = Unasked
      /\ UNCHANGED <<settled, mine, guard, entering, exit>>
      /\ \/ rows' = Closed(manual.strategy)
         \/ rows' = Reduced(manual.strategy, manual.n - manual.k)
      /\ \/ opRelease' = opRelease
         \/ opRelease' = [s \in Squadrons |-> opRelease[s] \/ s = manual.strategy]
  BY DEF ManualClose, loops, history
<1>2. ManualRow /\ \A q \in Squadrons : LotOf(q) /\ RowOf(q)
  BY <1>1 DEF KeptInv, LotsInv
<1>3. ManualRow'
  BY <1>1 DEF ManualRow, Gone
<1>4. manual.strategy \in Strategies /\ ~settled
  BY <1>1 DEF KeptInv, BusyInv, PaidOut, Gone, TypeInv, TypeManual
<1>5. ASSUME NEW q \in Squadrons, q # manual.strategy PROVE LotOf(q)' /\ RowOf(q)'
  <2>1. opRelease'[q] = opRelease[q]
    BY <1>1, <1>5 DEF KeptInv, TypeInv, TypeLoops
  <2>3. rows'[<<"viper", q>>] = rows[<<"viper", q>>]
    <3>1. Reduced(manual.strategy, manual.n - manual.k)[<<"viper", q>>] = rows[<<"viper", q>>]
      BY <1>5, ViperKeys DEF Reduced, StrategyOf
    <3> QED BY <1>1, <1>4, <1>5, <3>1, ClosedRows
  <2> QED BY <1>1, <1>2, <2>1, <2>3, LotSame, RowSame
<1>6. ASSUME NEW q \in Squadrons, q = manual.strategy PROVE LotOf(q)' /\ RowOf(q)'
  <2>1. mine[q] = 0 /\ entering[q] = 0
    BY <1>1, <1>2, <1>4, <1>6, ManualHasAll DEF ManualRow, Gone
  <2>2. exit[q].at = "idle" /\ guard[q] \in Nat
    BY <1>1, OneSale, LoopsTyped DEF KeptInv
  <2> QED BY <1>1, <2>1, <2>2 DEF LotOf, RowOf, Gone
<1> QED BY <1>3, <1>5, <1>6 DEF LotsInv

\* A sweep moves rows only: it may take the row of a viper that has nothing left, and
\* none that is being sold.
LEMMA RowsSwept ==
  ASSUME KeptInv, ~raced, UNCHANGED <<settled, mine, guard, entering, opRelease, exit, manual>>,
         manual.at = "idle" \/ settled \/ rows'[ManualKey] = rows[ManualKey],
         \A q \in Squadrons : \/ rows'[<<"viper", q>>] = rows[<<"viper", q>>]
                              \/ mine[q] = 0 /\ exit[q].at \notin Gone
  PROVE  LotsInv'
<1>1. ManualRow'
  BY DEF KeptInv, LotsInv, ManualRow, ManualKey, Gone
<1>2. ASSUME NEW q \in Squadrons PROVE LotOf(q)' /\ RowOf(q)'
  <2>1. LotOf(q) /\ RowOf(q) /\ entering[q] \in Nat
    BY LoopsTyped DEF KeptInv, LotsInv
  <2>2. LotOf(q)'
    BY <2>1, LotSame
  <2>3. CASE rows'[<<"viper", q>>] = rows[<<"viper", q>>]
    BY <2>1, <2>2, <2>3, RowSame
  <2>4. CASE mine[q] = 0 /\ exit[q].at \notin Gone
    <3>1. entering[q] = 0
      BY <2>1, <2>4 DEF LotOf
    <3> QED BY <2>2, <2>4, <3>1 DEF RowOf
  <2> QED BY <2>3, <2>4
<1> QED BY <1>1, <1>2 DEF LotsInv

\* Nobody counts on a token that no row claims.
LEMMA UnclaimedIsFree ==
  ASSUME KeptInv, ~raced, ~Claimed
  PROVE  /\ \A key \in Keys : rows[key].n = 0
         /\ manual.at = "idle" \/ settled
         /\ \A q \in Squadrons : exit[q].at \notin Gone /\ (mine[q] = 0 \/ entering[q] > 0)
<1>1. \A key \in Keys : rows[key].n = 0
  BY RowsTyped DEF KeptInv, Claimed, Live
<1>2. manual.at = "idle" \/ settled
  <2>1. SUFFICES ASSUME manual.at # "idle", ~settled PROVE FALSE
    OBVIOUS
  <2>2. ManualKey \in Keys /\ manual.n > 0
    BY <2>1 DEF ManualKey, KeptInv, TypeInv, TypeManual
  <2> QED BY <1>1, <2>1, <2>2 DEF KeptInv, LotsInv, ManualRow
<1>3. ASSUME NEW q \in Squadrons
      PROVE  exit[q].at \notin Gone /\ (mine[q] = 0 \/ entering[q] > 0)
  <2>1. rows[<<"viper", q>>].n = 0
    BY <1>1, ViperKeys
  <2>2. RowOf(q) /\ mine[q] \in Nat /\ entering[q] \in Nat
    BY LoopsTyped DEF KeptInv, LotsInv
  <2>3. exit[q].n \in Nat /\ (exit[q].at \in Gone => exit[q].n > 0)
    BY ExitTyped DEF KeptInv, Gone
  <2> QED BY <2>1, <2>2, <2>3 DEF RowOf, Covers
<1> QED BY <1>1, <1>2, <1>3

LEMMA AdoptLots ==
  ASSUME KeptInv, NEW s \in Squadrons, entering[s] = 0, NEW n, NEW kind \in Kinds, Adopt(<<kind, s>>, n),
         UNCHANGED <<settled, mine, guard, entering, opRelease, exit, manual>>
  PROVE  LotsInv'
<1> SUFFICES ASSUME ~raced' PROVE LotsInv'
  BY DEF LotsInv
<1>1. ~raced
  BY DEF Adopt
<1>2. CASE Claimed
  <2>1. rows' = rows
    BY <1>2 DEF Adopt
  <2> QED BY <1>1, <2>1, RowsSwept
<1>3. CASE ~Claimed
  <2>1. rows' = [rows EXCEPT ![<<kind, s>>] = [n |-> n, fill |-> FALSE]]
    BY <1>3 DEF Adopt
  <2>2. \A q \in Squadrons \ {s} : rows'[<<"viper", q>>] = rows[<<"viper", q>>]
    BY <2>1, ViperKeys DEF KeptInv, TypeInv, TypeLedger
  <2>3. mine[s] = 0 /\ exit[s].at \notin Gone
    BY <1>1, <1>3, UnclaimedIsFree, LoopsTyped
  <2> QED BY <1>1, <1>3, <2>2, <2>3, UnclaimedIsFree, RowsSwept
<1> QED BY <1>2, <1>3

\* What following the account's holding does to the rows and to the books.
LEMMA FollowMoves ==
  ASSUME TypeInv, NEW s \in Squadrons, SweepFollow(s)
  PROVE  LET left == sweep[s].seen - Total(EngineRows)
         IN  \/ UNCHANGED <<rows, unbooked>>
             \/ /\ WalletRows = {} /\ left \in Nat /\ unbooked' = unbooked
                /\ \E key \in EngineRows :
                      rows' = [rows EXCEPT ![<<"adopted", key[2]>>] = [n |-> left, fill |-> FALSE]]
             \/ \E key \in WalletRows :
                   /\ left \in Nat /\ left # rows[key].n
                   /\ rows' = [rows EXCEPT ![key] = IF left = 0 THEN NoRow ELSE [@ EXCEPT !.n = left]]
                   /\ \/ left < rows[key].n /\ unbooked' = unbooked - (rows[key].n - left)
                      \/ unbooked' = unbooked /\ (left = 0 \/ left >= rows[key].n)
<1> DEFINE left == sweep[s].seen - Total(EngineRows)
<1>1. left \in Int
  BY TotalNat, SweepTyped DEF EngineRows, Live
<1>2. CASE Unclear(left)
  BY <1>2 DEF SweepFollow
<1>3. CASE ~Unclear(left) /\ WalletRows = {}
  <2>1. AdoptExcess(s, left) /\ left \in Nat
    BY <1>1, <1>3 DEF SweepFollow, Unclear
  <2> HIDE DEF left
  <2>2. UNCHANGED <<trades, unbooked>>
    BY <2>1 DEF AdoptExcess
  <2>3. \/ rows' = rows
        \/ \E key \in EngineRows :
              rows' = [rows EXCEPT ![<<"adopted", key[2]>>] = [n |-> left, fill |-> FALSE]]
    BY <2>1 DEF AdoptExcess
  <2> QED BY <1>3, <2>1, <2>2, <2>3 DEF left
<1>4. CASE ~Unclear(left) /\ WalletRows # {}
  <2>1. left \in Nat /\ \A key \in WalletRows : Resize(key, left)
    BY <1>1, <1>4 DEF SweepFollow, Unclear
  <2>2. PICK key \in WalletRows : Resize(key, left)
    BY <1>4, <2>1
  <2> HIDE DEF left
  <2>3. \/ UNCHANGED <<rows, unbooked>>
        \/ /\ left # rows[key].n
           /\ rows' = [rows EXCEPT ![key] = IF left = 0 THEN NoRow ELSE [@ EXCEPT !.n = left]]
           /\ \/ left < rows[key].n /\ unbooked' = unbooked - (rows[key].n - left)
              \/ unbooked' = unbooked /\ (left = 0 \/ left >= rows[key].n)
    <3>1. rows[key].n \in Nat
      BY RowsTyped DEF WalletRows, Live
    <3>2. CASE left = rows[key].n \/ ~Due(left)
      BY <2>2, <3>2 DEF Resize
    <3>3. CASE left # rows[key].n /\ Due(left)
      <4>1. rows' = [rows EXCEPT ![key] = IF left = 0 THEN NoRow ELSE [@ EXCEPT !.n = left]]
        BY <2>2, <3>3 DEF Resize
      <4>2. CASE left >= rows[key].n
        BY <2>2, <3>3, <4>1, <4>2 DEF Resize
      <4>3. CASE left < rows[key].n
        <5>1. PICK covered \in BOOLEAN : (covered => left = 0) /\ BookLeft(key, rows[key].n - left, covered)
          BY <2>1, <2>2, <3>1, <3>3, <4>3 DEF Resize
        <5>2. unbooked' = IF covered THEN unbooked ELSE unbooked - (rows[key].n - left)
          BY <5>1 DEF BookLeft
        <5> QED BY <3>3, <4>1, <4>3, <5>1, <5>2
      <4> QED BY <2>1, <3>1, <4>2, <4>3
    <3> QED BY <3>2, <3>3
  <2> QED BY <2>1, <2>3 DEF left
<1> QED BY <1>2, <1>3, <1>4

LEMMA FollowLots ==
  ASSUME KeptInv, NEW s \in Squadrons, SweepFollow(s)
  PROVE  LotsInv'
<1> SUFFICES ASSUME ~raced' PROVE LotsInv'
  BY DEF LotsInv
<1>1. ~raced /\ UNCHANGED <<settled, mine, guard, entering, opRelease, exit, manual>>
  BY DEF SweepFollow
<1>2. CASE rows' = rows
  BY <1>1, <1>2, RowsSwept
<1>3. CASE rows' # rows
  <2>1. ~InHand /\ \A q \in Squadrons : ~ (entering[q] > 0)
    BY <1>3 DEF SweepFollow
  <2>2. manual.at = "idle" /\ \A q \in Squadrons : exit[q].at \notin Gone
    BY <2>1 DEF InHand, InSale, Gone
  <2>3. ASSUME NEW q \in Squadrons
        PROVE  rows'[<<"viper", q>>] = rows[<<"viper", q>>] \/ mine[q] = 0
    <3>1. CASE <<"viper", q>> \in WalletRows
      <4>1. RowOf(q) /\ mine[q] \in Nat /\ entering[q] \in Nat
        BY <1>1, LoopsTyped DEF KeptInv, LotsInv
      <4> QED BY <2>1, <3>1, <4>1 DEF RowOf, Covers, WalletRows
    <3>2. CASE <<"viper", q>> \notin WalletRows
      <4> DEFINE left == sweep[s].seen - Total(EngineRows)
      <4>1. \/ \E key \in EngineRows :
                  rows' = [rows EXCEPT ![<<"adopted", key[2]>>] = [n |-> left, fill |-> FALSE]]
            \/ \E key \in WalletRows :
                  rows' = [rows EXCEPT ![key] = IF left = 0 THEN NoRow ELSE [@ EXCEPT !.n = left]]
        BY <1>3, FollowMoves DEF KeptInv
      <4> HIDE DEF left
      <4>2. CASE \E key \in EngineRows :
                  rows' = [rows EXCEPT ![<<"adopted", key[2]>>] = [n |-> left, fill |-> FALSE]]
        BY <4>2, ViperKeys DEF KeptInv, TypeInv, TypeLedger
      <4>3. CASE \E key \in WalletRows :
                  rows' = [rows EXCEPT ![key] = IF left = 0 THEN NoRow ELSE [@ EXCEPT !.n = left]]
        <5>1. PICK key \in WalletRows :
                  rows' = [rows EXCEPT ![key] = IF left = 0 THEN NoRow ELSE [@ EXCEPT !.n = left]]
          BY <4>3
        <5>2. key # <<"viper", q>> /\ <<"viper", q>> \in Keys
          BY <3>2, <5>1, ViperKeys
        <5> QED BY <5>1, <5>2 DEF KeptInv, TypeInv, TypeLedger
      <4> QED BY <4>1, <4>2, <4>3
    <3> QED BY <3>1, <3>2
  <2> QED BY <1>1, <2>2, <2>3, RowsSwept
<1> QED BY <1>2, <1>3

LEMMA PurgeLots ==
  ASSUME KeptInv, NEW s \in Squadrons, SweepPurge(s) \/ SweepBook(s)
  PROVE  LotsInv'
<1> SUFFICES ASSUME ~raced' PROVE LotsInv'
  BY DEF LotsInv
<1>1. ~raced /\ UNCHANGED <<settled, mine, guard, entering, opRelease, exit, manual>>
  BY DEF SweepPurge, SweepBook
<1>2. CASE rows' = rows
  BY <1>1, <1>2, RowsSwept
<1>3. CASE rows' # rows
  <2>1. ~InSale /\ ~CountedOn
    BY <1>3 DEF SweepPurge, SweepBook, InHand
  <2>2. manual.at = "idle" /\ \A q \in Squadrons : exit[q].at \notin Gone
    BY <2>1 DEF InSale, Gone
  <2>3. \A q \in Squadrons : mine[q] = 0
    BY <2>1, LoopsTyped DEF CountedOn, KeptInv
  <2> QED BY <1>1, <2>2, <2>3, RowsSwept
<1> QED BY <1>2, <1>3

LEMMA ReleaseClosedLots ==
  ASSUME KeptInv, TypeInv', NEW s \in Squadrons, ReleaseClosed(s)
  PROVE  LotsInv'
<1> SUFFICES ASSUME ~raced' PROVE LotsInv'
  BY DEF LotsInv
<1>1. /\ ~raced /\ ~ (released /\ guard[s] > 0 /\ ~settled)
      /\ guard' = IF released \/ Dropped(s) THEN Drop(guard, s) ELSE guard
      /\ opRelease' = [opRelease EXCEPT ![s] = @ /\ (released \/ guard[s] = 0)]
      /\ UNCHANGED <<settled, mine, entering, exit, manual, rows>>
  <2>1. ~raced /\ ~ (released /\ guard[s] > 0 /\ ~settled)
    BY DEF ReleaseClosed
  <2> QED BY <2>1 DEF ReleaseClosed
<1>2. LotOf(s) /\ RowOf(s) /\ ManualRow
  BY <1>1 DEF KeptInv, LotsInv
<1>3. \A q \in Squadrons \ {s} : UNCHANGED <<guard[q], opRelease[q]>>
  BY <1>1 DEF Drop, KeptInv, TypeInv, TypeLoops
<1>4. mine[s] \in Nat /\ guard[s] \in Nat /\ entering[s] \in Nat
  BY LoopsTyped DEF KeptInv
<1>5. \/ guard'[s] = guard[s]
      \/ guard'[s] = 0 /\ mine[s] = 0
  <2>1. guard'[s] = guard[s] \/ (guard'[s] = 0 /\ guard[s] > 0 /\ (released \/ Dropped(s)))
    BY <1>1, <1>4 DEF Drop, KeptInv, TypeInv, TypeLoops
  <2>2. released /\ guard[s] > 0 => mine[s] = 0
    BY <1>1 DEF KeptInv, BusyInv, BusyOf
  <2>3. Dropped(s) => mine[s] = 0
    BY <1>2 DEF LotOf, Dropped
  <2> QED BY <2>1, <2>2, <2>3
<1>6. opRelease'[s] => opRelease[s]
  BY <1>1 DEF KeptInv, TypeInv, TypeLoops
<1>7. LotOf(s)'
  BY <1>1, <1>2, <1>4, <1>5, <1>6 DEF LotOf
<1>8. RowOf(s)' /\ ManualRow'
  BY <1>1, <1>2 DEF RowOf, ManualRow, ManualKey
<1> QED BY <1>1, <1>3, <1>7, <1>8, LotsOne DEF KeptInv

LEMMA SweepLots ==
  ASSUME KeptInv, TypeInv', NEW s \in Squadrons, Sweep(s)
  PROVE  LotsInv'
<1>1. CASE SweepRead(s) \/ SweepProbe(s)
  <2>1. UNCHANGED <<settled, mine, guard, entering, opRelease, exit, manual, rows, raced>>
    BY <1>1 DEF SweepRead, SweepProbe
  <2> QED BY <2>1, RowsSwept DEF LotsInv
<1>2. CASE SweepClaim(s) \/ SweepAdopt(s)
  <2>1. /\ UNCHANGED <<settled, mine, guard, entering, opRelease, exit, manual>>
        /\ entering[s] = 0
    BY <1>2 DEF SweepClaim, SweepAdopt, KeptInv, BusyInv, BusyOf
  <2>2. \/ UNCHANGED <<rows, raced>>
        \/ \E kind \in Kinds : Adopt(<<kind, s>>, sweep[s].seen)
    BY <1>2 DEF SweepClaim, SweepAdopt
  <2>3. CASE UNCHANGED <<rows, raced>>
    BY <2>1, <2>3, RowsSwept DEF LotsInv
  <2>4. CASE \E kind \in Kinds : Adopt(<<kind, s>>, sweep[s].seen)
    BY <2>1, <2>4, AdoptLots
  <2> QED BY <2>2, <2>3, <2>4
<1>3. CASE SweepSettle(s)
  <2>1. /\ UNCHANGED <<settled, mine, guard, entering, opRelease, exit, manual, raced>>
        /\ settled /\ \A q \in Squadrons : mine[q] = 0 /\ exit[q].at \notin Gone
    BY <1>3 DEF SweepSettle, KeptInv, BusyInv, BusyOf
  <2> QED BY <2>1, RowsSwept DEF LotsInv
<1> QED BY <1>1, <1>2, <1>3, FollowLots, PurgeLots, ReleaseClosedLots DEF Sweep

LEMMA SettleLots ==
  ASSUME KeptInv, Settle
  PROVE  LotsInv'
<1> SUFFICES ASSUME ~raced' PROVE LotsInv'
  BY DEF LotsInv
<1>1. /\ ~raced /\ settled' = TRUE /\ mine' = [s \in Squadrons |-> 0] /\ Quiet
      /\ UNCHANGED <<guard, entering, opRelease, exit, manual, rows>>
  BY DEF Settle
<1>2. ManualRow'
  BY <1>1 DEF ManualRow, Quiet, Gone
<1>3. ASSUME NEW q \in Squadrons PROVE LotOf(q)' /\ RowOf(q)'
  <2>1. entering[q] = 0 /\ exit[q].at = "idle" /\ guard[q] \in Nat
    BY <1>1, LoopsTyped DEF KeptInv, BusyInv, BusyOf, Quiet, Between
  <2> QED BY <1>1, <2>1 DEF LotOf, RowOf, Gone
<1> QED BY <1>2, <1>3 DEF LotsInv

LEMMA RestartLots ==
  ASSUME KeptInv, Restart
  PROVE  LotsInv'
<1>1. /\ guard' = [s \in Squadrons |-> 0] /\ entering' = guard' /\ mine' = guard'
      /\ exit' = [s \in Squadrons |-> Resting] /\ manual' = Unasked
  BY DEF Restart
<1> QED BY <1>1 DEF LotsInv, LotOf, RowOf, ManualRow, Gone

LEMMA LotsNext == KeptInv /\ TypeInv' /\ [Next]_vars => LotsInv'
<1> SUFFICES ASSUME KeptInv, TypeInv', [Next]_vars PROVE LotsInv'
  OBVIOUS
<1>1. ASSUME NEW s \in Squadrons, Loop(s) PROVE LotsInv'
  BY <1>1, EnterLots, EnterRowLots, ExitStartLots, ExitSellLots, ExitUnheardLots, ExitBookLots, ExitCloseLots DEF Loop
<1>2. CASE CloseNow
  BY <1>2, ManualStartLots, ManualSellLots, ManualUnheardLots, ManualBookLots, ManualCloseLots DEF CloseNow
<1>3. CASE OutsideBuy \/ OutsideSale \/ GraceEnds \/ ProtectionEnds \/ UNCHANGED vars
  <2>1. UNCHANGED <<settled, mine, guard, entering, opRelease, exit, manual, rows, raced>>
    BY <1>3 DEF OutsideBuy, OutsideSale, GraceEnds, ProtectionEnds, vars
  <2> QED BY <2>1, RowsSwept DEF LotsInv
<1> QED BY <1>1, <1>2, <1>3, SweepLots, SettleLots, RestartLots DEF Next

LEMMA LotsStep ==
  ASSUME TypeInv', LotsInv'
  PROVE  \A s \in Squadrons : \/ guard'[s] >= guard[s] \/ mine'[s] <= guard'[s]
                              \/ restarts' # restarts \/ raced'
BY DEF LotsInv, LotOf

LEMMA KeptNext == KeptInv /\ [Next]_vars => KeptInv'
BY TypeNext, OwnNext, BusyNext, LotsNext DEF KeptInv

LEMMA KeptAlways == Spec => []KeptInv
<1>1. Init => KeptInv
  BY TypeInit, OwnInit, BusyInit, LotsInit DEF KeptInv
<1> QED BY <1>1, KeptNext, PTL DEF Spec

\* A loop lets go of a guard only when its lot is sold, unless a sweep has raced.
THEOREM GuardsAreKept == Spec => LotsGuarded
<1>1. KeptInv /\ [Next]_vars =>
        [\A s \in Squadrons : \/ guard'[s] >= guard[s] \/ mine'[s] <= guard'[s]
                              \/ restarts' # restarts \/ raced']_vars
  BY KeptNext, LotsStep DEF KeptInv
<1> QED BY <1>1, KeptAlways, PTL DEF Spec, LotsGuarded

-----------------------------------------------------------------------------
(* BookedOnce.  Until a sweep races or a restart tears a booking from its  *)
(* row, what the rows still have and what is on its way to them, less the  *)
(* sale already booked, is in the account or has left it unbooked; and a   *)
(* sale is booked only from what left.                                     *)

\* A sum does not depend on how its terms are named.
LEMMA ContractsRenamed ==
  ASSUME NEW w, NEW f, NEW c, NEW D, IsFiniteSet(D),
         \A d \in D : w[d] \in Nat /\ f[c[d]] = w[d],
         \A d1, d2 \in D : c[d1] = c[d2] => d1 = d2
  PROVE  /\ IsFiniteSet({c[d] : d \in D})
         /\ Contracts(w, D) = Contracts(f, {c[d] : d \in D})
<1> DEFINE Img(T) == {c[d] : d \in T}
           B == {T \in SUBSET D : ~ (IsFiniteSet(Img(T)) /\ Contracts(w, T) = Contracts(f, Img(T)))}
<1>0. \A T \in SUBSET D : IsFiniteSet(T)
  BY FS_Subset
<1>1. SUFFICES ASSUME B # {} PROVE FALSE
  OBVIOUS
<1>2. PICK T \in B : \A x \in T : T \ {x} \notin B
  <2>1. \A T \in B : IsFiniteSet(T)
    BY <1>0
  <2> HIDE DEF B
  <2> QED BY <1>1, <2>1, SmallestSet
<1>3. CASE T = {}
  <2>1. Img(T) = {}
    BY <1>3
  <2> QED BY <1>2, <1>3, <2>1, ContractsEmpty, FS_EmptySet
<1>4. CASE T # {}
  <2>1. PICK x \in T : TRUE
    BY <1>4
  <2>2. T \ {x} \in SUBSET D /\ x \in D /\ T \in SUBSET D
    BY <1>2
  <2>3. IsFiniteSet(Img(T \ {x})) /\ Contracts(w, T \ {x}) = Contracts(f, Img(T \ {x}))
    BY <1>2, <2>1, <2>2
  <2>4. /\ Img(T) = Img(T \ {x}) \cup {c[x]} /\ c[x] \notin Img(T \ {x})
        /\ Img(T \ {x}) = Img(T) \ {c[x]}
        /\ c[x] \in Img(T)
    BY <2>2
  <2>5. \A y \in Img(T) : f[y] \in Nat
    BY <2>2
  <2> HIDE DEF Img
  <2>6. IsFiniteSet(Img(T))
    <3>1. IsFiniteSet(Img(T \ {x}) \cup {c[x]})
      BY <2>3, FS_AddElement
    <3> QED BY <2>4, <3>1
  <2>7. Contracts(f, Img(T)) = f[c[x]] + Contracts(f, Img(T) \ {c[x]})
    <3> DEFINE I == Img(T)
               e == c[x]
    <3>1. IsFiniteSet(I) /\ e \in I /\ \A y \in I : f[y] \in Nat
      BY <2>4, <2>5, <2>6
    <3> HIDE DEF I, e
    <3>2. Contracts(f, I) = f[e] + Contracts(f, I \ {e})
      BY <3>1, ContractsLess
    <3> QED BY <3>2 DEF I, e
  <2>8. Contracts(w, T) = w[x] + Contracts(w, T \ {x})
    <3>1. \A d \in T : w[d] \in Nat
      BY <2>2
    <3> QED BY <1>0, <2>1, <2>2, <3>1, ContractsLess
  <2>9. Contracts(w, T) = Contracts(f, Img(T))
    BY <2>2, <2>3, <2>4, <2>7, <2>8
  <2> QED BY <1>2, <2>6, <2>9 DEF Img
<1> QED BY <1>3, <1>4

Recorded == Total(Keys)
Arriving == Contracts(entering, Squadrons)

\* The one sale under way: booked, its row still there; or sold and not yet booked.
Unwritten == IF manual.at = "booked" THEN manual.k
             ELSE IF claim \in Squadrons /\ exit[claim].at = "booked" THEN exit[claim].k ELSE 0
Unbilled  == IF manual.at = "sold" THEN manual.k
             ELSE IF claim \in Squadrons /\ exit[claim].at = "sold" THEN exit[claim].k ELSE 0

Balanced ==
    /\ Recorded + Arriving - Unwritten <= held + unbooked
    /\ unbooked >= Unbilled

LedgerInv == ~raced /\ ~torn => Balanced

\* A row adopted for nobody is never taken for a fill.
Unfilled == \A q \in Squadrons : ~rows[<<"adopted", q>>].fill

FullInv == KeptInv /\ OneWallet /\ Unfilled /\ LedgerInv

\* The sizes of the rows.
Sized == [key \in Keys |-> rows[key].n]

LEMMA SizedTotal ==
  ASSUME TypeInv
  PROVE  /\ \A key \in Keys : Sized[key] = rows[key].n /\ Sized[key] \in Nat
         /\ Recorded = Contracts(Sized, Keys) /\ \A S : Total(S) = Contracts(Sized, S)
<1>1. \A key \in Keys : Sized[key] = rows[key].n /\ Sized[key] \in Nat
  BY RowsTyped DEF Sized
<1>2. Recorded = Contracts(Sized, Keys) /\ \A S : Total(S) = Contracts(Sized, S)
  BY DEF Recorded, Total, Sized
<1> QED BY <1>1, <1>2

LEMMA LedgerTyped ==
  ASSUME TypeInv
  PROVE  /\ Recorded \in Nat /\ Arriving \in Nat /\ Unwritten \in Nat /\ Unbilled \in Nat
         /\ held \in Int /\ unbooked \in Int
<1>1. Recorded \in Nat
  BY TotalNat DEF Recorded
<1>2. Arriving \in Nat
  <2>1. \A q \in Squadrons : entering[q] \in Nat
    BY LoopsTyped
  <2> QED BY <2>1, ContractsNat DEF Arriving
<1>3. manual.k \in Nat /\ \A q \in Squadrons : exit[q].k \in Nat
  BY ExitTyped, ManualTyped
<1>4. Unwritten \in Nat /\ Unbilled \in Nat
  BY <1>3 DEF Unwritten, Unbilled
<1> QED BY <1>1, <1>2, <1>4 DEF TypeInv, TypeVenue

LEMMA RecordedSame ==
  ASSUME UNCHANGED rows
  PROVE  Recorded' = Recorded
BY DEF Recorded, Total

LEMMA ArrivingSame ==
  ASSUME UNCHANGED entering
  PROVE  Arriving' = Arriving
BY DEF Arriving

LEMMA SaleSame ==
  ASSUME UNCHANGED <<manual, exit, claim>>
  PROVE  Unwritten' = Unwritten /\ Unbilled' = Unbilled
BY DEF Unwritten, Unbilled

LEMMA NoSale ==
  ASSUME manual.at \notin Gone, \A q \in Squadrons : exit[q].at \notin Gone
  PROVE  Unwritten = 0 /\ Unbilled = 0
BY DEF Unwritten, Unbilled, Gone

\* What the rows add up to, when one of them changes, and when none grows.
LEMMA RecordedOne ==
  ASSUME TypeInv, TypeInv', NEW key \in Keys, \A k \in Keys \ {key} : rows'[k] = rows[k]
  PROVE  Recorded' \in Nat /\ Recorded' - rows'[key].n = Recorded - rows[key].n
<1>1. \A k \in Keys : Sized[k] = rows[k].n /\ Sized[k] \in Nat
  BY RowsTyped DEF Sized
<1>2. \A k \in Keys : (Sized')[k] = rows'[k].n /\ (Sized')[k] \in Nat
  BY DEF Sized, TypeInv, TypeLedger
<1>3. \A k \in Keys \ {key} : Sized[k] = (Sized')[k]
  BY <1>1, <1>2
<1>4. Contracts(Sized', Keys) - (Sized')[key] = Contracts(Sized, Keys) - Sized[key]
  BY <1>1, <1>2, <1>3, KeysFinite, ContractsChange
<1>5. Recorded' = Contracts(Sized', Keys) /\ Recorded = Contracts(Sized, Keys)
  BY DEF Recorded, Total, Sized
<1>6. Contracts(Sized', Keys) \in Nat
  BY <1>2, KeysFinite, ContractsNat
<1> QED BY <1>1, <1>2, <1>4, <1>5, <1>6

LEMMA RecordedLess ==
  ASSUME TypeInv, TypeInv', NEW key \in Keys, \A k \in Keys : rows'[k].n <= rows[k].n
  PROVE  Recorded' \in Nat /\ Recorded' + (rows[key].n - rows'[key].n) <= Recorded
<1>1. \A k \in Keys : Sized[k] = rows[k].n /\ Sized[k] \in Nat
  BY RowsTyped DEF Sized
<1>2. \A k \in Keys : (Sized')[k] = rows'[k].n /\ (Sized')[k] \in Nat
  BY DEF Sized, TypeInv, TypeLedger
<1> DEFINE R == Keys \ {key}
<1>3. IsFiniteSet(R) /\ R \subseteq Keys
  BY KeysFinite, FS_Subset
<1>4. \A k \in R : Sized[k] \in Nat /\ (Sized')[k] \in Nat /\ (Sized')[k] <= Sized[k]
  BY <1>1, <1>2
<1>5. Contracts(Sized', R) <= Contracts(Sized, R)
  <2> HIDE DEF R
  <2> QED BY <1>3, <1>4, ContractsMonotone
<1>6. /\ Contracts(Sized', Keys) = (Sized')[key] + Contracts(Sized', R)
      /\ Contracts(Sized, Keys) = Sized[key] + Contracts(Sized, R)
  BY <1>1, <1>2, KeysFinite, ContractsLess
<1>7. Contracts(Sized', R) \in Nat /\ Contracts(Sized, R) \in Nat
  <2> HIDE DEF R
  <2> QED BY <1>3, <1>4, ContractsNat
<1>8. Recorded' = Contracts(Sized', Keys) /\ Recorded = Contracts(Sized, Keys)
  BY DEF Recorded, Total, Sized
<1> HIDE DEF R
<1> QED BY <1>1, <1>2, <1>5, <1>6, <1>7, <1>8

\* What the rows add up to, by whether a fill wrote them.
LEMMA RecordedSplit ==
  ASSUME TypeInv, OneWallet
  PROVE  /\ Total(EngineRows) \in Nat
         /\ WalletRows = {} => Recorded = Total(EngineRows)
         /\ \A key \in WalletRows : Recorded = Total(EngineRows) + rows[key].n
<1>1. EngineRows \in SUBSET Keys /\ WalletRows \in SUBSET Keys
  BY DEF EngineRows, WalletRows, Live
<1>2. /\ \A key \in Keys : Sized[key] = rows[key].n /\ Sized[key] \in Nat
      /\ Recorded = Contracts(Sized, Keys) /\ Total(EngineRows) = Contracts(Sized, EngineRows)
  BY SizedTotal
<1> DEFINE rest == Keys \ EngineRows
<1>3. Contracts(Sized, Keys) = Contracts(Sized, EngineRows) + Contracts(Sized, rest)
  BY <1>1, <1>2, KeysFinite, ContractsSplit
<1>4. IsFiniteSet(rest) /\ rest \subseteq Keys /\ Total(EngineRows) \in Nat
  BY <1>1, KeysFinite, FS_Subset, TotalNat
<1>5. \A key \in rest : key \notin WalletRows => Sized[key] = 0
  BY <1>2 DEF EngineRows, WalletRows, Live
<1>6. WalletRows \subseteq rest
  BY <1>1 DEF EngineRows
<1> HIDE DEF rest
<1>7. ASSUME WalletRows = {} PROVE Recorded = Total(EngineRows)
  <2>1. Contracts(Sized, rest) = 0
    BY <1>4, <1>5, <1>7, ContractsZero
  <2> QED BY <1>2, <1>3, <1>4, <2>1
<1>8. ASSUME NEW key \in WalletRows PROVE Recorded = Total(EngineRows) + rows[key].n
  <2>1. key \in rest /\ \A k \in rest \ {key} : Sized[k] = 0
    BY <1>5, <1>6, <1>8 DEF OneWallet
  <2>2. Contracts(Sized, rest) = Sized[key] + Contracts(Sized, rest \ {key})
    BY <1>2, <1>4, <2>1, ContractsLess
  <2>3. Contracts(Sized, rest \ {key}) = 0
    BY <1>4, <2>1, FS_Subset, ContractsZero
  <2> QED BY <1>1, <1>2, <1>3, <1>4, <2>1, <2>2, <2>3
<1> QED BY <1>4, <1>7, <1>8

LEMMA ArrivingOne ==
  ASSUME TypeInv, TypeInv', NEW s \in Squadrons, \A q \in Squadrons \ {s} : entering'[q] = entering[q]
  PROVE  Arriving' \in Nat /\ Arriving' - entering'[s] = Arriving - entering[s]
<1>1. \A q \in Squadrons : entering[q] \in Nat /\ entering'[q] \in Nat
  BY DEF TypeInv, TypeLoops
<1>2. Contracts(entering', Squadrons) - entering'[s] = Contracts(entering, Squadrons) - entering[s]
  BY <1>1, ContractsChange
<1>3. Contracts(entering', Squadrons) \in Nat
  BY <1>1, ContractsNat
<1> QED BY <1>2, <1>3 DEF Arriving

LEMMA LedgerNow ==
  ASSUME FullInv, ~raced, ~torn
  PROVE  /\ Balanced /\ TypeInv /\ OwnInv /\ BusyInv /\ ManualRow /\ OneWallet /\ Unfilled
         /\ \A q \in Squadrons : LotOf(q) /\ RowOf(q)
BY DEF FullInv, KeptInv, LedgerInv, LotsInv

\* What is being sold, while an exit arm has the claim.
LEMMA ExitSale ==
  ASSUME TypeInv, NEW s \in Squadrons, exit[s].at # "idle"
  PROVE  /\ claim = s /\ manual.at = "idle" /\ exit[s].k \in Nat /\ exit[s].n \in Nat
         /\ Unwritten = IF exit[s].at = "booked" THEN exit[s].k ELSE 0
         /\ Unbilled = IF exit[s].at = "sold" THEN exit[s].k ELSE 0
<1>1. claim = s /\ manual.at = "idle" /\ exit[s].k \in Nat /\ exit[s].n \in Nat
  BY ExitTyped, OneSale
<1> QED BY <1>1 DEF Unwritten, Unbilled

\* While Close Now has it.
LEMMA ManualSale ==
  ASSUME TypeInv, manual.at # "idle"
  PROVE  /\ claim = Operator /\ claim \notin Squadrons /\ manual.n \in Nat /\ manual.n > 0
         /\ manual.k \in 0..manual.n
         /\ \A q \in Squadrons : exit[q].at = "idle"
         /\ Unwritten = IF manual.at = "booked" THEN manual.k ELSE 0
         /\ Unbilled = IF manual.at = "sold" THEN manual.k ELSE 0
<1>1. /\ claim = Operator /\ claim \notin Squadrons /\ manual.n \in Nat /\ manual.n > 0
      /\ manual.k \in 0..manual.n
  BY ManualTyped
<1>2. \A q \in Squadrons : exit[q].at = "idle"
  BY <1>1, ExitTyped
<1> QED BY <1>1, <1>2 DEF Unwritten, Unbilled

LEMMA EnterLedger ==
  ASSUME FullInv, TypeInv', NEW s \in Squadrons, NEW n \in Lots, Enter(s, n)
  PROVE  LedgerInv'
<1> SUFFICES ASSUME ~raced', ~torn' PROVE Balanced'
  BY DEF LedgerInv
<1>1. /\ entering[s] = 0 /\ entering' = [entering EXCEPT ![s] = n] /\ held' = held + n
      /\ UNCHANGED <<torn, rows, unbooked, manual, exit, claim>>
  BY DEF Enter, Between
<1>2. ~raced
  BY DEF Enter
<1>3. Balanced /\ TypeInv
  BY <1>1, <1>2, LedgerNow
<1>4. Recorded' = Recorded /\ Unwritten' = Unwritten /\ Unbilled' = Unbilled
  BY <1>1, RecordedSame, SaleSame
<1>5. entering'[s] = n /\ n \in Nat /\ \A q \in Squadrons \ {s} : entering'[q] = entering[q]
  BY <1>1, <1>3 DEF TypeInv, TypeLoops
<1>6. Arriving' \in Nat /\ Arriving' - n = Arriving - 0
  BY <1>1, <1>3, <1>5, ArrivingOne
<1> QED BY <1>1, <1>3, <1>4, <1>5, <1>6, LedgerTyped DEF Balanced

LEMMA EnterRowLedger ==
  ASSUME FullInv, TypeInv', NEW s \in Squadrons, EnterRow(s)
  PROVE  LedgerInv'
<1> SUFFICES ASSUME ~raced', ~torn' PROVE Balanced'
  BY DEF LedgerInv
<1> DEFINE v == <<"viper", s>>
<1>1. /\ entering[s] > 0 /\ entering' = [entering EXCEPT ![s] = 0] /\ ~raced /\ ~torn
      /\ UNCHANGED <<held, unbooked, manual, exit, claim>>
  BY DEF EnterRow
<1>2. Balanced /\ TypeInv /\ RowOf(s)
  BY <1>1, LedgerNow
<1>3. rows[v].n = 0 /\ v \in Keys
  BY <1>1, <1>2, ViperKeys DEF RowOf
<1>4. rows' = [rows EXCEPT ![v] = [n |-> entering[s], fill |-> TRUE]]
  BY <1>3 DEF EnterRow
<1>5. rows'[v].n = entering[s] /\ \A k \in Keys \ {v} : rows'[k] = rows[k]
  BY <1>2, <1>3, <1>4 DEF TypeInv, TypeLedger
<1>6. Recorded' \in Nat /\ Recorded' - entering[s] = Recorded - 0
  BY <1>2, <1>3, <1>5, RecordedOne
<1>7. entering'[s] = 0 /\ \A q \in Squadrons \ {s} : entering'[q] = entering[q]
  BY <1>1, <1>2 DEF TypeInv, TypeLoops
<1>8. Arriving' \in Nat /\ Arriving' - 0 = Arriving - entering[s]
  BY <1>2, <1>7, ArrivingOne
<1>9. Unwritten' = Unwritten /\ Unbilled' = Unbilled /\ entering[s] \in Nat
  BY <1>1, <1>2, SaleSame, LoopsTyped
<1> QED BY <1>1, <1>2, <1>6, <1>8, <1>9, LedgerTyped DEF Balanced

LEMMA ExitStartLedger ==
  ASSUME FullInv, TypeInv', NEW s \in Squadrons, ExitStart(s)
  PROVE  LedgerInv'
<1> SUFFICES ASSUME ~raced', ~torn' PROVE Balanced'
  BY DEF LedgerInv
<1>1. /\ claim = Nobody /\ ~raced /\ ~torn /\ UNCHANGED <<held, unbooked, manual, rows, entering>>
  BY DEF ExitStart, Claimable
<1>2. Balanced /\ TypeInv
  BY <1>1, LedgerNow
<1>3. manual.at = "idle" /\ Unwritten = 0 /\ Unbilled = 0
  BY <1>1, <1>2 DEF TypeInv, TypeManual, Unwritten, Unbilled
<1>4. Unwritten' = 0 /\ Unbilled' = 0
  <2>1. CASE Dropped(s)
    <3>1. UNCHANGED <<exit, claim>>
      BY <2>1 DEF ExitStart
    <3> QED BY <1>1, <1>3, <3>1, SaleSame
  <2>2. CASE ~Dropped(s)
    <3>1. claim' = s /\ exit' = [exit EXCEPT ![s] = [at |-> "selling", n |-> guard[s], k |-> 0]]
      BY <2>2 DEF ExitStart
    <3>2. exit'[s].at = "selling"
      BY <1>2, <3>1 DEF TypeInv, TypeExits
    <3> QED BY <1>1, <1>3, <3>1, <3>2 DEF Unwritten, Unbilled
  <2> QED BY <2>1, <2>2
<1>5. Recorded' = Recorded /\ Arriving' = Arriving
  BY <1>1, RecordedSame, ArrivingSame
<1> QED BY <1>1, <1>2, <1>3, <1>4, <1>5 DEF Balanced

LEMMA ExitSellLedger ==
  ASSUME FullInv, TypeInv', NEW s \in Squadrons, NEW k \in 0..MaxHeld, ExitSell(s, k)
  PROVE  LedgerInv'
<1> SUFFICES ASSUME ~raced', ~torn' PROVE Balanced'
  BY DEF LedgerInv
<1>1. /\ exit[s].at = "selling" /\ held' = held - k /\ unbooked' = unbooked + k /\ ~raced /\ ~torn
      /\ exit' = [exit EXCEPT ![s] = IF k = 0 THEN Resting ELSE [@ EXCEPT !.at = "sold", !.k = k]]
      /\ claim' = IF k = 0 THEN Nobody ELSE claim
      /\ UNCHANGED <<manual, rows, entering>>
  BY DEF ExitSell
<1>2. Balanced /\ TypeInv
  BY <1>1, LedgerNow
<1>3. claim = s /\ manual.at = "idle" /\ Unwritten = 0 /\ Unbilled = 0
  BY <1>1, <1>2, ExitSale
<1>4. Unwritten' = 0 /\ Unbilled' = k
  <2>1. CASE k = 0
    BY <1>1, <1>3, <2>1 DEF Unwritten, Unbilled
  <2>2. CASE k # 0
    <3>1. exit'[s].at = "sold" /\ exit'[s].k = k /\ claim' = s
      BY <1>1, <1>2, <1>3, <2>2 DEF TypeInv, TypeExits, Exits
    <3> QED BY <1>1, <1>3, <3>1 DEF Unwritten, Unbilled
  <2> QED BY <2>1, <2>2
<1>5. Recorded' = Recorded /\ Arriving' = Arriving
  BY <1>1, RecordedSame, ArrivingSame
<1> QED BY <1>1, <1>2, <1>3, <1>4, <1>5, LedgerTyped DEF Balanced

LEMMA ExitUnheardLedger ==
  ASSUME FullInv, TypeInv', NEW s \in Squadrons, NEW k \in 0..MaxHeld, ExitUnheard(s, k)
  PROVE  LedgerInv'
<1> SUFFICES ASSUME ~raced', ~torn' PROVE Balanced'
  BY DEF LedgerInv
<1>1. /\ exit[s].at = "selling" /\ held' = held - k /\ unbooked' = unbooked + k /\ ~raced /\ ~torn
      /\ claim' = Nobody /\ UNCHANGED <<manual, rows, entering>>
  BY DEF ExitUnheard, Stray
<1>2. Balanced /\ TypeInv
  BY <1>1, LedgerNow
<1>3. manual.at = "idle" /\ Unwritten = 0 /\ Unbilled = 0
  BY <1>1, <1>2, ExitSale
<1>4. Unwritten' = 0 /\ Unbilled' = 0
  BY <1>1, <1>3 DEF Unwritten, Unbilled
<1>5. Recorded' = Recorded /\ Arriving' = Arriving
  BY <1>1, RecordedSame, ArrivingSame
<1> QED BY <1>1, <1>2, <1>3, <1>4, <1>5, LedgerTyped DEF Balanced

LEMMA ExitBookLedger ==
  ASSUME FullInv, TypeInv', NEW s \in Squadrons, ExitBook(s)
  PROVE  LedgerInv'
<1> SUFFICES ASSUME ~raced', ~torn' PROVE Balanced'
  BY DEF LedgerInv
<1>1. /\ exit[s].at = "sold" /\ unbooked' = unbooked - exit[s].k /\ ~raced /\ ~torn
      /\ exit' = [exit EXCEPT ![s].at = "booked"]
      /\ UNCHANGED <<held, claim, manual, rows, entering>>
  BY DEF ExitBook
<1>2. Balanced /\ TypeInv
  BY <1>1, LedgerNow
<1>3. claim = s /\ manual.at = "idle" /\ exit[s].k \in Nat /\ Unwritten = 0 /\ Unbilled = exit[s].k
  BY <1>1, <1>2, ExitSale
<1>4. exit'[s].at = "booked" /\ exit'[s].k = exit[s].k
  BY <1>1, <1>2 DEF TypeInv, TypeExits, Exits
<1>5. Unwritten' = exit[s].k /\ Unbilled' = 0
  BY <1>1, <1>3, <1>4 DEF Unwritten, Unbilled
<1>6. Recorded' = Recorded /\ Arriving' = Arriving
  BY <1>1, RecordedSame, ArrivingSame
<1> QED BY <1>1, <1>2, <1>3, <1>5, <1>6, LedgerTyped DEF Balanced

LEMMA ExitCloseLedger ==
  ASSUME FullInv, TypeInv', NEW s \in Squadrons, ExitClose(s)
  PROVE  LedgerInv'
<1> SUFFICES ASSUME ~raced', ~torn' PROVE Balanced'
  BY DEF LedgerInv
<1> DEFINE v == <<"viper", s>>
           left == exit[s].n - exit[s].k
<1>1. /\ exit[s].at = "booked" /\ exit' = [exit EXCEPT ![s] = Resting] /\ claim' = Nobody
      /\ rows' = IF left > 0 THEN Shrunk(v, left) ELSE Closed(s)
      /\ ~raced /\ ~torn /\ UNCHANGED <<held, unbooked, manual, entering>>
  BY DEF ExitClose
<1>2. Balanced /\ TypeInv /\ RowOf(s)
  BY <1>1, LedgerNow
<1>3. /\ claim = s /\ manual.at = "idle" /\ Unwritten = exit[s].k /\ Unbilled = 0
      /\ exit[s].k \in 1..exit[s].n /\ exit[s].n \in Nat
  BY <1>1, <1>2, ExitSale, ExitTyped DEF Gone
<1>4. rows[v].n >= exit[s].n /\ rows[v].n \in Nat /\ v \in Keys /\ rows[v] \in Row
  BY <1>1, <1>2, ViperKeys, RowsTyped DEF RowOf, Covers, Gone
<1>5. rows'[v].n = (IF left > 0 THEN left ELSE 0) /\ \A k \in Keys \ {v} : rows'[k] = rows[k]
  <2>1. CASE left > 0
    <3>1. rows' = [rows EXCEPT ![v] = IF @.n = 0 THEN @ ELSE [@ EXCEPT !.n = left]]
      BY <1>1, <2>1 DEF Shrunk
    <3>2. rows[v].n # 0 /\ rows \in [Keys -> Row]
      BY <1>2, <1>3, <1>4 DEF TypeInv, TypeLedger
    <3>3. rows'[v] = [rows[v] EXCEPT !.n = left] /\ \A k \in Keys \ {v} : rows'[k] = rows[k]
      BY <1>4, <3>1, <3>2
    <3> QED BY <1>4, <2>1, <3>3
  <2>2. CASE ~ (left > 0)
    <3>1. rows' = Closed(s) /\ s \in Strategies
      BY <1>1, <2>2
    <3>2. \A k \in Keys \ {v} : StrategyOf(k) # s
      BY DEF StrategyOf
    <3>3. StrategyOf(v) = s
      BY DEF StrategyOf
    <3> HIDE DEF v
    <3> QED BY <1>4, <2>2, <3>1, <3>2, <3>3, ClosedRows
  <2> QED BY <2>1, <2>2
<1>6. Recorded' \in Nat /\ Recorded' - rows'[v].n = Recorded - rows[v].n
  BY <1>2, <1>4, <1>5, RecordedOne
<1>7. Unwritten' = 0 /\ Unbilled' = 0
  BY <1>1, <1>3 DEF Unwritten, Unbilled
<1>8. Arriving' = Arriving
  BY <1>1, ArrivingSame
<1> QED BY <1>1, <1>2, <1>3, <1>4, <1>5, <1>6, <1>7, <1>8, LedgerTyped DEF Balanced

\* Close Now is about one row: no other that lives has its strategy.
LEMMA SoldRowIsOne ==
  ASSUME TypeInv, OneWallet, Unfilled, manual.at # "idle", rows[ManualKey].n = manual.n,
         NEW key \in Live, StrategyOf(key) = manual.strategy
  PROVE  key = ManualKey
<1>1. manual.of \in Squadrons /\ manual.strategy \in {Adopted, manual.of} /\ manual.n > 0
  BY ManualTyped
<1>2. PICK kind \in Kinds, q \in Squadrons : key = <<kind, q>>
  BY DEF Live
<1>3. CASE manual.strategy = Adopted
  <2>1. kind = "adopted" /\ ManualKey = <<"adopted", manual.of>>
    BY <1>2, <1>3 DEF StrategyOf, ManualKey
  <2>2. key \in WalletRows
    BY <1>2, <2>1 DEF WalletRows, Unfilled
  <2>3. ManualKey \in WalletRows
    BY <1>1, <2>1 DEF WalletRows, Live, Unfilled
  <2> QED BY <2>2, <2>3 DEF OneWallet
<1>4. CASE manual.strategy # Adopted
  BY <1>1, <1>2, <1>4 DEF StrategyOf, ManualKey
<1> QED BY <1>3, <1>4

LEMMA ManualLedger ==
  ASSUME FullInv, TypeInv', CloseNow
  PROVE  LedgerInv'
<1> SUFFICES ASSUME ~raced', ~torn' PROVE Balanced'
  BY DEF LedgerInv
<1>1. ~raced /\ ~torn /\ UNCHANGED entering
  <2>1. UNCHANGED <<torn, entering>>
    BY DEF CloseNow, ManualStart, ManualSell, ManualUnheard, ManualBook, ManualClose, bounds, loops
  <2>2. raced => raced'
    BY DEF CloseNow, ManualStart, ManualSell, ManualUnheard, ManualBook, ManualClose, history
  <2> QED BY <2>1, <2>2
<1>2. Balanced /\ TypeInv /\ BusyInv /\ ManualRow /\ OneWallet /\ Unfilled
  BY <1>1, LedgerNow
<1>3. Arriving' = Arriving
  BY <1>1, ArrivingSame
<1>4. ASSUME NEW key \in Keys, ManualStart(key) PROVE Balanced'
  <2>1. /\ manual.at = "idle" /\ manual'.at = "selling" /\ claim = Nobody /\ claim' = Operator
        /\ UNCHANGED <<held, unbooked, rows>>
    BY <1>4 DEF ManualStart, Claimable
  <2>2. Unwritten = 0 /\ Unbilled = 0 /\ Unwritten' = 0 /\ Unbilled' = 0
    BY <2>1 DEF Unwritten, Unbilled
  <2> QED BY <1>2, <1>3, <2>1, <2>2, RecordedSame DEF Balanced
<1>5. ASSUME NEW k \in 0..MaxHeld, ManualSell(k) PROVE Balanced'
  <2>1. /\ manual.at = "selling" /\ UNCHANGED <<rows, exit>>
        /\ held' = held - k /\ unbooked' = unbooked + k
        /\ manual' = IF k = 0 THEN Unasked ELSE [manual EXCEPT !.at = "sold", !.k = k]
        /\ claim' = IF k = 0 THEN Nobody ELSE claim
    BY <1>5 DEF ManualSell
  <2>2. /\ Unwritten = 0 /\ Unbilled = 0 /\ claim \notin Squadrons /\ Recorded' = Recorded
    BY <1>2, <2>1, ManualSale, RecordedSame
  <2>3. Unbilled' = k /\ Unwritten' = 0
    <3>1. CASE k = 0
      BY <2>1, <3>1 DEF Unwritten, Unbilled
    <3>2. CASE k # 0
      <4>1. manual' = [manual EXCEPT !.at = "sold", !.k = k] /\ claim' = claim
        BY <2>1, <3>2
      <4>2. manual'.at = "sold" /\ manual'.k = k
        BY <1>2, <4>1 DEF TypeInv, TypeManual
      <4> QED BY <2>2, <4>1, <4>2 DEF Unwritten, Unbilled
    <3> QED BY <3>1, <3>2
  <2> QED BY <1>2, <1>3, <2>1, <2>2, <2>3, LedgerTyped DEF Balanced
<1>8. ASSUME NEW k \in 0..MaxHeld, ManualUnheard(k) PROVE Balanced'
  <2>1. /\ manual.at = "selling" /\ manual' = Unasked /\ claim' = Nobody
        /\ held' = held - k /\ unbooked' = unbooked + k /\ rows' = rows
    BY <1>8 DEF ManualUnheard, Stray
  <2>2. Unwritten = 0 /\ Unbilled = 0 /\ Recorded' = Recorded
    BY <1>2, <2>1, ManualSale, RecordedSame
  <2>3. Unwritten' = 0 /\ Unbilled' = 0
    BY <2>1 DEF Unwritten, Unbilled
  <2> QED BY <1>2, <1>3, <2>1, <2>2, <2>3, LedgerTyped DEF Balanced
<1>6. ASSUME ManualBook PROVE Balanced'
  <2>1. /\ manual.at = "sold" /\ unbooked' = unbooked - manual.k /\ manual' = [manual EXCEPT !.at = "booked"]
        /\ UNCHANGED <<held, rows, claim, exit>>
    BY <1>6 DEF ManualBook
  <2>2. /\ Unwritten = 0 /\ Unbilled = manual.k /\ manual.k \in Nat /\ claim \notin Squadrons
        /\ Recorded' = Recorded
    BY <1>2, <2>1, ManualSale, RecordedSame
  <2>3. manual'.at = "booked" /\ manual'.k = manual.k
    BY <1>2, <2>1 DEF TypeInv, TypeManual
  <2>4. Unwritten' = manual.k /\ Unbilled' = 0
    BY <2>1, <2>2, <2>3 DEF Unwritten, Unbilled
  <2> QED BY <1>2, <1>3, <2>1, <2>2, <2>4, LedgerTyped DEF Balanced
<1>7. ASSUME ManualClose PROVE Balanced'
  <2>1. /\ manual.at = "booked" /\ manual' = Unasked /\ claim' = Nobody /\ UNCHANGED <<held, unbooked>>
        /\ \/ manual.k < manual.n /\ rows' = Reduced(manual.strategy, manual.n - manual.k)
           \/ ~(manual.k < manual.n) /\ rows' = Closed(manual.strategy)
    BY <1>7 DEF ManualClose, market
  <2>2. Unwritten = manual.k /\ Unbilled = 0 /\ manual.n \in Nat /\ manual.k \in 0..manual.n
    BY <1>2, <2>1, ManualSale
  <2>3. Unwritten' = 0 /\ Unbilled' = 0
    BY <2>1 DEF Unwritten, Unbilled
  <2>4. ManualKey \in Keys /\ StrategyOf(ManualKey) = manual.strategy /\ manual.strategy \in Strategies
    BY <1>2, <2>1 DEF ManualKey, StrategyOf, TypeInv, TypeManual
  <2>5. rows[ManualKey].n = manual.n
    BY <1>2, <2>1 DEF ManualRow, BusyInv, PaidOut, Gone
  <2>6. CASE rows' = Reduced(manual.strategy, manual.n - manual.k)
    <3>1. rows'[ManualKey].n = manual.n - manual.k
      <4>1. ManualKey \in Live /\ rows[ManualKey] \in Row
        BY <1>2, <2>1, <2>4, <2>5, RowsTyped, ManualSale DEF Live
      <4> QED BY <2>4, <2>6, <4>1 DEF Reduced, Row
    <3>2. \A k \in Keys \ {ManualKey} : rows'[k] = rows[k]
      BY <1>2, <2>1, <2>5, <2>6, SoldRowIsOne DEF Reduced
    <3>3. Recorded' \in Nat /\ Recorded' - rows'[ManualKey].n = Recorded - rows[ManualKey].n
      BY <1>2, <2>4, <3>2, RecordedOne
    <3> QED BY <1>2, <1>3, <2>1, <2>2, <2>3, <2>5, <3>1, <3>3, LedgerTyped DEF Balanced
  <2>7. CASE ~(manual.k < manual.n) /\ rows' = Closed(manual.strategy)
    <3>1. \A k \in Keys : rows'[k] = IF StrategyOf(k) = manual.strategy THEN NoRow ELSE rows[k]
      BY <2>4, <2>7, ClosedRows
    <3>2. \A k \in Keys : rows[k].n \in Nat
      BY <1>2, RowsTyped
    <3>3. rows'[ManualKey].n = 0 /\ \A k \in Keys : rows'[k].n <= rows[k].n
      BY <2>4, <3>1, <3>2
    <3>4. Recorded' \in Nat /\ Recorded' + (rows[ManualKey].n - rows'[ManualKey].n) <= Recorded
      BY <1>2, <2>4, <3>3, RecordedLess
    <3> QED BY <1>2, <1>3, <2>1, <2>2, <2>3, <2>5, <2>7, <3>3, <3>4, LedgerTyped DEF Balanced
  <2> QED BY <2>1, <2>6, <2>7
<1>9. ASSUME NEW k \in 0..MaxHeld, ManualSell(k) \/ ManualUnheard(k) PROVE Balanced'
  BY <1>5, <1>8, <1>9
<1> QED BY <1>4, <1>6, <1>7, <1>9 DEF CloseNow

\* Buys whose rows are on their way are of vipers other than the one adopting.
LEMMA ArrivingOthers ==
  ASSUME TypeInv, \A q \in Squadrons : LotOf(q), NEW s \in Squadrons, entering[s] = 0, NEW kind \in Kinds
  PROVE  Others(<<kind, s>>) \in Nat /\ Arriving <= Others(<<kind, s>>)
<1>1. \A q \in Squadrons : entering[q] \in Nat /\ mine[q] \in Nat /\ entering[q] <= mine[q]
  BY LoopsTyped DEF LotOf
<1>2. CASE kind = "adopted"
  <2>1. {q \in Squadrons : <<"viper", q>> # <<kind, s>>} = Squadrons
    BY <1>2
  <2>2. Contracts(entering, Squadrons) <= Contracts(mine, Squadrons) /\ Contracts(mine, Squadrons) \in Nat
    BY <1>1, ContractsMonotone, ContractsNat
  <2> QED BY <2>1, <2>2 DEF Others, Arriving
<1>3. CASE kind = "viper"
  <2> DEFINE R == Squadrons \ {s}
  <2>1. {q \in Squadrons : <<"viper", q>> # <<kind, s>>} = R
    BY <1>3
  <2>2. Contracts(entering, Squadrons) = entering[s] + Contracts(entering, R)
    BY <1>1, ContractsLess
  <2>3. IsFiniteSet(R) /\ R \subseteq Squadrons
    BY FS_Subset
  <2> HIDE DEF R
  <2>4. \A q \in R : entering[q] \in Nat /\ mine[q] \in Nat /\ entering[q] <= mine[q]
    BY <1>1, <2>3
  <2>5. Contracts(entering, R) <= Contracts(mine, R) /\ Contracts(mine, R) \in Nat /\ Contracts(entering, R) \in Nat
    BY <2>3, <2>4, ContractsMonotone, ContractsNat
  <2>6. Others(<<kind, s>>) = Contracts(mine, R)
    BY <2>1 DEF Others
  <2> QED BY <2>2, <2>5, <2>6 DEF Arriving
<1> QED BY <1>2, <1>3

LEMMA UnclaimedIsEmpty ==
  ASSUME TypeInv, \A key \in Keys : rows[key].n = 0
  PROVE  Recorded = 0
<1>1. \A key \in Keys : Sized[key] = 0
  BY SizedTotal
<1>2. Contracts(Sized, Keys) = 0
  BY <1>1, KeysFinite, ContractsZero
<1> QED BY <1>2, SizedTotal

LEMMA AdoptLedger ==
  ASSUME FullInv, TypeInv', NEW s \in Squadrons, entering[s] = 0, NEW n \in Nat, NEW kind \in Kinds,
         Adopt(<<kind, s>>, n), UNCHANGED <<torn, held, unbooked, entering, manual, exit, claim>>
  PROVE  LedgerInv'
<1> SUFFICES ASSUME ~raced', ~torn' PROVE Balanced'
  BY DEF LedgerInv
<1>1. ~raced /\ ~torn
  BY DEF Adopt
<1>2. Balanced /\ TypeInv /\ \A q \in Squadrons : LotOf(q)
  BY <1>1, LedgerNow
<1>3. Arriving' = Arriving /\ Unwritten' = Unwritten /\ Unbilled' = Unbilled
  BY ArrivingSame, SaleSame
<1>4. CASE Claimed
  <2>1. rows' = rows
    BY <1>4 DEF Adopt
  <2> QED BY <1>2, <1>3, <2>1, RecordedSame DEF Balanced
<1>5. CASE ~Claimed
  <2> DEFINE key == <<kind, s>>
  <2>1. rows' = [rows EXCEPT ![key] = [n |-> n, fill |-> FALSE]] /\ ~ (n + Others(key) > held)
    BY <1>5 DEF Adopt
  <2>2. key \in Keys /\ Others(key) \in Nat /\ Arriving <= Others(key)
    BY <1>2, ArrivingOthers
  <2>3. Recorded = 0 /\ \A k \in Keys : rows[k].n = 0
    BY <1>1, <1>2, <1>5, UnclaimedIsFree, UnclaimedIsEmpty DEF FullInv
  <2> HIDE DEF key
  <2>4. rows'[key].n = n /\ \A k \in Keys \ {key} : rows'[k] = rows[k]
    BY <1>2, <2>1, <2>2 DEF TypeInv, TypeLedger
  <2>5. Recorded' \in Nat /\ Recorded' - n = Recorded - 0
    BY <1>2, <2>2, <2>3, <2>4, RecordedOne
  <2>6. /\ n + Others(key) <= held /\ held \in Int /\ unbooked \in Int
        /\ Arriving \in Nat /\ Unwritten \in Nat /\ Unbilled \in Nat
    BY <1>2, <2>1, <2>2, LedgerTyped
  <2>7. unbooked >= Unbilled
    BY <1>2 DEF Balanced
  <2>8. Recorded' = n /\ held' = held /\ unbooked' = unbooked
    BY <2>3, <2>5
  <2>9. Recorded' + Arriving' - Unwritten' <= held' + unbooked'
    BY <1>3, <2>2, <2>6, <2>7, <2>8
  <2> QED BY <1>3, <2>7, <2>8, <2>9 DEF Balanced
<1> QED BY <1>4, <1>5

LEMMA FollowLedger ==
  ASSUME FullInv, TypeInv', NEW s \in Squadrons, SweepFollow(s)
  PROVE  LedgerInv'
<1> SUFFICES ASSUME ~raced', ~torn' PROVE Balanced'
  BY DEF LedgerInv
<1> DEFINE left == sweep[s].seen - Total(EngineRows)
<1>1. ~raced /\ ~torn /\ UNCHANGED <<held, entering, manual, exit, claim>>
  BY DEF SweepFollow
<1>2. Balanced /\ TypeInv /\ OneWallet
  BY <1>1, LedgerNow
<1>3. Arriving' = Arriving /\ Unwritten' = Unwritten /\ Unbilled' = Unbilled
  BY <1>1, ArrivingSame, SaleSame
<1>4. CASE UNCHANGED <<rows, unbooked>>
  BY <1>1, <1>2, <1>3, <1>4, RecordedSame DEF Balanced
<1>5. CASE rows' # rows
  <2>1. /\ sweep[s].seen = held /\ ~InHand /\ \A q \in Squadrons : ~ (entering[q] > 0)
    BY <1>5 DEF SweepFollow
  <2>2. Unwritten = 0 /\ Unbilled = 0
    BY <2>1, NoSale DEF InHand, InSale, Gone
  <2>3. Arriving = 0
    <3>1. \A q \in Squadrons : entering[q] = 0
      BY <1>2, <2>1, LoopsTyped
    <3> QED BY <3>1, ContractsZero DEF Arriving
  <2>4. left = held - Total(EngineRows) /\ Total(EngineRows) \in Nat /\ left \in Int
    BY <1>2, <2>1, RecordedSplit, LedgerTyped
  <2>5. \/ /\ WalletRows = {} /\ left \in Nat /\ unbooked' = unbooked
           /\ \E key \in EngineRows :
                 rows' = [rows EXCEPT ![<<"adopted", key[2]>>] = [n |-> left, fill |-> FALSE]]
        \/ \E key \in WalletRows :
              /\ left \in Nat /\ left # rows[key].n
              /\ rows' = [rows EXCEPT ![key] = IF left = 0 THEN NoRow ELSE [@ EXCEPT !.n = left]]
              /\ \/ left < rows[key].n /\ unbooked' = unbooked - (rows[key].n - left)
                 \/ unbooked' = unbooked /\ (left = 0 \/ left >= rows[key].n)
    BY <1>2, <1>5, FollowMoves
  <2> HIDE DEF left
  <2>6. ASSUME WalletRows = {}, left \in Nat, unbooked' = unbooked, NEW key \in EngineRows,
               rows' = [rows EXCEPT ![<<"adopted", key[2]>>] = [n |-> left, fill |-> FALSE]]
        PROVE  Balanced'
    <3> DEFINE new == <<"adopted", key[2]>>
    <3>1. new \in Keys
      BY DEF EngineRows, Live
    <3> HIDE DEF new
    <3>2. rows'[new].n = left /\ (\A k \in Keys \ {new} : rows'[k] = rows[k]) /\ rows[new].n \in Nat
      BY <1>2, <2>6, <3>1, RowsTyped DEF new, TypeInv, TypeLedger
    <3>3. Recorded' \in Nat /\ Recorded' - left = Recorded - rows[new].n
      BY <1>2, <3>1, <3>2, RecordedOne
    <3>4. Recorded = Total(EngineRows)
      BY <1>2, <2>6, RecordedSplit
    <3> QED BY <1>1, <1>2, <1>3, <2>2, <2>3, <2>4, <2>6, <3>2, <3>3, <3>4, LedgerTyped DEF Balanced
  <2>7. ASSUME NEW key \in WalletRows, left \in Nat, left # rows[key].n,
               rows' = [rows EXCEPT ![key] = IF left = 0 THEN NoRow ELSE [@ EXCEPT !.n = left]],
               \/ left < rows[key].n /\ unbooked' = unbooked - (rows[key].n - left)
               \/ unbooked' = unbooked /\ (left = 0 \/ left >= rows[key].n)
        PROVE  Balanced'
    <3>1. key \in Keys /\ rows[key].n \in Nat /\ rows[key] \in Row /\ rows \in [Keys -> Row]
      BY <1>2, RowsTyped DEF WalletRows, Live, TypeInv, TypeLedger
    <3>2. rows'[key].n = left /\ \A k \in Keys \ {key} : rows'[k] = rows[k]
      BY <2>7, <3>1
    <3>3. Recorded' \in Nat /\ Recorded' - left = Recorded - rows[key].n
      BY <1>2, <3>1, <3>2, RecordedOne
    <3>4. Recorded = Total(EngineRows) + rows[key].n
      BY <1>2, RecordedSplit
    <3>5. Recorded' = held
      BY <1>2, <2>4, <3>1, <3>3, <3>4, LedgerTyped
    <3>6. unbooked >= 0 /\ Recorded <= held + unbooked
      BY <1>2, <2>2, <2>3, LedgerTyped DEF Balanced
    <3>7. unbooked' \in Int /\ unbooked' >= 0
      BY <1>2, <2>4, <2>7, <3>1, <3>4, <3>6, LedgerTyped
    <3> QED BY <1>1, <1>2, <1>3, <2>2, <2>3, <3>5, <3>7, LedgerTyped DEF Balanced
  <2> QED BY <2>5, <2>6, <2>7
<1>6. CASE rows' = rows
  <2>1. ASSUME NEW key \in WalletRows, left \in Nat, left # rows[key].n,
               rows' = [rows EXCEPT ![key] = IF left = 0 THEN NoRow ELSE [@ EXCEPT !.n = left]]
        PROVE  FALSE
    <3> HIDE DEF left
    <3>1. key \in Keys /\ rows[key] \in Row /\ rows \in [Keys -> Row]
      BY <1>2, <2>1, RowsTyped DEF WalletRows, Live, TypeInv, TypeLedger
    <3>2. rows'[key].n = left
      BY <2>1, <3>1 DEF NoRow, Row
    <3> QED BY <1>6, <2>1, <3>2
  <2>2. unbooked' = unbooked
    BY <1>2, <2>1, FollowMoves
  <2> QED BY <1>4, <1>6, <2>2
<1> QED BY <1>5, <1>6

\* What a settlement books is not more than the rows have.
LEMMA SettledFigures ==
  ASSUME TypeInv
  PROVE  Figures(SettlementOf \ trades) \in Nat /\ Figures(SettlementOf \ trades) <= Recorded
<1> DEFINE D == SettlementOf \ trades
           c == [d \in D |-> CHOOSE key \in Live : d = <<Settlement, rows[key].n>>]
           w == [d \in D |-> d[2]]
           K == {c[d] : d \in D}
<1>1. \A d \in D : c[d] \in Live /\ d = <<Settlement, rows[c[d]].n>>
  BY DEF SettlementOf
<1>2. Live \in SUBSET Keys
  BY DEF Live
<1>3. IsFiniteSet(D)
  <2>1. \A key \in Live : rows[key].n \in Sizes
    BY <1>2, RowsTyped DEF Live, Sizes
  <2>2. D \in SUBSET ({Settlement} \X Sizes)
    BY <2>1 DEF SettlementOf
  <2>3. IsFiniteSet({Settlement})
    BY FS_Singleton
  <2>4. IsFiniteSet({Settlement} \X Sizes)
    <3>1. IsFiniteSet(Sizes)
      BY FS_Interval
    <3> QED BY <2>3, <3>1, FS_Product
  <2> QED BY <2>2, <2>4, FS_Subset
<1>4. /\ \A d \in D : w[d] = d[2]
      /\ \A d \in D : w[d] \in Nat /\ Sized[c[d]] = w[d]
  BY <1>1, <1>2, SizedTotal
<1>5. \A d1, d2 \in D : c[d1] = c[d2] => d1 = d2
  BY <1>1
<1>6. K \in SUBSET Keys
  BY <1>1, <1>2
<1>7. Figures(D) = Contracts(w, D)
  BY DEF Figures
<1> HIDE DEF D, c, w
<1>8. Contracts(w, D) = Contracts(Sized, K)
  BY <1>3, <1>4, <1>5, ContractsRenamed
<1> HIDE DEF K
<1>9. Contracts(Sized, Keys) = Contracts(Sized, K) + Contracts(Sized, Keys \ K)
  BY <1>6, KeysFinite, SizedTotal, ContractsSplit
<1>10. Contracts(Sized, K) \in Nat /\ Contracts(Sized, Keys \ K) \in Nat
  BY <1>6, KeysFinite, SizedTotal, ContractsNat
<1> QED BY <1>7, <1>8, <1>9, <1>10, SizedTotal DEF D

LEMMA SweepSettleLedger ==
  ASSUME FullInv, TypeInv', NEW s \in Squadrons, SweepSettle(s)
  PROVE  LedgerInv'
<1> SUFFICES ASSUME ~raced', ~torn' PROVE Balanced'
  BY DEF LedgerInv
<1>1. /\ ~raced /\ ~torn /\ unbooked' = unbooked - Figures(SettlementOf \ trades)
      /\ rows' = [key \in Keys |-> NoRow] /\ UNCHANGED <<held, settled, entering, manual, exit, claim>>
  BY DEF SweepSettle
<1>2. Balanced /\ TypeInv /\ BusyInv
  BY <1>1, LedgerNow
<1>3. held = 0 /\ manual.at \notin Gone /\ \A q \in Squadrons : entering[q] = 0 /\ exit[q].at \notin Gone
  BY <1>2 DEF SweepSettle, BusyInv, BusyOf, PaidOut
<1>4. Unwritten = 0 /\ Unbilled = 0 /\ Unwritten' = 0 /\ Unbilled' = 0
  BY <1>1, <1>3, NoSale, SaleSame
<1>5. Arriving = 0 /\ Arriving' = 0
  BY <1>1, <1>3, ContractsZero, ArrivingSame DEF Arriving
<1>6. Recorded' = 0
  <2>1. \A key \in Keys : (Sized')[key] = 0
    BY <1>1 DEF Sized
  <2>2. Contracts(Sized', Keys) = 0
    BY <2>1, KeysFinite, ContractsZero
  <2> QED BY <2>2 DEF Recorded, Total, Sized
<1> QED BY <1>1, <1>2, <1>3, <1>4, <1>5, <1>6, SettledFigures, LedgerTyped DEF Balanced

LEMMA SweepPurgeLedger ==
  ASSUME FullInv, TypeInv', NEW s \in Squadrons, SweepPurge(s)
  PROVE  LedgerInv'
<1> SUFFICES ASSUME ~raced', ~torn' PROVE Balanced'
  BY DEF LedgerInv
<1>1. ~raced /\ ~torn /\ UNCHANGED <<held, unbooked, entering, manual, exit, claim>>
  BY DEF SweepPurge
<1>2. Balanced /\ TypeInv
  BY <1>1, LedgerNow
<1>3. Arriving' = Arriving /\ Unwritten' = Unwritten /\ Unbilled' = Unbilled
  BY <1>1, ArrivingSame, SaleSame
<1>4. \A key \in Keys : rows'[key] \in {rows[key], NoRow}
  BY <1>2 DEF SweepPurge, TypeInv, TypeLedger
<1>5. \A key \in Keys : rows'[key].n <= rows[key].n
  BY <1>2, <1>4, RowsTyped
<1>6. PICK key \in Keys : TRUE
  BY ViperKeys
<1>7. Recorded' \in Nat /\ Recorded' + (rows[key].n - rows'[key].n) <= Recorded
  BY <1>2, <1>5, RecordedLess
<1>8. rows[key].n \in Nat /\ rows'[key].n \in Nat
  BY <1>2, <1>4, RowsTyped
<1> QED BY <1>1, <1>2, <1>3, <1>5, <1>7, <1>8, LedgerTyped DEF Balanced

\* The rows a sweep books are those it deletes, if they are still what it read.
LEMMA SweepBookLedger ==
  ASSUME FullInv, TypeInv', NEW s \in Squadrons, SweepBook(s)
  PROVE  LedgerInv'
<1> SUFFICES ASSUME ~raced', ~torn' PROVE Balanced'
  BY DEF LedgerInv
<1> DEFINE due == sweep[s].due
           w == [d \in due |-> d[2]]
           c == [d \in due |-> d[1]]
           K == {c[d] : d \in due}
<1>1. /\ ~torn /\ unbooked' = unbooked - Figures(due)
      /\ rows' = [key \in Keys |-> IF \E d \in due : d[1] = key THEN NoRow ELSE rows[key]]
      /\ UNCHANGED <<held, entering, manual, exit, claim>>
  BY DEF SweepBook
<1>2. ~raced /\ ~ (held > 0) /\ ~InSale /\ \A d \in due : rows[d[1]].n = d[2]
  BY DEF SweepBook
<1>3. Balanced /\ TypeInv /\ OwnInv
  BY <1>1, <1>2, LedgerNow
<1>4. Unwritten = 0 /\ Unbilled = 0 /\ Unwritten' = 0 /\ Unbilled' = 0
  BY <1>1, <1>2, NoSale, SaleSame DEF InSale, Gone
<1>5. due \in SUBSET (Keys \X Sizes) /\ IsFiniteSet(due)
  BY <1>3, SweepTyped, DueFinite
<1>6. K \in SUBSET Keys /\ \A key \in Keys : key \in K <=> \E d \in due : d[1] = key
  <2>1. \A d \in due : c[d] = d[1] /\ d[1] \in Keys
    BY <1>5
  <2> HIDE DEF c, due
  <2>2. \A key \in K : \E d \in due : key = d[1]
    BY <2>1
  <2>3. \A d \in due : d[1] \in K
    BY <2>1
  <2> HIDE DEF K
  <2> QED BY <2>1, <2>2, <2>3
<1>7. \A d \in due : w[d] \in Nat /\ Sized[c[d]] = w[d]
  BY <1>2, <1>3, <1>5, SizedTotal
<1>8. \A d1, d2 \in due : c[d1] = c[d2] => d1 = d2
  <2>1. \A d \in due : c[d] = d[1] /\ d = <<d[1], rows[d[1]].n>>
    BY <1>2, <1>5
  <2> QED BY <2>1
<1>9. Figures(due) = Contracts(w, due)
  BY DEF Figures
<1> HIDE DEF w, c, due
<1>10. Contracts(w, due) = Contracts(Sized, K)
  BY <1>5, <1>7, <1>8, ContractsRenamed
<1> HIDE DEF K
<1> DEFINE R == Keys \ K
<1>11. Contracts(Sized, Keys) = Contracts(Sized, K) + Contracts(Sized, R)
  BY <1>3, <1>6, KeysFinite, SizedTotal, ContractsSplit
<1>12. \A key \in Keys : (Sized')[key] = IF key \in K THEN 0 ELSE Sized[key]
  BY <1>1, <1>6 DEF Sized
<1>13. \A key \in Keys : (Sized')[key] \in Nat
  BY <1>3, <1>12, SizedTotal
<1>14. Contracts(Sized', Keys) = Contracts(Sized', K) + Contracts(Sized', R)
  BY <1>6, <1>13, KeysFinite, ContractsSplit
<1>15. Contracts(Sized', K) = 0
  BY <1>6, <1>12, KeysFinite, ContractsZero
<1>16. Contracts(Sized', R) = Contracts(Sized, R) /\ Contracts(Sized, R) \in Nat
  <2>1. IsFiniteSet(R) /\ \A key \in R : (Sized')[key] = Sized[key] /\ Sized[key] \in Nat
    BY <1>3, <1>12, KeysFinite, FS_Subset, SizedTotal
  <2> HIDE DEF R
  <2> QED BY <2>1, ContractsAgree, ContractsNat
<1>17. Contracts(Sized, K) \in Nat
  BY <1>3, <1>6, KeysFinite, SizedTotal, ContractsNat
<1>18. Recorded' = Contracts(Sized', Keys)
  BY DEF Recorded, Total, Sized
<1> HIDE DEF R
<1>19. Recorded = Figures(due) + Recorded' /\ Recorded' \in Nat /\ Figures(due) \in Nat
  BY <1>3, <1>9, <1>10, <1>11, <1>14, <1>15, <1>16, <1>17, <1>18, SizedTotal
<1>20. held <= 0 /\ Arriving' = Arriving
  BY <1>1, <1>2, <1>3, ArrivingSame, LedgerTyped
<1> QED BY <1>1, <1>3, <1>4, <1>19, <1>20, LedgerTyped DEF Balanced

LEMMA SweepLedger ==
  ASSUME FullInv, TypeInv', NEW s \in Squadrons, Sweep(s)
  PROVE  LedgerInv'
<1>1. CASE SweepRead(s) \/ SweepProbe(s) \/ ReleaseClosed(s)
  <2>1. UNCHANGED <<held, entering, manual, exit, claim, rows, unbooked, torn>>
    BY <1>1 DEF SweepRead, SweepProbe, ReleaseClosed
  <2>2. raced => raced'
    <3>1. CASE SweepRead(s) \/ SweepProbe(s)
      BY <3>1 DEF SweepRead, SweepProbe
    <3>2. CASE ReleaseClosed(s)
      BY <3>2 DEF ReleaseClosed
    <3> QED BY <1>1, <3>1, <3>2
  <2> QED BY <2>1, <2>2, RecordedSame, ArrivingSame, SaleSame DEF FullInv, LedgerInv, Balanced
<1>2. CASE SweepClaim(s) \/ SweepAdopt(s)
  <2>1. /\ UNCHANGED <<torn, held, unbooked, entering, manual, exit, claim>>
        /\ entering[s] = 0 /\ sweep[s].seen \in Nat
    <3>1. sweep[s].at \in Held
      BY <1>2 DEF SweepClaim, SweepAdopt, Held
    <3>2. sweep[s].seen \in Nat
      BY <3>1, SweepTyped DEF FullInv, KeptInv
    <3>3. entering[s] = 0
      BY <3>1 DEF FullInv, KeptInv, BusyInv, BusyOf, Held
    <3> QED BY <1>2, <3>2, <3>3 DEF SweepClaim, SweepAdopt
  <2>2. \/ UNCHANGED <<rows, raced>>
        \/ \E kind \in Kinds : Adopt(<<kind, s>>, sweep[s].seen)
    BY <1>2 DEF SweepClaim, SweepAdopt
  <2>3. CASE UNCHANGED <<rows, raced>>
    BY <2>1, <2>3, RecordedSame, ArrivingSame, SaleSame DEF FullInv, LedgerInv, Balanced
  <2>4. CASE \E kind \in Kinds : Adopt(<<kind, s>>, sweep[s].seen)
    BY <2>1, <2>4, AdoptLedger
  <2> QED BY <2>2, <2>3, <2>4
<1> QED BY <1>1, <1>2, FollowLedger, SweepSettleLedger, SweepPurgeLedger, SweepBookLedger DEF Sweep

LEMMA OutsideLedger ==
  ASSUME FullInv, TypeInv', OutsideBuy \/ OutsideSale \/ Settle
  PROVE  LedgerInv'
<1> SUFFICES ASSUME ~raced', ~torn' PROVE Balanced'
  BY DEF LedgerInv
<1>1. ~raced /\ ~torn /\ UNCHANGED <<rows, entering, manual, exit, claim>>
  BY DEF OutsideBuy, OutsideSale, Settle, bounds, loops, history
<1>2. Balanced /\ TypeInv /\ BusyInv
  BY <1>1, LedgerNow
<1>3. /\ Recorded' = Recorded /\ Arriving' = Arriving
      /\ Unwritten' = Unwritten /\ Unbilled' = Unbilled
  BY <1>1, RecordedSame, ArrivingSame, SaleSame
<1>4. Settle => Unwritten = 0 /\ Unbilled = 0
  <2>1. ASSUME Settle PROVE manual.at = "idle" /\ \A q \in Squadrons : exit[q].at = "idle"
    BY <1>2, <2>1 DEF Settle, Quiet, Between, BusyInv, BusyOf
  <2> QED BY <2>1, NoSale DEF Gone
<1>5. CASE OutsideBuy
  <2>1. held' = held + 1 /\ unbooked' = unbooked
    BY <1>5 DEF OutsideBuy
  <2> QED BY <1>2, <1>3, <2>1, LedgerTyped DEF Balanced
<1>6. CASE OutsideSale
  <2>1. held' = held - 1 /\ unbooked' = unbooked + 1
    BY <1>6 DEF OutsideSale
  <2> QED BY <1>2, <1>3, <2>1, LedgerTyped DEF Balanced
<1>7. CASE Settle
  <2>1. held' = 0 /\ unbooked' = unbooked + held
    BY <1>7 DEF Settle
  <2> QED BY <1>2, <1>3, <1>4, <1>7, <2>1, LedgerTyped DEF Balanced
<1> QED BY <1>5, <1>6, <1>7

LEMMA RestartLedger ==
  ASSUME FullInv, TypeInv', Restart
  PROVE  LedgerInv'
<1> SUFFICES ASSUME ~raced', ~torn' PROVE Balanced'
  BY DEF LedgerInv
<1>1. /\ ~raced /\ ~torn /\ manual.at # "booked" /\ \A q \in Squadrons : exit[q].at # "booked"
      /\ entering' = [s \in Squadrons |-> 0] /\ manual' = Unasked /\ claim' = Nobody
      /\ UNCHANGED <<held, rows, unbooked>>
  BY DEF Restart
<1>2. Balanced /\ TypeInv
  BY <1>1, LedgerNow
<1>3. Unwritten = 0 /\ Unwritten' = 0 /\ Unbilled' = 0
  BY <1>1 DEF Unwritten, Unbilled
<1>4. Arriving' = 0
  BY <1>1, ContractsZero DEF Arriving
<1> QED BY <1>1, <1>2, <1>3, <1>4, RecordedSame, LedgerTyped DEF Balanced

\* Adoptions and resizes leave what is adopted unfilled, and no other step fills it.
LEMMA UnfilledNext ==
  ASSUME TypeInv, Unfilled, [Next]_vars
  PROVE  Unfilled'
<1> SUFFICES ASSUME NEW q \in Squadrons PROVE ~rows'[<<"adopted", q>>].fill
  BY DEF Unfilled
<1> DEFINE a == <<"adopted", q>>
<1>0. /\ a \in Keys /\ rows \in [Keys -> Row] /\ ~rows[a].fill /\ ~NoRow.fill
      /\ \A p \in Squadrons : a # <<"viper", p>>
  BY DEF Unfilled, TypeInv, TypeLedger
<1> HIDE DEF a
<1>1. ASSUME rows'[a] \in {rows[a], NoRow} PROVE ~rows'[a].fill
  BY <1>0, <1>1
<1>2. ASSUME NEW s \in Squadrons, EnterRow(s) PROVE rows'[a] = rows[a]
  BY <1>0, <1>2 DEF EnterRow
<1>3. ASSUME NEW s \in Squadrons, ExitClose(s) PROVE rows'[a] \in {rows[a], NoRow}
  BY <1>0, <1>3 DEF ExitClose, Shrunk, Closed
<1>4. ASSUME ManualClose PROVE ~rows'[a].fill
  BY <1>0, <1>4 DEF ManualClose, Reduced, Closed
<1>5. ASSUME NEW key, NEW n, Adopt(key, n) PROVE ~rows'[a].fill
  BY <1>0, <1>5 DEF Adopt
<1>6. ASSUME NEW s \in Squadrons, SweepClaim(s) \/ SweepAdopt(s) PROVE ~rows'[a].fill
  <2>1. \/ rows' = rows
        \/ \E key : Adopt(key, sweep[s].seen)
    BY <1>6 DEF SweepClaim, SweepAdopt
  <2> QED BY <1>0, <1>5, <2>1
<1>7. ASSUME NEW s \in Squadrons, SweepFollow(s) PROVE ~rows'[a].fill
  <2> DEFINE left == sweep[s].seen - Total(EngineRows)
  <2>1. \/ rows' = rows
        \/ \E key \in EngineRows :
              rows' = [rows EXCEPT ![<<"adopted", key[2]>>] = [n |-> left, fill |-> FALSE]]
        \/ \E key \in WalletRows :
              rows' = [rows EXCEPT ![key] = IF left = 0 THEN NoRow ELSE [@ EXCEPT !.n = left]]
    BY <1>7, FollowMoves
  <2> HIDE DEF left
  <2>2. ASSUME NEW key \in EngineRows,
               rows' = [rows EXCEPT ![<<"adopted", key[2]>>] = [n |-> left, fill |-> FALSE]]
        PROVE  ~rows'[a].fill
    BY <1>0, <2>2
  <2>3. ASSUME NEW key \in WalletRows,
               rows' = [rows EXCEPT ![key] = IF left = 0 THEN NoRow ELSE [@ EXCEPT !.n = left]]
        PROVE  ~rows'[a].fill
    BY <1>0, <2>3
  <2> QED BY <1>0, <2>1, <2>2, <2>3
<1>8. ASSUME NEW s \in Squadrons, SweepSettle(s) \/ SweepPurge(s) \/ SweepBook(s)
      PROVE  rows'[a] \in {rows[a], NoRow}
  <2>1. CASE SweepSettle(s)
    BY <1>0, <2>1 DEF SweepSettle
  <2>2. CASE SweepPurge(s)
    BY <1>0, <2>2 DEF SweepPurge
  <2>3. CASE SweepBook(s)
    BY <1>0, <2>3 DEF SweepBook
  <2> QED BY <1>8, <2>1, <2>2, <2>3
<1>9. ASSUME NEW s \in Squadrons, Loop(s) PROVE ~rows'[a].fill
  <2>1. ASSUME NEW n \in Lots, Enter(s, n) PROVE rows'[a] = rows[a]
    BY <2>1 DEF Enter
  <2>2. ASSUME NEW k \in 0..MaxHeld, ExitSell(s, k) \/ ExitUnheard(s, k) PROVE rows'[a] = rows[a]
    BY <2>2 DEF ExitSell, ExitUnheard
  <2>3. ASSUME ExitStart(s) \/ ExitBook(s) PROVE rows'[a] = rows[a]
    BY <2>3 DEF ExitStart, ExitBook
  <2> QED BY <1>1, <1>2, <1>3, <1>9, <2>1, <2>2, <2>3 DEF Loop
<1>10. ASSUME NEW s \in Squadrons, Sweep(s) PROVE ~rows'[a].fill
  <2>1. ASSUME SweepRead(s) \/ SweepProbe(s) \/ ReleaseClosed(s) PROVE rows'[a] = rows[a]
    BY <2>1 DEF SweepRead, SweepProbe, ReleaseClosed
  <2> QED BY <1>1, <1>6, <1>7, <1>8, <1>10, <2>1 DEF Sweep
<1>11. ASSUME CloseNow PROVE ~rows'[a].fill
  <2>1. ASSUME NEW key \in Keys, ManualStart(key) PROVE rows'[a] = rows[a]
    BY <2>1 DEF ManualStart
  <2>2. ASSUME NEW k \in 0..MaxHeld, ManualSell(k) \/ ManualUnheard(k) PROVE rows'[a] = rows[a]
    BY <2>2 DEF ManualSell, ManualUnheard
  <2>3. ASSUME ManualBook PROVE rows'[a] = rows[a]
    BY <2>3 DEF ManualBook
  <2> QED BY <1>1, <1>4, <1>11, <2>1, <2>2, <2>3 DEF CloseNow
<1>12. ASSUME OutsideBuy \/ OutsideSale \/ Settle \/ Restart \/ GraceEnds \/ ProtectionEnds \/ UNCHANGED vars
       PROVE  rows'[a] = rows[a]
  <2>1. rows' = rows
    BY <1>12 DEF OutsideBuy, OutsideSale, Settle, Restart, GraceEnds, ProtectionEnds, vars
  <2> QED BY <2>1
<1> QED BY <1>1, <1>9, <1>10, <1>11, <1>12 DEF Next, a

LEMMA FullNext == FullInv /\ [Next]_vars => FullInv'
<1> SUFFICES ASSUME FullInv, [Next]_vars PROVE FullInv'
  OBVIOUS
<1>1. KeptInv' /\ TypeInv'
  BY KeptNext DEF FullInv, KeptInv
<1>2. OneWallet'
  BY OneWalletNext DEF FullInv, KeptInv
<1>3. LedgerInv'
  <2>1. ASSUME NEW s \in Squadrons, Loop(s) PROVE LedgerInv'
    BY <1>1, <2>1, EnterLedger, EnterRowLedger, ExitStartLedger, ExitSellLedger, ExitUnheardLedger,
       ExitBookLedger, ExitCloseLedger DEF Loop
  <2>2. CASE GraceEnds \/ ProtectionEnds \/ UNCHANGED vars
    <3>1. UNCHANGED <<held, entering, manual, exit, claim, rows, unbooked, torn, raced>>
      BY <2>2 DEF GraceEnds, ProtectionEnds, vars
    <3> QED BY <3>1, RecordedSame, ArrivingSame, SaleSame DEF FullInv, LedgerInv, Balanced
  <2> QED BY <1>1, <2>1, <2>2, SweepLedger, ManualLedger, OutsideLedger, RestartLedger DEF Next
<1>4. Unfilled'
  BY UnfilledNext DEF FullInv, KeptInv
<1> QED BY <1>1, <1>2, <1>3, <1>4 DEF FullInv

LEMMA LedgerInit == Init => LedgerInv
<1> SUFFICES ASSUME Init PROVE Balanced
  BY DEF LedgerInv
<1>1. Recorded = 0
  <2>1. TypeInv /\ \A key \in Keys : rows[key].n = 0
    BY TypeInit DEF Init
  <2> QED BY <2>1, UnclaimedIsEmpty
<1>2. Arriving = 0
  BY ContractsZero DEF Init, Arriving
<1>3. Unwritten = 0 /\ Unbilled = 0
  BY NoSale DEF Init, Gone
<1> QED BY <1>1, <1>2, <1>3 DEF Init, Balanced

LEMMA FullAlways == Spec => []FullInv
<1>1. Init => FullInv
  BY TypeInit, OwnInit, BusyInit, LotsInit, LedgerInit
  DEF FullInv, KeptInv, Init, OneWallet, WalletRows, Live, Unfilled
<1> QED BY <1>1, FullNext, PTL DEF Spec

\* No contract's departure is booked twice, by whichever of the exit arm, Close Now, the
\* resize, the purge and the settlement, unless a sweep has raced or a restart fell
\* between a booking and its row.
THEOREM DeparturesAreBookedOnce == Spec => []BookedOnce
<1>1. FullInv => BookedOnce
  BY LedgerTyped DEF FullInv, KeptInv, LedgerInv, Balanced, BookedOnce
<1> QED BY <1>1, FullAlways, PTL

\* What is booked and not yet taken off its row is still in a row.
LEMMA RowIsRecorded ==
  ASSUME TypeInv, NEW key \in Keys
  PROVE  rows[key].n \in Nat /\ rows[key].n <= Recorded
<1>1. \A k \in Keys : Sized[k] = rows[k].n /\ Sized[k] \in Nat
  BY SizedTotal
<1>2. Contracts(Sized, Keys) = Sized[key] + Contracts(Sized, Keys \ {key})
  BY <1>1, KeysFinite, ContractsLess
<1>3. Contracts(Sized, Keys \ {key}) \in Nat
  BY <1>1, KeysFinite, ContractsNat
<1> QED BY <1>1, <1>2, <1>3, SizedTotal

LEMMA UnwrittenIsRecorded ==
  ASSUME FullInv, ~raced, ~torn
  PROVE  Unwritten <= Recorded
<1>1. TypeInv /\ BusyInv /\ ManualRow /\ \A q \in Squadrons : RowOf(q)
  BY LedgerNow
<1>2. CASE manual.at = "booked"
  <2>1. Unwritten = manual.k /\ manual.k <= manual.n /\ manual.k \in Nat /\ manual.n \in Nat
    BY <1>1, <1>2, ManualSale
  <2>2. ManualKey \in Keys
    BY <1>1, <1>2, ManualTyped DEF ManualKey
  <2>3. rows[ManualKey].n = manual.n
    BY <1>1, <1>2 DEF ManualRow, BusyInv, PaidOut, Gone
  <2> QED BY <1>1, <2>1, <2>2, <2>3, RowIsRecorded, LedgerTyped
<1>3. CASE manual.at # "booked" /\ claim \in Squadrons /\ exit[claim].at = "booked"
  <2>1. PICK s \in Squadrons : s = claim
    BY <1>3
  <2>2. Unwritten = exit[s].k /\ exit[s].k \in 1..exit[s].n /\ exit[s].n \in Nat
    BY <1>1, <1>3, <2>1, ExitTyped DEF Unwritten, Gone
  <2>3. rows[<<"viper", s>>].n >= exit[s].n /\ <<"viper", s>> \in Keys
    BY <1>1, <1>3, <2>1, ViperKeys DEF RowOf, Covers, Gone
  <2> QED BY <1>1, <2>2, <2>3, RowIsRecorded, LedgerTyped
<1>4. CASE manual.at # "booked" /\ ~(claim \in Squadrons /\ exit[claim].at = "booked")
  <2>1. Unwritten = 0
    BY <1>4 DEF Unwritten
  <2> QED BY <1>1, <2>1, LedgerTyped
<1> QED BY <1>2, <1>3, <1>4

\* The account goes short by no more than the sales nobody heard of and what Close Now
\* sold beyond the account's; while no sweep has raced, by no more than what left it
\* unbooked: however the loops' exits, Close Now, the sweeps, settlement and restarts
\* interleave.
THEOREM NeverOversold == Spec => []NoOversell
<1>1. FullInv => held + strayed >= 0
  BY OwnShows DEF FullInv, KeptInv
<1>2. FullInv /\ ~torn /\ ~raced => held + unbooked >= 0
  <2> SUFFICES ASSUME FullInv, ~torn, ~raced PROVE held + unbooked >= 0
    OBVIOUS
  <2>1. Balanced /\ TypeInv /\ Unwritten <= Recorded
    BY LedgerNow, UnwrittenIsRecorded
  <2> QED BY <2>1, LedgerTyped DEF Balanced
<1>3. FullInv => NoOversell
  BY <1>1, <1>2 DEF NoOversell
<1> QED BY <1>3, FullAlways, PTL

=============================================================================
