------------------------ MODULE PairLifecycle_proofs ------------------------
(***************************************************************************)
(* The paired legs are safe for any number of orders, of any size, on both *)
(* kinds of account and under both lone-leg policies: a confirmed guard    *)
(* shows contracts its own order bought, and the repair of a pass sells    *)
(* nothing that is gone and touches no leg whose partner is held.          *)
(***************************************************************************)
EXTENDS PairLifecycle, TLAPS

USE PairAssumption DEF Legs, Ids, Partner

LEMMA Partners ==
  ASSUME NEW l \in Legs
  PROVE  /\ Partner(l) \in Legs
         /\ Partner(l) # l
         /\ Partner(Partner(l)) = l
         /\ \A k \in Legs : k = l \/ k = Partner(l)
  OBVIOUS

LEMMA Numbers == \A o \in Ids : o \in Nat /\ o > 0
  OBVIOUS

LEMMA Guards ==
  TypeOK => \A l \in Legs : guard[l] # 0 => guard[l] \in Ids
  BY DEF TypeOK

\* Nothing is known of an order not yet placed, and an order that works has
\* contracts left to trade.
FreshInv ==
  /\ \A o \in Ids : o > lastId => st[o] = "new" /\ traded[o] = 0 /\ sold[o] = 0
  /\ \A o \in Ids : st[o] = "working" => traded[o] < Q

-----------------------------------------------------------------------------
(* What the helpers shared by several actions do.                          *)

\* m contracts of leg l leave the account and count as sold under its guard.
Sold(l, m) ==
  /\ own' \in [Legs -> Int]
  /\ sold' \in [Ids -> Nat]
  /\ own'[l] = own[l] - m
  /\ sold'[guard[l]] = sold[guard[l]] + m
  /\ \A k \in Legs : k # l => own'[k] = own[k]
  /\ \A o \in Ids : o # guard[l] => sold'[o] = sold[o]
  /\ UNCHANGED <<leg, st, traded, lastId, unheard>>

LEMMA SaleEffect ==
  ASSUME TypeOK, NEW l \in Legs, NEW m \in Nat, guard[l] # 0, SaleOf(l, m)
  PROVE  Sold(l, m) /\ guard[l] \in Ids
<1>1. guard[l] \in Ids
  BY DEF TypeOK
<1>2. own[l] - m \in Int /\ sold[guard[l]] + m \in Nat
  BY SMTT(30), <1>1 DEF TypeOK
<1> QED BY <1>1, <1>2 DEF SaleOf, Sold, TypeOK

\* The next order bought f contracts of leg l and is done.
Hedged(l, f) ==
  /\ lastId < MaxOrders
  /\ lastId' = lastId + 1
  /\ lastId + 1 \in Ids
  /\ lastId' \in 0..MaxOrders
  /\ leg' \in [Ids -> Legs]
  /\ st' \in [Ids -> {"new", "working", "done"}]
  /\ traded' \in [Ids -> 0..Q]
  /\ own' \in [Legs -> Int]
  /\ leg'[lastId + 1] = l
  /\ st'[lastId + 1] = "done"
  /\ traded'[lastId + 1] = f
  /\ own'[l] = own[l] + f
  /\ \A o \in Ids : o # lastId + 1 =>
       leg'[o] = leg[o] /\ st'[o] = st[o] /\ traded'[o] = traded[o]
  /\ \A k \in Legs : k # l => own'[k] = own[k]
  /\ UNCHANGED <<sold, unheard>>

LEMMA HedgeEffect ==
  ASSUME TypeOK, NEW f \in 0..Q, HedgeTrades(f)
  PROVE  Hedged(Partner(cur), f)
<1>1. lastId + 1 \in Ids /\ lastId + 1 \in 0..MaxOrders /\ Partner(cur) \in Legs
  BY Partners DEF HedgeTrades, TypeOK
<1>2. own[Partner(cur)] + f \in Int
  BY <1>1 DEF TypeOK
<1> QED BY <1>1, <1>2 DEF HedgeTrades, Hedged, TypeOK

\* Two orders reach the book, one on each leg, as s says.
Placed(a, s) ==
  /\ lastId' = lastId + 2
  /\ lastId + 1 \in Ids
  /\ lastId + 2 \in Ids
  /\ lastId' \in 0..MaxOrders
  /\ leg' \in [Ids -> Legs]
  /\ st' \in [Ids -> {"new", "working", "done"}]
  /\ leg'[lastId + 1] = a
  /\ leg'[lastId + 2] = Partner(a)
  /\ st'[lastId + 1] = s[a]
  /\ st'[lastId + 2] = s[Partner(a)]
  /\ \A o \in Ids : o \notin {lastId + 1, lastId + 2} =>
       leg'[o] = leg[o] /\ st'[o] = st[o]
  /\ UNCHANGED <<traded, own, sold, unheard>>

LEMMA PlaceEffect ==
  ASSUME TypeOK, NEW a \in Legs, NEW s \in [Legs -> {"working", "done"}],
         MayEnter, PlaceOrders(a, s)
  PROVE  Placed(a, s)
<1>1. lastId + 1 \in Ids /\ lastId + 2 \in Ids /\ lastId + 2 \in 0..MaxOrders
  BY DEF MayEnter, TypeOK
<1>2. s[a] \in {"working", "done"} /\ s[Partner(a)] \in {"working", "done"} /\ Partner(a) \in Legs
  BY Partners
<1>3. lastId + 1 # lastId + 2
  BY DEF TypeOK
<1> QED BY <1>1, <1>2, <1>3 DEF PlaceOrders, Placed, TypeOK

\* Order o may have ended.
Ended(o) ==
  /\ st' \in [Ids -> {"new", "working", "done"}]
  /\ st'[o] \in {st[o], "done"}
  /\ \A p \in Ids : p # o => st'[p] = st[p]

LEMMA EndEffect ==
  ASSUME TypeOK, NEW o \in Ids, MayEnd(o)
  PROVE  Ended(o)
  BY DEF MayEnd, Ended, TypeOK

\* The guards of ls are gone, the others as they were.
Cleared(ls) ==
  /\ guard' \in [Legs -> 0..MaxOrders]
  /\ shares' \in [Legs -> 0..Q]
  /\ confirmed' = confirmed \ ls
  /\ \A l \in Legs : l \in ls => guard'[l] = 0 /\ shares'[l] = 0
  /\ \A l \in Legs : l \notin ls => guard'[l] = guard[l] /\ shares'[l] = shares[l]

LEMMA ClearEffect ==
  ASSUME TypeOK, NEW ls, ClearGuards(ls)
  PROVE  Cleared(ls)
<1>1. 0 \in 0..MaxOrders /\ 0 \in 0..Q
  OBVIOUS
<1>2. /\ guard' = [l \in Legs |-> IF l \in ls THEN 0 ELSE guard[l]]
      /\ shares' = [l \in Legs |-> IF l \in ls THEN 0 ELSE shares[l]]
      /\ confirmed' = confirmed \ ls
  BY DEF ClearGuards
<1>3. guard \in [Legs -> 0..MaxOrders] /\ shares \in [Legs -> 0..Q]
  BY DEF TypeOK
<1>4. guard' \in [Legs -> 0..MaxOrders] /\ shares' \in [Legs -> 0..Q]
  BY <1>1, <1>2, <1>3
<1>5. /\ \A l \in Legs : l \in ls => guard'[l] = 0 /\ shares'[l] = 0
      /\ \A l \in Legs : l \notin ls => guard'[l] = guard[l] /\ shares'[l] = shares[l]
  BY <1>2
<1> QED BY <1>2, <1>4, <1>5 DEF Cleared


-----------------------------------------------------------------------------
(* What reading one order may do to the position map.                      *)

\* A reading of order o leaves every guard or clears an unconfirmed one; a
\* confirmed guard is as it was, or o's own and sized to what o traded.
OrderRead(o) ==
  /\ guard' \in [Legs -> 0..MaxOrders]
  /\ shares' \in [Legs -> 0..Q]
  /\ confirmed' \subseteq Legs
  /\ \A l \in Legs : guard'[l] = guard[l] \/ guard'[l] = 0
  /\ \A l \in confirmed' :
       /\ guard'[l] = guard[l]
       /\ \/ l \in confirmed /\ shares'[l] = shares[l]
          \/ /\ l = leg[o]
             /\ OwnsGuard(o)
             /\ shares'[l] \in 1..traded[o]

LEMMA SizeReads ==
  ASSUME TypeOK, NEW o \in Ids, NEW n \in 1..traded[o], Size(o, n)
  PROVE  OrderRead(o)
<1> USE DEF TypeOK
<1> DEFINE l == leg[o]
<1>0. n \in 0..Q /\ l \in Legs
  BY SMTT(30)
<1>1. CASE ~OwnsGuard(o)
  BY <1>1 DEF Size, bookVars, OrderRead
<1>2. CASE OwnsGuard(o)
  <2>1. /\ guard' = guard
        /\ confirmed' = confirmed \cup {l}
        /\ shares' = [shares EXCEPT ![l] = IF l \in confirmed THEN Min2(Max2(shares[l], n), Q) ELSE n]
    BY <1>2 DEF Size
  <2>2. shares'[l] = n \/ (l \in confirmed /\ shares'[l] = shares[l])
    BY SMTT(30), <2>1, <1>0 DEF Min2, Max2
  <2>3. shares' \in [Legs -> 0..Q]
    BY SMTT(30), <2>1, <1>0 DEF Min2, Max2
  <2>4. \A k \in Legs : k # l => shares'[k] = shares[k]
    BY <2>1
  <2> QED BY <1>0, <1>2, <2>1, <2>2, <2>3, <2>4 DEF OrderRead
<1> QED BY <1>1, <1>2

LEMMA ReleaseReads ==
  ASSUME TypeOK, NEW o \in Ids, Release(o)
  PROVE  OrderRead(o)
<1>1. CASE UNCHANGED bookVars
  BY <1>1 DEF TypeOK, OrderRead, bookVars
<1>2. CASE leg[o] \notin confirmed /\ ClearGuards({leg[o]})
  <2>1. Cleared({leg[o]})
    BY <1>2, ClearEffect
  <2> QED BY <1>2, <2>1 DEF Cleared, OrderRead, TypeOK
<1> QED BY <1>1, <1>2 DEF Release

LEMMA ReadingReads ==
  ASSUME TypeOK, NEW o \in Ids, SizeToReading(o) \/ Release(o)
  PROVE  OrderRead(o)
<1>1. CASE SizeToReading(o)
  <2>1. PICK n \in 0..traded[o] : IF n > 0 THEN Size(o, n) ELSE UNCHANGED bookVars
    BY <1>1 DEF SizeToReading
  <2>2. traded[o] \in Nat
    BY DEF TypeOK
  <2>3. CASE UNCHANGED bookVars
    BY <2>3 DEF TypeOK, OrderRead, bookVars
  <2> QED BY <2>1, <2>2, <2>3, SizeReads
<1> QED BY <1>1, ReleaseReads

LEMMA ReadingCancelOnLeg ==
  ASSUME TypeOK, NEW o \in Ids, CancelOnLeg(o)
  PROVE  OrderRead(o)
<1>1. ASSUME UNCHANGED bookVars PROVE OrderRead(o)
  BY <1>1 DEF TypeOK, OrderRead, bookVars
<1> QED BY <1>1, ReadingReads DEF CancelOnLeg, bookVars

LEMMA ReadingPassQuote ==
  ASSUME TypeOK, NEW o \in Ids, PassQuote(o)
  PROVE  OrderRead(o)
  BY ReadingReads DEF PassQuote

LEMMA ReadingFillEvent ==
  ASSUME TypeOK, NEW o \in Ids, NEW n \in 1..Q, NEW complete \in BOOLEAN,
         FillEvent(o, n, complete)
  PROVE  OrderRead(o)
<1>1. n \in 1..traded[o] /\ Size(o, n)
  BY DEF FillEvent, TypeOK
<1> QED BY <1>1, SizeReads

-----------------------------------------------------------------------------
(* What each action of several parts does, variable by variable.           *)

PassQuoteDoes(o) ==
  /\ pc = "pass1"
  /\ o \in todo
  /\ Ended(o)
  /\ OrderRead(o)
  /\ todo' = todo \ {o}
  /\ cancelled' \subseteq cancelled \cup {o}
  /\ keep' \subseteq keep \cup {o}
  /\ settled' \subseteq settled \cup {o}
  /\ UNCHANGED <<netted, repairs, leg, traded, own, lastId, sold, unheard, tracked,
                 killed, pc, cur, held, shown, orphans, paired>>

LEMMA PassQuoteEffect ==
  ASSUME TypeOK, NEW o \in Ids, PassQuote(o)
  PROVE  PassQuoteDoes(o)
<1>1. Ended(o)
  BY EndEffect DEF PassQuote
<1> QED BY <1>1, ReadingPassQuote DEF PassQuoteDoes, PassQuote, First, KeepIt,
     DropIt, setup

CollectDoes ==
  /\ pc = "pass1"
  /\ pc' = "repair"
  /\ todo = {}
  /\ tracked' = tracked \ settled
  /\ cancelled' = cancelled \cap tracked'
  /\ Cleared(SoldAfterKill)
  /\ killed' = killed \ SoldAfterKill
  /\ keep' = {}
  /\ settled' = {}
  /\ orphans' \in [Legs -> 0..Q]
  /\ \A l \in Legs : orphans'[l] > 0 => Orphan(l)
  /\ UNCHANGED <<netted, repairs, leg, st, traded, own, lastId, sold, unheard, cur,
                 held, shown, todo, paired>>

LEMMA CollectEffect ==
  ASSUME TypeOK, Collect
  PROVE  CollectDoes
<1>1. Cleared(SoldAfterKill)
  BY ClearEffect DEF Collect
<1>2. orphans' = [l \in Legs |-> IF Orphan(l) THEN shares[l] ELSE 0]
  BY DEF Collect
<1>3. orphans' \in [Legs -> 0..Q]
  BY <1>2 DEF TypeOK
<1>4. \A l \in Legs : orphans'[l] > 0 => Orphan(l)
  BY <1>2
<1> QED BY <1>1, <1>3, <1>4 DEF CollectDoes, Collect, Goto, setup, venueVars,
     passVars

ReHedgeDoes(f) ==
  /\ pc = "hedge"
  /\ pc' = "repair"
  /\ f \in 1..orphans[cur]
  /\ Hedged(Partner(cur), f)
  /\ guard' \in [Legs -> 0..MaxOrders]
  /\ guard'[Partner(cur)] = lastId + 1
  /\ guard'[cur] = guard[cur]
  /\ shares' \in [Legs -> 0..Q]
  /\ shares'[Partner(cur)] = f
  /\ shares'[cur] = shares[cur]
  /\ confirmed' = confirmed \cup {Partner(cur)}
  /\ orphans' \in [Legs -> 0..Q]
  /\ orphans'[cur] = 0
  /\ \A l \in Legs : l # cur => orphans'[l] = orphans[l]
  /\ UNCHANGED <<netted, repairs, sold, tracked, cancelled, killed, cur, held,
                 shown, todo, keep, settled, paired>>

LEMMA ReHedgeEffect ==
  ASSUME TypeOK, NEW f \in 1..Q, ReHedge(f)
  PROVE  ReHedgeDoes(f)
<1>1. cur \in Legs /\ Partner(cur) \in Legs /\ Partner(cur) # cur
  BY Partners DEF TypeOK
<1>2. Hedged(Partner(cur), f)
  BY HedgeEffect DEF ReHedge
<1>3. lastId + 1 \in 0..MaxOrders
  BY <1>2 DEF Hedged
<1>4. orphans' = [orphans EXCEPT ![cur] = 0] /\ 0 \in 0..Q
  BY DEF ReHedge, Done
<1>5. /\ guard' = [guard EXCEPT ![Partner(cur)] = lastId + 1]
      /\ shares' = [shares EXCEPT ![Partner(cur)] = f]
  BY DEF ReHedge
<1>6. /\ orphans \in [Legs -> 0..Q]
      /\ guard \in [Legs -> 0..MaxOrders]
      /\ shares \in [Legs -> 0..Q]
  BY DEF TypeOK
<1>7. /\ orphans' \in [Legs -> 0..Q]
      /\ orphans'[cur] = 0
      /\ \A l \in Legs : l # cur => orphans'[l] = orphans[l]
  BY <1>1, <1>4, <1>6
<1>8. /\ guard' \in [Legs -> 0..MaxOrders]
      /\ guard'[Partner(cur)] = lastId + 1
      /\ guard'[cur] = guard[cur]
  BY <1>1, <1>3, <1>5, <1>6
<1>9. /\ shares' \in [Legs -> 0..Q]
      /\ shares'[Partner(cur)] = f
      /\ shares'[cur] = shares[cur]
  BY <1>1, <1>5, <1>6
<1> QED BY <1>2, <1>7, <1>8, <1>9 DEF ReHedgeDoes, ReHedge, Done, Goto, Hedged,
     setup, listVars

NoReHedgeDoes ==
  /\ pc = "hedge"
  /\ pc' = "flatten"
  /\ \/ UNCHANGED <<leg, st, traded, own, lastId, sold, unheard>>
     \/ \E f \in 0..Q : Hedged(Partner(cur), f)
  /\ UNCHANGED <<netted, repairs, guard, shares, confirmed, tracked, cancelled,
                 killed, cur, held, shown, todo, keep, settled, orphans,
                 paired>>

LEMMA NoReHedgeEffect ==
  ASSUME TypeOK, NoReHedge
  PROVE  NoReHedgeDoes
<1>1. ASSUME NEW f \in 1..orphans[cur], HedgeTrades(f)
      PROVE  \E g \in 0..Q : Hedged(Partner(cur), g)
  <2>1. orphans[cur] \in 0..Q
    BY DEF TypeOK
  <2>2. f \in 0..Q
    BY <2>1
  <2> QED BY <1>1, <2>2, HedgeEffect
<1> QED BY <1>1 DEF NoReHedgeDoes, NoReHedge, Goto, setup, venueVars, bookVars,
     listVars

FlattenDoes(m, reply) ==
  /\ pc = "flatten"
  /\ pc' = "repair"
  /\ guard[cur] \in Ids
  /\ ~netted => m <= Max2(own[cur], 0)
  /\ Sold(cur, m)
  /\ killed' \subseteq Legs
  /\ \/ Cleared({cur}) /\ killed' \in {killed, killed \ {cur}}
     \/ UNCHANGED <<guard, shares, confirmed>> /\ killed' = killed \cup {cur}
  /\ orphans' \in [Legs -> 0..Q]
  /\ orphans'[cur] = 0
  /\ \A l \in Legs : l # cur => orphans'[l] = orphans[l]
  /\ UNCHANGED <<netted, repairs, leg, st, traded, lastId, tracked, cancelled,
                 cur, held, shown, todo, keep, settled, paired>>

LEMMA FlattenEffect ==
  ASSUME TypeOK, NEW m \in 0..Q, NEW reply \in {"sold", "killed", "failed"},
         Flatten(m, reply)
  PROVE  FlattenDoes(m, reply)
<1>1. cur \in Legs /\ m \in Nat
  BY DEF TypeOK
<1>2. guard[cur] # 0 /\ SaleOf(cur, m) /\ m \in Saleable(cur, orphans[cur])
  BY DEF Flatten
<1>3. Sold(cur, m) /\ guard[cur] \in Ids
  BY <1>1, <1>2, SaleEffect
<1>4. ~netted => m <= Max2(own[cur], 0)
  BY <1>1, <1>2 DEF Saleable, Min2, Max2, TypeOK
<1>5. orphans' = [orphans EXCEPT ![cur] = 0] /\ 0 \in 0..Q
  BY DEF Flatten, Done
<1>6. /\ orphans' \in [Legs -> 0..Q]
      /\ orphans'[cur] = 0
      /\ \A l \in Legs : l # cur => orphans'[l] = orphans[l]
  BY <1>1, <1>5 DEF TypeOK
<1>7. \/ ClearGuards({cur}) /\ killed' \in {killed, killed \ {cur}}
      \/ UNCHANGED <<guard, shares, confirmed>> /\ killed' = killed \cup {cur}
  BY DEF Flatten, bookVars
<1>8. ClearGuards({cur}) => Cleared({cur})
  BY ClearEffect
<1>9. killed' \subseteq Legs
  BY <1>1, <1>7 DEF TypeOK
<1>10. UNCHANGED <<setup, listVars, cur, held, shown, todo, keep, settled, paired>> /\ pc = "flatten" /\ pc' = "repair"
  BY DEF Flatten, Done, Goto
<1> QED BY <1>3, <1>4, <1>6, <1>7, <1>8, <1>9, <1>10 DEF FlattenDoes, Sold,
     setup, listVars

EnterPairDoes(a) ==
  /\ pc = "idle"
  /\ \A l \in Legs : guard[l] = 0
  /\ Placed(a, [l \in Legs |-> "working"])
  /\ guard' \in [Legs -> 0..MaxOrders]
  /\ guard'[a] = lastId + 1
  /\ guard'[Partner(a)] = lastId + 2
  /\ shares' = [l \in Legs |-> Q]
  /\ shares' \in [Legs -> 0..Q]
  /\ tracked' = tracked \cup {lastId + 1, lastId + 2}
  /\ a \in Legs
  /\ UNCHANGED <<netted, repairs, traded, own, sold, confirmed, cancelled,
                 killed, pc, cur, held, shown, todo, keep, settled, orphans,
                 paired>>

LEMMA EnterPairEffect ==
  ASSUME TypeOK, NEW a \in Firsts, EnterPair(a)
  PROVE  EnterPairDoes(a)
<1>1. a \in Legs /\ Partner(a) # a /\ Partner(a) \in Legs
  BY Partners DEF Legs
<1>2. [l \in Legs |-> "working"] \in [Legs -> {"working", "done"}]
  OBVIOUS
<1>3. Placed(a, [l \in Legs |-> "working"])
  BY <1>1, <1>2, PlaceEffect DEF EnterPair
<1>4. lastId + 1 \in 0..MaxOrders /\ lastId + 2 \in 0..MaxOrders
  BY <1>3 DEF Placed
<1>5. guard' = [l \in Legs |-> IF l = a THEN lastId + 1 ELSE lastId + 2]
  BY DEF EnterPair
<1>6. /\ guard' \in [Legs -> 0..MaxOrders]
      /\ guard'[a] = lastId + 1
      /\ guard'[Partner(a)] = lastId + 2
  BY <1>1, <1>4, <1>5
<1>7. shares' = [l \in Legs |-> Q] /\ Q \in 0..Q
  BY DEF EnterPair
<1>8. shares' \in [Legs -> 0..Q]
  BY <1>7
<1> QED BY <1>1, <1>3, <1>6, <1>7, <1>8 DEF EnterPairDoes, EnterPair, MayEnter,
     Placed, setup, passVars

EnterFailsDoes(a, s) ==
  /\ Placed(a, s)
  /\ pc = "idle"
  /\ a \in Legs
  /\ s[a] # "new"
  /\ s[Partner(a)] # "new"
  /\ UNCHANGED <<netted, repairs, traded, own, sold, guard, shares, confirmed,
                 tracked, cancelled, killed, pc, cur, held, shown, todo, keep,
                 settled, orphans, paired>>

LEMMA EnterFailsEffect ==
  ASSUME TypeOK, NEW a \in Firsts, NEW s \in [Legs -> {"working", "done"}],
         EnterFails(a, s)
  PROVE  EnterFailsDoes(a, s)
<1>2. s[a] \in {"working", "done"} /\ s[Partner(a)] \in {"working", "done"} /\ a \in Legs
  BY Partners DEF Legs
<1>1. Placed(a, s)
  BY <1>2, PlaceEffect DEF EnterFails
<1> QED BY <1>1, <1>2 DEF EnterFailsDoes, EnterFails, MayEnter, Placed, setup,
     bookVars, listVars, passVars

CancelOnLegDoes(o) ==
  /\ pc = "idle"
  /\ o \in tracked
  /\ Ended(o)
  /\ OrderRead(o)
  /\ tracked' \subseteq tracked
  /\ cancelled' \subseteq cancelled \cup {o}
  /\ UNCHANGED <<netted, repairs, leg, traded, own, lastId, sold, unheard, killed, pc,
                 cur, held, shown, todo, keep, settled, orphans, paired>>

LEMMA CancelOnLegEffect ==
  ASSUME TypeOK, NEW o \in Ids, CancelOnLeg(o)
  PROVE  CancelOnLegDoes(o)
<1>1. Ended(o)
  BY EndEffect DEF CancelOnLeg
<1> QED BY <1>1, ReadingCancelOnLeg DEF CancelOnLegDoes, CancelOnLeg, listVars,
     setup, passVars

ExitLegDoes(l, m, exitPair) ==
  /\ pc = "idle"
  /\ l \in confirmed
  /\ guard[l] \in Ids
  /\ m \in 1..shares[l]
  /\ ~netted => m <= Max2(own[l], 0)
  /\ Sold(l, m)
  /\ \/ /\ \E ls \in SUBSET Legs : l \in ls /\ Cleared(ls)
        /\ UNCHANGED <<tracked, cancelled>>
     \/ /\ /\ guard' = guard
        /\ confirmed' = confirmed
        /\ shares' \in [Legs -> 0..Q]
        /\ shares'[l] = shares[l] - m
        /\ shares'[l] > 0
        /\ \A k \in Legs : k # l => shares'[k] = shares[k]
        /\ tracked' = tracked \ {o \in tracked : leg[o] = l}
        /\ cancelled' \subseteq cancelled
  /\ UNCHANGED <<netted, repairs, leg, st, traded, lastId, killed, pc, cur,
                 held, shown, todo, keep, settled, orphans, paired>>

LEMMA ExitLegEffect ==
  ASSUME TypeOK, NEW l \in Legs, NEW m \in 1..Q, NEW exitPair \in BOOLEAN,
         ExitLeg(l, m, exitPair)
  PROVE  ExitLegDoes(l, m, exitPair)
<1>1. guard[l] # 0 /\ SaleOf(l, m) /\ m \in Saleable(l, shares[l])
  BY DEF ExitLeg, ViperExits
<1>2. Sold(l, m) /\ guard[l] \in Ids
  BY <1>1, SaleEffect
<1>3. m \in 1..shares[l]
  BY <1>1 DEF Saleable, Min2, Max2, TypeOK
<1>4. ~netted => m <= Max2(own[l], 0)
  BY <1>1, <1>3 DEF Saleable, Min2, Max2, TypeOK
<1> DEFINE ls == {l} \cup (IF exitPair THEN {Partner(l)} ELSE {})
<1>5. CASE m = shares[l]
  <2>1. ls \in SUBSET Legs /\ l \in ls
    BY Partners
  <2>2. ClearGuards(ls) /\ UNCHANGED listVars
    BY <1>5 DEF ExitLeg
  <2>3. Cleared(ls)
    BY <2>2, ClearEffect
  <2>4. (\E k \in SUBSET Legs : l \in k /\ Cleared(k)) /\ UNCHANGED <<tracked, cancelled>>
    BY <2>1, <2>2, <2>3 DEF listVars
  <2> QED BY <1>2, <1>3, <1>4, <2>4 DEF ExitLegDoes, ExitLeg, Sold, setup,
       passVars
<1>6. CASE m # shares[l]
  <2>1. shares' = [shares EXCEPT ![l] = shares[l] - m]
    BY <1>6 DEF ExitLeg
  <2>2. shares[l] - m \in 0..Q /\ shares[l] - m > 0
    BY <1>3, <1>6 DEF TypeOK
  <2>3. /\ shares' \in [Legs -> 0..Q]
        /\ shares'[l] = shares[l] - m
        /\ \A k \in Legs : k # l => shares'[k] = shares[k]
    BY <2>1, <2>2 DEF TypeOK
  <2>4. /\ guard' = guard
        /\ confirmed' = confirmed
        /\ tracked' = tracked \ {o \in tracked : leg[o] = l}
        /\ cancelled' \subseteq cancelled
    BY <1>6 DEF ExitLeg, OnLeg
  <2> QED BY <1>2, <1>3, <1>4, <2>2, <2>3, <2>4 DEF ExitLegDoes, ExitLeg, Sold,
       setup, passVars
<1> QED BY <1>5, <1>6

ExitUnheardDoes(l, m) ==
  /\ pc = "idle"
  /\ guard[l] \in Ids
  /\ m \in 1..Q
  /\ ~netted => m <= Max2(own[l], 0)
  /\ own' \in [Legs -> Int]
  /\ own'[l] = own[l] - m
  /\ \A k \in Legs : k # l => own'[k] = own[k]
  /\ unheard' \in [Ids -> 0..MaxUnheard]
  /\ unheard'[guard[l]] = unheard[guard[l]] + m
  /\ \A o \in Ids : o # guard[l] => unheard'[o] = unheard[o]
  /\ UNCHANGED <<netted, repairs, leg, st, traded, lastId, sold, guard, shares,
                 confirmed, tracked, cancelled, killed, pc, cur, held, shown,
                 todo, keep, settled, orphans, paired>>

LEMMA ExitUnheardEffect ==
  ASSUME TypeOK, NEW l \in Legs, NEW m \in 1..Q, NEW exitPair \in BOOLEAN,
         ExitUnheard(l, m, exitPair)
  PROVE  ExitUnheardDoes(l, m)
<1>1. guard[l] \in Ids
  BY Guards DEF ExitUnheard, ViperExits
<1>2. ~netted => m <= Max2(own[l], 0)
  BY DEF ExitUnheard, Saleable, Min2, Max2, TypeOK
<1>3. own[l] - m \in Int /\ own' = [own EXCEPT ![l] = own[l] - m]
  BY DEF ExitUnheard, TypeOK
<1>4. /\ own' \in [Legs -> Int]
      /\ own'[l] = own[l] - m
      /\ \A k \in Legs : k # l => own'[k] = own[k]
  BY <1>3 DEF TypeOK
<1>5. unheard[guard[l]] \in 0..MaxUnheard /\ unheard \in [Ids -> 0..MaxUnheard]
  BY <1>1 DEF TypeOK
<1>6. unheard[guard[l]] + m \in 0..MaxUnheard
  BY <1>5 DEF ExitUnheard
<1>7. unheard' = [unheard EXCEPT ![guard[l]] = unheard[guard[l]] + m]
  BY DEF ExitUnheard
<1>8. /\ unheard' \in [Ids -> 0..MaxUnheard]
      /\ unheard'[guard[l]] = unheard[guard[l]] + m
      /\ \A o \in Ids : o # guard[l] => unheard'[o] = unheard[o]
  BY <1>1, <1>5, <1>6, <1>7
<1> QED BY <1>1, <1>2, <1>4, <1>8 DEF ExitUnheardDoes, ExitUnheard, setup,
     bookVars, listVars, passVars

TradeDoes(o) ==
  /\ st[o] = "working"
  /\ st' \in [Ids -> {"new", "working", "done"}]
  /\ st'[o] # "new"
  /\ st'[o] = "working" => traded[o] + 1 # Q
  /\ traded' \in [Ids -> 0..Q]
  /\ traded'[o] = traded[o] + 1
  /\ own' \in [Legs -> Int]
  /\ own'[leg[o]] = own[leg[o]] + 1
  /\ \A p \in Ids : p # o => st'[p] = st[p] /\ traded'[p] = traded[p]
  /\ \A l \in Legs : l # leg[o] => own'[l] = own[l]
  /\ UNCHANGED <<netted, repairs, leg, lastId, sold, unheard, guard, shares, confirmed,
                 tracked, cancelled, killed, pc, cur, held, shown, todo, keep,
                 settled, orphans, paired>>

LEMMA TradeEffect ==
  ASSUME TypeOK, FreshInv, NEW o \in Ids, Trade(o)
  PROVE  TradeDoes(o)
<1>1. traded[o] + 1 \in 0..Q
  BY SMTT(30) DEF Trade, FreshInv, TypeOK
<1>2. traded' = [traded EXCEPT ![o] = traded[o] + 1]
  BY DEF Trade
<1>3. /\ traded' \in [Ids -> 0..Q]
      /\ traded'[o] = traded[o] + 1
      /\ \A p \in Ids : p # o => traded'[p] = traded[p]
  BY <1>1, <1>2 DEF TypeOK
<1>4. st[o] = "working" /\ st' = [st EXCEPT ![o] = IF traded'[o] = Q THEN "done" ELSE st[o]]
  BY DEF Trade
<1>5. /\ st' \in [Ids -> {"new", "working", "done"}]
      /\ st'[o] # "new"
      /\ st'[o] = "working" => traded[o] + 1 # Q
      /\ \A p \in Ids : p # o => st'[p] = st[p]
  BY <1>3, <1>4 DEF TypeOK
<1>6. leg[o] \in Legs /\ own[leg[o]] + 1 \in Int
  BY SMTT(30) DEF TypeOK
<1>7. own' = [own EXCEPT ![leg[o]] = own[leg[o]] + 1]
  BY DEF Trade
<1>8. /\ own' \in [Legs -> Int]
      /\ own'[leg[o]] = own[leg[o]] + 1
      /\ \A l \in Legs : l # leg[o] => own'[l] = own[l]
  BY <1>6, <1>7 DEF TypeOK
<1>9. UNCHANGED <<setup, leg, lastId, sold, unheard, bookVars, listVars, killed, pc, passVars>>
  BY DEF Trade
<1> QED BY <1>3, <1>4, <1>5, <1>8, <1>9 DEF TradeDoes, setup, bookVars,
     listVars, passVars

FillEventDoes(o, n, complete) ==
  /\ o \in tracked
  /\ OrderRead(o)
  /\ tracked' \subseteq tracked
  /\ cancelled' \subseteq cancelled
  /\ UNCHANGED <<netted, repairs, leg, st, traded, own, lastId, sold, unheard, killed,
                 pc, cur, held, shown, todo, keep, settled, orphans, paired>>

LEMMA FillEventEffect ==
  ASSUME TypeOK, NEW o \in Ids, NEW n \in 1..Q, NEW complete \in BOOLEAN,
         FillEvent(o, n, complete)
  PROVE  FillEventDoes(o, n, complete)
  BY ReadingFillEvent DEF FillEventDoes, FillEvent, setup, venueVars, passVars

-----------------------------------------------------------------------------
(* Types, and orders not yet placed.                                       *)

LEMMA TypeInit == Init => TypeOK /\ FreshInv
  BY DEF Init, TypeOK, FreshInv, PassPoints

LEMMA TypeStep == TypeOK /\ FreshInv /\ [Next]_vars => TypeOK'
<1> SUFFICES ASSUME TypeOK, FreshInv, [Next]_vars PROVE TypeOK'
  OBVIOUS
<1>1. CASE Begin
  BY <1>1 DEF Begin, Goto, setup, venueVars, bookVars, listVars, passVars,
     TypeOK, PassPoints
<1>2. ASSUME NEW known \in BOOLEAN, ReadOpen(known)
      PROVE  TypeOK'
  BY <1>2 DEF ReadOpen, Goto, ListedAs, setup, venueVars, bookVars, listVars,
     passVars, TypeOK, PassPoints
<1>3. ASSUME NEW o \in Ids, PassQuote(o)
      PROVE  TypeOK'
  <2>1. PassQuoteDoes(o)
    BY <1>3, PassQuoteEffect
  <2>2. /\ st' \in [Ids -> {"new", "working", "done"}]
        /\ guard' \in [Legs -> 0..MaxOrders] /\ shares' \in [Legs -> 0..Q] /\ confirmed' \subseteq Legs
    BY <2>1 DEF PassQuoteDoes, Ended, OrderRead
  <2>3. todo' \subseteq Ids /\ cancelled' \subseteq Ids /\ keep' \subseteq Ids /\ settled' \subseteq Ids
    BY <2>1 DEF PassQuoteDoes, TypeOK
  <2> QED BY <2>1, <2>2, <2>3 DEF PassQuoteDoes, TypeOK
<1>4. CASE Collect
  <2>1. CollectDoes
    BY <1>4, CollectEffect
  <2> QED BY <2>1 DEF CollectDoes, Cleared, TypeOK, PassPoints
<1>5. ASSUME NEW l \in Legs, StartRepair(l)
      PROVE  TypeOK'
  BY <1>5 DEF StartRepair, Goto, setup, venueVars, bookVars, listVars,
     passVars, TypeOK, PassPoints
<1>6. ASSUME NEW f \in 1..Q, ReHedge(f)
      PROVE  TypeOK'
  <2>1. ReHedgeDoes(f)
    BY <1>6, ReHedgeEffect
  <2> QED BY <2>1 DEF ReHedgeDoes, Hedged, TypeOK, PassPoints
<1>7. CASE NoReHedge
  <2>1. NoReHedgeDoes
    BY <1>7, NoReHedgeEffect
  <2>2. CASE UNCHANGED <<leg, st, traded, own, lastId, sold, unheard>>
    BY <2>1, <2>2 DEF NoReHedgeDoes, TypeOK, PassPoints
  <2>3. ASSUME NEW f \in 0..Q, Hedged(Partner(cur), f)
        PROVE  TypeOK'
    BY <2>1, <2>3 DEF NoReHedgeDoes, Hedged, TypeOK, PassPoints
  <2> QED BY <2>1, <2>2, <2>3 DEF NoReHedgeDoes
<1>8. ASSUME NEW m \in 0..Q, NEW reply \in {"sold", "killed", "failed"},
             Flatten(m, reply)
      PROVE  TypeOK'
  <2>1. FlattenDoes(m, reply)
    BY <1>8, FlattenEffect
  <2> QED BY <2>1 DEF FlattenDoes, Sold, Cleared, TypeOK, PassPoints
<1>9. CASE EndPass
  BY <1>9 DEF EndPass, Goto, setup, venueVars, bookVars, listVars, passVars,
     TypeOK, PassPoints
<1>10. ASSUME NEW a \in Firsts, EnterPair(a)
      PROVE  TypeOK'
  <2>1. EnterPairDoes(a)
    BY <1>10, EnterPairEffect
  <2> QED BY <2>1 DEF EnterPairDoes, Placed, TypeOK, PassPoints
<1>11. ASSUME NEW a \in Firsts, NEW s \in [Legs -> {"working", "done"}],
              EnterFails(a, s)
      PROVE  TypeOK'
  <2>1. EnterFailsDoes(a, s)
    BY <1>11, EnterFailsEffect
  <2> QED BY <2>1 DEF EnterFailsDoes, Placed, TypeOK, PassPoints
<1>12. ASSUME NEW o \in Ids, CancelOnLeg(o)
      PROVE  TypeOK'
  <2>1. CancelOnLegDoes(o)
    BY <1>12, CancelOnLegEffect
  <2> QED BY <2>1 DEF CancelOnLegDoes, Ended, OrderRead, TypeOK, PassPoints
<1>13. ASSUME NEW l \in Legs, NEW m \in 1..Q, NEW exitPair \in BOOLEAN,
              ExitLeg(l, m, exitPair)
      PROVE  TypeOK'
  <2>1. ExitLegDoes(l, m, exitPair)
    BY <1>13, ExitLegEffect
  <2> QED BY <2>1 DEF ExitLegDoes, Sold, Cleared, TypeOK, PassPoints
<1>21. ASSUME NEW l \in Legs, NEW m \in 1..Q, NEW exitPair \in BOOLEAN,
              ExitUnheard(l, m, exitPair)
      PROVE  TypeOK'
  <2>1. ExitUnheardDoes(l, m)
    BY <1>21, ExitUnheardEffect
    <2> QED BY <2>1 DEF ExitUnheardDoes, TypeOK, PassPoints
<1>14. ASSUME NEW o \in Ids, Trade(o)
      PROVE  TypeOK'
  <2>1. TradeDoes(o)
    BY <1>14, TradeEffect
  <2> QED BY <2>1 DEF TradeDoes, TypeOK, PassPoints
<1>15. ASSUME NEW o \in Ids, Expire(o)
      PROVE  TypeOK'
  BY <1>15 DEF Expire, setup, venueVars, bookVars, listVars, passVars, TypeOK,
     PassPoints
<1>16. ASSUME NEW o \in Ids, NEW n \in 1..Q, NEW complete \in BOOLEAN,
              FillEvent(o, n, complete)
      PROVE  TypeOK'
  <2>1. FillEventDoes(o, n, complete)
    BY <1>16, FillEventEffect
  <2> QED BY <2>1 DEF FillEventDoes, OrderRead, TypeOK, PassPoints
<1>17. CASE UNCHANGED vars
  BY <1>17 DEF vars, setup, venueVars, bookVars, listVars, passVars, TypeOK,
     PassPoints
<1>18. CASE PassSteps
  BY <1>18, <1>2, <1>3, <1>4, <1>5, <1>6, <1>7, <1>8, <1>9 DEF PassSteps
<1>19. CASE Viper
  BY <1>19, <1>10, <1>11, <1>12, <1>13, <1>21 DEF Viper
<1>20. CASE Venue
  BY <1>20, <1>14, <1>15, <1>16 DEF Venue
<1> QED BY <1>1, <1>17, <1>18, <1>19, <1>20 DEF Next

HIDE DEF Legs, Ids, Partner

-----------------------------------------------------------------------------
(* Orders, guards and the pass.                                            *)

\* Orders tracked, copied or guarded have been placed; the copy belongs to
\* pass 1.
CopiedInv ==
  /\ tracked \cup todo \subseteq 1..lastId
  /\ pc # "pass1" => todo = {}
GuardedInv == \A l \in Legs : guard[l] <= lastId

LEMMA PlacedInit == Init => CopiedInv /\ GuardedInv
  BY DEF Init, CopiedInv, GuardedInv

LEMMA CopiedStep == TypeOK /\ FreshInv /\ CopiedInv /\ [Next]_vars => CopiedInv'
<1> SUFFICES ASSUME TypeOK, FreshInv, CopiedInv, [Next]_vars PROVE CopiedInv'
  OBVIOUS
<1>0. /\ lastId \in 0..MaxOrders
      /\ tracked \subseteq Ids
      /\ todo \subseteq Ids
  BY DEF TypeOK
<1>1. CASE Begin
  BY <1>1, <1>0, Numbers DEF Begin, Goto, setup, venueVars, bookVars, listVars,
     passVars, CopiedInv
<1>2. ASSUME NEW known \in BOOLEAN, ReadOpen(known)
      PROVE  CopiedInv'
  BY <1>2, <1>0, Numbers DEF ReadOpen, Goto, ListedAs, setup, venueVars,
     bookVars, listVars, passVars, CopiedInv
<1>3. ASSUME NEW o \in Ids, PassQuote(o)
      PROVE  CopiedInv'
  <2>1. PassQuoteDoes(o)
    BY <1>3, PassQuoteEffect
  <2> QED BY <2>1, <1>0, Numbers DEF PassQuoteDoes, Ended, OrderRead, CopiedInv
<1>4. CASE Collect
  <2>1. CollectDoes
    BY <1>4, CollectEffect
  <2> QED BY <2>1, <1>0, Numbers DEF CollectDoes, Cleared, CopiedInv
<1>5. ASSUME NEW l \in Legs, StartRepair(l)
      PROVE  CopiedInv'
  BY <1>5, <1>0, Numbers DEF StartRepair, Goto, setup, venueVars, bookVars,
     listVars, passVars, CopiedInv
<1>6. ASSUME NEW f \in 1..Q, ReHedge(f)
      PROVE  CopiedInv'
  <2>1. ReHedgeDoes(f)
    BY <1>6, ReHedgeEffect
  <2> QED BY <2>1, <1>0, Numbers DEF ReHedgeDoes, Hedged, CopiedInv
<1>7. CASE NoReHedge
  <2>1. NoReHedgeDoes
    BY <1>7, NoReHedgeEffect
  <2>2. CASE UNCHANGED <<leg, st, traded, own, lastId, sold, unheard>>
    BY <1>0, Numbers, <2>1, <2>2 DEF NoReHedgeDoes, CopiedInv
  <2>3. ASSUME NEW f \in 0..Q, Hedged(Partner(cur), f)
        PROVE  CopiedInv'
    BY <1>0, Numbers, <2>1, <2>3 DEF NoReHedgeDoes, Hedged, CopiedInv
  <2> QED BY <2>1, <2>2, <2>3 DEF NoReHedgeDoes
<1>8. ASSUME NEW m \in 0..Q, NEW reply \in {"sold", "killed", "failed"},
             Flatten(m, reply)
      PROVE  CopiedInv'
  <2>1. FlattenDoes(m, reply)
    BY <1>8, FlattenEffect
  <2> QED BY <2>1, <1>0, Numbers DEF FlattenDoes, Sold, Cleared, CopiedInv
<1>9. CASE EndPass
  BY <1>9, <1>0, Numbers DEF EndPass, Goto, setup, venueVars, bookVars,
     listVars, passVars, CopiedInv
<1>10. ASSUME NEW a \in Firsts, EnterPair(a)
      PROVE  CopiedInv'
  <2>1. EnterPairDoes(a)
    BY <1>10, EnterPairEffect
  <2> QED BY <2>1, <1>0, Numbers DEF EnterPairDoes, Placed, CopiedInv
<1>11. ASSUME NEW a \in Firsts, NEW s \in [Legs -> {"working", "done"}],
              EnterFails(a, s)
      PROVE  CopiedInv'
  <2>1. EnterFailsDoes(a, s)
    BY <1>11, EnterFailsEffect
  <2> QED BY <2>1, <1>0, Numbers DEF EnterFailsDoes, Placed, CopiedInv
<1>12. ASSUME NEW o \in Ids, CancelOnLeg(o)
      PROVE  CopiedInv'
  <2>1. CancelOnLegDoes(o)
    BY <1>12, CancelOnLegEffect
  <2> QED BY <2>1, <1>0, Numbers DEF CancelOnLegDoes, Ended, OrderRead,
       CopiedInv
<1>13. ASSUME NEW l \in Legs, NEW m \in 1..Q, NEW exitPair \in BOOLEAN,
              ExitLeg(l, m, exitPair)
      PROVE  CopiedInv'
  <2>1. ExitLegDoes(l, m, exitPair)
    BY <1>13, ExitLegEffect
  <2> QED BY <2>1, <1>0, Numbers DEF ExitLegDoes, Sold, Cleared, CopiedInv
<1>21. ASSUME NEW l \in Legs, NEW m \in 1..Q, NEW exitPair \in BOOLEAN,
              ExitUnheard(l, m, exitPair)
      PROVE  CopiedInv'
  <2>1. ExitUnheardDoes(l, m)
    BY <1>21, ExitUnheardEffect
    <2> QED BY <2>1, <1>0, Numbers DEF ExitUnheardDoes, CopiedInv
<1>14. ASSUME NEW o \in Ids, Trade(o)
      PROVE  CopiedInv'
  <2>1. TradeDoes(o)
    BY <1>14, TradeEffect
  <2> QED BY <2>1, <1>0, Numbers DEF TradeDoes, CopiedInv
<1>15. ASSUME NEW o \in Ids, Expire(o)
      PROVE  CopiedInv'
  BY <1>15, <1>0, Numbers DEF Expire, setup, venueVars, bookVars, listVars,
     passVars, CopiedInv
<1>16. ASSUME NEW o \in Ids, NEW n \in 1..Q, NEW complete \in BOOLEAN,
              FillEvent(o, n, complete)
      PROVE  CopiedInv'
  <2>1. FillEventDoes(o, n, complete)
    BY <1>16, FillEventEffect
  <2> QED BY <2>1, <1>0, Numbers DEF FillEventDoes, OrderRead, CopiedInv
<1>17. CASE UNCHANGED vars
  BY <1>17 DEF vars, setup, venueVars, bookVars, listVars, passVars, CopiedInv
<1>18. CASE PassSteps
  BY <1>18, <1>2, <1>3, <1>4, <1>5, <1>6, <1>7, <1>8, <1>9 DEF PassSteps
<1>19. CASE Viper
  BY <1>19, <1>10, <1>11, <1>12, <1>13, <1>21 DEF Viper
<1>20. CASE Venue
  BY <1>20, <1>14, <1>15, <1>16 DEF Venue
<1> QED BY <1>1, <1>17, <1>18, <1>19, <1>20 DEF Next

LEMMA GuardedStep == TypeOK /\ FreshInv /\ GuardedInv /\ [Next]_vars => GuardedInv'
<1> SUFFICES ASSUME TypeOK, FreshInv, GuardedInv, [Next]_vars PROVE GuardedInv'
  OBVIOUS
<1>0. /\ lastId \in 0..MaxOrders
      /\ guard \in [Legs -> 0..MaxOrders]
      /\ cur \in Legs
  BY DEF TypeOK
<1>1. CASE Begin
  BY <1>1, <1>0, Partners DEF Begin, Goto, setup, venueVars, bookVars,
     listVars, passVars, GuardedInv
<1>2. ASSUME NEW known \in BOOLEAN, ReadOpen(known)
      PROVE  GuardedInv'
  BY <1>2, <1>0, Partners DEF ReadOpen, Goto, ListedAs, setup, venueVars,
     bookVars, listVars, passVars, GuardedInv
<1>3. ASSUME NEW o \in Ids, PassQuote(o)
      PROVE  GuardedInv'
  <2>1. PassQuoteDoes(o)
    BY <1>3, PassQuoteEffect
  <2> QED BY <2>1, <1>0, Partners DEF PassQuoteDoes, Ended, OrderRead,
       GuardedInv
<1>4. CASE Collect
  <2>1. CollectDoes
    BY <1>4, CollectEffect
  <2> QED BY <2>1, <1>0, Partners DEF CollectDoes, Cleared, GuardedInv
<1>5. ASSUME NEW l \in Legs, StartRepair(l)
      PROVE  GuardedInv'
  BY <1>5, <1>0, Partners DEF StartRepair, Goto, setup, venueVars, bookVars,
     listVars, passVars, GuardedInv
<1>6. ASSUME NEW f \in 1..Q, ReHedge(f)
      PROVE  GuardedInv'
  <2>1. ReHedgeDoes(f)
    BY <1>6, ReHedgeEffect
  <2> QED BY <2>1, <1>0, Partners DEF ReHedgeDoes, Hedged, GuardedInv
<1>7. CASE NoReHedge
  <2>1. NoReHedgeDoes
    BY <1>7, NoReHedgeEffect
  <2>2. CASE UNCHANGED <<leg, st, traded, own, lastId, sold, unheard>>
    BY <1>0, Partners, <2>1, <2>2 DEF NoReHedgeDoes, GuardedInv
  <2>3. ASSUME NEW f \in 0..Q, Hedged(Partner(cur), f)
        PROVE  GuardedInv'
    BY <1>0, Partners, <2>1, <2>3 DEF NoReHedgeDoes, Hedged, GuardedInv
  <2> QED BY <2>1, <2>2, <2>3 DEF NoReHedgeDoes
<1>8. ASSUME NEW m \in 0..Q, NEW reply \in {"sold", "killed", "failed"},
             Flatten(m, reply)
      PROVE  GuardedInv'
  <2>1. FlattenDoes(m, reply)
    BY <1>8, FlattenEffect
  <2> QED BY <2>1, <1>0, Partners DEF FlattenDoes, Sold, Cleared, GuardedInv
<1>9. CASE EndPass
  BY <1>9, <1>0, Partners DEF EndPass, Goto, setup, venueVars, bookVars,
     listVars, passVars, GuardedInv
<1>10. ASSUME NEW a \in Firsts, EnterPair(a)
      PROVE  GuardedInv'
  <2>1. EnterPairDoes(a)
    BY <1>10, EnterPairEffect
  <2> QED BY <2>1, <1>0, Partners DEF EnterPairDoes, Placed, GuardedInv
<1>11. ASSUME NEW a \in Firsts, NEW s \in [Legs -> {"working", "done"}],
              EnterFails(a, s)
      PROVE  GuardedInv'
  <2>1. EnterFailsDoes(a, s)
    BY <1>11, EnterFailsEffect
  <2> QED BY <2>1, <1>0, Partners DEF EnterFailsDoes, Placed, GuardedInv
<1>12. ASSUME NEW o \in Ids, CancelOnLeg(o)
      PROVE  GuardedInv'
  <2>1. CancelOnLegDoes(o)
    BY <1>12, CancelOnLegEffect
  <2> QED BY <2>1, <1>0, Partners DEF CancelOnLegDoes, Ended, OrderRead,
       GuardedInv
<1>13. ASSUME NEW l \in Legs, NEW m \in 1..Q, NEW exitPair \in BOOLEAN,
              ExitLeg(l, m, exitPair)
      PROVE  GuardedInv'
  <2>1. ExitLegDoes(l, m, exitPair)
    BY <1>13, ExitLegEffect
  <2> QED BY <2>1, <1>0, Partners DEF ExitLegDoes, Sold, Cleared, GuardedInv
<1>21. ASSUME NEW l \in Legs, NEW m \in 1..Q, NEW exitPair \in BOOLEAN,
              ExitUnheard(l, m, exitPair)
      PROVE  GuardedInv'
  <2>1. ExitUnheardDoes(l, m)
    BY <1>21, ExitUnheardEffect
    <2> QED BY <2>1, <1>0, Partners DEF ExitUnheardDoes, GuardedInv
<1>14. ASSUME NEW o \in Ids, Trade(o)
      PROVE  GuardedInv'
  <2>1. TradeDoes(o)
    BY <1>14, TradeEffect
  <2> QED BY <2>1, <1>0, Partners DEF TradeDoes, GuardedInv
<1>15. ASSUME NEW o \in Ids, Expire(o)
      PROVE  GuardedInv'
  BY <1>15, <1>0, Partners DEF Expire, setup, venueVars, bookVars, listVars,
     passVars, GuardedInv
<1>16. ASSUME NEW o \in Ids, NEW n \in 1..Q, NEW complete \in BOOLEAN,
              FillEvent(o, n, complete)
      PROVE  GuardedInv'
  <2>1. FillEventDoes(o, n, complete)
    BY <1>16, FillEventEffect
  <2> QED BY <2>1, <1>0, Partners DEF FillEventDoes, OrderRead, GuardedInv
<1>17. CASE UNCHANGED vars
  BY <1>17 DEF vars, setup, venueVars, bookVars, listVars, passVars, GuardedInv
<1>18. CASE PassSteps
  BY <1>18, <1>2, <1>3, <1>4, <1>5, <1>6, <1>7, <1>8, <1>9 DEF PassSteps
<1>19. CASE Viper
  BY <1>19, <1>10, <1>11, <1>12, <1>13, <1>21 DEF Viper
<1>20. CASE Venue
  BY <1>20, <1>14, <1>15, <1>16 DEF Venue
<1> QED BY <1>1, <1>17, <1>18, <1>19, <1>20 DEF Next

LEMMA FreshStep == TypeOK /\ CopiedInv /\ GuardedInv /\ FreshInv /\ [Next]_vars => FreshInv'
<1> SUFFICES ASSUME TypeOK, CopiedInv, GuardedInv, FreshInv, [Next]_vars PROVE FreshInv'
  OBVIOUS
<1>0. /\ lastId \in 0..MaxOrders
      /\ guard \in [Legs -> 0..MaxOrders]
      /\ st \in [Ids -> {"new", "working", "done"}]
      /\ traded \in [Ids -> 0..Q]
      /\ sold \in [Ids -> Nat]
      /\ tracked \subseteq Ids
      /\ todo \subseteq Ids
      /\ cur \in Legs
  BY DEF TypeOK
<1>1. CASE Begin
  BY <1>1, <1>0, Numbers DEF Begin, Goto, setup, venueVars, bookVars, listVars,
     passVars, FreshInv, CopiedInv, GuardedInv
<1>2. ASSUME NEW known \in BOOLEAN, ReadOpen(known)
      PROVE  FreshInv'
  BY <1>2, <1>0, Numbers DEF ReadOpen, Goto, ListedAs, setup, venueVars,
     bookVars, listVars, passVars, FreshInv, CopiedInv, GuardedInv
<1>3. ASSUME NEW o \in Ids, PassQuote(o)
      PROVE  FreshInv'
  <2>1. PassQuoteDoes(o)
    BY <1>3, PassQuoteEffect
  <2> QED BY <2>1, <1>0, Numbers DEF PassQuoteDoes, Ended, OrderRead, FreshInv,
       CopiedInv, GuardedInv
<1>4. CASE Collect
  <2>1. CollectDoes
    BY <1>4, CollectEffect
  <2> QED BY <2>1, <1>0, Numbers DEF CollectDoes, Cleared, FreshInv, CopiedInv,
       GuardedInv
<1>5. ASSUME NEW l \in Legs, StartRepair(l)
      PROVE  FreshInv'
  BY <1>5, <1>0, Numbers DEF StartRepair, Goto, setup, venueVars, bookVars,
     listVars, passVars, FreshInv, CopiedInv, GuardedInv
<1>6. ASSUME NEW f \in 1..Q, ReHedge(f)
      PROVE  FreshInv'
  <2>1. ReHedgeDoes(f)
    BY <1>6, ReHedgeEffect
  <2> QED BY <2>1, <1>0, Numbers DEF ReHedgeDoes, Hedged, FreshInv, CopiedInv,
       GuardedInv
<1>7. CASE NoReHedge
  <2>1. NoReHedgeDoes
    BY <1>7, NoReHedgeEffect
  <2>2. CASE UNCHANGED <<leg, st, traded, own, lastId, sold, unheard>>
    BY <1>0, Numbers, <2>1, <2>2 DEF NoReHedgeDoes, FreshInv, CopiedInv,
       GuardedInv
  <2>3. ASSUME NEW f \in 0..Q, Hedged(Partner(cur), f)
        PROVE  FreshInv'
    BY <1>0, Numbers, <2>1, <2>3 DEF NoReHedgeDoes, Hedged, FreshInv,
       CopiedInv, GuardedInv
  <2> QED BY <2>1, <2>2, <2>3 DEF NoReHedgeDoes
<1>8. ASSUME NEW m \in 0..Q, NEW reply \in {"sold", "killed", "failed"},
             Flatten(m, reply)
      PROVE  FreshInv'
  <2>1. FlattenDoes(m, reply)
    BY <1>8, FlattenEffect
  <2>2. Sold(cur, m) /\ UNCHANGED lastId
    BY <2>1 DEF FlattenDoes
  <2> QED BY <2>2, <1>0, Numbers DEF Sold, FreshInv, GuardedInv
<1>9. CASE EndPass
  BY <1>9, <1>0, Numbers DEF EndPass, Goto, setup, venueVars, bookVars,
     listVars, passVars, FreshInv, CopiedInv, GuardedInv
<1>10. ASSUME NEW a \in Firsts, EnterPair(a)
      PROVE  FreshInv'
  <2>1. EnterPairDoes(a)
    BY <1>10, EnterPairEffect
  <2> QED BY <2>1, <1>0, Numbers DEF EnterPairDoes, Placed, FreshInv,
       CopiedInv, GuardedInv
<1>11. ASSUME NEW a \in Firsts, NEW s \in [Legs -> {"working", "done"}],
              EnterFails(a, s)
      PROVE  FreshInv'
  <2>1. EnterFailsDoes(a, s)
    BY <1>11, EnterFailsEffect
  <2> QED BY <2>1, <1>0, Numbers DEF EnterFailsDoes, Placed, FreshInv,
       CopiedInv, GuardedInv
<1>12. ASSUME NEW o \in Ids, CancelOnLeg(o)
      PROVE  FreshInv'
  <2>1. CancelOnLegDoes(o)
    BY <1>12, CancelOnLegEffect
  <2> QED BY <2>1, <1>0, Numbers DEF CancelOnLegDoes, Ended, OrderRead,
       FreshInv, CopiedInv, GuardedInv
<1>13. ASSUME NEW l \in Legs, NEW m \in 1..Q, NEW exitPair \in BOOLEAN,
              ExitLeg(l, m, exitPair)
      PROVE  FreshInv'
  <2>1. ExitLegDoes(l, m, exitPair)
    BY <1>13, ExitLegEffect
  <2> QED BY <2>1, <1>0, Numbers DEF ExitLegDoes, Sold, Cleared, FreshInv,
       CopiedInv, GuardedInv
<1>21. ASSUME NEW l \in Legs, NEW m \in 1..Q, NEW exitPair \in BOOLEAN,
              ExitUnheard(l, m, exitPair)
      PROVE  FreshInv'
  <2>1. ExitUnheardDoes(l, m)
    BY <1>21, ExitUnheardEffect
    <2> QED BY <2>1, <1>0, Numbers DEF ExitUnheardDoes, FreshInv, CopiedInv,
       GuardedInv
<1>14. ASSUME NEW o \in Ids, Trade(o)
      PROVE  FreshInv'
  <2>1. TradeDoes(o)
    BY <1>14, TradeEffect
  <2> QED BY <2>1, <1>0, Numbers DEF TradeDoes, FreshInv, CopiedInv, GuardedInv
<1>15. ASSUME NEW o \in Ids, Expire(o)
      PROVE  FreshInv'
  BY <1>15, <1>0, Numbers DEF Expire, setup, venueVars, bookVars, listVars,
     passVars, FreshInv, CopiedInv, GuardedInv
<1>16. ASSUME NEW o \in Ids, NEW n \in 1..Q, NEW complete \in BOOLEAN,
              FillEvent(o, n, complete)
      PROVE  FreshInv'
  <2>1. FillEventDoes(o, n, complete)
    BY <1>16, FillEventEffect
  <2> QED BY <2>1, <1>0, Numbers DEF FillEventDoes, OrderRead, FreshInv,
       CopiedInv, GuardedInv
<1>17. CASE UNCHANGED vars
  BY <1>17 DEF vars, setup, venueVars, bookVars, listVars, passVars, FreshInv,
     CopiedInv, GuardedInv
<1>18. CASE PassSteps
  BY <1>18, <1>2, <1>3, <1>4, <1>5, <1>6, <1>7, <1>8, <1>9 DEF PassSteps
<1>19. CASE Viper
  BY <1>19, <1>10, <1>11, <1>12, <1>13, <1>21 DEF Viper
<1>20. CASE Venue
  BY <1>20, <1>14, <1>15, <1>16 DEF Venue
<1> QED BY <1>1, <1>17, <1>18, <1>19, <1>20 DEF Next

\* A guard belongs to an order of its leg, the latest one tracked there; a
\* confirmed one shows contracts.  Nothing was sold under a guard whose order
\* is still tracked, but after a flatten reported killed.
LegInv    == \A l \in Legs : guard[l] # 0 => leg[guard[l]] = l
SharesInv == \A l \in confirmed : guard[l] # 0 /\ shares[l] > 0
LatestInv == \A o \in tracked \cup todo : guard[leg[o]] = 0 \/ guard[leg[o]] >= o
UnsoldInv ==
  \A l \in Legs \ killed : guard[l] \in tracked \cup todo => sold[guard[l]] = 0

\* GuardsAreOwned, what exits sold unheard being on both sides of it.
OwnedInv ==
  \A l \in confirmed \ killed : shares[l] + sold[guard[l]] <= traded[guard[l]]

LEMMA OwnedMeans == TypeOK /\ SharesInv /\ OwnedInv => GuardsAreOwned
<1> SUFFICES ASSUME TypeOK, SharesInv, OwnedInv, NEW l \in confirmed \ killed
             PROVE  shares[l] <= Left(guard[l]) + unheard[guard[l]]
  BY DEF GuardsAreOwned
<1>1. l \in Legs /\ guard[l] \in Ids
  BY Guards DEF TypeOK, SharesInv
<1>2. /\ shares[l] \in Nat
      /\ sold[guard[l]] \in Nat
      /\ unheard[guard[l]] \in Nat
      /\ traded[guard[l]] \in Nat
  BY <1>1 DEF TypeOK
<1>3. shares[l] + sold[guard[l]] <= traded[guard[l]]
  BY DEF OwnedInv
<1> QED BY <1>2, <1>3 DEF Left

LEMMA GuardInit ==
  Init => LegInv /\ SharesInv /\ LatestInv /\ UnsoldInv /\ OwnedInv
  BY DEF Init, LegInv, SharesInv, LatestInv, UnsoldInv, OwnedInv

LEMMA LegStep == TypeOK /\ FreshInv /\ CopiedInv /\ GuardedInv /\ LegInv /\ [Next]_vars => LegInv'
<1> SUFFICES ASSUME TypeOK, FreshInv, CopiedInv, GuardedInv, LegInv, [Next]_vars PROVE LegInv'
  OBVIOUS
<1>0. /\ lastId \in 0..MaxOrders
      /\ guard \in [Legs -> 0..MaxOrders]
      /\ cur \in Legs
      /\ leg \in [Ids -> Legs]
  BY DEF TypeOK
<1>1. CASE Begin
  BY <1>1, <1>0, Numbers, Partners, Guards DEF Begin, Goto, setup, venueVars,
     bookVars, listVars, passVars, LegInv, GuardedInv
<1>2. ASSUME NEW known \in BOOLEAN, ReadOpen(known)
      PROVE  LegInv'
  BY <1>2, <1>0, Numbers, Partners, Guards DEF ReadOpen, Goto, ListedAs, setup,
     venueVars, bookVars, listVars, passVars, LegInv, GuardedInv
<1>3. ASSUME NEW o \in Ids, PassQuote(o)
      PROVE  LegInv'
  <2>1. PassQuoteDoes(o)
    BY <1>3, PassQuoteEffect
  <2> QED BY <2>1, <1>0, Numbers, Partners, Guards DEF PassQuoteDoes, Ended,
       OrderRead, LegInv, GuardedInv
<1>4. CASE Collect
  <2>1. CollectDoes
    BY <1>4, CollectEffect
  <2> QED BY <2>1, <1>0, Numbers, Partners, Guards DEF CollectDoes, Cleared,
       LegInv, GuardedInv
<1>5. ASSUME NEW l \in Legs, StartRepair(l)
      PROVE  LegInv'
  BY <1>5, <1>0, Numbers, Partners, Guards DEF StartRepair, Goto, setup,
     venueVars, bookVars, listVars, passVars, LegInv, GuardedInv
<1>6. ASSUME NEW f \in 1..Q, ReHedge(f)
      PROVE  LegInv'
  <2>1. ReHedgeDoes(f)
    BY <1>6, ReHedgeEffect
  <2> QED BY <2>1, <1>0, Numbers, Partners, Guards DEF ReHedgeDoes, Hedged,
       LegInv, GuardedInv
<1>7. CASE NoReHedge
  <2>1. NoReHedgeDoes
    BY <1>7, NoReHedgeEffect
  <2>2. CASE UNCHANGED <<leg, st, traded, own, lastId, sold, unheard>>
    BY <1>0, Numbers, Partners, Guards, <2>1, <2>2 DEF NoReHedgeDoes, LegInv,
       GuardedInv
  <2>3. ASSUME NEW f \in 0..Q, Hedged(Partner(cur), f)
        PROVE  LegInv'
    BY <1>0, Numbers, Partners, Guards, <2>1, <2>3 DEF NoReHedgeDoes, Hedged,
       LegInv, GuardedInv
  <2> QED BY <2>1, <2>2, <2>3 DEF NoReHedgeDoes
<1>8. ASSUME NEW m \in 0..Q, NEW reply \in {"sold", "killed", "failed"},
             Flatten(m, reply)
      PROVE  LegInv'
  <2>1. FlattenDoes(m, reply)
    BY <1>8, FlattenEffect
  <2> QED BY <2>1, <1>0, Numbers, Partners, Guards DEF FlattenDoes, Sold,
       Cleared, LegInv, GuardedInv
<1>9. CASE EndPass
  BY <1>9, <1>0, Numbers, Partners, Guards DEF EndPass, Goto, setup, venueVars,
     bookVars, listVars, passVars, LegInv, GuardedInv
<1>10. ASSUME NEW a \in Firsts, EnterPair(a)
      PROVE  LegInv'
  <2>1. EnterPairDoes(a)
    BY <1>10, EnterPairEffect
  <2> QED BY <2>1, <1>0, Numbers, Partners, Guards DEF EnterPairDoes, Placed,
       LegInv, GuardedInv
<1>11. ASSUME NEW a \in Firsts, NEW s \in [Legs -> {"working", "done"}],
              EnterFails(a, s)
      PROVE  LegInv'
  <2>1. EnterFailsDoes(a, s)
    BY <1>11, EnterFailsEffect
  <2> QED BY <2>1, <1>0, Numbers, Partners, Guards DEF EnterFailsDoes, Placed,
       LegInv, GuardedInv
<1>12. ASSUME NEW o \in Ids, CancelOnLeg(o)
      PROVE  LegInv'
  <2>1. CancelOnLegDoes(o)
    BY <1>12, CancelOnLegEffect
  <2> QED BY <2>1, <1>0, Numbers, Partners, Guards DEF CancelOnLegDoes, Ended,
       OrderRead, LegInv, GuardedInv
<1>13. ASSUME NEW l \in Legs, NEW m \in 1..Q, NEW exitPair \in BOOLEAN,
              ExitLeg(l, m, exitPair)
      PROVE  LegInv'
  <2>1. ExitLegDoes(l, m, exitPair)
    BY <1>13, ExitLegEffect
  <2> QED BY <2>1, <1>0, Numbers, Partners, Guards DEF ExitLegDoes, Sold,
       Cleared, LegInv, GuardedInv
<1>21. ASSUME NEW l \in Legs, NEW m \in 1..Q, NEW exitPair \in BOOLEAN,
              ExitUnheard(l, m, exitPair)
      PROVE  LegInv'
  <2>1. ExitUnheardDoes(l, m)
    BY <1>21, ExitUnheardEffect
    <2> QED BY <2>1, <1>0, Numbers, Partners, Guards DEF ExitUnheardDoes,
       LegInv, GuardedInv
<1>14. ASSUME NEW o \in Ids, Trade(o)
      PROVE  LegInv'
  <2>1. TradeDoes(o)
    BY <1>14, TradeEffect
  <2> QED BY <2>1, <1>0, Numbers, Partners, Guards DEF TradeDoes, LegInv,
       GuardedInv
<1>15. ASSUME NEW o \in Ids, Expire(o)
      PROVE  LegInv'
  BY <1>15, <1>0, Numbers, Partners, Guards DEF Expire, setup, venueVars,
     bookVars, listVars, passVars, LegInv, GuardedInv
<1>16. ASSUME NEW o \in Ids, NEW n \in 1..Q, NEW complete \in BOOLEAN,
              FillEvent(o, n, complete)
      PROVE  LegInv'
  <2>1. FillEventDoes(o, n, complete)
    BY <1>16, FillEventEffect
  <2> QED BY <2>1, <1>0, Numbers, Partners, Guards DEF FillEventDoes,
       OrderRead, LegInv, GuardedInv
<1>17. CASE UNCHANGED vars
  BY <1>17 DEF vars, setup, venueVars, bookVars, listVars, passVars, LegInv,
     GuardedInv
<1>18. CASE PassSteps
  BY <1>18, <1>2, <1>3, <1>4, <1>5, <1>6, <1>7, <1>8, <1>9 DEF PassSteps
<1>19. CASE Viper
  BY <1>19, <1>10, <1>11, <1>12, <1>13, <1>21 DEF Viper
<1>20. CASE Venue
  BY <1>20, <1>14, <1>15, <1>16 DEF Venue
<1> QED BY <1>1, <1>17, <1>18, <1>19, <1>20 DEF Next

LEMMA SharesStep == TypeOK /\ FreshInv /\ SharesInv /\ [Next]_vars => SharesInv'
<1> SUFFICES ASSUME TypeOK, FreshInv, SharesInv, [Next]_vars PROVE SharesInv'
  OBVIOUS
<1>0. /\ guard \in [Legs -> 0..MaxOrders]
      /\ cur \in Legs
      /\ shares \in [Legs -> 0..Q]
      /\ confirmed \subseteq Legs
      /\ leg \in [Ids -> Legs]
      /\ traded \in [Ids -> 0..Q]
  BY DEF TypeOK
<1>1. CASE Begin
  BY <1>1, <1>0, Numbers, Partners, Guards DEF Begin, Goto, setup, venueVars,
     bookVars, listVars, passVars, SharesInv, OwnsGuard
<1>2. ASSUME NEW known \in BOOLEAN, ReadOpen(known)
      PROVE  SharesInv'
  BY <1>2, <1>0, Numbers, Partners, Guards DEF ReadOpen, Goto, ListedAs, setup,
     venueVars, bookVars, listVars, passVars, SharesInv, OwnsGuard
<1>3. ASSUME NEW o \in Ids, PassQuote(o)
      PROVE  SharesInv'
  <2>1. PassQuoteDoes(o)
    BY <1>3, PassQuoteEffect
  <2> QED BY <2>1, <1>0, Numbers, Partners, Guards DEF PassQuoteDoes, Ended,
       OrderRead, SharesInv, OwnsGuard
<1>4. CASE Collect
  <2>1. CollectDoes
    BY <1>4, CollectEffect
  <2> QED BY <2>1, <1>0, Numbers, Partners, Guards DEF CollectDoes, Cleared,
       SharesInv, OwnsGuard
<1>5. ASSUME NEW l \in Legs, StartRepair(l)
      PROVE  SharesInv'
  BY <1>5, <1>0, Numbers, Partners, Guards DEF StartRepair, Goto, setup,
     venueVars, bookVars, listVars, passVars, SharesInv, OwnsGuard
<1>6. ASSUME NEW f \in 1..Q, ReHedge(f)
      PROVE  SharesInv'
  <2>1. ReHedgeDoes(f)
    BY <1>6, ReHedgeEffect
  <2> QED BY <2>1, <1>0, Numbers, Partners, Guards DEF ReHedgeDoes, Hedged,
       SharesInv, OwnsGuard
<1>7. CASE NoReHedge
  <2>1. NoReHedgeDoes
    BY <1>7, NoReHedgeEffect
  <2>2. CASE UNCHANGED <<leg, st, traded, own, lastId, sold, unheard>>
    BY <1>0, Numbers, Partners, Guards, <2>1, <2>2 DEF NoReHedgeDoes,
       SharesInv, OwnsGuard
  <2>3. ASSUME NEW f \in 0..Q, Hedged(Partner(cur), f)
        PROVE  SharesInv'
    BY <1>0, Numbers, Partners, Guards, <2>1, <2>3 DEF NoReHedgeDoes, Hedged,
       SharesInv, OwnsGuard
  <2> QED BY <2>1, <2>2, <2>3 DEF NoReHedgeDoes
<1>8. ASSUME NEW m \in 0..Q, NEW reply \in {"sold", "killed", "failed"},
             Flatten(m, reply)
      PROVE  SharesInv'
  <2>1. FlattenDoes(m, reply)
    BY <1>8, FlattenEffect
  <2> QED BY <2>1, <1>0, Numbers, Partners, Guards DEF FlattenDoes, Sold,
       Cleared, SharesInv, OwnsGuard
<1>9. CASE EndPass
  BY <1>9, <1>0, Numbers, Partners, Guards DEF EndPass, Goto, setup, venueVars,
     bookVars, listVars, passVars, SharesInv, OwnsGuard
<1>10. ASSUME NEW a \in Firsts, EnterPair(a)
      PROVE  SharesInv'
  <2>1. EnterPairDoes(a)
    BY <1>10, EnterPairEffect
  <2> QED BY <2>1, <1>0, Numbers, Partners, Guards DEF EnterPairDoes, Placed,
       SharesInv, OwnsGuard
<1>11. ASSUME NEW a \in Firsts, NEW s \in [Legs -> {"working", "done"}],
              EnterFails(a, s)
      PROVE  SharesInv'
  <2>1. EnterFailsDoes(a, s)
    BY <1>11, EnterFailsEffect
  <2> QED BY <2>1, <1>0, Numbers, Partners, Guards DEF EnterFailsDoes, Placed,
       SharesInv, OwnsGuard
<1>12. ASSUME NEW o \in Ids, CancelOnLeg(o)
      PROVE  SharesInv'
  <2>1. CancelOnLegDoes(o)
    BY <1>12, CancelOnLegEffect
  <2> QED BY <2>1, <1>0, Numbers, Partners, Guards DEF CancelOnLegDoes, Ended,
       OrderRead, SharesInv, OwnsGuard
<1>13. ASSUME NEW l \in Legs, NEW m \in 1..Q, NEW exitPair \in BOOLEAN,
              ExitLeg(l, m, exitPair)
      PROVE  SharesInv'
  <2>1. ExitLegDoes(l, m, exitPair)
    BY <1>13, ExitLegEffect
  <2> QED BY <2>1, <1>0, Numbers, Partners, Guards DEF ExitLegDoes, Sold,
       Cleared, SharesInv, OwnsGuard
<1>21. ASSUME NEW l \in Legs, NEW m \in 1..Q, NEW exitPair \in BOOLEAN,
              ExitUnheard(l, m, exitPair)
      PROVE  SharesInv'
  <2>1. ExitUnheardDoes(l, m)
    BY <1>21, ExitUnheardEffect
    <2> QED BY <2>1, <1>0, Numbers, Partners, Guards DEF ExitUnheardDoes,
       SharesInv, OwnsGuard
<1>14. ASSUME NEW o \in Ids, Trade(o)
      PROVE  SharesInv'
  <2>1. TradeDoes(o)
    BY <1>14, TradeEffect
  <2> QED BY <2>1, <1>0, Numbers, Partners, Guards DEF TradeDoes, SharesInv,
       OwnsGuard
<1>15. ASSUME NEW o \in Ids, Expire(o)
      PROVE  SharesInv'
  BY <1>15, <1>0, Numbers, Partners, Guards DEF Expire, setup, venueVars,
     bookVars, listVars, passVars, SharesInv, OwnsGuard
<1>16. ASSUME NEW o \in Ids, NEW n \in 1..Q, NEW complete \in BOOLEAN,
              FillEvent(o, n, complete)
      PROVE  SharesInv'
  <2>1. FillEventDoes(o, n, complete)
    BY <1>16, FillEventEffect
  <2> QED BY <2>1, <1>0, Numbers, Partners, Guards DEF FillEventDoes,
       OrderRead, SharesInv, OwnsGuard
<1>17. CASE UNCHANGED vars
  BY <1>17 DEF vars, setup, venueVars, bookVars, listVars, passVars, SharesInv,
     OwnsGuard
<1>18. CASE PassSteps
  BY <1>18, <1>2, <1>3, <1>4, <1>5, <1>6, <1>7, <1>8, <1>9 DEF PassSteps
<1>19. CASE Viper
  BY <1>19, <1>10, <1>11, <1>12, <1>13, <1>21 DEF Viper
<1>20. CASE Venue
  BY <1>20, <1>14, <1>15, <1>16 DEF Venue
<1> QED BY <1>1, <1>17, <1>18, <1>19, <1>20 DEF Next

LEMMA LatestStep == TypeOK /\ FreshInv /\ CopiedInv /\ GuardedInv /\ LatestInv /\ [Next]_vars => LatestInv'
<1> SUFFICES ASSUME TypeOK, FreshInv, CopiedInv, GuardedInv, LatestInv, [Next]_vars PROVE LatestInv'
  OBVIOUS
<1>0. /\ lastId \in 0..MaxOrders
      /\ guard \in [Legs -> 0..MaxOrders]
      /\ cur \in Legs
      /\ leg \in [Ids -> Legs]
      /\ tracked \subseteq Ids
      /\ todo \subseteq Ids
  BY DEF TypeOK
<1>1. CASE Begin
  BY <1>1, <1>0, Numbers, Partners, Guards DEF Begin, Goto, setup, venueVars,
     bookVars, listVars, passVars, LatestInv, CopiedInv, GuardedInv
<1>2. ASSUME NEW known \in BOOLEAN, ReadOpen(known)
      PROVE  LatestInv'
  BY <1>2, <1>0, Numbers, Partners, Guards DEF ReadOpen, Goto, ListedAs, setup,
     venueVars, bookVars, listVars, passVars, LatestInv, CopiedInv, GuardedInv
<1>3. ASSUME NEW o \in Ids, PassQuote(o)
      PROVE  LatestInv'
  <2>1. PassQuoteDoes(o)
    BY <1>3, PassQuoteEffect
  <2> QED BY <2>1, <1>0, Numbers, Partners, Guards DEF PassQuoteDoes, Ended,
       OrderRead, LatestInv, CopiedInv, GuardedInv
<1>4. CASE Collect
  <2>1. CollectDoes
    BY <1>4, CollectEffect
  <2> QED BY <2>1, <1>0, Numbers, Partners, Guards DEF CollectDoes, Cleared,
       LatestInv, CopiedInv, GuardedInv
<1>5. ASSUME NEW l \in Legs, StartRepair(l)
      PROVE  LatestInv'
  BY <1>5, <1>0, Numbers, Partners, Guards DEF StartRepair, Goto, setup,
     venueVars, bookVars, listVars, passVars, LatestInv, CopiedInv, GuardedInv
<1>6. ASSUME NEW f \in 1..Q, ReHedge(f)
      PROVE  LatestInv'
  <2>1. ReHedgeDoes(f)
    BY <1>6, ReHedgeEffect
  <2> QED BY <2>1, <1>0, Numbers, Partners, Guards DEF ReHedgeDoes, Hedged,
       LatestInv, CopiedInv, GuardedInv
<1>7. CASE NoReHedge
  <2>1. NoReHedgeDoes
    BY <1>7, NoReHedgeEffect
  <2>2. CASE UNCHANGED <<leg, st, traded, own, lastId, sold, unheard>>
    BY <1>0, Numbers, Partners, Guards, <2>1, <2>2 DEF NoReHedgeDoes,
       LatestInv, CopiedInv, GuardedInv
  <2>3. ASSUME NEW f \in 0..Q, Hedged(Partner(cur), f)
        PROVE  LatestInv'
    BY <1>0, Numbers, Partners, Guards, <2>1, <2>3 DEF NoReHedgeDoes, Hedged,
       LatestInv, CopiedInv, GuardedInv
  <2> QED BY <2>1, <2>2, <2>3 DEF NoReHedgeDoes
<1>8. ASSUME NEW m \in 0..Q, NEW reply \in {"sold", "killed", "failed"},
             Flatten(m, reply)
      PROVE  LatestInv'
  <2>1. FlattenDoes(m, reply)
    BY <1>8, FlattenEffect
  <2> QED BY <2>1, <1>0, Numbers, Partners, Guards DEF FlattenDoes, Sold,
       Cleared, LatestInv, CopiedInv, GuardedInv
<1>9. CASE EndPass
  BY <1>9, <1>0, Numbers, Partners, Guards DEF EndPass, Goto, setup, venueVars,
     bookVars, listVars, passVars, LatestInv, CopiedInv, GuardedInv
<1>10. ASSUME NEW a \in Firsts, EnterPair(a)
      PROVE  LatestInv'
  <2>1. EnterPairDoes(a)
    BY <1>10, EnterPairEffect
  <2>2. /\ a \in Legs
        /\ todo' = {}
        /\ tracked' = tracked \cup {lastId + 1, lastId + 2}
        /\ guard'[a] = lastId + 1
        /\ guard'[Partner(a)] = lastId + 2
        /\ leg'[lastId + 1] = a
        /\ leg'[lastId + 2] = Partner(a)
    BY <2>1 DEF EnterPairDoes, Placed, CopiedInv
  <2>3. ASSUME NEW o \in tracked
        PROVE  guard'[leg'[o]] >= o
    <3>1. o \in 1..lastId /\ o \in Ids
      BY <1>0 DEF CopiedInv
    <3>2. leg'[o] = leg[o] /\ leg[o] \in Legs
      BY <1>0, <2>1, <3>1 DEF EnterPairDoes, Placed
    <3>3. leg[o] = a \/ leg[o] = Partner(a)
      BY <2>2, <3>2, Partners
    <3> QED BY <1>0, <2>2, <3>1, <3>2, <3>3
  <2> QED BY <1>0, <2>2, <2>3 DEF LatestInv
<1>11. ASSUME NEW a \in Firsts, NEW s \in [Legs -> {"working", "done"}],
              EnterFails(a, s)
      PROVE  LatestInv'
  <2>1. EnterFailsDoes(a, s)
    BY <1>11, EnterFailsEffect
  <2> QED BY <2>1, <1>0, Numbers, Partners, Guards DEF EnterFailsDoes, Placed,
       LatestInv, CopiedInv, GuardedInv
<1>12. ASSUME NEW o \in Ids, CancelOnLeg(o)
      PROVE  LatestInv'
  <2>1. CancelOnLegDoes(o)
    BY <1>12, CancelOnLegEffect
  <2> QED BY <2>1, <1>0, Numbers, Partners, Guards DEF CancelOnLegDoes, Ended,
       OrderRead, LatestInv, CopiedInv, GuardedInv
<1>13. ASSUME NEW l \in Legs, NEW m \in 1..Q, NEW exitPair \in BOOLEAN,
              ExitLeg(l, m, exitPair)
      PROVE  LatestInv'
  <2>1. ExitLegDoes(l, m, exitPair)
    BY <1>13, ExitLegEffect
  <2> QED BY <2>1, <1>0, Numbers, Partners, Guards DEF ExitLegDoes, Sold,
       Cleared, LatestInv, CopiedInv, GuardedInv
<1>21. ASSUME NEW l \in Legs, NEW m \in 1..Q, NEW exitPair \in BOOLEAN,
              ExitUnheard(l, m, exitPair)
      PROVE  LatestInv'
  <2>1. ExitUnheardDoes(l, m)
    BY <1>21, ExitUnheardEffect
    <2> QED BY <2>1, <1>0, Numbers, Partners, Guards DEF ExitUnheardDoes,
       LatestInv, CopiedInv, GuardedInv
<1>14. ASSUME NEW o \in Ids, Trade(o)
      PROVE  LatestInv'
  <2>1. TradeDoes(o)
    BY <1>14, TradeEffect
  <2> QED BY <2>1, <1>0, Numbers, Partners, Guards DEF TradeDoes, LatestInv,
       CopiedInv, GuardedInv
<1>15. ASSUME NEW o \in Ids, Expire(o)
      PROVE  LatestInv'
  BY <1>15, <1>0, Numbers, Partners, Guards DEF Expire, setup, venueVars,
     bookVars, listVars, passVars, LatestInv, CopiedInv, GuardedInv
<1>16. ASSUME NEW o \in Ids, NEW n \in 1..Q, NEW complete \in BOOLEAN,
              FillEvent(o, n, complete)
      PROVE  LatestInv'
  <2>1. FillEventDoes(o, n, complete)
    BY <1>16, FillEventEffect
  <2> QED BY <2>1, <1>0, Numbers, Partners, Guards DEF FillEventDoes,
       OrderRead, LatestInv, CopiedInv, GuardedInv
<1>17. CASE UNCHANGED vars
  BY <1>17 DEF vars, setup, venueVars, bookVars, listVars, passVars, LatestInv,
     CopiedInv, GuardedInv
<1>18. CASE PassSteps
  BY <1>18, <1>2, <1>3, <1>4, <1>5, <1>6, <1>7, <1>8, <1>9 DEF PassSteps
<1>19. CASE Viper
  BY <1>19, <1>10, <1>11, <1>12, <1>13, <1>21 DEF Viper
<1>20. CASE Venue
  BY <1>20, <1>14, <1>15, <1>16 DEF Venue
<1> QED BY <1>1, <1>17, <1>18, <1>19, <1>20 DEF Next

LEMMA UnsoldStep == TypeOK /\ FreshInv /\ CopiedInv /\ GuardedInv /\ LegInv /\ LatestInv /\ UnsoldInv /\ [Next]_vars => UnsoldInv'
<1> SUFFICES ASSUME TypeOK, FreshInv, CopiedInv, GuardedInv, LegInv, LatestInv, UnsoldInv, [Next]_vars PROVE UnsoldInv'
  OBVIOUS
<1>0. /\ lastId \in 0..MaxOrders
      /\ guard \in [Legs -> 0..MaxOrders]
      /\ cur \in Legs
      /\ leg \in [Ids -> Legs]
      /\ tracked \subseteq Ids
      /\ todo \subseteq Ids
      /\ sold \in [Ids -> Nat]
  BY DEF TypeOK
<1>1. CASE Begin
  BY <1>1, <1>0, Numbers, Partners, Guards DEF Begin, Goto, setup, venueVars,
     bookVars, listVars, passVars, UnsoldInv, CopiedInv, GuardedInv, LegInv,
     FreshInv
<1>2. ASSUME NEW known \in BOOLEAN, ReadOpen(known)
      PROVE  UnsoldInv'
  BY <1>2, <1>0, Numbers, Partners, Guards DEF ReadOpen, Goto, ListedAs, setup,
     venueVars, bookVars, listVars, passVars, UnsoldInv, CopiedInv, GuardedInv,
     LegInv, FreshInv
<1>3. ASSUME NEW o \in Ids, PassQuote(o)
      PROVE  UnsoldInv'
  <2>1. PassQuoteDoes(o)
    BY <1>3, PassQuoteEffect
  <2> QED BY <2>1, <1>0, Numbers, Partners, Guards DEF PassQuoteDoes, Ended,
       OrderRead, UnsoldInv, CopiedInv, GuardedInv, LegInv, FreshInv
<1>4. CASE Collect
  <2>1. CollectDoes
    BY <1>4, CollectEffect
  <2> QED BY <2>1, <1>0, Numbers, Partners, Guards DEF CollectDoes, Cleared,
       UnsoldInv, CopiedInv, GuardedInv, LegInv, FreshInv
<1>5. ASSUME NEW l \in Legs, StartRepair(l)
      PROVE  UnsoldInv'
  BY <1>5, <1>0, Numbers, Partners, Guards DEF StartRepair, Goto, setup,
     venueVars, bookVars, listVars, passVars, UnsoldInv, CopiedInv, GuardedInv,
     LegInv, FreshInv
<1>6. ASSUME NEW f \in 1..Q, ReHedge(f)
      PROVE  UnsoldInv'
  <2>1. ReHedgeDoes(f)
    BY <1>6, ReHedgeEffect
  <2> QED BY <2>1, <1>0, Numbers, Partners, Guards DEF ReHedgeDoes, Hedged,
       UnsoldInv, CopiedInv, GuardedInv, LegInv, FreshInv
<1>7. CASE NoReHedge
  <2>1. NoReHedgeDoes
    BY <1>7, NoReHedgeEffect
  <2>2. CASE UNCHANGED <<leg, st, traded, own, lastId, sold, unheard>>
    BY <1>0, Numbers, Partners, Guards, <2>1, <2>2 DEF NoReHedgeDoes,
       UnsoldInv, CopiedInv, GuardedInv, LegInv, FreshInv
  <2>3. ASSUME NEW f \in 0..Q, Hedged(Partner(cur), f)
        PROVE  UnsoldInv'
    BY <1>0, Numbers, Partners, Guards, <2>1, <2>3 DEF NoReHedgeDoes, Hedged,
       UnsoldInv, CopiedInv, GuardedInv, LegInv, FreshInv
  <2> QED BY <2>1, <2>2, <2>3 DEF NoReHedgeDoes
<1>8. ASSUME NEW m \in 0..Q, NEW reply \in {"sold", "killed", "failed"},
             Flatten(m, reply)
      PROVE  UnsoldInv'
  <2>1. FlattenDoes(m, reply)
    BY <1>8, FlattenEffect
  <2> QED BY <2>1, <1>0, Numbers, Partners, Guards DEF FlattenDoes, Sold,
       Cleared, UnsoldInv, CopiedInv, GuardedInv, LegInv, FreshInv
<1>9. CASE EndPass
  BY <1>9, <1>0, Numbers, Partners, Guards DEF EndPass, Goto, setup, venueVars,
     bookVars, listVars, passVars, UnsoldInv, CopiedInv, GuardedInv, LegInv,
     FreshInv
<1>10. ASSUME NEW a \in Firsts, EnterPair(a)
      PROVE  UnsoldInv'
  <2>1. EnterPairDoes(a)
    BY <1>10, EnterPairEffect
  <2> QED BY <2>1, <1>0, Numbers, Partners, Guards DEF EnterPairDoes, Placed,
       UnsoldInv, CopiedInv, GuardedInv, LegInv, FreshInv
<1>11. ASSUME NEW a \in Firsts, NEW s \in [Legs -> {"working", "done"}],
              EnterFails(a, s)
      PROVE  UnsoldInv'
  <2>1. EnterFailsDoes(a, s)
    BY <1>11, EnterFailsEffect
  <2> QED BY <2>1, <1>0, Numbers, Partners, Guards DEF EnterFailsDoes, Placed,
       UnsoldInv, CopiedInv, GuardedInv, LegInv, FreshInv
<1>12. ASSUME NEW o \in Ids, CancelOnLeg(o)
      PROVE  UnsoldInv'
  <2>1. CancelOnLegDoes(o)
    BY <1>12, CancelOnLegEffect
  <2> QED BY <2>1, <1>0, Numbers, Partners, Guards DEF CancelOnLegDoes, Ended,
       OrderRead, UnsoldInv, CopiedInv, GuardedInv, LegInv, FreshInv
<1>13. ASSUME NEW l \in Legs, NEW m \in 1..Q, NEW exitPair \in BOOLEAN,
              ExitLeg(l, m, exitPair)
      PROVE  UnsoldInv'
  <2>1. ExitLegDoes(l, m, exitPair)
    BY <1>13, ExitLegEffect
  <2> QED BY <2>1, <1>0, Numbers, Partners, Guards DEF ExitLegDoes, Sold,
       Cleared, UnsoldInv, CopiedInv, GuardedInv, LegInv, FreshInv
<1>21. ASSUME NEW l \in Legs, NEW m \in 1..Q, NEW exitPair \in BOOLEAN,
              ExitUnheard(l, m, exitPair)
      PROVE  UnsoldInv'
  <2>1. ExitUnheardDoes(l, m)
    BY <1>21, ExitUnheardEffect
    <2> QED BY <2>1, <1>0, Numbers, Partners, Guards DEF ExitUnheardDoes,
       UnsoldInv, CopiedInv, GuardedInv, LegInv, FreshInv
<1>14. ASSUME NEW o \in Ids, Trade(o)
      PROVE  UnsoldInv'
  <2>1. TradeDoes(o)
    BY <1>14, TradeEffect
  <2> QED BY <2>1, <1>0, Numbers, Partners, Guards DEF TradeDoes, UnsoldInv,
       CopiedInv, GuardedInv, LegInv, FreshInv
<1>15. ASSUME NEW o \in Ids, Expire(o)
      PROVE  UnsoldInv'
  BY <1>15, <1>0, Numbers, Partners, Guards DEF Expire, setup, venueVars,
     bookVars, listVars, passVars, UnsoldInv, CopiedInv, GuardedInv, LegInv,
     FreshInv
<1>16. ASSUME NEW o \in Ids, NEW n \in 1..Q, NEW complete \in BOOLEAN,
              FillEvent(o, n, complete)
      PROVE  UnsoldInv'
  <2>1. FillEventDoes(o, n, complete)
    BY <1>16, FillEventEffect
  <2> QED BY <2>1, <1>0, Numbers, Partners, Guards DEF FillEventDoes,
       OrderRead, UnsoldInv, CopiedInv, GuardedInv, LegInv, FreshInv
<1>17. CASE UNCHANGED vars
  BY <1>17 DEF vars, setup, venueVars, bookVars, listVars, passVars, UnsoldInv,
     CopiedInv, GuardedInv, LegInv, FreshInv
<1>18. CASE PassSteps
  BY <1>18, <1>2, <1>3, <1>4, <1>5, <1>6, <1>7, <1>8, <1>9 DEF PassSteps
<1>19. CASE Viper
  BY <1>19, <1>10, <1>11, <1>12, <1>13, <1>21 DEF Viper
<1>20. CASE Venue
  BY <1>20, <1>14, <1>15, <1>16 DEF Venue
<1> QED BY <1>1, <1>17, <1>18, <1>19, <1>20 DEF Next

LEMMA OwnedStep == TypeOK /\ FreshInv /\ CopiedInv /\ GuardedInv /\ LegInv /\ LatestInv /\ SharesInv /\ UnsoldInv /\ OwnedInv /\ [Next]_vars => OwnedInv'
<1> SUFFICES ASSUME TypeOK, FreshInv, CopiedInv, GuardedInv, LegInv, LatestInv, SharesInv, UnsoldInv, OwnedInv, [Next]_vars PROVE OwnedInv'
  OBVIOUS
<1>0. /\ lastId \in 0..MaxOrders
      /\ guard \in [Legs -> 0..MaxOrders]
      /\ cur \in Legs
      /\ leg \in [Ids -> Legs]
      /\ tracked \subseteq Ids
      /\ todo \subseteq Ids
      /\ sold \in [Ids -> Nat]
      /\ shares \in [Legs -> 0..Q]
      /\ confirmed \subseteq Legs
      /\ traded \in [Ids -> 0..Q]
  BY DEF TypeOK
<1>1. CASE Begin
  BY <1>1, <1>0, Numbers, Partners, Guards DEF Begin, Goto, setup, venueVars,
     bookVars, listVars, passVars, OwnedInv, OwnsGuard, UnsoldInv,
     LatestInv, LegInv, SharesInv, FreshInv, GuardedInv
<1>2. ASSUME NEW known \in BOOLEAN, ReadOpen(known)
      PROVE  OwnedInv'
  BY <1>2, <1>0, Numbers, Partners, Guards DEF ReadOpen, Goto, ListedAs, setup,
     venueVars, bookVars, listVars, passVars, OwnedInv, OwnsGuard,
     UnsoldInv, LatestInv, LegInv, SharesInv, FreshInv, GuardedInv
<1>3. ASSUME NEW o \in Ids, PassQuote(o)
      PROVE  OwnedInv'
  <2>1. PassQuoteDoes(o)
    BY <1>3, PassQuoteEffect
  <2> QED BY <2>1, <1>0, Numbers, Partners, Guards DEF PassQuoteDoes, Ended,
       OrderRead, OwnedInv, OwnsGuard, UnsoldInv, LatestInv, LegInv,
       SharesInv, FreshInv, GuardedInv
<1>4. CASE Collect
  <2>1. CollectDoes
    BY <1>4, CollectEffect
  <2> QED BY <2>1, <1>0, Numbers, Partners, Guards DEF CollectDoes, Cleared,
       OwnedInv, OwnsGuard, UnsoldInv, LatestInv, LegInv, SharesInv,
       FreshInv, GuardedInv
<1>5. ASSUME NEW l \in Legs, StartRepair(l)
      PROVE  OwnedInv'
  BY <1>5, <1>0, Numbers, Partners, Guards DEF StartRepair, Goto, setup,
     venueVars, bookVars, listVars, passVars, OwnedInv, OwnsGuard,
     UnsoldInv, LatestInv, LegInv, SharesInv, FreshInv, GuardedInv
<1>6. ASSUME NEW f \in 1..Q, ReHedge(f)
      PROVE  OwnedInv'
  <2>1. ReHedgeDoes(f)
    BY <1>6, ReHedgeEffect
  <2> QED BY <2>1, <1>0, Numbers, Partners, Guards DEF ReHedgeDoes, Hedged,
       OwnedInv, OwnsGuard, UnsoldInv, LatestInv, LegInv, SharesInv,
       FreshInv, GuardedInv
<1>7. CASE NoReHedge
  <2>1. NoReHedgeDoes
    BY <1>7, NoReHedgeEffect
  <2>2. CASE UNCHANGED <<leg, st, traded, own, lastId, sold, unheard>>
    BY <1>0, Numbers, Partners, Guards, <2>1, <2>2 DEF NoReHedgeDoes,
       OwnedInv, OwnsGuard, UnsoldInv, LatestInv, LegInv, SharesInv,
       FreshInv, GuardedInv
  <2>3. ASSUME NEW f \in 0..Q, Hedged(Partner(cur), f)
        PROVE  OwnedInv'
    BY <1>0, Numbers, Partners, Guards, <2>1, <2>3 DEF NoReHedgeDoes, Hedged,
       OwnedInv, OwnsGuard, UnsoldInv, LatestInv, LegInv, SharesInv,
       FreshInv, GuardedInv
  <2> QED BY <2>1, <2>2, <2>3 DEF NoReHedgeDoes
<1>8. ASSUME NEW m \in 0..Q, NEW reply \in {"sold", "killed", "failed"},
             Flatten(m, reply)
      PROVE  OwnedInv'
  <2>1. FlattenDoes(m, reply)
    BY <1>8, FlattenEffect
  <2> QED BY <2>1, <1>0, Numbers, Partners, Guards DEF FlattenDoes, Sold,
       Cleared, OwnedInv, OwnsGuard, UnsoldInv, LatestInv, LegInv,
       SharesInv, FreshInv, GuardedInv
<1>9. CASE EndPass
  BY <1>9, <1>0, Numbers, Partners, Guards DEF EndPass, Goto, setup, venueVars,
     bookVars, listVars, passVars, OwnedInv, OwnsGuard, UnsoldInv,
     LatestInv, LegInv, SharesInv, FreshInv, GuardedInv
<1>10. ASSUME NEW a \in Firsts, EnterPair(a)
      PROVE  OwnedInv'
  <2>1. EnterPairDoes(a)
    BY <1>10, EnterPairEffect
  <2> QED BY <2>1, <1>0, Numbers, Partners, Guards DEF EnterPairDoes, Placed,
       OwnedInv, OwnsGuard, UnsoldInv, LatestInv, LegInv, SharesInv,
       FreshInv, GuardedInv
<1>11. ASSUME NEW a \in Firsts, NEW s \in [Legs -> {"working", "done"}],
              EnterFails(a, s)
      PROVE  OwnedInv'
  <2>1. EnterFailsDoes(a, s)
    BY <1>11, EnterFailsEffect
  <2> QED BY <2>1, <1>0, Numbers, Partners, Guards DEF EnterFailsDoes, Placed,
       OwnedInv, OwnsGuard, UnsoldInv, LatestInv, LegInv, SharesInv,
       FreshInv, GuardedInv
<1>12. ASSUME NEW o \in Ids, CancelOnLeg(o)
      PROVE  OwnedInv'
  <2>1. CancelOnLegDoes(o)
    BY <1>12, CancelOnLegEffect
  <2> QED BY <2>1, <1>0, Numbers, Partners, Guards DEF CancelOnLegDoes, Ended,
       OrderRead, OwnedInv, OwnsGuard, UnsoldInv, LatestInv, LegInv,
       SharesInv, FreshInv, GuardedInv
<1>13. ASSUME NEW l \in Legs, NEW m \in 1..Q, NEW exitPair \in BOOLEAN,
              ExitLeg(l, m, exitPair)
      PROVE  OwnedInv'
  <2>1. ExitLegDoes(l, m, exitPair)
    BY <1>13, ExitLegEffect
  <2> QED BY <2>1, <1>0, Numbers, Partners, Guards DEF ExitLegDoes, Sold,
       Cleared, OwnedInv, OwnsGuard, UnsoldInv, LatestInv, LegInv,
       SharesInv, FreshInv, GuardedInv
<1>21. ASSUME NEW l \in Legs, NEW m \in 1..Q, NEW exitPair \in BOOLEAN,
              ExitUnheard(l, m, exitPair)
      PROVE  OwnedInv'
  <2>1. ExitUnheardDoes(l, m)
    BY <1>21, ExitUnheardEffect
    <2> QED BY <2>1, <1>0, Numbers, Partners, Guards DEF ExitUnheardDoes,
       OwnedInv, OwnsGuard, UnsoldInv, LatestInv, LegInv, SharesInv,
       FreshInv, GuardedInv
<1>14. ASSUME NEW o \in Ids, Trade(o)
      PROVE  OwnedInv'
  <2>1. TradeDoes(o)
    BY <1>14, TradeEffect
  <2> QED BY <2>1, <1>0, Numbers, Partners, Guards DEF TradeDoes,
       OwnedInv, OwnsGuard, UnsoldInv, LatestInv, LegInv, SharesInv,
       FreshInv, GuardedInv
<1>15. ASSUME NEW o \in Ids, Expire(o)
      PROVE  OwnedInv'
  BY <1>15, <1>0, Numbers, Partners, Guards DEF Expire, setup, venueVars,
     bookVars, listVars, passVars, OwnedInv, OwnsGuard, UnsoldInv,
     LatestInv, LegInv, SharesInv, FreshInv, GuardedInv
<1>16. ASSUME NEW o \in Ids, NEW n \in 1..Q, NEW complete \in BOOLEAN,
              FillEvent(o, n, complete)
      PROVE  OwnedInv'
  <2>1. FillEventDoes(o, n, complete)
    BY <1>16, FillEventEffect
  <2> QED BY <2>1, <1>0, Numbers, Partners, Guards DEF FillEventDoes,
       OrderRead, OwnedInv, OwnsGuard, UnsoldInv, LatestInv, LegInv,
       SharesInv, FreshInv, GuardedInv
<1>17. CASE UNCHANGED vars
  BY <1>17 DEF vars, setup, venueVars, bookVars, listVars, passVars,
     OwnedInv, OwnsGuard, UnsoldInv, LatestInv, LegInv, SharesInv,
     FreshInv, GuardedInv
<1>18. CASE PassSteps
  BY <1>18, <1>2, <1>3, <1>4, <1>5, <1>6, <1>7, <1>8, <1>9 DEF PassSteps
<1>19. CASE Viper
  BY <1>19, <1>10, <1>11, <1>12, <1>13, <1>21 DEF Viper
<1>20. CASE Venue
  BY <1>20, <1>14, <1>15, <1>16 DEF Venue
<1> QED BY <1>1, <1>17, <1>18, <1>19, <1>20 DEF Next

\* Where the account shows both legs, what a leg's guard still has unsold is
\* in the account, or left it unheard.
StockInv == ~netted => \A l \in Legs : own[l] >= 0
UnsoldOwn ==
  ~netted => \A l \in Legs :
    guard[l] # 0 => own[l] + unheard[guard[l]] >= traded[guard[l]] - sold[guard[l]]

\* Nothing is collected before the repair, and the leg in hand is.
CollectedInv ==
  /\ pc \in {"idle", "listing", "pass1"} => \A l \in Legs : orphans[l] = 0
  /\ pc \in {"hedge", "flatten"} => orphans[cur] > 0

\* Where the account shows both legs: what was seen held when the pass began,
\* or is collected as naked, is there, and every leg whose guard was confirmed
\* by then was seen held, unless its last flatten was reported killed or an
\* exit of it sold unheard.
SeenInv ==
  ~netted =>
    /\ \A l \in Legs : orphans[l] > 0 => own[l] > 0
    /\ pc \in {"listing", "pass1"} =>
         paired \subseteq held /\ \A l \in held : own[l] > 0

LEMMA OwnInit == Init => StockInv /\ UnsoldOwn /\ CollectedInv /\ SeenInv
  BY DEF Init, StockInv, UnsoldOwn, CollectedInv, SeenInv

LEMMA StockStep == TypeOK /\ FreshInv /\ StockInv /\ [Next]_vars => StockInv'
<1> SUFFICES ASSUME TypeOK, FreshInv, StockInv, [Next]_vars PROVE StockInv'
  OBVIOUS
<1>0. /\ own \in [Legs -> Int]
      /\ cur \in Legs
      /\ leg \in [Ids -> Legs]
  BY DEF TypeOK
<1>1. CASE Begin
  BY <1>1, <1>0, Numbers, Partners, Guards DEF Begin, Goto, setup, venueVars,
     bookVars, listVars, passVars, StockInv, Max2
<1>2. ASSUME NEW known \in BOOLEAN, ReadOpen(known)
      PROVE  StockInv'
  BY <1>2, <1>0, Numbers, Partners, Guards DEF ReadOpen, Goto, ListedAs, setup,
     venueVars, bookVars, listVars, passVars, StockInv, Max2
<1>3. ASSUME NEW o \in Ids, PassQuote(o)
      PROVE  StockInv'
  <2>1. PassQuoteDoes(o)
    BY <1>3, PassQuoteEffect
  <2> QED BY <2>1, <1>0, Numbers, Partners, Guards DEF PassQuoteDoes, Ended,
       OrderRead, StockInv, Max2
<1>4. CASE Collect
  <2>1. CollectDoes
    BY <1>4, CollectEffect
  <2> QED BY <2>1, <1>0, Numbers, Partners, Guards DEF CollectDoes, Cleared,
       StockInv, Max2
<1>5. ASSUME NEW l \in Legs, StartRepair(l)
      PROVE  StockInv'
  BY <1>5, <1>0, Numbers, Partners, Guards DEF StartRepair, Goto, setup,
     venueVars, bookVars, listVars, passVars, StockInv, Max2
<1>6. ASSUME NEW f \in 1..Q, ReHedge(f)
      PROVE  StockInv'
  <2>1. ReHedgeDoes(f)
    BY <1>6, ReHedgeEffect
  <2> QED BY <2>1, <1>0, Numbers, Partners, Guards DEF ReHedgeDoes, Hedged,
       StockInv, Max2
<1>7. CASE NoReHedge
  <2>1. NoReHedgeDoes
    BY <1>7, NoReHedgeEffect
  <2>2. CASE UNCHANGED <<leg, st, traded, own, lastId, sold, unheard>>
    BY <1>0, Numbers, Partners, Guards, <2>1, <2>2 DEF NoReHedgeDoes, StockInv,
       Max2
  <2>3. ASSUME NEW f \in 0..Q, Hedged(Partner(cur), f)
        PROVE  StockInv'
    BY <1>0, Numbers, Partners, Guards, <2>1, <2>3 DEF NoReHedgeDoes, Hedged,
       StockInv, Max2
  <2> QED BY <2>1, <2>2, <2>3 DEF NoReHedgeDoes
<1>8. ASSUME NEW m \in 0..Q, NEW reply \in {"sold", "killed", "failed"},
             Flatten(m, reply)
      PROVE  StockInv'
  <2>1. FlattenDoes(m, reply)
    BY <1>8, FlattenEffect
  <2> QED BY <2>1, <1>0, Numbers, Partners, Guards DEF FlattenDoes, Sold,
       Cleared, StockInv, Max2
<1>9. CASE EndPass
  BY <1>9, <1>0, Numbers, Partners, Guards DEF EndPass, Goto, setup, venueVars,
     bookVars, listVars, passVars, StockInv, Max2
<1>10. ASSUME NEW a \in Firsts, EnterPair(a)
      PROVE  StockInv'
  <2>1. EnterPairDoes(a)
    BY <1>10, EnterPairEffect
  <2> QED BY <2>1, <1>0, Numbers, Partners, Guards DEF EnterPairDoes, Placed,
       StockInv, Max2
<1>11. ASSUME NEW a \in Firsts, NEW s \in [Legs -> {"working", "done"}],
              EnterFails(a, s)
      PROVE  StockInv'
  <2>1. EnterFailsDoes(a, s)
    BY <1>11, EnterFailsEffect
  <2> QED BY <2>1, <1>0, Numbers, Partners, Guards DEF EnterFailsDoes, Placed,
       StockInv, Max2
<1>12. ASSUME NEW o \in Ids, CancelOnLeg(o)
      PROVE  StockInv'
  <2>1. CancelOnLegDoes(o)
    BY <1>12, CancelOnLegEffect
  <2> QED BY <2>1, <1>0, Numbers, Partners, Guards DEF CancelOnLegDoes, Ended,
       OrderRead, StockInv, Max2
<1>13. ASSUME NEW l \in Legs, NEW m \in 1..Q, NEW exitPair \in BOOLEAN,
              ExitLeg(l, m, exitPair)
      PROVE  StockInv'
  <2>1. ExitLegDoes(l, m, exitPair)
    BY <1>13, ExitLegEffect
  <2> QED BY <2>1, <1>0, Numbers, Partners, Guards DEF ExitLegDoes, Sold,
       Cleared, StockInv, Max2
<1>21. ASSUME NEW l \in Legs, NEW m \in 1..Q, NEW exitPair \in BOOLEAN,
              ExitUnheard(l, m, exitPair)
      PROVE  StockInv'
  <2>1. ExitUnheardDoes(l, m)
    BY <1>21, ExitUnheardEffect
    <2> QED BY <2>1, <1>0, Numbers, Partners, Guards DEF ExitUnheardDoes,
       StockInv, Max2
<1>14. ASSUME NEW o \in Ids, Trade(o)
      PROVE  StockInv'
  <2>1. TradeDoes(o)
    BY <1>14, TradeEffect
  <2> QED BY <2>1, <1>0, Numbers, Partners, Guards DEF TradeDoes, StockInv, Max2
<1>15. ASSUME NEW o \in Ids, Expire(o)
      PROVE  StockInv'
  BY <1>15, <1>0, Numbers, Partners, Guards DEF Expire, setup, venueVars,
     bookVars, listVars, passVars, StockInv, Max2
<1>16. ASSUME NEW o \in Ids, NEW n \in 1..Q, NEW complete \in BOOLEAN,
              FillEvent(o, n, complete)
      PROVE  StockInv'
  <2>1. FillEventDoes(o, n, complete)
    BY <1>16, FillEventEffect
  <2> QED BY <2>1, <1>0, Numbers, Partners, Guards DEF FillEventDoes,
       OrderRead, StockInv, Max2
<1>17. CASE UNCHANGED vars
  BY <1>17 DEF vars, setup, venueVars, bookVars, listVars, passVars, StockInv,
     Max2
<1>18. CASE PassSteps
  BY <1>18, <1>2, <1>3, <1>4, <1>5, <1>6, <1>7, <1>8, <1>9 DEF PassSteps
<1>19. CASE Viper
  BY <1>19, <1>10, <1>11, <1>12, <1>13, <1>21 DEF Viper
<1>20. CASE Venue
  BY <1>20, <1>14, <1>15, <1>16 DEF Venue
<1> QED BY <1>1, <1>17, <1>18, <1>19, <1>20 DEF Next

LEMMA UnsoldOwnStep == TypeOK /\ FreshInv /\ CopiedInv /\ GuardedInv /\ LegInv /\ StockInv /\ UnsoldOwn /\ [Next]_vars => UnsoldOwn'
<1> SUFFICES ASSUME TypeOK, FreshInv, CopiedInv, GuardedInv, LegInv, StockInv, UnsoldOwn, [Next]_vars PROVE UnsoldOwn'
  OBVIOUS
<1>0. /\ own \in [Legs -> Int]
      /\ cur \in Legs
      /\ leg \in [Ids -> Legs]
      /\ guard \in [Legs -> 0..MaxOrders]
      /\ traded \in [Ids -> 0..Q]
      /\ sold \in [Ids -> Nat]
      /\ unheard \in [Ids -> 0..MaxUnheard]
      /\ lastId \in 0..MaxOrders
  BY DEF TypeOK
<1>1. CASE Begin
  BY <1>1, <1>0, Numbers, Partners, Guards DEF Begin, Goto, setup, venueVars,
     bookVars, listVars, passVars, StockInv, UnsoldOwn, LegInv, GuardedInv,
     FreshInv
<1>2. ASSUME NEW known \in BOOLEAN, ReadOpen(known)
      PROVE  UnsoldOwn'
  BY <1>2, <1>0, Numbers, Partners, Guards DEF ReadOpen, Goto, ListedAs, setup,
     venueVars, bookVars, listVars, passVars, StockInv, UnsoldOwn, LegInv,
     GuardedInv, FreshInv
<1>3. ASSUME NEW o \in Ids, PassQuote(o)
      PROVE  UnsoldOwn'
  <2>1. PassQuoteDoes(o)
    BY <1>3, PassQuoteEffect
  <2> QED BY <2>1, <1>0, Numbers, Partners, Guards DEF PassQuoteDoes, Ended,
       OrderRead, StockInv, UnsoldOwn, LegInv, GuardedInv, FreshInv
<1>4. CASE Collect
  <2>1. CollectDoes
    BY <1>4, CollectEffect
  <2> QED BY <2>1, <1>0, Numbers, Partners, Guards DEF CollectDoes, Cleared,
       StockInv, UnsoldOwn, LegInv, GuardedInv, FreshInv
<1>5. ASSUME NEW l \in Legs, StartRepair(l)
      PROVE  UnsoldOwn'
  BY <1>5, <1>0, Numbers, Partners, Guards DEF StartRepair, Goto, setup,
     venueVars, bookVars, listVars, passVars, StockInv, UnsoldOwn, LegInv,
     GuardedInv, FreshInv
<1>6. ASSUME NEW f \in 1..Q, ReHedge(f)
      PROVE  UnsoldOwn'
  <2>1. ReHedgeDoes(f)
    BY <1>6, ReHedgeEffect
  <2> QED BY <2>1, <1>0, Numbers, Partners, Guards DEF ReHedgeDoes, Hedged,
       StockInv, UnsoldOwn, LegInv, GuardedInv, FreshInv
<1>7. CASE NoReHedge
  <2>1. NoReHedgeDoes
    BY <1>7, NoReHedgeEffect
  <2>2. CASE UNCHANGED <<leg, st, traded, own, lastId, sold, unheard>>
    BY <1>0, Numbers, Partners, Guards, <2>1, <2>2 DEF NoReHedgeDoes, StockInv,
       UnsoldOwn, LegInv, GuardedInv, FreshInv
  <2>3. ASSUME NEW f \in 0..Q, Hedged(Partner(cur), f)
        PROVE  UnsoldOwn'
    BY <1>0, Numbers, Partners, Guards, <2>1, <2>3 DEF NoReHedgeDoes, Hedged,
       StockInv, UnsoldOwn, LegInv, GuardedInv, FreshInv
  <2> QED BY <2>1, <2>2, <2>3 DEF NoReHedgeDoes
<1>8. ASSUME NEW m \in 0..Q, NEW reply \in {"sold", "killed", "failed"},
             Flatten(m, reply)
      PROVE  UnsoldOwn'
  <2>1. FlattenDoes(m, reply)
    BY <1>8, FlattenEffect
  <2> QED BY <2>1, <1>0, Numbers, Partners, Guards DEF FlattenDoes, Sold,
       Cleared, StockInv, UnsoldOwn, LegInv, GuardedInv, FreshInv
<1>9. CASE EndPass
  BY <1>9, <1>0, Numbers, Partners, Guards DEF EndPass, Goto, setup, venueVars,
     bookVars, listVars, passVars, StockInv, UnsoldOwn, LegInv, GuardedInv,
     FreshInv
<1>10. ASSUME NEW a \in Firsts, EnterPair(a)
      PROVE  UnsoldOwn'
  <2>1. EnterPairDoes(a)
    BY <1>10, EnterPairEffect
  <2> QED BY <2>1, <1>0, Numbers, Partners, Guards DEF EnterPairDoes, Placed,
       StockInv, UnsoldOwn, LegInv, GuardedInv, FreshInv
<1>11. ASSUME NEW a \in Firsts, NEW s \in [Legs -> {"working", "done"}],
              EnterFails(a, s)
      PROVE  UnsoldOwn'
  <2>1. EnterFailsDoes(a, s)
    BY <1>11, EnterFailsEffect
  <2> QED BY <2>1, <1>0, Numbers, Partners, Guards DEF EnterFailsDoes, Placed,
       StockInv, UnsoldOwn, LegInv, GuardedInv, FreshInv
<1>12. ASSUME NEW o \in Ids, CancelOnLeg(o)
      PROVE  UnsoldOwn'
  <2>1. CancelOnLegDoes(o)
    BY <1>12, CancelOnLegEffect
  <2> QED BY <2>1, <1>0, Numbers, Partners, Guards DEF CancelOnLegDoes, Ended,
       OrderRead, StockInv, UnsoldOwn, LegInv, GuardedInv, FreshInv
<1>13. ASSUME NEW l \in Legs, NEW m \in 1..Q, NEW exitPair \in BOOLEAN,
              ExitLeg(l, m, exitPair)
      PROVE  UnsoldOwn'
  <2>1. ExitLegDoes(l, m, exitPair)
    BY <1>13, ExitLegEffect
  <2> QED BY <2>1, <1>0, Numbers, Partners, Guards DEF ExitLegDoes, Sold,
       Cleared, StockInv, UnsoldOwn, LegInv, GuardedInv, FreshInv
<1>21. ASSUME NEW l \in Legs, NEW m \in 1..Q, NEW exitPair \in BOOLEAN,
              ExitUnheard(l, m, exitPair)
      PROVE  UnsoldOwn'
  <2>1. ExitUnheardDoes(l, m)
    BY <1>21, ExitUnheardEffect
    <2> QED BY <2>1, <1>0, Numbers, Partners, Guards DEF ExitUnheardDoes,
       StockInv, UnsoldOwn, LegInv, GuardedInv, FreshInv
<1>14. ASSUME NEW o \in Ids, Trade(o)
      PROVE  UnsoldOwn'
  <2>1. TradeDoes(o)
    BY <1>14, TradeEffect
  <2> QED BY <2>1, <1>0, Numbers, Partners, Guards DEF TradeDoes, StockInv,
       UnsoldOwn, LegInv, GuardedInv, FreshInv
<1>15. ASSUME NEW o \in Ids, Expire(o)
      PROVE  UnsoldOwn'
  BY <1>15, <1>0, Numbers, Partners, Guards DEF Expire, setup, venueVars,
     bookVars, listVars, passVars, StockInv, UnsoldOwn, LegInv, GuardedInv,
     FreshInv
<1>16. ASSUME NEW o \in Ids, NEW n \in 1..Q, NEW complete \in BOOLEAN,
              FillEvent(o, n, complete)
      PROVE  UnsoldOwn'
  <2>1. FillEventDoes(o, n, complete)
    BY <1>16, FillEventEffect
  <2> QED BY <2>1, <1>0, Numbers, Partners, Guards DEF FillEventDoes,
       OrderRead, StockInv, UnsoldOwn, LegInv, GuardedInv, FreshInv
<1>17. CASE UNCHANGED vars
  BY <1>17 DEF vars, setup, venueVars, bookVars, listVars, passVars, StockInv,
     UnsoldOwn, LegInv, GuardedInv, FreshInv
<1>18. CASE PassSteps
  BY <1>18, <1>2, <1>3, <1>4, <1>5, <1>6, <1>7, <1>8, <1>9 DEF PassSteps
<1>19. CASE Viper
  BY <1>19, <1>10, <1>11, <1>12, <1>13, <1>21 DEF Viper
<1>20. CASE Venue
  BY <1>20, <1>14, <1>15, <1>16 DEF Venue
<1> QED BY <1>1, <1>17, <1>18, <1>19, <1>20 DEF Next

LEMMA CollectedStep == TypeOK /\ FreshInv /\ CollectedInv /\ [Next]_vars => CollectedInv'
<1> SUFFICES ASSUME TypeOK, FreshInv, CollectedInv, [Next]_vars PROVE CollectedInv'
  OBVIOUS
<1>0. /\ cur \in Legs
      /\ orphans \in [Legs -> 0..Q]
  BY DEF TypeOK
<1>1. CASE Begin
  BY <1>1, <1>0, Numbers, Partners, Guards DEF Begin, Goto, setup, venueVars,
     bookVars, listVars, passVars, CollectedInv
<1>2. ASSUME NEW known \in BOOLEAN, ReadOpen(known)
      PROVE  CollectedInv'
  BY <1>2, <1>0, Numbers, Partners, Guards DEF ReadOpen, Goto, ListedAs, setup,
     venueVars, bookVars, listVars, passVars, CollectedInv
<1>3. ASSUME NEW o \in Ids, PassQuote(o)
      PROVE  CollectedInv'
  <2>1. PassQuoteDoes(o)
    BY <1>3, PassQuoteEffect
  <2> QED BY <2>1, <1>0, Numbers, Partners, Guards DEF PassQuoteDoes, Ended,
       OrderRead, CollectedInv
<1>4. CASE Collect
  <2>1. CollectDoes
    BY <1>4, CollectEffect
  <2> QED BY <2>1, <1>0, Numbers, Partners, Guards DEF CollectDoes, Cleared,
       CollectedInv
<1>5. ASSUME NEW l \in Legs, StartRepair(l)
      PROVE  CollectedInv'
  BY <1>5, <1>0, Numbers, Partners, Guards DEF StartRepair, Goto, setup,
     venueVars, bookVars, listVars, passVars, CollectedInv
<1>6. ASSUME NEW f \in 1..Q, ReHedge(f)
      PROVE  CollectedInv'
  <2>1. ReHedgeDoes(f)
    BY <1>6, ReHedgeEffect
  <2> QED BY <2>1, <1>0, Numbers, Partners, Guards DEF ReHedgeDoes, Hedged,
       CollectedInv
<1>7. CASE NoReHedge
  <2>1. NoReHedgeDoes
    BY <1>7, NoReHedgeEffect
  <2>2. CASE UNCHANGED <<leg, st, traded, own, lastId, sold, unheard>>
    BY <1>0, Numbers, Partners, Guards, <2>1, <2>2 DEF NoReHedgeDoes,
       CollectedInv
  <2>3. ASSUME NEW f \in 0..Q, Hedged(Partner(cur), f)
        PROVE  CollectedInv'
    BY <1>0, Numbers, Partners, Guards, <2>1, <2>3 DEF NoReHedgeDoes, Hedged,
       CollectedInv
  <2> QED BY <2>1, <2>2, <2>3 DEF NoReHedgeDoes
<1>8. ASSUME NEW m \in 0..Q, NEW reply \in {"sold", "killed", "failed"},
             Flatten(m, reply)
      PROVE  CollectedInv'
  <2>1. FlattenDoes(m, reply)
    BY <1>8, FlattenEffect
  <2> QED BY <2>1, <1>0, Numbers, Partners, Guards DEF FlattenDoes, Sold,
       Cleared, CollectedInv
<1>9. CASE EndPass
  BY <1>9, <1>0, Numbers, Partners, Guards DEF EndPass, Goto, setup, venueVars,
     bookVars, listVars, passVars, CollectedInv
<1>10. ASSUME NEW a \in Firsts, EnterPair(a)
      PROVE  CollectedInv'
  <2>1. EnterPairDoes(a)
    BY <1>10, EnterPairEffect
  <2> QED BY <2>1, <1>0, Numbers, Partners, Guards DEF EnterPairDoes, Placed,
       CollectedInv
<1>11. ASSUME NEW a \in Firsts, NEW s \in [Legs -> {"working", "done"}],
              EnterFails(a, s)
      PROVE  CollectedInv'
  <2>1. EnterFailsDoes(a, s)
    BY <1>11, EnterFailsEffect
  <2> QED BY <2>1, <1>0, Numbers, Partners, Guards DEF EnterFailsDoes, Placed,
       CollectedInv
<1>12. ASSUME NEW o \in Ids, CancelOnLeg(o)
      PROVE  CollectedInv'
  <2>1. CancelOnLegDoes(o)
    BY <1>12, CancelOnLegEffect
  <2> QED BY <2>1, <1>0, Numbers, Partners, Guards DEF CancelOnLegDoes, Ended,
       OrderRead, CollectedInv
<1>13. ASSUME NEW l \in Legs, NEW m \in 1..Q, NEW exitPair \in BOOLEAN,
              ExitLeg(l, m, exitPair)
      PROVE  CollectedInv'
  <2>1. ExitLegDoes(l, m, exitPair)
    BY <1>13, ExitLegEffect
  <2> QED BY <2>1, <1>0, Numbers, Partners, Guards DEF ExitLegDoes, Sold,
       Cleared, CollectedInv
<1>21. ASSUME NEW l \in Legs, NEW m \in 1..Q, NEW exitPair \in BOOLEAN,
              ExitUnheard(l, m, exitPair)
      PROVE  CollectedInv'
  <2>1. ExitUnheardDoes(l, m)
    BY <1>21, ExitUnheardEffect
    <2> QED BY <2>1, <1>0, Numbers, Partners, Guards DEF ExitUnheardDoes,
       CollectedInv
<1>14. ASSUME NEW o \in Ids, Trade(o)
      PROVE  CollectedInv'
  <2>1. TradeDoes(o)
    BY <1>14, TradeEffect
  <2> QED BY <2>1, <1>0, Numbers, Partners, Guards DEF TradeDoes, CollectedInv
<1>15. ASSUME NEW o \in Ids, Expire(o)
      PROVE  CollectedInv'
  BY <1>15, <1>0, Numbers, Partners, Guards DEF Expire, setup, venueVars,
     bookVars, listVars, passVars, CollectedInv
<1>16. ASSUME NEW o \in Ids, NEW n \in 1..Q, NEW complete \in BOOLEAN,
              FillEvent(o, n, complete)
      PROVE  CollectedInv'
  <2>1. FillEventDoes(o, n, complete)
    BY <1>16, FillEventEffect
  <2> QED BY <2>1, <1>0, Numbers, Partners, Guards DEF FillEventDoes,
       OrderRead, CollectedInv
<1>17. CASE UNCHANGED vars
  BY <1>17 DEF vars, setup, venueVars, bookVars, listVars, passVars,
     CollectedInv
<1>18. CASE PassSteps
  BY <1>18, <1>2, <1>3, <1>4, <1>5, <1>6, <1>7, <1>8, <1>9 DEF PassSteps
<1>19. CASE Viper
  BY <1>19, <1>10, <1>11, <1>12, <1>13, <1>21 DEF Viper
<1>20. CASE Venue
  BY <1>20, <1>14, <1>15, <1>16 DEF Venue
<1> QED BY <1>1, <1>17, <1>18, <1>19, <1>20 DEF Next

LEMMA SeenStep == TypeOK /\ FreshInv /\ CopiedInv /\ GuardedInv /\ SharesInv /\ OwnedInv /\ UnsoldOwn /\ StockInv /\ CollectedInv /\ SeenInv /\ [Next]_vars => SeenInv'
<1> SUFFICES ASSUME TypeOK, FreshInv, CopiedInv, GuardedInv, SharesInv, OwnedInv, UnsoldOwn, StockInv, CollectedInv, SeenInv, [Next]_vars PROVE SeenInv'
  OBVIOUS
<1>0. /\ cur \in Legs
      /\ orphans \in [Legs -> 0..Q]
      /\ held \subseteq Legs
      /\ own \in [Legs -> Int]
      /\ leg \in [Ids -> Legs]
      /\ guard \in [Legs -> 0..MaxOrders]
      /\ shares \in [Legs -> 0..Q]
      /\ traded \in [Ids -> 0..Q]
      /\ sold \in [Ids -> Nat]
      /\ unheard \in [Ids -> 0..MaxUnheard]
      /\ confirmed \subseteq Legs
  BY DEF TypeOK
<1>1. CASE Begin
  BY <1>1, <1>0, Numbers, Partners, Guards DEF Begin, Goto, setup, venueVars,
     bookVars, listVars, passVars, SeenInv, UnsoldOwn, OwnedInv,
     SharesInv, ShownHeld
<1>2. ASSUME NEW known \in BOOLEAN, ReadOpen(known)
      PROVE  SeenInv'
  BY <1>2, <1>0, Numbers, Partners, Guards DEF ReadOpen, Goto, ListedAs, setup,
     venueVars, bookVars, listVars, passVars, CollectedInv, SeenInv
<1>3. ASSUME NEW o \in Ids, PassQuote(o)
      PROVE  SeenInv'
  <2>1. PassQuoteDoes(o)
    BY <1>3, PassQuoteEffect
  <2> QED BY <2>1, <1>0, Numbers, Partners, Guards DEF PassQuoteDoes, Ended,
       OrderRead, CollectedInv, SeenInv
<1>4. CASE Collect
  <2>1. CollectDoes
    BY <1>4, CollectEffect
  <2> QED BY <2>1, <1>0, Numbers, Partners, Guards DEF CollectDoes, Cleared,
       SeenInv, Orphan
<1>5. ASSUME NEW l \in Legs, StartRepair(l)
      PROVE  SeenInv'
  BY <1>5, <1>0, Numbers, Partners, Guards DEF StartRepair, Goto, setup,
     venueVars, bookVars, listVars, passVars, CollectedInv, SeenInv
<1>6. ASSUME NEW f \in 1..Q, ReHedge(f)
      PROVE  SeenInv'
  <2>1. ReHedgeDoes(f)
    BY <1>6, ReHedgeEffect
  <2> QED BY <2>1, <1>0, Numbers, Partners, Guards DEF ReHedgeDoes, Hedged,
       CollectedInv, SeenInv
<1>7. CASE NoReHedge
  <2>1. NoReHedgeDoes
    BY <1>7, NoReHedgeEffect
  <2>2. CASE UNCHANGED <<leg, st, traded, own, lastId, sold, unheard>>
    BY <1>0, Numbers, Partners, Guards, <2>1, <2>2 DEF NoReHedgeDoes,
       CollectedInv, SeenInv
  <2>3. ASSUME NEW f \in 0..Q, Hedged(Partner(cur), f)
        PROVE  SeenInv'
    BY <1>0, Numbers, Partners, Guards, <2>1, <2>3 DEF NoReHedgeDoes, Hedged,
       CollectedInv, SeenInv
  <2> QED BY <2>1, <2>2, <2>3 DEF NoReHedgeDoes
<1>8. ASSUME NEW m \in 0..Q, NEW reply \in {"sold", "killed", "failed"},
             Flatten(m, reply)
      PROVE  SeenInv'
  <2>1. FlattenDoes(m, reply)
    BY <1>8, FlattenEffect
  <2> QED BY <2>1, <1>0, Numbers, Partners, Guards DEF FlattenDoes, Sold,
       Cleared, CollectedInv, SeenInv
<1>9. CASE EndPass
  BY <1>9, <1>0, Numbers, Partners, Guards DEF EndPass, Goto, setup, venueVars,
     bookVars, listVars, passVars, CollectedInv, SeenInv
<1>10. ASSUME NEW a \in Firsts, EnterPair(a)
      PROVE  SeenInv'
  <2>1. EnterPairDoes(a)
    BY <1>10, EnterPairEffect
  <2> QED BY <2>1, <1>0, Numbers, Partners, Guards DEF EnterPairDoes, Placed,
       CollectedInv, SeenInv
<1>11. ASSUME NEW a \in Firsts, NEW s \in [Legs -> {"working", "done"}],
              EnterFails(a, s)
      PROVE  SeenInv'
  <2>1. EnterFailsDoes(a, s)
    BY <1>11, EnterFailsEffect
  <2> QED BY <2>1, <1>0, Numbers, Partners, Guards DEF EnterFailsDoes, Placed,
       CollectedInv, SeenInv
<1>12. ASSUME NEW o \in Ids, CancelOnLeg(o)
      PROVE  SeenInv'
  <2>1. CancelOnLegDoes(o)
    BY <1>12, CancelOnLegEffect
  <2> QED BY <2>1, <1>0, Numbers, Partners, Guards DEF CancelOnLegDoes, Ended,
       OrderRead, CollectedInv, SeenInv
<1>13. ASSUME NEW l \in Legs, NEW m \in 1..Q, NEW exitPair \in BOOLEAN,
              ExitLeg(l, m, exitPair)
      PROVE  SeenInv'
  <2>1. ExitLegDoes(l, m, exitPair)
    BY <1>13, ExitLegEffect
  <2> QED BY <2>1, <1>0, Numbers, Partners, Guards DEF ExitLegDoes, Sold,
       Cleared, CollectedInv, SeenInv
<1>21. ASSUME NEW l \in Legs, NEW m \in 1..Q, NEW exitPair \in BOOLEAN,
              ExitUnheard(l, m, exitPair)
      PROVE  SeenInv'
  <2>1. ExitUnheardDoes(l, m)
    BY <1>21, ExitUnheardEffect
    <2> QED BY <2>1, <1>0, Numbers, Partners, Guards DEF ExitUnheardDoes,
       CollectedInv, SeenInv
<1>14. ASSUME NEW o \in Ids, Trade(o)
      PROVE  SeenInv'
  <2>1. TradeDoes(o)
    BY <1>14, TradeEffect
  <2> QED BY <2>1, <1>0, Numbers, Partners, Guards DEF TradeDoes, CollectedInv,
       SeenInv
<1>15. ASSUME NEW o \in Ids, Expire(o)
      PROVE  SeenInv'
  BY <1>15, <1>0, Numbers, Partners, Guards DEF Expire, setup, venueVars,
     bookVars, listVars, passVars, CollectedInv, SeenInv
<1>16. ASSUME NEW o \in Ids, NEW n \in 1..Q, NEW complete \in BOOLEAN,
              FillEvent(o, n, complete)
      PROVE  SeenInv'
  <2>1. FillEventDoes(o, n, complete)
    BY <1>16, FillEventEffect
  <2> QED BY <2>1, <1>0, Numbers, Partners, Guards DEF FillEventDoes,
       OrderRead, CollectedInv, SeenInv
<1>17. CASE UNCHANGED vars
  BY <1>17 DEF vars, setup, venueVars, bookVars, listVars, passVars,
     CollectedInv, SeenInv
<1>18. CASE PassSteps
  BY <1>18, <1>2, <1>3, <1>4, <1>5, <1>6, <1>7, <1>8, <1>9 DEF PassSteps
<1>19. CASE Viper
  BY <1>19, <1>10, <1>11, <1>12, <1>13, <1>21 DEF Viper
<1>20. CASE Venue
  BY <1>20, <1>14, <1>15, <1>16 DEF Venue
<1> QED BY <1>1, <1>17, <1>18, <1>19, <1>20 DEF Next

-----------------------------------------------------------------------------
(* What holds in every behaviour.                                          *)

Inv ==
  /\ TypeOK
  /\ FreshInv
  /\ CopiedInv
  /\ GuardedInv
  /\ LegInv
  /\ SharesInv
  /\ LatestInv
  /\ UnsoldInv
  /\ OwnedInv
  /\ StockInv
  /\ UnsoldOwn
  /\ CollectedInv
  /\ SeenInv

LEMMA InvHolds == Spec => []Inv
<1>1. Init => Inv
  BY TypeInit, PlacedInit, GuardInit, OwnInit DEF Inv
<1>2. Inv /\ [Next]_vars => Inv'
  BY TypeStep, FreshStep, CopiedStep, GuardedStep, LegStep, SharesStep,
     LatestStep, UnsoldStep, OwnedStep, StockStep, UnsoldOwnStep,
     CollectedStep, SeenStep DEF Inv
<1> QED BY <1>1, <1>2, PTL DEF Spec

\* Every variable keeps its shape.
THEOREM TypeCorrect == Spec => []TypeOK
<1>1. Inv => TypeOK
  BY DEF Inv
<1> QED BY <1>1, InvHolds, PTL

\* size_and_confirm, the exits, the re-hedge and the flattens: a confirmed guard
\* shows no more than what is left of its own order's contracts and what exits
\* sold of them unheard, but on a leg whose last flatten was reported killed.
THEOREM GuardsHold == Spec => []GuardsAreOwned
<1>1. Inv => GuardsAreOwned
  BY OwnedMeans DEF Inv
<1> QED BY <1>1, InvHolds, PTL

\* killed_flattens: where the account shows both legs, a flatten is only sent
\* for a leg that is there.
THEOREM FlattensWhatIsHeld == Spec => NeverFlattensGone
<1>1. ASSUME Inv, ~netted, pc = "flatten"
      PROVE  own[cur] > 0
  BY <1>1 DEF Inv, TypeOK, CollectedInv, SeenInv
<1>2. Inv /\ [Next]_vars => [~netted /\ pc = "flatten" => own[cur] > 0]_vars
  BY <1>1
<1> QED BY <1>2, InvHolds, PTL DEF Spec, NeverFlattensGone

\* Pass 2: where the account shows both legs, a leg whose partner's guard was
\* confirmed when the pass began is not collected for repair, but where the
\* partner's last flatten was reported killed or an exit of it sold unheard.
THEOREM HedgedIsLeftAlone == Spec => HedgedLeftAlone
<1>1. ASSUME Inv, [Next]_vars, ~netted, pc = "pass1", pc' = "repair"
      PROVE  \A l \in Legs : orphans'[l] > 0 => Partner(l) \notin paired
  <2>1. paired \subseteq held
    BY <1>1 DEF Inv, SeenInv
  <2>2. Collect
    BY <1>1 DEF Next, PassSteps, Viper, Venue, Begin, ReadOpen, PassQuote,
       StartRepair, ReHedge, NoReHedge, Flatten, EndPass, EnterPair,
       EnterFails, CancelOnLeg, ExitLeg, ExitUnheard, Trade, Expire, FillEvent, MayEnter,
       Goto, vars
  <2>3. \A l \in Legs : orphans'[l] > 0 => Orphan(l)
    BY <1>1, <2>2, CollectEffect DEF Inv, CollectDoes
  <2> QED BY <2>1, <2>3 DEF Orphan
<1>2. Inv /\ [Next]_vars =>
        [~netted /\ pc = "pass1" /\ pc' = "repair" =>
           \A l \in Legs : orphans'[l] > 0 => Partner(l) \notin paired]_vars
  BY <1>1
<1> QED BY <1>2, InvHolds, PTL DEF Spec, HedgedLeftAlone

=============================================================================
