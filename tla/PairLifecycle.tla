---------------------------- MODULE PairLifecycle ----------------------------
(***************************************************************************)
(* The paired half of venues/lifecycle.rs: a viper buys both legs of a     *)
(* market (place_atomic), and reconcile looks for a leg left alone: pass 1 *)
(* settles the tracked orders, pass 2 buys the missing partner or flattens *)
(* what is held.  One viper, one market, its two legs, on Kalshi or        *)
(* Polymarket US, where both legs of a pair are post-only bids and so are  *)
(* tracked as quotes.                                                      *)
(*                                                                         *)
(* What one order's reads do to its own guard is the subject of            *)
(* OrderLifecycle; here a quote is anything those steps allow: its guard is *)
(* sized to a count it has reached, or released, and it stays tracked or   *)
(* leaves.  What this module keeps in full is what pass 2 decides on: the  *)
(* holdings read when the pass begins, the orders that still rest, the     *)
(* guards as they are by then, and the flattens the venue reported killed. *)
(*                                                                         *)
(* A guard is named by the order that opened it, as in OrderLifecycle, and *)
(* a definition X_y in front of X is a mistake the code could have made.   *)
(***************************************************************************)
EXTENDS Integers, FiniteSets

CONSTANTS
    MaxOrders,  \* bound: orders placed in one behaviour
    Q,          \* contracts each leg of a pair is placed for
    MaxUnheard, \* bound: contracts exits sell out of a guard with nothing heard
    Firsts,     \* bound: the legs a pair may place first
    Accounts,   \* what netted may be
    Policies    \* what repairs may be

ASSUME PairAssumption ==
    /\ MaxOrders \in Nat
    /\ Q \in Nat \ {0}
    /\ MaxUnheard \in Nat
    /\ Firsts \subseteq {"yes", "no"}
    /\ Accounts \subseteq BOOLEAN
    /\ Policies \subseteq BOOLEAN

Legs == {"yes", "no"}
Partner(l) == IF l = "yes" THEN "no" ELSE "yes"
Ids  == 1..MaxOrders

VARIABLES
    \* --- fixed ---
    netted,     \* the account nets the legs and lists every order as YES
                \* (Kalshi), or holds and lists them apart
    repairs,    \* lone_leg_policy: Repair (Arbitrage), or HoldAndManage
                \* (Time Decay)
    \* --- the venue (external) ---
    leg,        \* [Ids -> Legs]
    st,         \* [Ids -> {"new", "working", "done"}]
    traded,     \* [Ids -> 0..Q]
    own,        \* [Legs -> Int]: contracts this viper's orders bought less sold
    lastId,     \* orders placed so far; the clock of opened_at
    \* --- shared with the fill listener ---
    guard,      \* [Legs -> 0..MaxOrders]: the order that opened the guard, 0 none
    shares,     \* [Legs -> 0..Q]: Position.shares
    confirmed,  \* legs whose guard has fill_confirmed_at
    tracked,    \* ids in OrderLifecycle.tracked
    cancelled,  \* those the venue cancelled, what traded still unread
    \* --- the loop ---
    killed,     \* OrderLifecycle.killed_flattens
    pc,
    cur,        \* leg under repair
    held,       \* legs positions() showed when the pass began
    shown,      \* legs open_orders() showed an order resting on
    todo,       \* orders of the pass's copy still to look at
    keep,       \* orders of the copy that stay tracked
    settled,    \* orders of the copy that leave tracking
    orphans,    \* [Legs -> 0..Q]: size of each naked leg collected, 0 none
    \* --- history, read by properties only ---
    sold,       \* [Ids -> Nat]: contracts sold under the guard order o opened,
                \* by flattens and by the exits whose reply counted them
    unheard,    \* [Ids -> 0..MaxUnheard]: those an exit sold unheard
    paired      \* legs with a confirmed guard when the pass began, all its
                \* exits heard

setup     == <<netted, repairs>>
venueVars == <<leg, st, traded, own, lastId, sold, unheard>>
bookVars  == <<guard, shares, confirmed>>
listVars  == <<tracked, cancelled>>
passVars  == <<cur, held, shown, todo, keep, settled, orphans, paired>>
vars == <<setup, venueVars, bookVars, listVars, killed, pc, passVars>>

OnLeg(l)   == {o \in tracked : leg[o] = l}
Max2(a, b) == IF a >= b THEN a ELSE b
Min2(a, b) == IF a <= b THEN a ELSE b

\* positions(): Kalshi keeps one signed count per market, so equal legs read as
\* nothing held; the others show each leg.
ShownHeld(l) == IF netted THEN own[l] > own[Partner(l)] ELSE own[l] > 0

\* The leg an order is listed under.
ListedAs(l) == IF netted THEN "yes" ELSE l

-----------------------------------------------------------------------------
(* The position map.                                                       *)

OwnsGuard_anyGuard(o) == guard[leg[o]] # 0
OwnsGuard(o) == guard[leg[o]] # 0 /\ guard[leg[o]] <= o

\* size_and_confirm.
Size(o, n) ==
    LET l == leg[o]
    IN IF OwnsGuard(o)
       THEN /\ shares' = [shares EXCEPT ![l] =
                            IF l \in confirmed THEN Min2(Max2(@, n), Q) ELSE n]
            /\ confirmed' = confirmed \cup {l}
            /\ UNCHANGED guard
       ELSE UNCHANGED bookVars

ClearGuards(ls) ==
    /\ guard'     = [l \in Legs |-> IF l \in ls THEN 0 ELSE guard[l]]
    /\ shares'    = [l \in Legs |-> IF l \in ls THEN 0 ELSE shares[l]]
    /\ confirmed' = confirmed \ ls

\* release_quote.
Release(o) ==
    IF OwnsGuard(o) /\ leg[o] \notin confirmed
    THEN ClearGuards({leg[o]})
    ELSE UNCHANGED bookVars

\* What a reading of an order that may be smaller than the truth does.
SizeToReading(o) ==
    \E n \in 0..traded[o] : IF n > 0 THEN Size(o, n) ELSE UNCHANGED bookVars

\* A cancel sent with the question may have ended the order.
MayEnd(o) == \E s \in {st[o], "done"} : st' = [st EXCEPT ![o] = s]

-----------------------------------------------------------------------------
(* The venue (external) and the fill listener.                             *)

Trade(o) ==
    /\ st[o] = "working"
    /\ traded' = [traded EXCEPT ![o] = @ + 1]
    /\ own'    = [own EXCEPT ![leg[o]] = @ + 1]
    /\ st'     = [st EXCEPT ![o] = IF traded'[o] = Q THEN "done" ELSE @]
    /\ UNCHANGED <<setup, leg, lastId, sold, unheard, bookVars, listVars, killed, pc,
                   passVars>>

\* The order expires, or the venue pulls it with its market.
Expire(o) ==
    /\ st[o] = "working"
    /\ st' = [st EXCEPT ![o] = "done"]
    /\ UNCHANGED <<setup, leg, traded, own, lastId, sold, unheard, bookVars, listVars,
                   killed, pc, passVars>>

\* confirm_on_fill for a tracked order; Polymarket US also says when the order
\* is complete.
FillEvent(o, n, complete) ==
    /\ o \in tracked
    /\ n <= traded[o]
    /\ complete => ~netted /\ st[o] = "done"
    /\ Size(o, n)
    /\ tracked' = IF n = Q \/ complete THEN tracked \ {o} ELSE tracked
    /\ cancelled' = cancelled \cap tracked'
    /\ UNCHANGED <<setup, venueVars, killed, pc, passVars>>

-----------------------------------------------------------------------------
(* dispatch_signal, paired entry and exit.                                 *)

\* The vipers enter a pair only with no guard on either leg.
MayEnter ==
    /\ pc = "idle"
    /\ lastId + 2 <= MaxOrders
    /\ \A l \in Legs : guard[l] = 0

\* Orders lastId + 1 and lastId + 2 reach the book, the first on leg a.
PlaceOrders(a, s) ==
    /\ leg'    = [leg EXCEPT ![lastId + 1] = a, ![lastId + 2] = Partner(a)]
    /\ st'     = [st EXCEPT ![lastId + 1] = s[a], ![lastId + 2] = s[Partner(a)]]
    /\ lastId' = lastId + 2
    /\ UNCHANGED <<traded, own, sold, unheard>>

\* Both legs are acknowledged, and unfilled as they are post-only: each is
\* guarded at the size placed and tracked as a quote.
EnterPair(a) ==
    /\ MayEnter
    /\ PlaceOrders(a, [l \in Legs |-> "working"])
    /\ guard'   = [l \in Legs |-> IF l = a THEN lastId + 1 ELSE lastId + 2]
    /\ shares'  = [l \in Legs |-> Q]
    /\ tracked' = tracked \cup {lastId + 1, lastId + 2}
    /\ UNCHANGED <<setup, confirmed, cancelled, killed, pc, passVars>>

\* place_atomic fails and nothing is recorded.  Kalshi places the legs one after
\* the other: the second is refused, and the cancel of the first (its result is
\* not looked at) may not go through; or the replies are lost.
EnterFails(a, s) ==
    /\ MayEnter
    /\ netted \/ s[Partner(a)] = s[a]
    /\ PlaceOrders(a, s)
    /\ UNCHANGED <<setup, bookVars, listVars, killed, pc, passVars>>

\* The exit a viper asks for: of YES together with its partner (exit_pair), or
\* of a lone leg.  To Arbitrage a pair is two guards; to Time Decay, two guards
\* both confirmed or both not.
ViperExits(l, exitPair) ==
    /\ guard[l] # 0
    /\ IF exitPair
       THEN /\ l = "yes"
            /\ guard[Partner(l)] # 0
            /\ repairs \/ (l \in confirmed <=> Partner(l) \in confirmed)
       ELSE \/ guard[Partner(l)] = 0
            \/ ~repairs /\ l \in confirmed /\ Partner(l) \notin confirmed

\* The viper's exit first cancels what it still tracks on the leg
\* (cancel_resting_for): the order works on, is cancelled with its fill
\* unread, or is settled and leaves tracking.
CancelOnLeg(o) ==
    /\ pc = "idle"
    /\ o \in tracked
    /\ \E exitPair \in BOOLEAN : ViperExits(leg[o], exitPair)
    /\ MayEnd(o)
    /\ \/ SizeToReading(o) /\ UNCHANGED listVars
       \/ /\ st'[o] = "done"
          /\ cancelled' = cancelled \cup {o}
          /\ UNCHANGED <<bookVars, tracked>>
       \/ /\ SizeToReading(o) \/ Release(o)
          /\ tracked'   = tracked \ {o}
          /\ cancelled' = cancelled \ {o}
    /\ UNCHANGED <<setup, leg, traded, own, lastId, sold, unheard, killed, pc,
                   passVars>>

\* Contracts a FAK sale of n of leg l may fill: a venue that holds the legs
\* apart sells no more than is there, a netted one goes short.
Saleable(l, n) == 0..(IF netted THEN n ELSE Min2(n, Max2(own[l], 0)))

\* m of the guard's contracts are sold.
SaleOf(l, m) ==
    /\ own'  = [own EXCEPT ![l] = @ - m]
    /\ sold' = [sold EXCEPT ![guard[l]] = @ + m]
    /\ UNCHANGED <<leg, st, traded, lastId, unheard>>

\* Exit of a confirmed guard once no order of the leg works: m of its contracts
\* are sold.  All of them: the guard goes and, with exit_pair, the partner's
\* guard too.  Part: it shrinks, and the leg's cancelled orders are forgotten.
ExitLeg_forgetsNone(l, m, exitPair) ==
    /\ pc = "idle"
    /\ l \in confirmed
    /\ ViperExits(l, exitPair)
    /\ OnLeg(l) \subseteq cancelled
    /\ m \in Saleable(l, shares[l]) \ {0}
    /\ SaleOf(l, m)
    /\ IF m = shares[l]
       THEN ClearGuards({l} \cup (IF exitPair THEN {Partner(l)} ELSE {}))
       ELSE /\ shares' = [shares EXCEPT ![l] = @ - m]
            /\ UNCHANGED <<guard, confirmed>>
    /\ UNCHANGED <<setup, listVars, killed, pc, passVars>>
ExitLeg(l, m, exitPair) ==
    /\ pc = "idle"
    /\ l \in confirmed
    /\ ViperExits(l, exitPair)
    /\ OnLeg(l) \subseteq cancelled
    /\ m \in Saleable(l, shares[l]) \ {0}
    /\ SaleOf(l, m)
    /\ IF m = shares[l]
       THEN /\ ClearGuards({l} \cup (IF exitPair THEN {Partner(l)} ELSE {}))
            /\ UNCHANGED listVars
       ELSE /\ shares'    = [shares EXCEPT ![l] = @ - m]
            /\ tracked'   = tracked \ OnLeg(l)
            /\ cancelled' = cancelled \ OnLeg(l)
            /\ UNCHANGED <<guard, confirmed>>
    /\ UNCHANGED <<setup, killed, pc, passVars>>

\* The sale fills m and its reply is lost, or counts nothing: the exit "did NOT
\* execute", so the guard and what it shows stay, and the viper asks again.
ExitUnheard(l, m, exitPair) ==
    /\ pc = "idle"
    /\ l \in confirmed
    /\ ViperExits(l, exitPair)
    /\ OnLeg(l) \subseteq cancelled
    /\ m \in Saleable(l, shares[l]) \ {0}
    /\ unheard[guard[l]] + m <= MaxUnheard
    /\ own'     = [own EXCEPT ![l] = @ - m]
    /\ unheard' = [unheard EXCEPT ![guard[l]] = @ + m]
    /\ UNCHANGED <<setup, leg, st, traded, lastId, sold, bookVars, listVars,
                   killed, pc, passVars>>

-----------------------------------------------------------------------------
(* reconcile.                                                              *)

Goto(at) == pc' = at

\* The holdings are read; a failed read abandons the pass and changes nothing.
Begin ==
    /\ pc = "idle"
    /\ Goto("listing")
    /\ held'   = {l \in Legs : ShownHeld(l)}
    /\ paired' = {l \in confirmed \ killed : unheard[guard[l]] = 0}
    /\ UNCHANGED <<setup, venueVars, bookVars, listVars, killed, cur, shown,
                   todo, keep, settled, orphans>>

\* The open orders are read, or fail to be (no leg is shown), and the tracked
\* orders are copied.
ReadOpen(known) ==
    /\ pc = "listing"
    /\ Goto("pass1")
    /\ shown' = {ListedAs(leg[o]) : o \in {p \in Ids : known /\ st[p] = "working"}}
    /\ todo'  = tracked
    /\ UNCHANGED <<setup, venueVars, bookVars, listVars, killed, cur, held,
                   keep, settled, orphans, paired>>

First(o)  == o \in todo /\ \A p \in todo : o <= p
KeepIt(o) == keep' = keep \cup {o} /\ UNCHANGED settled
DropIt(o) == settled' = settled \cup {o} /\ UNCHANGED keep

\* Pass 1: anything OrderLifecycle's ReconcileOrder does with a quote.  It is
\* kept, cancelled and kept (its guard sized at most to the listing), or
\* settled.
PassQuote(o) ==
    /\ pc = "pass1"
    /\ First(o)
    /\ MayEnd(o)
    /\ \/ SizeToReading(o) /\ KeepIt(o) /\ UNCHANGED cancelled
       \/ /\ st'[o] = "done"
          /\ SizeToReading(o)
          /\ KeepIt(o)
          /\ cancelled' = cancelled \cup {o}
       \/ (SizeToReading(o) \/ Release(o)) /\ DropIt(o) /\ UNCHANGED cancelled
    /\ todo' = todo \ {o}
    /\ UNCHANGED <<setup, leg, traded, own, lastId, sold, unheard, tracked, killed, pc,
                   cur, held, shown, orphans, paired>>

\* Still resting, as pass 2 sees it: kept by pass 1 or listed by the venue.
RestingLegs == {leg[o] : o \in keep} \cup shown

\* A confirmed leg that is held, whose partner is neither held nor resting; a
\* HoldAndManage pair has none.
Orphan_unconfirmedRead(l) ==
    repairs /\ l \in confirmed /\ l \in held /\ Partner(l) \notin RestingLegs
Orphan_skipsKilled(l) ==
    /\ repairs
    /\ l \in (confirmed \cap held) \ killed
    /\ Partner(l) \notin held \cup RestingLegs
Orphan_anyLeg(l) ==
    repairs /\ l \in confirmed /\ Partner(l) \notin held \cup RestingLegs
Orphan(l) ==
    /\ repairs
    /\ l \in confirmed
    /\ l \in held
    /\ Partner(l) \notin held \cup RestingLegs

\* A guard on a leg whose last flatten was reported killed and which the venue
\* no longer shows: taken as sold.
SoldAfterKill_never == {}
SoldAfterKill == {l \in killed \ held : guard[l] # 0}

\* The merge of pass 1, then what pass 2 finds.
Collect ==
    /\ pc = "pass1"
    /\ todo = {}
    /\ tracked' = tracked \ settled
    /\ cancelled' = cancelled \cap tracked'
    /\ orphans' = [l \in Legs |-> IF Orphan(l) THEN shares[l] ELSE 0]
    /\ ClearGuards(SoldAfterKill)
    /\ killed'  = killed \ SoldAfterKill
    /\ keep'    = {}
    /\ settled' = {}
    /\ Goto("repair")
    /\ UNCHANGED <<setup, venueVars, cur, held, shown, todo, paired>>

\* The next naked leg.
StartRepair(l) ==
    /\ pc = "repair"
    /\ orphans[l] > 0
    /\ cur' = l
    /\ Goto("hedge")
    /\ UNCHANGED <<setup, venueVars, bookVars, listVars, killed, held, shown,
                   todo, keep, settled, orphans, paired>>

Done(l) == orphans' = [orphans EXCEPT ![l] = 0] /\ Goto("repair")

\* The FAK buy of the missing partner trades f contracts.
HedgeTrades(f) ==
    /\ lastId < MaxOrders
    /\ lastId' = lastId + 1
    /\ leg'    = [leg EXCEPT ![lastId + 1] = Partner(cur)]
    /\ st'     = [st EXCEPT ![lastId + 1] = "done"]
    /\ traded' = [traded EXCEPT ![lastId + 1] = f]
    /\ own'    = [own EXCEPT ![Partner(cur)] = @ + f]
    /\ UNCHANGED <<sold, unheard>>

\* It is reported: the partner's guard is written over, confirmed at the fill.
ReHedge_atAsked(f) ==
    /\ pc = "hedge"
    /\ f \in 1..orphans[cur]
    /\ HedgeTrades(f)
    /\ guard'     = [guard EXCEPT ![Partner(cur)] = lastId + 1]
    /\ shares'    = [shares EXCEPT ![Partner(cur)] = orphans[cur]]
    /\ confirmed' = confirmed \cup {Partner(cur)}
    /\ Done(cur)
    /\ UNCHANGED <<setup, listVars, killed, cur, held, shown, todo, keep,
                   settled, paired>>
ReHedge(f) ==
    /\ pc = "hedge"
    /\ f \in 1..orphans[cur]
    /\ HedgeTrades(f)
    /\ guard'     = [guard EXCEPT ![Partner(cur)] = lastId + 1]
    /\ shares'    = [shares EXCEPT ![Partner(cur)] = f]
    /\ confirmed' = confirmed \cup {Partner(cur)}
    /\ Done(cur)
    /\ UNCHANGED <<setup, listVars, killed, cur, held, shown, todo, keep,
                   settled, paired>>

\* No ask, too dear, missed or failed (it may have landed all the same): the
\* leg is flattened.
NoReHedge ==
    /\ pc = "hedge"
    /\ UNCHANGED venueVars \/ \E f \in 1..orphans[cur] : HedgeTrades(f)
    /\ Goto("flatten")
    /\ UNCHANGED <<setup, bookVars, listVars, killed, cur, held, shown, todo,
                   keep, settled, orphans, paired>>

\* The FAK sale of the size collected fills m.  Reported sold, or failed: the
\* guard is cleared.  Reported killed, rightly or not: the guard stays and the
\* leg is remembered.
Flatten(m, reply) ==
    /\ pc = "flatten"
    /\ guard[cur] # 0
    /\ m \in Saleable(cur, orphans[cur])
    /\ SaleOf(cur, m)
    /\ \/ /\ reply = "sold"
          /\ m > 0
          /\ killed' = killed \ {cur}
          /\ ClearGuards({cur})
       \/ /\ reply = "killed"
          /\ killed' = killed \cup {cur}
          /\ UNCHANGED bookVars
       \/ /\ reply = "failed"
          /\ ClearGuards({cur})
          /\ UNCHANGED killed
    /\ Done(cur)
    /\ UNCHANGED <<setup, listVars, cur, held, shown, todo, keep, settled,
                   paired>>

EndPass ==
    /\ pc = "repair"
    /\ \A l \in Legs : orphans[l] = 0
    /\ Goto("idle")
    /\ held'   = {}
    /\ shown'  = {}
    /\ paired' = {}
    /\ cur'    = "yes"
    /\ UNCHANGED <<setup, venueVars, bookVars, listVars, killed, todo, keep,
                   settled, orphans>>

-----------------------------------------------------------------------------
Init ==
    /\ netted \in Accounts
    /\ repairs \in Policies
    /\ leg = [o \in Ids |-> "yes"]
    /\ st = [o \in Ids |-> "new"]
    /\ traded = [o \in Ids |-> 0]
    /\ own = [l \in Legs |-> 0]
    /\ lastId = 0
    /\ guard = [l \in Legs |-> 0]
    /\ shares = [l \in Legs |-> 0]
    /\ confirmed = {}
    /\ tracked = {}
    /\ cancelled = {}
    /\ killed = {}
    /\ pc = "idle"
    /\ cur = "yes"
    /\ held = {}
    /\ shown = {}
    /\ todo = {}
    /\ keep = {}
    /\ settled = {}
    /\ orphans = [l \in Legs |-> 0]
    /\ sold = [o \in Ids |-> 0]
    /\ unheard = [o \in Ids |-> 0]
    /\ paired = {}

PassSteps ==
    \/ \E known \in BOOLEAN : ReadOpen(known)
    \/ \E o \in Ids : PassQuote(o)
    \/ Collect
    \/ \E l \in Legs : StartRepair(l)
    \/ \E f \in 1..Q : ReHedge(f)
    \/ NoReHedge
    \/ \E m \in 0..Q, reply \in {"sold", "killed", "failed"} : Flatten(m, reply)
    \/ EndPass

Viper ==
    \/ \E a \in Firsts : EnterPair(a)
    \/ \E a \in Firsts, s \in [Legs -> {"working", "done"}] : EnterFails(a, s)
    \/ \E o \in Ids : CancelOnLeg(o)
    \/ \E l \in Legs, m \in 1..Q, exitPair \in BOOLEAN :
         ExitLeg(l, m, exitPair) \/ ExitUnheard(l, m, exitPair)

Venue ==
    \/ \E o \in Ids : Trade(o)
    \/ \E o \in Ids : Expire(o)
    \/ \E o \in Ids, n \in 1..Q, complete \in BOOLEAN : FillEvent(o, n, complete)

Next == Begin \/ PassSteps \/ Viper \/ Venue

Spec == Init /\ [][Next]_vars

\* The lifecycle tick comes round, its holdings can be read, and a pass runs to
\* its end.
Fairness == WF_vars(Begin) /\ WF_vars(PassSteps)

FairSpec == Spec /\ Fairness

-----------------------------------------------------------------------------
(* Properties.                                                             *)

PassPoints == {"idle", "listing", "pass1", "repair", "hedge", "flatten"}

\* Every variable keeps its shape.
TypeOK ==
    /\ netted \in Accounts
    /\ repairs \in Policies
    /\ leg \in [Ids -> Legs]
    /\ st \in [Ids -> {"new", "working", "done"}]
    /\ traded \in [Ids -> 0..Q]
    /\ own \in [Legs -> Int]
    /\ lastId \in 0..MaxOrders
    /\ guard \in [Legs -> 0..MaxOrders]
    /\ shares \in [Legs -> 0..Q]
    /\ confirmed \subseteq Legs
    /\ tracked \subseteq Ids
    /\ cancelled \subseteq Ids
    /\ killed \subseteq Legs
    /\ pc \in PassPoints
    /\ cur \in Legs
    /\ held \subseteq Legs
    /\ shown \subseteq Legs
    /\ todo \subseteq Ids
    /\ keep \subseteq Ids
    /\ settled \subseteq Ids
    /\ orphans \in [Legs -> 0..Q]
    /\ sold \in [Ids -> Nat]
    /\ unheard \in [Ids -> 0..MaxUnheard]
    /\ paired \subseteq Legs

\* A confirmed guard shows no more than what is left of the contracts its order
\* bought and what exits sold of them unheard, over entries, partial exits,
\* re-hedges and flattens, except on a leg whose last flatten was reported killed
\* and not yet resolved.  An exit sold unheard does leave its guard on contracts
\* that are gone (GuardShowsWhatIsLeft, below).
Left(o) == traded[o] - (sold[o] + unheard[o])
GuardsAreOwned ==
    \A l \in confirmed \ killed :
      shares[l] <= Left(guard[l]) + unheard[guard[l]]

\* On an account that shows both legs, the repair of pass 2 never sells a leg that
\* is no longer there: a flatten reported killed that did sell is not sent a
\* second time (killed_flattens).
NeverFlattensGone ==
    [][~netted /\ pc = "flatten" => own[cur] > 0]_vars

\* On an account that shows both legs, reconcile repairs no leg whose partner is
\* held: neither one whose partner's guard was confirmed when the pass began, its
\* last flatten not reported killed and none of its exits sold unheard, nor the
\* leg of a pair the re-hedge completed.
HedgedLeftAlone ==
    [][~netted /\ pc = "pass1" /\ pc' = "repair" =>
         \A l \in Legs : orphans'[l] > 0 => Partner(l) \notin paired]_vars

\* A leg left alone for good is repaired: a pass tries to complete or to
\* flatten it, a leg whose last flatten was killed included.
Naked(l) ==
    LET p == Partner(l)
    IN /\ l \in confirmed
       /\ own[l] > 0
       /\ own[p] <= 0
       /\ \A o \in Ids : leg[o] = p => o \notin tracked /\ st[o] # "working"
NakedLegRepaired ==
    \A l \in Legs : Naked(l) ~> (pc = "hedge" /\ cur = l) \/ ~Naked(l)

\* A guard left on a leg that a flatten reported killed did sell is cleared: it
\* does not stay in the map for contracts that are gone.
KilledSaleClears ==
    \A l \in Legs, g \in Ids :
      (l \in killed /\ guard[l] = g /\ own[l] <= 0) ~> (guard[l] # g \/ own[l] > 0)

-----------------------------------------------------------------------------
(* What the code's comments say, and the model refutes.                    *)

\* StrategySignal::Exit: an exit that did not execute traded nothing, "we still
\* own it", so a confirmed guard is of contracts that are there.
GuardShowsWhatIsLeft ==
    \A l \in confirmed \ killed : shares[l] <= Left(guard[l])

\* reconcile: it flattens a naked leg whose partner neither filled nor still
\* rests, so not one whose partner's guard this very pass has confirmed.
RepairsOnlyNaked ==
    [][pc = "pass1" /\ pc' = "repair" =>
         \A l \in Legs : orphans'[l] > 0 => Partner(l) \notin confirmed]_vars

\* Pass 2: a leg is naked when its partner is neither held nor resting, also on
\* an account that nets the legs.
NettedPairIsHeld ==
    [][netted /\ pc = "pass1" /\ pc' = "repair" =>
         \A l \in Legs : orphans'[l] > 0 => own[Partner(l)] <= 0]_vars

\* StrategySignal::Exit: exit_pair also exits the other leg, so a confirmed
\* partner guard that the exit drops had its contracts sold.
ExitPairExitsBoth ==
    [][pc = "idle" =>
         \A l \in confirmed : guard[l] # 0 /\ guard'[l] = 0 => own'[l] < own[l]]_vars
=============================================================================
