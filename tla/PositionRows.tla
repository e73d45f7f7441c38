----------------------------- MODULE PositionRows -----------------------------
(***************************************************************************)
(* Who owns the contracts of one token of a cash-settled account that      *)
(* several squadrons share: their in-memory guards, the open_positions     *)
(* rows (helpers/db.rs), the account sweep of each squadron                *)
(* (kalshi/trader.rs, sync_dashboard), the loops' exit arms and the        *)
(* operator's Close Now (api/server.rs, manual_exit).                      *)
(*                                                                         *)
(* Rows are taker fills: a quote that still rests is OrderLifecycle's.  A  *)
(* viper's row is named by its strategy; a row adopted for nobody is       *)
(* "ChainAdopted".  Each wait of a handler is a step of its own.           *)
(***************************************************************************)
EXTENDS Integers, FiniteSets, FiniteSetsExt

CONSTANTS
    Squadrons,    \* squadrons that may share the account, each flying one viper
    MaxLot,       \* bound: contracts of one buy
    MaxHeld,      \* bound: contracts bought, by the engine and by the operator on the venue
    MaxUnheard,   \* bound: contracts strayed when a sale goes unheard
    MaxRestarts   \* bound: restarts of the process

ASSUME RowsAssumption ==
    /\ MaxLot \in Nat \ {0}
    /\ MaxHeld \in Nat
    /\ MaxUnheard \in Nat
    /\ MaxRestarts \in Nat

\* Names the code reserves are nobody's callsign.
ASSUME NamesAssumption ==
    /\ IsFiniteSet(Squadrons)
    /\ Squadrons \cap {"operator", "nobody", "ChainAdopted", "settlement"} = {}

Operator == "operator"
Nobody   == "nobody"
Adopted  == "ChainAdopted"
Lots     == 1..MaxLot
Sizes    == 1..MaxHeld

\* Names of rows: a viper's by its squadron, the adopted ones by their squadron.
Kinds == {"viper", "adopted"}
Row   == [n : 0..MaxHeld, fill : BOOLEAN]   \* fill: engine_attributed
NoRow == [n |-> 0, fill |-> FALSE]
Keys  == Kinds \X Squadrons

VARIABLES
    \* --- the venue (external) ---
    held,      \* contracts of the account
    settled,   \* the market has resolved and been paid
    \* --- the loops ---
    flying,    \* the squadrons deployed on the account
    guard,     \* [Squadrons -> contracts of the position map's entry]
    entering,  \* [Squadrons -> contracts bought, row not yet written]
    exit,      \* [Squadrons -> the exit arm]
    sweep,     \* [Squadrons -> sync_dashboard]
    manual,    \* manual_exit
    \* --- open_positions, trades ---
    rows,      \* [Keys -> Row]
    trades,    \* {<<strategy, size>>} booked
    \* --- registries of helpers/db.rs ---
    claim,     \* ExitClaim: who is selling
    opRelease, \* operator_releases: [Squadrons -> noted, and not before a later guard opened]
    released,  \* released_positions holds the token
    noted,     \* unclaimed_since: [Squadrons -> "no", "new", "old"]
    sighting,  \* resize_seen
    gap,       \* guard_gaps: squadrons whose guard stands above their rows
    protected, \* note_confirmation within CONFIRMED_ROW_SWEEP_GRACE_SECS
    \* --- counters kept under their bounds ---
    bought, restarts,
    \* --- history, read by properties only ---
    mine,      \* [Squadrons -> contracts its viper bought since the start, less the sales of them its loop learns of]
    strayed,   \* contracts sold while a loop goes on counting on them or the account had them for nobody
    unbooked,  \* contracts that left the account, less contracts booked
    torn,      \* a restart fell between a booking and the row it is about
    raced      \* a sweep acted on what was no longer so, was in another's hands, was counted on by a viper or had its row
               \* still to come; a viper bought beside the row of its last life; Close Now sold part of a lot under a guard

market == <<held, settled>>
loops  == <<guard, entering, exit>>
ledger == <<rows, trades, unbooked>>
memory == <<noted, sighting, gap, protected>>
bounds == <<flying, bought, restarts, torn>>
history == <<mine, strayed, raced>>
vars == <<market, bounds, loops, sweep, manual, ledger, claim, opRelease,
          released, memory, history>>

NoSighting == [target |-> -1, old |-> FALSE]
Resting  == [at |-> "idle", n |-> 0, k |-> 0]
Unswept  == [at |-> "idle", seen |-> 0, due |-> {}]
Unasked  == [at |-> "idle", strategy |-> Adopted, of |-> "none", n |-> 0, k |-> 0]

\* Each squadron flies a viper of its own name.
Strategies == Squadrons \cup {Adopted}
StrategyOf(key) == IF key[1] = "viper" THEN key[2] ELSE Adopted

Live      == {key \in Keys : rows[key].n > 0}
Claimed   == Live # {}
WalletRows == {key \in Live : ~rows[key].fill}
EngineRows == Live \ WalletRows

\* What the entries of f under keys add up to.
Contracts(f, keys) == MapThenSumSet(LAMBDA x : f[x], keys)
Total(keys) == Contracts([key \in Keys |-> rows[key].n], keys)

\* Contracts of the account that are vipers' other than the row's own.
Others(key) == Contracts(mine, {q \in Squadrons : <<"viper", q>> # key})

\* The loop of s is between two handlers.
Between(s) == /\ s \in flying
              /\ entering[s] = 0
              /\ exit[s].at = "idle"
              /\ sweep[s].at = "idle"

-----------------------------------------------------------------------------
(* The loops: a buy, and the row it writes after its fill.                 *)

Enter_keepsRelease(s, n) ==
    /\ Between(s) /\ guard[s] = 0 /\ ~settled
    /\ bought + n <= MaxHeld
    /\ bought' = bought + n
    /\ held' = held + n
    /\ guard' = [guard EXCEPT ![s] = n]
    /\ entering' = [entering EXCEPT ![s] = n]
    /\ mine' = [mine EXCEPT ![s] = @ + n]
    /\ raced' = (raced \/ rows[<<"viper", s>>].n > 0)
    /\ UNCHANGED <<settled, flying, restarts, torn, exit, sweep, manual, ledger, claim,
                   opRelease, released, memory, strayed>>

Enter(s, n) ==
    /\ Between(s) /\ guard[s] = 0 /\ ~settled
    /\ bought + n <= MaxHeld
    /\ bought' = bought + n
    /\ held' = held + n
    /\ guard' = [guard EXCEPT ![s] = n]
    /\ entering' = [entering EXCEPT ![s] = n]
    /\ opRelease' = [opRelease EXCEPT ![s] = FALSE]
    /\ mine' = [mine EXCEPT ![s] = @ + n]
    /\ raced' = (raced \/ rows[<<"viper", s>>].n > 0)
    /\ UNCHANGED <<settled, flying, restarts, torn, exit, sweep, manual, ledger, claim,
                   released, memory, strayed>>

\* The row is not written when the squadron's viper already has one.
EnterRow(s) ==
    /\ entering[s] > 0
    /\ rows' = IF rows[<<"viper", s>>].n > 0 THEN rows
               ELSE [rows EXCEPT ![<<"viper", s>>] = [n |-> entering[s], fill |-> TRUE]]
    /\ entering' = [entering EXCEPT ![s] = 0]
    /\ protected' = TRUE
    /\ UNCHANGED <<market, bounds, guard, exit, sweep, manual, trades, unbooked,
                   claim, opRelease, released, noted, sighting, gap, history>>

-----------------------------------------------------------------------------
(* The exit arm: claim, release check, sale, booking, row and guard.       *)

Drop(g, s) == [g EXCEPT ![s] = 0]

\* take_operator_release: the guard s holds is of a lot the operator has closed.
Dropped(s) == opRelease[s] /\ guard[s] > 0

Claimable_always == TRUE
Claimable == claim = Nobody

ExitStart(s) ==
    /\ Between(s) /\ guard[s] > 0 /\ Claimable
    /\ IF Dropped(s)
       THEN /\ guard' = Drop(guard, s)
            /\ opRelease' = [opRelease EXCEPT ![s] = FALSE]
            /\ UNCHANGED <<claim, exit>>
       ELSE /\ claim' = s
            /\ exit' = [exit EXCEPT ![s] = [at |-> "selling", n |-> guard[s], k |-> 0]]
            /\ UNCHANGED <<guard, opRelease>>
    /\ UNCHANGED <<market, bounds, entering, sweep, manual, ledger, released, memory, history>>

\* The venue fills k of the n asked for; nothing once the market has settled.
ExitSell(s, k) ==
    /\ exit[s].at = "selling"
    /\ k <= exit[s].n /\ (settled => k = 0)
    /\ held' = held - k
    /\ unbooked' = unbooked + k
    /\ mine' = [mine EXCEPT ![s] = @ - Min({k, @})]
    /\ exit' = [exit EXCEPT ![s] = IF k = 0 THEN Resting
                                   ELSE [@ EXCEPT !.at = "sold", !.k = k]]
    /\ claim' = IF k = 0 THEN Nobody ELSE claim
    /\ UNCHANGED <<settled, bounds, guard, entering, sweep, manual, rows, trades,
                   opRelease, released, memory, strayed, raced>>

\* k contracts are sold and nobody hears of it.
Stray(k) ==
    /\ strayed + k <= MaxUnheard /\ (settled => k = 0)
    /\ held' = held - k
    /\ unbooked' = unbooked + k
    /\ strayed' = strayed + k

\* The reply is lost or has no count: the loop takes the exit for not executed, keeps
\* its guard and will sell it again.
ExitUnheard(s, k) ==
    /\ exit[s].at = "selling" /\ k <= exit[s].n
    /\ Stray(k)
    /\ exit' = [exit EXCEPT ![s] = Resting]
    /\ claim' = Nobody
    /\ UNCHANGED <<settled, bounds, guard, entering, sweep, manual, rows, trades,
                   opRelease, released, memory, mine, raced>>

\* record_trade, once the sweep that follows a fill is over.
ExitBook(s) ==
    /\ exit[s].at = "sold" /\ sweep[s].at = "idle"
    /\ unbooked' = unbooked - exit[s].k
    /\ trades' = trades \cup {<<s, exit[s].k>>}
    /\ exit' = [exit EXCEPT ![s].at = "booked"]
    /\ UNCHANGED <<market, bounds, guard, entering, sweep, manual, rows, claim,
                   opRelease, released, memory, history>>

\* shrink_engine_position on a partial sale, close_open_position on a full one.
Shrunk_not(key, n) == rows
Shrunk(key, n) == [rows EXCEPT ![key] = IF @.n = 0 THEN @ ELSE [@ EXCEPT !.n = n]]
Closed(strategy) == [key \in Keys |-> IF StrategyOf(key) = strategy THEN NoRow ELSE rows[key]]

ExitClose(s) ==
    /\ exit[s].at = "booked"
    /\ LET left == exit[s].n - exit[s].k
       IN /\ rows' = IF left > 0 THEN Shrunk(<<"viper", s>>, left) ELSE Closed(s)
          /\ guard' = [guard EXCEPT ![s] = left]
    /\ exit' = [exit EXCEPT ![s] = Resting]
    /\ claim' = Nobody
    /\ UNCHANGED <<market, bounds, entering, sweep, manual, trades, unbooked,
                   opRelease, released, memory, history>>

-----------------------------------------------------------------------------
(* manual_exit: the operator closes one strategy's row.  The row is sold   *)
(* as it was read; nobody asks whether the account still has as much.      *)

ManualStart(key) ==
    /\ manual.at = "idle" /\ Claimable /\ key \in Live
    /\ claim' = Operator
    /\ manual' = [at |-> "selling", strategy |-> StrategyOf(key), of |-> key[2], n |-> rows[key].n, k |-> 0]
    /\ UNCHANGED <<market, bounds, loops, sweep, ledger, opRelease, released, memory, history>>

\* The vipers whose contracts are not of the row Close Now is about.
OtherVipers == {q \in Squadrons : manual.strategy # q}

\* What a sale of k takes beyond what the account has for the row.
Beyond(k) == Max({0, k + Contracts(mine, OtherVipers) - (held + strayed)})

\* Part of a row is sold, and the loop that guards the lot is not told.
Untold(k) == k \in 1..(manual.n - 1) /\ manual.strategy # Adopted /\ guard[manual.of] > 0

\* The order is fill-or-kill on every venue, yet the handler has a branch for a part.
ManualSell(k) ==
    /\ manual.at = "selling"
    /\ k <= manual.n /\ (settled => k = 0)
    /\ held' = held - k
    /\ unbooked' = unbooked + k
    /\ manual' = IF k = 0 THEN Unasked ELSE [manual EXCEPT !.at = "sold", !.k = k]
    /\ claim' = IF k = 0 THEN Nobody ELSE claim
    /\ IF Untold(k)
       THEN /\ strayed' = strayed + k
            /\ raced' = TRUE
            /\ UNCHANGED mine
       ELSE /\ strayed' = strayed + Beyond(k)
            /\ mine' = IF manual.strategy = Adopted THEN mine
                       ELSE [mine EXCEPT ![manual.of] = @ - Min({k, @})]
            /\ UNCHANGED raced
    /\ UNCHANGED <<settled, bounds, loops, sweep, rows, trades, opRelease, released, memory>>

\* The placement failed or was timed out: it may have filled, and the row stays.
ManualUnheard(k) ==
    /\ manual.at = "selling" /\ k <= manual.n
    /\ Stray(k)
    /\ manual' = Unasked
    /\ claim' = Nobody
    /\ UNCHANGED <<settled, bounds, loops, sweep, rows, trades, opRelease, released, memory, mine, raced>>

ManualBook ==
    /\ manual.at = "sold"
    /\ unbooked' = unbooked - manual.k
    /\ trades' = trades \cup {<<manual.strategy, manual.k>>}
    /\ manual' = [manual EXCEPT !.at = "booked"]
    /\ UNCHANGED <<market, bounds, loops, sweep, rows, claim, opRelease, released, memory, history>>

\* forget_position: the row goes, the loop that holds the guard is told.  After a
\* part the row is reduced, and the guard is out of the handler's reach.
Reduced(strategy, n) ==
    [key \in Keys |-> IF StrategyOf(key) = strategy /\ key \in Live
                      THEN [rows[key] EXCEPT !.n = n] ELSE rows[key]]

ManualClose ==
    /\ manual.at = "booked"
    /\ IF manual.k < manual.n
       THEN /\ rows' = Reduced(manual.strategy, manual.n - manual.k)
            /\ UNCHANGED opRelease
       ELSE /\ rows' = Closed(manual.strategy)
            /\ opRelease' = [s \in Squadrons |-> opRelease[s] \/ s = manual.strategy]
    /\ manual' = Unasked
    /\ claim' = Nobody
    /\ UNCHANGED <<market, bounds, loops, sweep, trades, unbooked, released, memory, history>>

-----------------------------------------------------------------------------
(* sync_dashboard: what it read of the account is used to the end.         *)

MoveTo(s, at) == [sweep EXCEPT ![s].at = at]

\* The sync of a tick is followed by the releases; the one after a fill is not.
Over(s) == [sweep EXCEPT ![s] =
              IF exit[s].at = "sold" THEN Unswept ELSE [Unswept EXCEPT !.at = "release"]]

SweepRead(s) ==
    /\ s \in flying /\ entering[s] = 0
    /\ exit[s].at \in {"idle", "sold"} /\ sweep[s].at = "idle"
    /\ \/ sweep' = Over(s)            \* the venue could not be read
       \/ sweep' = [sweep EXCEPT ![s] = [at |-> IF held > 0 THEN "claim" ELSE "probe",
                                         seen |-> held, due |-> {}]]
    /\ UNCHANGED <<market, bounds, loops, manual, ledger, claim, opRelease, released, memory, history>>

Adopt_unchecked(key, n) ==
    /\ rows' = [rows EXCEPT ![key] = [n |-> n, fill |-> FALSE]]
    /\ UNCHANGED raced

\* adopt_unclaimed_holding: under the gate, when no row at all claims the token.
Adopt(key, n) ==
    /\ rows' = IF Claimed THEN rows ELSE [rows EXCEPT ![key] = [n |-> n, fill |-> FALSE]]
    /\ raced' = (raced \/ (~Claimed /\ (n + Others(key) > held \/ \E q \in Squadrons : Dropped(q))))

\* The holder's row is written at the account's size when it is missing; a
\* holding nobody claims waits out its grace.
SweepClaim(s) ==
    /\ sweep[s].at = "claim"
    /\ IF guard[s] > 0
       THEN /\ Adopt(<<"viper", s>>, sweep[s].seen)
            /\ protected' = TRUE
            /\ sweep' = MoveTo(s, "follow")
            /\ UNCHANGED noted
       ELSE /\ noted' = [noted EXCEPT ![s] = IF Claimed \/ @ = "old" THEN "no" ELSE "new"]
            /\ sweep' = MoveTo(s, IF ~Claimed /\ noted[s] = "old" THEN "adopt" ELSE "follow")
            /\ UNCHANGED <<rows, protected, raced>>
    /\ UNCHANGED <<market, bounds, loops, manual, trades, unbooked, claim, opRelease,
                   released, sighting, gap, mine, strayed>>

SweepAdopt(s) ==
    /\ sweep[s].at = "adopt"
    /\ Adopt(<<"adopted", s>>, sweep[s].seen)
    /\ protected' = (protected \/ ~Claimed)
    /\ sweep' = MoveTo(s, "follow")
    /\ UNCHANGED <<market, bounds, loops, manual, trades, unbooked, claim, opRelease,
                   released, noted, sighting, gap, mine, strayed>>

\* resize_due: the same target must have stood for the grace.
Due(target) == sighting.target = target /\ sighting.old
Sight(target) ==
    sighting' = IF sighting.target = target
                THEN IF sighting.old THEN NoSighting ELSE sighting
                ELSE [target |-> target, old |-> FALSE]

\* book_adopted_exit, unless a trade of the row's strategy and size in the last
\* 15 minutes covers it.
BookLeft(key, n, covered) ==
    /\ covered => <<StrategyOf(key), n>> \in trades
    /\ unbooked' = IF covered THEN unbooked ELSE unbooked - n
    /\ trades' = IF covered THEN trades ELSE trades \cup {<<StrategyOf(key), n>>}

\* The excess over the engine's own rows becomes an adopted row of a claimant.
AdoptExcess(s, excess) ==
    IF EngineRows # {} /\ excess > 0 /\ guard[s] > 0
    THEN /\ Sight(excess)
         /\ IF Due(excess)
            THEN /\ \E key \in EngineRows :
                        rows' = [rows EXCEPT ![<<"adopted", key[2]>>] = [n |-> excess, fill |-> FALSE]]
                 /\ protected' = TRUE
            ELSE UNCHANGED <<rows, protected>>
         /\ UNCHANGED <<trades, unbooked>>
    ELSE /\ sighting' = NoSighting
         /\ UNCHANGED <<ledger, protected>>

Resize(key, target) ==
    IF target = rows[key].n
    THEN sighting' = NoSighting /\ UNCHANGED ledger
    ELSE /\ Sight(target)
         /\ IF ~Due(target) THEN UNCHANGED ledger
            ELSE /\ rows' = [rows EXCEPT ![key] = IF target = 0 THEN NoRow ELSE [@ EXCEPT !.n = target]]
                 /\ IF target >= rows[key].n THEN UNCHANGED <<trades, unbooked>>
                    ELSE \E covered \in BOOLEAN :
                            /\ covered => target = 0
                            /\ BookLeft(key, rows[key].n - target, covered)

\* follow_account_holding.
GuardGap(s) == guard[s] > rows[<<"viper", s>>].n

\* A reading that says too little to follow: a fill whose row is on its way, several
\* rows to resize, or fewer contracts than the engine's own rows have.
Unclear(remainder) == gap' # {} \/ Cardinality(WalletRows) > 1 \/ remainder < 0

\* Close Now at work, or a sale between its fill and its row; a sweep about to book.
InSale == manual.at # "idle" \/ \E q \in Squadrons : exit[q].at \in {"sold", "booked"}
InHand == InSale \/ \E q \in Squadrons : sweep[q].at = "book"

SweepFollow(s) ==
    /\ sweep[s].at = "follow"
    /\ gap' = IF GuardGap(s) THEN gap \cup {s} ELSE gap \ {s}
    /\ sweep' = Over(s)
    /\ LET remainder == sweep[s].seen - Total(EngineRows)
       IN IF Unclear(remainder)
          THEN sighting' = NoSighting /\ UNCHANGED <<ledger, protected>>
          ELSE IF WalletRows = {} THEN AdoptExcess(s, remainder)
          ELSE /\ \A key \in WalletRows : Resize(key, remainder)
               /\ UNCHANGED protected
    /\ raced' = (raced \/ (rows' # rows /\ (\/ sweep[s].seen # held \/ InHand
                                           \/ \E q \in Squadrons : entering[q] > 0)))
    /\ UNCHANGED <<market, bounds, loops, manual, claim, opRelease, released, noted, mine, strayed>>

\* The token is not live: the exchange is asked what became of the market.
SweepProbe(s) ==
    /\ sweep[s].at = "probe"
    /\ \E answer \in {"unknown", IF settled THEN "resolved" ELSE "open"} :
          sweep' = CASE answer = "unknown" -> Over(s)
                     [] answer = "resolved" -> MoveTo(s, "settle")
                     [] OTHER -> MoveTo(s, "purge")
    /\ UNCHANGED <<market, bounds, loops, manual, ledger, claim, opRelease, released, memory, history>>

\* A settled market: every row is booked at the result and released.
Settlement == "settlement"
SettlementOf == {<<Settlement, rows[key].n>> : key \in Live}
Figures(due) == Contracts([d \in due |-> d[2]], due)
SweepSettle(s) ==
    /\ sweep[s].at = "settle"
    /\ unbooked' = unbooked - Figures(SettlementOf \ trades)
    /\ trades' = trades \cup SettlementOf
    /\ rows' = [key \in Keys |-> NoRow]
    /\ released' = (released \/ Claimed)
    /\ sweep' = Over(s)
    /\ UNCHANGED <<market, bounds, loops, manual, claim, opRelease, memory, history>>

\* purge_stale_open_positions: a row that is neither fresh nor covered by a trade
\* of its size left the account off-strategy; it is booked, then deleted.
CountedOn == \E q \in Squadrons : mine[q] > 0
Booked(n) == \E t \in trades : t[2] = n
SweepPurge(s) ==
    /\ sweep[s].at = "purge"
    /\ IF protected
       THEN /\ sweep' = Over(s)
            /\ UNCHANGED <<rows, released>>
       ELSE LET due == {key \in Live : ~Booked(rows[key].n)}
            IN /\ rows' = [key \in Keys |-> IF key \in due THEN rows[key] ELSE NoRow]
               /\ released' = (released \/ Live # due)
               /\ sweep' = [sweep EXCEPT ![s].at = "book",
                                         ![s].due = {<<key, rows[key].n>> : key \in due}]
    /\ raced' = (raced \/ (~protected /\ (InHand \/ held > 0 \/ CountedOn)))
    /\ UNCHANGED <<market, bounds, loops, manual, trades, unbooked, claim, opRelease, memory, mine, strayed>>

SweepBook(s) ==
    /\ sweep[s].at = "book"
    /\ LET due == sweep[s].due
       IN /\ unbooked' = unbooked - Figures(due)
          /\ trades' = trades \cup {<<StrategyOf(d[1]), d[2]>> : d \in due}
          /\ rows' = [key \in Keys |-> IF \E d \in due : d[1] = key THEN NoRow ELSE rows[key]]
          /\ released' = (released \/ due # {})
          /\ raced' = (raced \/ held > 0 \/ CountedOn \/ InSale \/ \E d \in due : rows[d[1]].n # d[2])
    /\ sweep' = Over(s)
    /\ UNCHANGED <<market, bounds, loops, manual, claim, opRelease, memory, mine, strayed>>

\* release_swept_positions drains the set whole, whichever loop ticks first; then
\* release_operator_closed_positions.
ReleaseClosed(s) ==
    /\ sweep[s].at = "release"
    /\ guard' = IF released \/ Dropped(s) THEN Drop(guard, s) ELSE guard
    /\ released' = FALSE
    /\ opRelease' = [opRelease EXCEPT ![s] = @ /\ (released \/ guard[s] = 0)]
    /\ sweep' = [sweep EXCEPT ![s] = Unswept]
    /\ raced' = (raced \/ (released /\ guard[s] > 0 /\ ~settled))
    /\ UNCHANGED <<market, bounds, entering, exit, manual, ledger, claim, memory, mine, strayed>>

-----------------------------------------------------------------------------
(* The operator on the venue's own site, settlement, restarts, time.       *)

OutsideBuy ==
    /\ ~settled /\ bought < MaxHeld
    /\ bought' = bought + 1
    /\ held' = held + 1
    /\ UNCHANGED <<settled, flying, restarts, torn, loops, sweep, manual, ledger, claim,
                   opRelease, released, memory, history>>

\* The operator sells on the site what no viper bought.
OutsideSale ==
    /\ ~settled
    /\ held > Contracts(mine, Squadrons)
    /\ held' = held - 1
    /\ unbooked' = unbooked + 1
    /\ UNCHANGED <<settled, bounds, loops, sweep, manual, rows, trades, claim,
                   opRelease, released, memory, history>>

\* No handler waits as long as a grace lasts, and every loop has ticked since.
Quiet == /\ manual.at = "idle" /\ ~released
         /\ \A s \in flying : Between(s) /\ ~Dropped(s)

\* Trading ends minutes before the result is paid.
Settle ==
    /\ ~settled /\ Quiet
    /\ settled' = TRUE
    /\ held' = 0
    /\ unbooked' = unbooked + held
    /\ mine' = [s \in Squadrons |-> 0]
    /\ UNCHANGED <<bounds, loops, sweep, manual, rows, trades, claim, opRelease, released, memory, strayed, raced>>

\* Rows and trades outlive the process; guards and registries do not.
Restart ==
    /\ restarts < MaxRestarts
    /\ restarts' = restarts + 1
    /\ torn' = (torn \/ manual.at = "booked" \/ \E s \in Squadrons :
                    exit[s].at = "booked" \/ sweep[s].at = "book")
    /\ guard' = [s \in Squadrons |-> 0]
    /\ entering' = guard'
    /\ exit' = [s \in Squadrons |-> Resting]
    /\ sweep' = [s \in Squadrons |-> Unswept]
    /\ manual' = Unasked
    /\ claim' = Nobody
    /\ opRelease' = [s \in Squadrons |-> FALSE]
    /\ noted' = [s \in Squadrons |-> "no"]
    /\ sighting' = NoSighting
    /\ gap' = {}
    /\ protected' = FALSE
    /\ released' = FALSE
    /\ mine' = guard'
    /\ UNCHANGED <<market, flying, bought, ledger, strayed, raced>>

\* UNCLAIMED_ADOPT_GRACE_SECS and RESIZE_GRACE_SECS go by, and the sweeps every
\* thirty seconds have looked at what they had noted: a resize still due has stood,
\* a holding that is claimed is forgotten, one that is gone is not.
Excess == held - Total(EngineRows)
GraceEnds ==
    /\ Quiet
    /\ noted' = [s \in Squadrons |->
                    IF noted[s] = "no" \/ (held > 0 /\ Claimed /\ guard[s] = 0) THEN "no" ELSE "old"]
    /\ sighting' = IF held > 0 /\ sighting.target = Excess
                   THEN [sighting EXCEPT !.old = TRUE] ELSE NoSighting
    /\ UNCHANGED <<market, bounds, loops, sweep, manual, ledger, claim, opRelease,
                   released, gap, protected, history>>

\* CONFIRMED_ROW_SWEEP_GRACE_SECS without a confirmation: not while a loop that
\* guards live contracts goes on sweeping.
ProtectionEnds ==
    /\ Quiet /\ protected
    /\ held > 0 => \A s \in flying : guard[s] = 0
    /\ protected' = FALSE
    /\ UNCHANGED <<market, bounds, loops, sweep, manual, ledger, claim, opRelease,
                   released, noted, sighting, gap, history>>

-----------------------------------------------------------------------------
Init ==
    /\ held = 0 /\ settled = FALSE
    /\ flying \in (SUBSET Squadrons) \ {{}}
    /\ guard = [s \in Squadrons |-> 0]
    /\ entering = guard
    /\ exit = [s \in Squadrons |-> Resting]
    /\ sweep = [s \in Squadrons |-> Unswept]
    /\ manual = Unasked
    /\ rows = [key \in Keys |-> NoRow]
    /\ trades = {}
    /\ claim = Nobody
    /\ opRelease = [s \in Squadrons |-> FALSE]
    /\ released = FALSE
    /\ noted = [s \in Squadrons |-> "no"]
    /\ sighting = NoSighting
    /\ gap = {}
    /\ protected = FALSE
    /\ bought = 0 /\ restarts = 0
    /\ mine = [s \in Squadrons |-> 0]
    /\ strayed = 0 /\ unbooked = 0 /\ torn = FALSE /\ raced = FALSE

Loop(s) ==
    \/ \E n \in Lots : Enter(s, n)
    \/ EnterRow(s)
    \/ ExitStart(s) \/ ExitBook(s) \/ ExitClose(s)
    \/ \E k \in 0..MaxHeld : ExitSell(s, k) \/ ExitUnheard(s, k)

Sweep(s) ==
    \/ SweepRead(s) \/ SweepClaim(s) \/ SweepAdopt(s) \/ SweepFollow(s)
    \/ SweepProbe(s) \/ SweepSettle(s) \/ SweepPurge(s) \/ SweepBook(s)
    \/ ReleaseClosed(s)

CloseNow ==
    \/ \E key \in Keys : ManualStart(key)
    \/ \E k \in 0..MaxHeld : ManualSell(k) \/ ManualUnheard(k)
    \/ ManualBook \/ ManualClose

Next ==
    \/ \E s \in Squadrons : Loop(s) \/ Sweep(s)
    \/ CloseNow
    \/ OutsideBuy \/ OutsideSale
    \/ Settle \/ Restart \/ GraceEnds \/ ProtectionEnds

Spec == Init /\ [][Next]_vars

-----------------------------------------------------------------------------
\* Every variable has its type: no row, guard or sale is negative or larger than
\* what was ever bought, and a claim is held exactly while its holder sells.
TypeOK ==
    /\ held \in Int /\ settled \in BOOLEAN
    /\ flying \in SUBSET Squadrons
    /\ guard \in [Squadrons -> 0..MaxHeld]
    /\ entering \in [Squadrons -> 0..MaxLot]
    /\ exit \in [Squadrons -> [at : {"idle", "selling", "sold", "booked"},
                               n : 0..MaxHeld, k : 0..MaxHeld]]
    /\ \A s \in Squadrons :
          /\ sweep[s].at \in {"idle", "claim", "adopt", "follow", "probe", "settle", "purge", "book", "release"}
          /\ sweep[s].seen \in Int /\ sweep[s].due \in SUBSET (Keys \X Sizes)
    /\ manual.at \in {"idle", "selling", "sold", "booked"}
    /\ manual.strategy \in Strategies /\ manual.n \in 0..MaxHeld /\ manual.k \in 0..manual.n
    /\ rows \in [Keys -> Row]
    /\ trades \in SUBSET ((Strategies \cup {Settlement}) \X Sizes)
    /\ claim \in Squadrons \cup {Operator, Nobody}
    /\ claim = Operator <=> manual.at # "idle"
    /\ \A s \in Squadrons : claim = s <=> exit[s].at # "idle"
    /\ opRelease \in [Squadrons -> BOOLEAN]
    /\ released \in BOOLEAN /\ protected \in BOOLEAN
    /\ torn \in BOOLEAN /\ raced \in BOOLEAN
    /\ noted \in [Squadrons -> {"no", "new", "old"}]
    /\ sighting \in [target : -1..MaxHeld, old : BOOLEAN]
    /\ gap \in SUBSET Squadrons
    /\ bought \in 0..MaxHeld /\ restarts \in 0..MaxRestarts
    /\ mine \in [Squadrons -> 0..MaxHeld]
    /\ strayed \in Nat /\ unbooked \in Int

\* The account goes short (on a netting venue that buys the other leg) by no more than
\* the sales nobody heard of and what Close Now sold of a row the account no longer had:
\* one claim per token at a time, and a guard the operator closed is dropped before it
\* is sold.  While no sweep has raced, by no more than the contracts that left the
\* account without being booked, so that only such a departure makes a row too large.
NoOversell ==
    /\ held + strayed >= 0
    /\ (~torn /\ ~raced) => held + unbooked >= 0

\* However many sweeps read the same unclaimed holding, at most one adopted row
\* claims it: the claim is checked again under the gate the rows are written under.
AdoptedOnce == Cardinality(WalletRows) <= 1

\* No contract's departure is booked twice by the exit arm, Close Now, the resize,
\* the purge and the settlement between them, restarts included; excused when the
\* process died between a booking and its row, or once a sweep has raced.
BookedOnce == (~torn /\ ~raced) => unbooked >= 0

\* A loop lets go of a guard only when its lot is sold: what the operator or a sweep
\* closed earlier never takes the guard of a newer lot.
LotsGuarded ==
    [][\A s \in Squadrons : \/ guard'[s] >= guard[s] \/ mine'[s] <= guard'[s]
                            \/ restarts' # restarts \/ raced']_vars

\* What helpers/db.rs says of the purge and the settlement ("already booked", "cannot
\* book twice"), with no excuse for races; the code does not keep it.
NeverBookedTwice == unbooked >= 0

\* What manual_exit says of the rest of a row ("still managed") and of a sale that timed
\* out ("check the venue before retrying"): no sale goes beyond what the account holds.
\* Nobody checks it in the code, and it does not hold.
NeverShort == held >= 0
=============================================================================
