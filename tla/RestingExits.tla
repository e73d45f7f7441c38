---------------------------- MODULE RestingExits ----------------------------
(***************************************************************************)
(* The resting take-profit of one position on the international venue: the *)
(* post-only ask, its record (MakerRestingExit) and the four places of the *)
(* patrol loop that pull, post or book it (squadron/patrol_impl.rs): the   *)
(* viper's MakerRestingExit signal, an Exit, the fill sweep of every tick, *)
(* and the tear-down.  The ask is lifted without a word; the loop has to   *)
(* find out from three witnesses that are each wrong in their own way:     *)
(* the order's matched size, cumulative and gone once the order is; the    *)
(* wallet's balance, which lags a fill and reads 0 when it cannot be read; *)
(* and the venue's refusal to sell what is not there.                      *)
(*                                                                         *)
(* Shares come in units of MIN_ORDER_SHARES.                               *)
(***************************************************************************)
EXTENDS Naturals, FiniteSetsExt

CONSTANTS
  Size,       \* shares the position was entered with
  Prices,     \* prices of an ask
  None,       \* no price
  MaxFails,   \* bound: balance readings that fail
  MaxFaults   \* bound: listings and cancels that fail, ticks cut off at 45 s

ASSUME SizeAssumption == Size \in Nat \ {0} /\ None \notin Prices
ASSUME BoundsAssumption == MaxFails \in Nat /\ MaxFaults \in Nat

VARIABLES
  \* --- the venue and the chain (external) ---
  ask,      \* our order on the book
  wallet,   \* shares held
  seen,     \* shares the balance endpoint shows
  lifted,   \* per price, shares our asks sold
  \* --- the patrol loop ---
  pos,      \* Position.shares, 0 when the map has no entry
  rec,      \* maker_resting_exits
  booked,   \* per price, shares the ledger says an ask sold
  op,       \* the signal or tear-down in progress and its locals
  due,      \* this tick has signals, and so reaches the sweep
  \* --- bounds and history, read by properties only ---
  fails, faults,
  hist      \* "raised": a position above what was left, to a lagging reading;
            \* "misread": a refusal explained by a failed reading; "closed": a
            \* position torn down while shares are held; "again": one booked when gone;
            \* "unheard": a sale whose answer was lost or cut off; "blind": a count of short
            \* readings carried on by a second one that failed, shares being held;
            \* "dropped": an exit at a price of 0, dropped unsold

venue == <<ask, wallet, seen, lifted>>
vars == <<ask, wallet, seen, lifted, pos, rec, booked, op, due, fails, faults, hist>>

Shares == 0 .. Size
Confirmations == 2    \* MAKER_RESTING_EXIT_FILL_CONFIRMATIONS
NoAsk == [price |-> None, left |-> 0, matched |-> 0]
Ask == [price : Prices, left : 1 .. Size, matched : Shares]

\* vanished: vanished_at is set; polled: the sweep has read the wallet since.
\* short and most: short_reads, capped at the confirmations it takes, and
\* max_short_read.
NoRec == [price |-> None]
Rec == [price : Prices, shares : Shares, booked : Shares, short : 0 .. Confirmations, most : Shares,
        vanished : BOOLEAN, polled : BOOLEAN]
NewRec(p) == [price |-> p, shares |-> pos, booked |-> 0, short |-> 0, most |-> 0,
              vanished |-> FALSE, polled |-> FALSE]
Kept(r) == [r EXCEPT !.vanished = TRUE, !.polled = FALSE, !.short = 0, !.most = 0]

Idle == [kind |-> "none", pc |-> "idle", want |-> None, rec |-> NoRec, found |-> FALSE, matched |-> 0]
Kinds == {"none", "reprice", "exit", "down"}
Pcs == {"idle", "all", "list", "cancel", "read", "place", "placed", "sell", "sold", "refused"}

Less(a, b) == IF a < b THEN 0 ELSE a - b

-----------------------------------------------------------------------------
(* The arithmetic of a booking: mod resting_exit.                          *)

LiftSinceBooking_cumulative(found, matched, before, live) ==
  IF found THEN Min({matched, live}) ELSE 0
LiftSinceBooking(found, matched, before, live) ==
  IF found THEN Min({Less(matched, before), live}) ELSE 0
LiftAtPull(prior, held, matched) == Max({Less(prior, held), matched})
ChainDrop(baseline, held) == IF held = 0 THEN 0 ELSE Less(baseline, held)
RemainingAfter_trusting(live, sold, held) == Min({Less(live, sold), held})
RemainingAfter(live, sold, held) ==
  IF held # 0 THEN Min({Less(live, sold), held}) ELSE Less(live, sold)

-----------------------------------------------------------------------------
(* The venue and the chain (external).                                     *)

Init ==
  /\ ask = NoAsk /\ wallet = Size /\ seen = Size
  /\ lifted = [p \in Prices |-> 0]
  /\ pos = Size /\ rec = NoRec
  /\ booked = [p \in Prices |-> 0]
  /\ op = Idle /\ due = FALSE
  /\ fails = 0 /\ faults = 0 /\ hist = {}

\* A taker lifts part of the ask, or all of it: then it leaves the book.
Lift(n) ==
  /\ n \in 1 .. ask.left
  /\ ask' = IF n = ask.left THEN NoAsk
            ELSE [ask EXCEPT !.left = @ - n, !.matched = @ + n]
  /\ wallet' = wallet - n
  /\ lifted' = [lifted EXCEPT ![ask.price] = @ + n]
  /\ UNCHANGED <<seen, pos, rec, booked, op, due, fails, faults, hist>>

\* The balance endpoint catches up.
Settle ==
  /\ seen' \in wallet .. seen - 1
  /\ UNCHANGED <<ask, wallet, lifted, pos, rec, booked, op, due, fails, faults, hist>>

\* onchain_balance_for_token: the wallet as the endpoint has it, or 0 when the
\* reading fails; with retries the largest of several readings, which are taken
\* not to fail all together.
Reads(held) ==
  \/ held = seen /\ UNCHANGED fails
  \/ held = 0 /\ fails < MaxFails /\ fails' = fails + 1
ReadsAgain(held) == held = seen /\ UNCHANGED fails

Fault == faults < MaxFaults /\ faults' = faults + 1

-----------------------------------------------------------------------------
(* A tick, and the signals it begins.                                      *)

\* Only a tick that has a book, whose vipers could be evaluated and had something
\* to say, goes on to the signals and to the sweep behind them.
Tick ==
  /\ op.pc = "idle" /\ ~due
  /\ due' = TRUE
  /\ UNCHANGED <<venue, pos, rec, booked, op, fails, faults, hist>>

\* It ends without a poll: none is due yet.
TickEnds ==
  /\ op.pc = "idle" /\ due
  /\ due' = FALSE
  /\ UNCHANGED <<venue, pos, rec, booked, op, fails, faults, hist>>

Begins(kind, pc, p, r) ==
  op' = [Idle EXCEPT !.kind = kind, !.pc = pc, !.want = p, !.rec = r]
Ends == op' = Idle

\* StrategySignal::MakerRestingExit, which the viper emits on every tick, at
\* any price.  An ask that vanished is posted again only after its grace, of
\* any length here, and a poll since that read the shares as held.
MayRepost == rec.polled /\ rec.short = 0
WantAsk(p) ==
  /\ op.pc = "idle" /\ due /\ pos > 0
  /\ \/ /\ rec = NoRec
        /\ Begins("reprice", "place", p, NoRec)
        /\ UNCHANGED rec
     \/ /\ rec # NoRec /\ rec.vanished
        /\ MayRepost
        /\ Begins("reprice", "place", p, rec)
        /\ rec' = NoRec
     \/ /\ rec # NoRec /\ ~rec.vanished
        /\ rec.price # p \/ rec.shares # pos
        /\ Begins("reprice", "list", p, rec)
        /\ UNCHANGED rec
  /\ UNCHANGED <<venue, pos, booked, due, fails, faults, hist>>

\* StrategySignal::Exit: the ask commits the shares, so it is pulled first.
Exit ==
  /\ op.pc = "idle" /\ due /\ pos > 0
  /\ Begins("exit", IF rec = NoRec THEN "sell" ELSE "list", None, rec)
  /\ UNCHANGED <<venue, pos, rec, booked, due, fails, faults, hist>>

\* A rotation or a stand-down: every order of the account is cancelled before the
\* loop ends and its asks are torn down.
TearDown ==
  /\ op.pc = "idle" /\ rec # NoRec
  /\ Begins("down", "all", None, rec)
  /\ UNCHANGED <<venue, pos, rec, booked, due, fails, faults, hist>>

\* The chain sweep booked and closed the row of a token the wallet no longer
\* holds (take_released_positions).
Release ==
  /\ op.pc = "idle" /\ pos > 0 /\ wallet = 0
  /\ pos' = 0 /\ rec' = NoRec
  /\ UNCHANGED <<venue, booked, op, due, fails, faults, hist>>

\* cancel_all_orders_with_retries, of this squadron's loop or of another's.
CancelAll ==
  /\ op.pc = "all"
  /\ op' = [op EXCEPT !.pc = "list"]
  /\ \/ ask' = NoAsk /\ UNCHANGED faults
     \/ Fault /\ UNCHANGED ask
  /\ UNCHANGED <<wallet, seen, lifted, pos, rec, booked, due, fails, hist>>
OthersCancelAll ==
  /\ ask # NoAsk /\ ask' = NoAsk
  /\ UNCHANGED <<wallet, seen, lifted, pos, rec, booked, op, due, fails, faults, hist>>

-----------------------------------------------------------------------------
(* cancel_resting_orders: list ours, then cancel what was listed.          *)

List ==
  /\ op.pc = "list"
  /\ \/ /\ op' = [op EXCEPT !.found = ask # NoAsk, !.matched = ask.matched,
                            !.pc = IF ask # NoAsk THEN "cancel" ELSE "read"]
        /\ UNCHANGED faults
     \/ Fault /\ op' = [op EXCEPT !.pc = "read"]
  /\ rec' = IF op'.pc = "read" THEN NoRec ELSE rec
  /\ UNCHANGED <<venue, pos, booked, due, fails, hist>>

\* The answer to the cancel is not looked at.
Cancel ==
  /\ op.pc = "cancel"
  /\ op' = [op EXCEPT !.pc = "read"]
  /\ rec' = NoRec
  /\ \/ ask' = NoAsk /\ UNCHANGED faults
     \/ Fault /\ UNCHANGED ask
  /\ UNCHANGED <<wallet, seen, lifted, pos, booked, due, fails, hist>>

Books(n) == booked' = [booked EXCEPT ![op.rec.price] = @ + n]

\* The trade is written, and then the position lowered: the 45 seconds may run
\* out in between.
Lowers(n) == pos' = n /\ UNCHANGED faults
CutBetween == Fault /\ UNCHANGED pos

\* A reprice: one reading, trusted only when positive and below the baseline.
ReadReprice(held) ==
  /\ op.pc = "read" /\ op.kind = "reprice"
  /\ Reads(held)
  /\ LET sold == Max({LiftSinceBooking(op.found, op.matched, op.rec.booked, pos),
                     ChainDrop(op.rec.shares, held)})
     IN \/ /\ sold > 0
           /\ Books(sold)
           /\ Lowers(RemainingAfter(pos, sold, held)) \/ CutBetween
           /\ UNCHANGED rec /\ Ends
        \/ /\ sold = 0 /\ ~op.found
           /\ rec' = Kept(op.rec)
           /\ UNCHANGED <<pos, booked, faults>> /\ Ends
        \/ /\ sold = 0 /\ op.found
           /\ op' = [op EXCEPT !.pc = "place", !.rec = NoRec]
           /\ UNCHANGED <<pos, rec, booked, faults>>
  /\ UNCHANGED <<venue, due, hist>>

\* An exit: read with retries, so that a 0 counts.
ReadExit(held) ==
  /\ op.pc = "read" /\ op.kind = "exit"
  /\ ReadsAgain(held)
  /\ LET sold == LiftAtPull(pos, held, LiftSinceBooking(op.found, op.matched, op.rec.booked, pos))
     IN \/ /\ sold > 0
           /\ Books(sold)
           /\ UNCHANGED rec
           /\ \/ /\ Lowers(held)
                 /\ op' = IF held = 0 THEN Idle ELSE [op EXCEPT !.pc = "sell"]
              \/ CutBetween /\ Ends
           /\ hist' = IF pos' > Less(pos, sold) THEN hist \cup {"raised"} ELSE hist
        \/ /\ sold = 0
           /\ rec' = IF op.found THEN rec ELSE Kept(op.rec)
           /\ op' = [op EXCEPT !.pc = "sell"]
           /\ UNCHANGED <<pos, booked, faults, hist>>
  /\ UNCHANGED <<venue, due>>

\* The tear-down: only an ask that had vanished is looked for in the wallet.
ReadDown(held) ==
  /\ op.pc = "read" /\ op.kind = "down"
  /\ LET matched == LiftSinceBooking(op.found, op.matched, op.rec.booked, op.rec.shares)
         asks == matched = 0 /\ op.rec.vanished
         sold == IF asks THEN Less(op.rec.shares, held) ELSE matched
     IN /\ IF asks THEN ReadsAgain(held) ELSE held = 0 /\ UNCHANGED fails
        /\ Books(sold)
        /\ pos' = IF sold > 0 THEN 0 ELSE pos
        /\ hist' = hist \cup (IF sold > 0 /\ wallet > 0 THEN {"closed"} ELSE {})
                        \cup (IF sold > 0 /\ pos = 0 THEN {"again"} ELSE {})
  /\ Ends
  /\ UNCHANGED <<venue, rec, due, faults>>

-----------------------------------------------------------------------------
(* Posting and selling.                                                    *)

Free == wallet - ask.left

Place ==
  /\ op.pc = "place"
  /\ \/ /\ pos <= Free
        /\ ask' = [price |-> op.want, left |-> pos, matched |-> 0]
        /\ op' = [op EXCEPT !.pc = "placed"]
        /\ UNCHANGED rec
     \/ /\ pos > Free                          \* "not enough balance"
        /\ rec' = IF op.rec = NoRec THEN rec ELSE Kept(op.rec)
        /\ Ends
        /\ UNCHANGED ask
     \/ Ends /\ UNCHANGED <<ask, rec>>         \* it would cross, or any other error
  /\ UNCHANGED <<wallet, seen, lifted, pos, booked, due, fails, faults, hist>>

RecordAsk ==
  /\ op.pc = "placed"
  /\ rec' = NewRec(op.want)
  /\ Ends
  /\ UNCHANGED <<venue, pos, booked, due, fails, faults, hist>>

\* An exit signalled at a price of 0, on a book without bids, is not sent: the entry
\* leaves the map, and the shares stay in the wallet.
Drop ==
  /\ op.pc = "sell"
  /\ pos' = 0
  /\ hist' = IF wallet > 0 THEN hist \cup {"dropped"} ELSE hist
  /\ Ends
  /\ UNCHANGED <<venue, rec, booked, due, fails, faults>>

\* The FAK of an exit: refused, filled in any part, or failed without effect.  One
\* that sold and whose answer is lost leaves what CutOff leaves of a sale.
Sell ==
  /\ op.pc = "sell"
  /\ \/ /\ pos > Free
        /\ op' = [op EXCEPT !.pc = "refused"]
        /\ UNCHANGED wallet
     \/ /\ pos <= Free
        /\ \E n \in 0 .. pos :
             /\ wallet' = wallet - n
             /\ op' = [op EXCEPT !.pc = "sold", !.matched = n]
     \/ Ends /\ UNCHANGED wallet
  /\ UNCHANGED <<ask, seen, lifted, pos, rec, booked, due, fails, faults, hist>>

\* The venue's answer is booked; no ask can have been lifted.
BookSale ==
  /\ op.pc = "sold"
  /\ pos' = pos - op.matched
  /\ rec' = NoRec
  /\ Ends
  /\ UNCHANGED <<venue, booked, due, fails, faults, hist>>

\* The shares are not there: held after all, too fresh to tell, or gone, and
\* then sold by the ask if there was one.
Refused(held) ==
  /\ op.pc = "refused"
  /\ Reads(held)
  /\ \/ held # 0 /\ pos' = held /\ UNCHANGED <<booked, faults>>
     \/ held = 0 /\ UNCHANGED <<pos, booked, faults>>
     \/ /\ held = 0
        /\ pos' = 0
        /\ \/ op.rec # NoRec /\ Books(pos) /\ UNCHANGED faults
           \/ op.rec = NoRec /\ UNCHANGED <<booked, faults>>
           \/ Fault /\ UNCHANGED booked      \* cut off before the trade is written
  /\ hist' = hist \cup (IF pos' = 0 /\ wallet > 0 THEN {"misread"} ELSE {})
                  \cup (IF pos' > pos THEN {"raised"} ELSE {})
  /\ Ends
  /\ UNCHANGED <<venue, rec, due>>

\* The tick's signals took 45 seconds: the rest of them is dropped at the
\* await it had reached, and the tick goes on to the sweep; a cancel on its way may
\* have landed.
CutOff ==
  /\ op.pc # "idle" /\ op.kind # "down"
  /\ Fault
  /\ Ends
  /\ ask' \in IF op.pc = "cancel" THEN {ask, NoAsk} ELSE {ask}
  /\ hist' = IF op.pc = "sold" THEN hist \cup {"unheard"} ELSE hist
  /\ UNCHANGED <<wallet, seen, lifted, pos, rec, booked, due, fails>>

-----------------------------------------------------------------------------
(* The fill sweep.                                                         *)

\* A reading below what the record says is short; readings that agree count up.
Polled_once(r, held) ==
  [r EXCEPT !.polled = TRUE, !.short = IF held < r.shares THEN 1 ELSE 0, !.most = held]
Polled(r, held) ==
  IF held < r.shares
  THEN [r EXCEPT !.polled = TRUE, !.short = Min({@ + 1, Confirmations}),
                 !.most = IF r.short = 0 THEN held ELSE Max({@, held})]
  ELSE [r EXCEPT !.polled = TRUE, !.short = 0, !.most = 0]

\* A lift in part leaves the record to the rest of the ask.
Rebased(r, sold) ==
  IF r.most = 0 THEN NoRec ELSE [r EXCEPT !.shares = r.most, !.booked = @ + sold]

\* A poll; the lift counts once the readings agree on it, those that failed too.
Blind(held) == pos > 0 /\ wallet > 0 /\ held # seen /\ rec.short > 0 /\ rec.most = 0
Sweep(held) ==
  /\ op.pc = "idle" /\ due /\ rec # NoRec
  /\ due' = FALSE
  /\ IF pos = 0
     THEN held = 0 /\ rec' = NoRec /\ UNCHANGED <<pos, booked, fails>>
     ELSE /\ Reads(held)
          /\ LET r == Polled(rec, held)
                 sold == Less(r.shares, r.most)
             IN IF r.short < Confirmations \/ sold = 0
                THEN rec' = r /\ UNCHANGED <<pos, booked>>
                ELSE /\ booked' = [booked EXCEPT ![r.price] = @ + sold]
                     /\ pos' = r.most
                     /\ rec' = Rebased(r, sold)
  /\ hist' = IF Blind(held) THEN hist \cup {"blind"} ELSE hist
  /\ UNCHANGED <<venue, op, faults>>

-----------------------------------------------------------------------------
Signals == (\E p \in Prices : WantAsk(p)) \/ Exit \/ TearDown \/ Release
OpSteps ==
  \/ CancelAll \/ List \/ Cancel \/ Place \/ RecordAsk \/ Drop \/ Sell \/ BookSale
  \/ \E held \in Shares : ReadReprice(held) \/ ReadExit(held) \/ ReadDown(held) \/ Refused(held)
Poll == \E held \in Shares : Sweep(held)

Next ==
  \/ \E n \in 1 .. Size : Lift(n)
  \/ Settle \/ OthersCancelAll
  \/ Tick \/ TickEnds
  \/ Signals \/ OpSteps \/ CutOff \/ Poll

Spec == Init /\ [][Next]_vars

\* An answer comes or the client times out; the balance endpoint catches up; and
\* of the ticks that reach the sweep, if they keep coming, one finds the poll due:
\* signals and cut-off ticks can delay it but not prevent it.
Fairness == WF_vars(OpSteps) /\ WF_vars(Settle) /\ SF_vars(Poll)
FairSpec == Spec /\ Fairness

-----------------------------------------------------------------------------
(* Properties.                                                             *)

\* Every variable keeps its shape.
TypeOK ==
  /\ ask \in Ask \cup {NoAsk} /\ wallet \in Shares /\ seen \in wallet .. Size
  /\ lifted \in [Prices -> Shares] /\ booked \in [Prices -> Nat]
  /\ pos \in Shares /\ rec \in Rec \cup {NoRec}
  /\ op \in [kind : Kinds, pc : Pcs, want : Prices \cup {None}, rec : Rec \cup {NoRec},
             found : BOOLEAN, matched : Shares]
  /\ due \in BOOLEAN /\ fails \in 0 .. MaxFails /\ faults \in 0 .. MaxFaults
  /\ hist \subseteq {"raised", "misread", "closed", "again", "unheard", "blind", "dropped"}

\* The ledger never says an ask sold more than it did, whichever of the reprice,
\* the stop, the sweep and the tear-down met the lift, and in whatever order the
\* order's matched size, the lagging balance and a failed reading showed it,
\* unless a position was raised to a lagging reading, a refusal was explained by
\* a failed one, a tear-down booked what a refusal already had, the answer to a
\* sale was lost, or two readings of the sweep failed in a row.
BookedAtItsPrice ==
  hist \cap {"raised", "misread", "again", "unheard", "blind"} = {} =>
    \A p \in Prices : booked[p] <= lifted[p]

\* Shares in the wallet stay in the position map, so a stop can still sell them:
\* no lagging reading, failed reading or cut-off tick drops shares that are held,
\* except the refusal explained by a failed reading, the tear-down that closes the
\* whole position on a lift of a part, a sweep whose confirmations failed as well,
\* and the exit that is dropped unsold because its price is 0.
HeldIsManaged ==
  hist \cap {"misread", "closed", "blind", "dropped"} = {} => wallet <= pos \/ op.pc = "sold"

\* A lift under a standing record is noticed: while ticks with signals keep coming,
\* the sweep does not go on with a record of shares the wallet no longer holds,
\* except one whose confirmation it left standing at a reading that shows no lift.
\* A tick with a dark book, a failed evaluation or no signal of any viper polls nothing.
Stuck == rec # NoRec /\ rec.short = Confirmations /\ rec.most = rec.shares
Missing == rec # NoRec /\ wallet < rec.shares
LiftNoticed == []<>due => (Missing ~> ~Missing \/ Stuck)

-----------------------------------------------------------------------------
(* What the code's comments say, and the model refutes.                    *)

\* The stop: keeping the largest reading, "erring toward still held can only
\* cost a retry" (1787), and the sweep: a record of a closed position is
\* stale, "the ledger is already written" (3586).  A lift is booked twice
\* all the same, by the attribution of a refusal after a slice was booked, or by
\* the tear-down after the attribution.
NeverBookedTwice == \A p \in Prices : booked[p] <= lifted[p]

\* The sweep re-bases the record after a lift of a part "so the next poll
\* measures against the right baseline" (3670).  The count of short readings and
\* the largest of them are not re-based: a second lift before a reading shows
\* the new baseline is never booked by the sweep.
EveryLiftNoticed == []<>due => (Missing ~> ~Missing)

\* The sweep must not block, for it "runs on every 50ms tick" (3603).  A tick whose
\* vipers have nothing to say goes back before it: a lift under a squadron that
\* stays quiet is never polled.
PolledEveryTick == Missing ~> ~Missing \/ Stuck

\* The tear-down: a lift is booked "here at the resting price rather than leaving
\* a silent cash move for the reconciler" (3722).  The matched size it reads has
\* gone with the order, which the rotation has already cancelled with all others,
\* and the wallet is only read for an ask that had vanished before.
TearDownBooksLift ==
  [][op.kind = "down" /\ op.pc = "read" => booked'[op.rec.price] >= lifted[op.rec.price]]_vars

\* The deadband: a record left behind by a cancelled ask would be "silently
\* stranding the position with no exit order at all" (3428).  One is left by
\* another squadron's rotation, which cancels every order of the account.
RecordedIsResting ==
  rec # NoRec /\ ~rec.vanished /\ op.pc = "idle" => ask # NoAsk \/ wallet < rec.shares

\* The reprice: the record is dropped whatever the cancel found, as "after this
\* point no ask of ours rests" (3426).  The answer to the cancel is not looked at,
\* and a listing that fails reads as an empty one.
AskIsRecorded == ask # NoAsk /\ op.pc = "idle" => rec # NoRec

\* The sweep: a drop is confirmed first because a reading "returns 0 on ANY
\* failure", and trusting one would "leave real shares floating unmanaged to
\* settlement" (3595).  Two polls that fail in a row agree as well, and the
\* largest of them is the 0 that stands for shares the wallet still holds.
ConfirmedIsSold ==
  hist \cap {"misread", "closed", "dropped"} = {} => wallet <= pos \/ op.pc = "sold"

\* A refused exit holds what is still held, since dropping it leaves the shares
\* to float "unmanaged for 8 min" (1963).  An exit at a price of 0 drops them unasked.
ExitsKeepTheRest ==
  hist \cap {"misread", "closed", "blind"} = {} => wallet <= pos \/ op.pc = "sold"
=============================================================================
