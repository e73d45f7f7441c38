--------------------------- MODULE OrderLifecycle ---------------------------
(***************************************************************************)
(* The resting-quote half of venues/lifecycle.rs (OrderLifecycle), with    *)
(* the dispatcher of venues/kalshi/trader.rs that drives it and the fill   *)
(* listener that runs beside it.  Two tasks share the position map and the *)
(* tracked orders:                                                         *)
(*                                                                         *)
(*   - the market loop: places quotes, pulls them, exits, reconciles,      *)
(*     rotates, stands down; one operation at a time;                      *)
(*   - the fill listener: one event at a time, at every await of the loop. *)
(*                                                                         *)
(* A venue call and the lock section that applies its answer are one step  *)
(* when no other task can tell (the call touches the venue only).  Every   *)
(* lock section that the other task can fall between is a step of its own. *)
(*                                                                         *)
(* An order's id is also the instant its guard was written: a guard is     *)
(* named by the placement that recorded it, so guard[k] is the guard's     *)
(* opened_at and comparing ids is comparing instants.                      *)
(*                                                                         *)
(* A definition named X_y in front of X is a mistake the code could have   *)
(* made in X; each is there because a property catches it.  No action uses *)
(* one.                                                                    *)
(***************************************************************************)
EXTENDS Integers, FiniteSets

CONSTANTS
    Strategies,     \* vipers of this squadron
    Legs,           \* tokens of the market it flies
    MaxOrders,      \* bound: orders placed in one behaviour
    Q,              \* contracts every order is placed for
    MaxUnheard,     \* bound: contracts sold out of a guard with nothing heard of it
    ReportsOrders,  \* does Execution::order_state answer (Kalshi) or not (US)?
    Attempts        \* cancel_all_before_leaving's ATTEMPTS (3 in the code)

ASSUME BoundsAssumption ==
    /\ Strategies # {}
    /\ Legs # {}
    /\ MaxOrders \in Nat
    /\ Q \in Nat \ {0}
    /\ MaxUnheard \in Nat
    /\ ReportsOrders \in BOOLEAN
    /\ Attempts \in Nat \ {0}

Keys   == Strategies \X Legs
AnyKey == CHOOSE k \in Keys : TRUE
Ids    == 1..MaxOrders
Unsaid == -1        \* a count the venue did not state, an order it did not list

VARIABLES
    \* --- the venue (external) ---
    okey,       \* [Ids -> Keys]: whose order it is, on which leg
    st,         \* [Ids -> {"new", "working", "done"}]
    traded,     \* [Ids -> 0..Q]: what the order has bought
    sold,       \* [Ids -> Nat]: contracts sold out of the guard order o opened,
                \* as the exits' replies counted them
    lastId,     \* orders placed so far; the clock of opened_at
    \* --- shared by the two tasks ---
    guard,      \* [Keys -> 0..MaxOrders]: PositionMap; 0 is no entry
    shares,     \* [Ids -> 0..Q]: Position.shares of the guard o opened
    confirmed,  \* guards with fill_confirmed_at set
    tracked,    \* ids in OrderLifecycle.tracked
    queued,     \* [Keys -> 0..MaxOrders]: order of the last undrained ConfirmedFill
    \* --- written by the loop only ---
    cancelled,  \* TrackedLeg.cancelled
    missing,    \* [Ids -> Clock]: TrackedLeg.missing_since against the grace
    released,   \* keys in OrderLifecycle.released
    rows,       \* [Keys -> [order, by]]: open_positions rows: the placement that
                \* wrote the row and the order whose figure last sized it
    pc, op, key, ack, sig, held, todo, settled, tries,
    exits,      \* guards flatten_before_stand_down has still to exit
    listing,    \* [Ids -> Unsaid..Q]: open_orders() as this pass read it
    \* --- the listener ---
    lpc, lid, lcount,
    ldone,      \* the event says the order is complete
    lkeys,      \* keys an untracked order's event may confirm
    \* --- history, read by properties only ---
    unread,     \* orders the venue never answered about when they were dropped
    inflated,   \* guards the listener sized or confirmed above what is left of
                \* their fill
    unheard     \* [Ids -> 0..MaxUnheard]: contracts sold out of the guard order o
                \* opened by exits whose reply failed or carried no count

venueVars    == <<okey, st, traded, sold, lastId>>
bookVars     == <<guard, shares, confirmed>>
clockVars    == <<cancelled, missing>>
reportVars   == <<queued, released, rows>>
\* Locals of an operation that are reset when it ends.
localVars    == <<ack, sig, held, settled, tries, listing>>
loopVars     == <<pc, op, key, localVars, todo, exits>>
listenerVars == <<lpc, lid, lcount, ldone, lkeys>>
historyVars  == <<unread, inflated, unheard>>
vars == <<venueVars, bookVars, tracked, clockVars, reportVars, loopVars,
          listenerVars, historyVars>>

Clock    == {"none", "running", "due"}
Statuses == {"new", "working", "done"}
NoRow    == [order |-> 0, by |-> 0]

OnKey(k) == {o \in tracked : okey[o] = k}
Min2(a, b) == IF a <= b THEN a ELSE b
Max2(a, b) == IF a >= b THEN a ELSE b

-----------------------------------------------------------------------------
(* What the lifecycle answers about its own state.                         *)

\* owns_guard: a guard opened after the order was tracked is a later order's.
OwnsGuard(o, g) == g <= o

\* working_for / resting_for.
WorkingFor_tracked(k) == FALSE
WorkingFor(k) == OnKey(k) \ cancelled # {}
RestingFor(k) == OnKey(k) # {}

\* holds_anything: an unconfirmed guard with a tracked quote is not a holding.
HoldsAnything ==
    \E k \in Keys : /\ guard[k] # 0
                    /\ guard[k] \in confirmed \/ ~RestingFor(k)

TracksAnything == tracked # {}

\* The size size_and_confirm leaves on guard g when its order is said to have
\* traded n: the venue's count, never above the size placed, and never below
\* what a confirmed guard already shows.
SizedTo_placed(g, n) == Q
SizedTo_latest(g, n) == Min2(n, Q)
SizedTo_adds(g, n)   == IF g \in confirmed THEN shares[g] + n ELSE n
SizedTo(g, n) ==
    IF g \in confirmed THEN Min2(Max2(shares[g], n), Q) ELSE Min2(n, Q)

LeaveGuard == UNCHANGED <<bookVars, queued, released>>

SizeAndConfirm_leg(o, n) ==
    LET hit == {guard[k] : k \in {j \in Keys : j[2] = okey[o][2]}} \ {0}
    IN /\ shares'    = [g \in Ids |-> IF g \in hit THEN SizedTo(g, n) ELSE shares[g]]
       /\ confirmed' = confirmed \cup hit
       /\ UNCHANGED <<guard, queued, released>>
SizeAndConfirm(o, n) ==
    LET k == okey[o]
        g == guard[k]
    IN IF g # 0 /\ OwnsGuard(o, g)
       THEN /\ shares'    = [shares EXCEPT ![g] = SizedTo(g, n)]
            /\ confirmed' = confirmed \cup {g}
            /\ queued'    = [queued EXCEPT ![k] = o]
            /\ UNCHANGED <<guard, released>>
       ELSE LeaveGuard

\* map.remove: the guard and what it said are gone.
RemoveGuard(k) ==
    /\ guard'     = [guard EXCEPT ![k] = 0]
    /\ shares'    = [o \in Ids |-> IF o = guard[k] THEN 0 ELSE shares[o]]
    /\ confirmed' = confirmed \ {guard[k]}

ReleaseQuote_confirmed(o) ==
    LET k == okey[o]
    IN IF guard[k] # 0 /\ OwnsGuard(o, guard[k])
       THEN /\ RemoveGuard(k)
            /\ released' = released \cup {k}
            /\ UNCHANGED queued
       ELSE LeaveGuard

ReleaseQuote(o) ==
    LET k == okey[o]
    IN IF guard[k] # 0 /\ OwnsGuard(o, guard[k]) /\ guard[k] \notin confirmed
       THEN /\ RemoveGuard(k)
            /\ released' = released \cup {k}
            /\ UNCHANGED queued
       ELSE LeaveGuard

\* get_or_insert_with(Instant::now): the grace clock starts once.
StartClock(c) == IF c = "none" THEN "running" ELSE c

\* The tracked list becomes t; a leg that left it takes its marks along, once
\* no copy of it is waiting in the pass under way (rest).
SetTracked(t, rest) ==
    /\ tracked'   = t
    /\ cancelled' = cancelled \cap (t \cup rest)
    /\ missing'   = [o \in Ids |-> IF o \in t \cup rest THEN missing[o] ELSE "none"]

-----------------------------------------------------------------------------
(* The venue, as Execution uses it (external).                             *)

Resting(s) == IF s = "working" THEN "yes" ELSE "no"

\* order_state: what is said is true; anything may go unsaid, the call may fail.
OrderState(o, s) ==
    IF ReportsOrders
    THEN [said : {"state"}, filled : {traded[o], Unsaid},
          resting : {Resting(s), "unknown"}]
         \cup {[said |-> "error", filled |-> Unsaid, resting |-> "unknown"]}
    ELSE {[said |-> "none", filled |-> Unsaid, resting |-> "unknown"]}

\* cancel: confirmed only for a working order; refused because the order is
\* done, because the call failed, or with the reply lost after it landed.
CancelReplies(o) ==
    IF st[o] = "working"
    THEN {[ok |-> TRUE, st |-> "done"], [ok |-> FALSE, st |-> "working"],
          [ok |-> FALSE, st |-> "done"]}
    ELSE {[ok |-> FALSE, st |-> st[o]]}

SetStatus(o, s) == st' = [st EXCEPT ![o] = s]

\* A contract of a resting order trades.
Trade(o) ==
    /\ st[o] = "working"
    /\ traded' = [traded EXCEPT ![o] = @ + 1]
    /\ SetStatus(o, IF traded'[o] = Q THEN "done" ELSE "working")
    /\ UNCHANGED <<okey, sold, lastId, bookVars, tracked, clockVars, reportVars,
                   loopVars, listenerVars, historyVars>>

\* A good-till-date quote expires, or the venue pulls it with its market.
Expire(o) ==
    /\ st[o] = "working"
    /\ SetStatus(o, "done")
    /\ UNCHANGED <<okey, traded, sold, lastId, bookVars, tracked, clockVars,
                   reportVars, loopVars, listenerVars, historyVars>>

\* Time runs while the loop waits for its next tick: a grace clock runs out.
Age(o) ==
    /\ pc = "idle"
    /\ o \in tracked
    /\ missing[o] = "running"
    /\ missing' = [missing EXCEPT ![o] = "due"]
    /\ UNCHANGED <<venueVars, bookVars, tracked, cancelled, reportVars,
                   loopVars, listenerVars, historyVars>>

-----------------------------------------------------------------------------
(* Rows: settle_lifecycle_reports drains what the lifecycle queued: the    *)
(* released quotes first, a pending row each, then the figures.            *)

Reported(k) ==
    LET r == IF k \in released /\ rows[k].by = 0 THEN NoRow ELSE rows[k]
    IN IF queued[k] # 0 /\ r.order # 0 THEN [r EXCEPT !.by = queued[k]] ELSE r

SettleReports_forgotten == UNCHANGED <<rows, queued, released>>
SettleReports ==
    /\ rows'     = [k \in Keys |-> Reported(k)]
    /\ queued'   = [k \in Keys |-> 0]
    /\ released' = {}

-----------------------------------------------------------------------------
(* The market loop.  Start opens an operation, Finish closes it.           *)

Start(name, k, at) ==
    /\ pc = "idle"
    /\ pc' = at
    /\ op' = name
    /\ key' = k

\* Back to the select loop, or to the stand-down that sent the exit.
Finish ==
    /\ pc' = IF op = "flatten" THEN "flatten" ELSE "idle"
    /\ op' = IF op = "flatten" THEN op ELSE "none"
    /\ key' = AnyKey
    /\ ack' = 0
    /\ sig' = 0
    /\ held' = 0
    /\ settled' = {}
    /\ listing' = [o \in Ids |-> Unsaid]
    /\ tries' = 0
    /\ UNCHANGED exits

Goto(at) == pc' = at /\ UNCHANGED <<op, key, localVars, exits>>

\* dispatch_single, buy: the venue acknowledges f contracts filled.  A
\* good-till-cancelled order works on for the rest; an immediate one is done
\* (one that filled nothing changes no state).  The viper and MakerQuote emit
\* only with no guard on the leg; one working quote per viper per leg [B74].
MayPlace(k, gtc) ==
    /\ lastId < MaxOrders
    /\ guard[k] = 0
    /\ gtc => ~WorkingFor(k)

\* A new order of key k reaches the venue's book with f contracts traded.
NewOrder(k, f, s) ==
    /\ lastId' = lastId + 1
    /\ okey'   = [okey EXCEPT ![lastId + 1] = k]
    /\ traded' = [traded EXCEPT ![lastId + 1] = f]
    /\ st'     = [st EXCEPT ![lastId + 1] = s]
    /\ UNCHANGED sold

Place(k, gtc, f) ==
    /\ MayPlace(k, gtc)
    /\ gtc \/ f > 0
    /\ Start(IF gtc THEN "quote" ELSE "take", k, "record")
    /\ NewOrder(k, f, IF gtc /\ f < Q THEN "working" ELSE "done")
    /\ ack' = f
    /\ UNCHANGED <<bookVars, tracked, clockVars, reportVars, sig, held, todo,
                   settled, tries, exits, listing, listenerVars, historyVars>>

\* The order reaches the book and the reply is lost: an error to the caller.
PlaceLost(k) ==
    /\ pc = "idle"
    /\ MayPlace(k, TRUE)
    /\ NewOrder(k, 0, "working")
    /\ unread' = unread \cup {lastId + 1}
    /\ UNCHANGED <<bookVars, tracked, clockVars, reportVars, loopVars,
                   listenerVars, inflated, unheard>>

\* record_guard: at the fill, or at the size placed when the order rests.
RecordGuard ==
    /\ pc = "record"
    /\ guard'  = [guard EXCEPT ![key] = lastId]
    /\ shares' = [shares EXCEPT ![lastId] = IF ack = 0 THEN Q ELSE ack]
    /\ Goto(IF ack = 0 THEN "track" ELSE "confirm")
    /\ UNCHANGED <<venueVars, confirmed, tracked, clockVars, reportVars, todo,
                   listenerVars, historyVars>>

\* confirm_guard: the order response itself says this much traded [B82].
ConfirmGuard ==
    /\ pc = "confirm"
    /\ confirmed' = confirmed \cup ({guard[key]} \ {0})
    /\ Goto(IF op = "quote" /\ ack < Q THEN "track" ELSE "row")
    /\ UNCHANGED <<venueVars, guard, shares, tracked, clockVars, reportVars,
                   todo, listenerVars, historyVars>>

\* track_resting.
Track ==
    /\ pc = "track"
    /\ tracked' = tracked \cup {lastId}
    /\ Goto("row")
    /\ UNCHANGED <<venueVars, bookVars, clockVars, reportVars, todo,
                   listenerVars, historyVars>>

\* record_entry writes the pending row.
RecordEntry ==
    /\ pc = "row"
    /\ rows' = [rows EXCEPT ![key] = [order |-> lastId, by |-> 0]]
    /\ Finish
    /\ UNCHANGED <<venueVars, bookVars, tracked, clockVars, queued, released,
                   todo, listenerVars, historyVars>>

-----------------------------------------------------------------------------
(* One cancel and the question that follows it.                            *)

\* settle_cancel (ok) and settle_refused_cancel (not ok): does the answer size
\* the guard, release it, or settle nothing ...
Sizes(ok, a) == a.filled > 0 /\ (ok \/ a.resting # "yes")
Releases_always(ok, a) == a.filled < 1
Releases(ok, a) ==
    IF ok THEN a.said = "none" \/ a.filled = 0
          ELSE a.filled = 0 /\ a.resting = "no"

GuardEffect(o, ok, a) ==
    IF Sizes(ok, a) THEN SizeAndConfirm(o, a.filled)
    ELSE IF Releases(ok, a) THEN ReleaseQuote(o)
    ELSE LeaveGuard

\* ... and what becomes of the order: settled, cancelled with its fill still
\* unknown, or working on.
CancelOutcome_dropsRefused(ok, a) ==
    IF ok /\ a.said # "none" /\ a.filled = Unsaid THEN "cancelled" ELSE "settled"
CancelOutcome(ok, a) ==
    IF ok THEN IF a.said = "none" \/ a.filled # Unsaid THEN "settled" ELSE "cancelled"
    ELSE IF a.resting # "no" THEN "kept"
    ELSE IF a.filled # Unsaid THEN "settled" ELSE "cancelled"

\* mark_cancelled: the order, if still tracked, no longer works; its grace runs.
MarkCancelled(o) ==
    IF o \in tracked
    THEN /\ cancelled' = cancelled \cup {o}
         /\ missing'   = [missing EXCEPT ![o] = StartClock(@)]
    ELSE UNCHANGED <<cancelled, missing>>

\* The next order of the copied list, oldest first.
First(o) == o \in todo /\ \A p \in todo : o <= p

\* Cancel o, ask about it, settle its guard by the answer.  A confirmed cancel
\* on a venue that does not report orders is taken as unfilled.
CancelAsk(o, r, a) ==
    /\ SetStatus(o, r.st)
    /\ GuardEffect(o, r.ok, a)
    /\ unread' = IF r.ok /\ a.said = "none" THEN unread \cup {o} ELSE unread
    /\ todo' = todo \ {o}
    /\ UNCHANGED <<okey, traded, sold, lastId, rows, pc, op, key, ack, sig, held,
                   tries, exits, listing, listenerVars, inflated, unheard>>

\* cancel_resting_for, one order: a settled order leaves tracking at once.
PullOrder(o) ==
    /\ pc = "pull"
    /\ First(o)
    /\ \E r \in CancelReplies(o) : \E a \in OrderState(o, r.st) :
         /\ CancelAsk(o, r, a)
         /\ \/ /\ CancelOutcome(r.ok, a) = "settled"
               /\ SetTracked(tracked \ {o}, todo \ {o})
            \/ /\ CancelOutcome(r.ok, a) = "cancelled"
               /\ MarkCancelled(o)
               /\ UNCHANGED tracked
            \/ /\ CancelOutcome(r.ok, a) = "kept"
               /\ UNCHANGED <<tracked, clockVars>>
    /\ UNCHANGED settled

\* StrategySignal::MakerCancel on one leg.
Pull(k) ==
    /\ guard[k] # 0 \/ RestingFor(k)
    /\ Start("pull", k, "pull")
    /\ todo' = OnKey(k) \ cancelled
    /\ UNCHANGED <<venueVars, bookVars, tracked, clockVars, reportVars,
                   localVars, exits, listenerVars, historyVars>>

\* The account scan cancels what rests on the leg and is not tracked (it may
\* miss some, or fail; Kalshi lists an order under its market's YES leg whichever
\* leg it buys); the guard goes when no tracked order remains and it is still a
\* quote.
PullDone ==
    /\ pc = "pull"
    /\ op = "pull"
    /\ todo = {}
    /\ SettleReports
    /\ \E scan \in SUBSET {o \in Ids \ tracked : st[o] = "working"} :
         st' = [o \in Ids |-> IF o \in scan THEN "done" ELSE st[o]]
    /\ IF ~RestingFor(key) /\ guard[key] # 0 /\ guard[key] \notin confirmed
       THEN RemoveGuard(key)
       ELSE UNCHANGED bookVars
    /\ Finish
    /\ UNCHANGED <<okey, traded, sold, lastId, tracked, clockVars, todo,
                   listenerVars, historyVars>>

-----------------------------------------------------------------------------
(* StrategySignal::Exit.                                                   *)

\* The signal carries the size the viper read from the guard.  A tracked order
\* on the leg is cancelled first.
BeginExit(name, k) ==
    /\ guard[k] # 0
    /\ op' = name
    /\ key' = k
    /\ sig' = shares[guard[k]]
    /\ pc' = IF RestingFor(k) THEN "pull" ELSE "sell"
    /\ todo' = OnKey(k) \ cancelled
    /\ UNCHANGED <<venueVars, bookVars, tracked, clockVars, reportVars, ack,
                   held, settled, tries, listing, listenerVars, historyVars>>

Exit(k) ==
    /\ pc = "idle"
    /\ BeginExit("exit", k)
    /\ UNCHANGED exits

\* What the cancel left behind decides: still working (unless standing down),
\* no guard, an unconfirmed guard or another size than the one signalled sell
\* nothing this tick.
MaySell ==
    /\ op = "flatten" \/ ~WorkingFor(key)
    /\ guard[key] # 0
    /\ guard[key] \in confirmed
    /\ shares[guard[key]] = sig

ExitDecide ==
    /\ pc = "pull"
    /\ op \in {"exit", "flatten"}
    /\ todo = {}
    /\ SettleReports
    /\ IF MaySell THEN Goto("sell") ELSE Finish
    /\ UNCHANGED <<venueVars, bookVars, tracked, clockVars, todo, listenerVars,
                   historyVars>>

\* The entry is read, then a FAK sell of the signalled size fills m of it and
\* the reply says so.
Sell(m) ==
    /\ pc = "sell"
    /\ m <= sig
    /\ guard[key] # 0
    /\ sold' = [sold EXCEPT ![guard[key]] = @ + m]
    /\ IF m = 0
       THEN Finish
       ELSE /\ pc' = "book"
            /\ ack' = m
            /\ held' = shares[guard[key]]
            /\ UNCHANGED <<op, key, sig, settled, tries, exits, listing>>
    /\ UNCHANGED <<okey, st, traded, lastId, bookVars, tracked, clockVars,
                   reportVars, todo, listenerVars, historyVars>>

\* The FAK sells m, and the call fails or its reply carries no count: taken for
\* nothing sold, the guard is kept and the viper signals the exit again.
SellUnheard(m) ==
    /\ pc = "sell"
    /\ m <= sig
    /\ guard[key] # 0
    /\ unheard[guard[key]] + m <= MaxUnheard
    /\ \A o \in Ids \ {guard[key]} : unheard[o] = 0
    /\ unheard' = [unheard EXCEPT ![guard[key]] = @ + m]
    /\ Finish
    /\ UNCHANGED <<venueVars, bookVars, tracked, clockVars, reportVars, todo,
                   listenerVars, unread, inflated>>

\* split_partial_exit against the entry read before the sell: nothing left of
\* it drops the guard and its row; otherwise the sale is taken off the live
\* guard, which a fill may have grown meanwhile, and the row is shrunk.
Book ==
    LET out == Min2(ack, held)
    IN /\ pc = "book"
       /\ IF held > out
          THEN /\ shares' = [shares EXCEPT ![guard[key]] = Max2(@ - out, 0)]
               /\ Goto("forget")
               /\ UNCHANGED <<guard, confirmed, rows>>
          ELSE /\ RemoveGuard(key)
               /\ rows' = [rows EXCEPT ![key] = NoRow]
               /\ Finish
       /\ UNCHANGED <<venueVars, tracked, clockVars, queued, released, todo,
                      listenerVars, historyVars>>

\* forget_cancelled_for [B78].
ForgetCancelled_none == UNCHANGED <<tracked, clockVars>>
ForgetCancelled == SetTracked(tracked \ (OnKey(key) \cap cancelled), {})
Forget ==
    /\ pc = "forget"
    /\ ForgetCancelled
    /\ Finish
    /\ UNCHANGED <<venueVars, bookVars, reportVars, todo, listenerVars,
                   historyVars>>

-----------------------------------------------------------------------------
(* reconcile, pass 1, for resting quotes.                                  *)

\* The pass starts from the holdings read (a failed one abandons it), the open
\* orders (known or not; a working order may be missing from what was read)
\* and a copy of the tracked orders.
BeginReconcile(known) ==
    /\ tracked # {}
    /\ Start(IF known THEN "reconcile" ELSE "blind", key, "reconcile")
    /\ todo' = tracked
    /\ \E seen \in SUBSET {o \in tracked : known /\ st[o] = "working"} :
         listing' = [o \in Ids |-> IF o \in seen THEN traded[o] ELSE Unsaid]
    /\ UNCHANGED <<venueVars, bookVars, tracked, clockVars, reportVars, ack, sig,
                   held, settled, tries, exits, listenerVars, historyVars>>

SettleOrder(o) == settled' = settled \cup {o}

\* No usable answer: the grace clock is all that will ever settle this order.
Grace_forever(o) ==
    /\ missing' = [missing EXCEPT ![o] = "running"]
    /\ LeaveGuard
    /\ UNCHANGED <<settled, unread>>
Grace(o) ==
    IF missing[o] = "due"
    THEN /\ ReleaseQuote(o)
         /\ SettleOrder(o)
         /\ unread' = unread \cup {o}
         /\ UNCHANGED missing
    ELSE /\ missing' = [missing EXCEPT ![o] = StartClock(@)]
         /\ LeaveGuard
         /\ UNCHANGED <<settled, unread>>

SizeIfAny(o, n) == IF n > 0 THEN SizeAndConfirm(o, n) ELSE LeaveGuard

\* Cancelled at the venue with its fill still unknown: ask again.
AskCancelled(o) ==
    /\ o \in cancelled
    /\ \E a \in OrderState(o, st[o]) :
         IF a.filled = Unsaid THEN Grace(o)
         ELSE /\ IF a.filled > 0 THEN SizeAndConfirm(o, a.filled) ELSE ReleaseQuote(o)
              /\ SettleOrder(o)
              /\ UNCHANGED <<missing, unread>>
    /\ UNCHANGED <<st, cancelled>>

\* The open orders could not be read: the quote waits for the next pass.
WaitBlind(o) ==
    /\ o \notin cancelled
    /\ op = "blind"
    /\ LeaveGuard
    /\ UNCHANGED <<st, cancelled, missing, settled, unread>>

\* Seen working with part traded: not past its stale window, or its stale
\* cancel refused (which also costs the venue call).
KeepWorking(o, part) ==
    /\ \E r \in CancelReplies(o) \cup {[ok |-> FALSE, st |-> st[o]]} :
         ~r.ok /\ SetStatus(o, r.st)
    /\ SizeIfAny(o, part)
    /\ missing' = [missing EXCEPT ![o] = "none"]
    /\ IF part >= Q THEN SettleOrder(o) ELSE UNCHANGED settled
    /\ UNCHANGED <<cancelled, unread>>

\* Seen working past its stale window, and the venue confirms the cancel.
CancelStale(o, part) ==
    /\ part < Q
    /\ st[o] = "working"
    /\ SetStatus(o, "done")
    /\ \E a \in OrderState(o, "done") :
         /\ IF part = 0 /\ Releases(TRUE, a) THEN ReleaseQuote(o)
            ELSE SizeIfAny(o, Max2(part, a.filled))
         /\ unread' = IF a.said = "none" THEN unread \cup {o} ELSE unread
         /\ IF CancelOutcome(TRUE, a) = "settled"
            THEN /\ SettleOrder(o)
                 /\ missing' = [missing EXCEPT ![o] = "none"]
                 /\ UNCHANGED cancelled
            ELSE /\ cancelled' = cancelled \cup {o}
                 /\ missing' = [missing EXCEPT ![o] = "running"]
                 /\ UNCHANGED settled

\* Whether the order is past stale_after_secs is either: the clock is not kept.
SeenWorking(o, part) == KeepWorking(o, part) \/ CancelStale(o, part)

\* Among the open orders.
Listed(o) ==
    /\ o \notin cancelled
    /\ op = "reconcile"
    /\ listing[o] # Unsaid
    /\ SeenWorking(o, listing[o])

\* Not among the open orders: ask the order itself.  A count with no status is
\* taken as final, whether or not the order still works.
Vanished_released(o) ==
    /\ o \notin cancelled
    /\ op = "reconcile"
    /\ listing[o] = Unsaid
    /\ ReleaseQuote(o)
    /\ SettleOrder(o)
    /\ UNCHANGED <<st, cancelled, missing, unread>>
Vanished(o) ==
    /\ o \notin cancelled
    /\ op = "reconcile"
    /\ listing[o] = Unsaid
    /\ \E a \in OrderState(o, st[o]) :
         \/ /\ a.resting = "yes"
            /\ SeenWorking(o, Max2(a.filled, 0))
         \/ /\ a.resting # "yes"
            /\ a.filled > 0 \/ (a.filled = 0 /\ a.resting = "no")
            /\ IF a.filled > 0 THEN SizeAndConfirm(o, a.filled) ELSE ReleaseQuote(o)
            /\ SettleOrder(o)
            /\ unread' = IF a.resting = "unknown" THEN unread \cup {o} ELSE unread
            /\ UNCHANGED <<st, cancelled, missing>>
         \/ /\ a.resting # "yes"
            /\ a.filled = Unsaid \/ (a.filled = 0 /\ a.resting = "unknown")
            /\ Grace(o)
            /\ UNCHANGED <<st, cancelled>>

ReconcileOrder(o) ==
    /\ pc = "reconcile"
    /\ First(o)
    /\ AskCancelled(o) \/ WaitBlind(o) \/ Listed(o) \/ Vanished(o)
    /\ todo' = todo \ {o}
    /\ UNCHANGED <<okey, traded, sold, lastId, tracked, rows, pc, op, key, ack,
                   sig, held, tries, exits, listing, listenerVars, inflated, unheard>>

\* Settled orders leave tracking by id; the list is not replaced, so what the
\* listener settled meanwhile is not resurrected.
MergeTracked_replaced == SetTracked({o \in Ids : listing[o] # Unsaid}, {})
MergeTracked == SetTracked(tracked \ settled, {})
EndReconcile ==
    /\ pc = "reconcile"
    /\ todo = {}
    /\ MergeTracked
    /\ SettleReports
    /\ Finish
    /\ UNCHANGED <<venueVars, bookVars, todo, listenerVars, historyVars>>

-----------------------------------------------------------------------------
(* Leaving the market: rotation, retirement, stand-down.                   *)

BeginCancelAll(name) ==
    /\ Start(name, key, "cancelAll")
    /\ todo' = tracked
    /\ tries' = 1
    /\ UNCHANGED <<venueVars, bookVars, tracked, clockVars, reportVars, ack, sig,
                   held, settled, exits, listing, listenerVars, historyVars>>

\* The rescan arm rotates only while nothing is held; the retire arm only with
\* an empty map; the close and the operator's cancel do not ask.
Rotate == ~HoldsAnything /\ BeginCancelAll("rotate")
Retire == (\A k \in Keys : guard[k] = 0) /\ BeginCancelAll("retire")
Leave  == BeginCancelAll("leave")

\* cancel_all, one order: a settled order leaves tracking at the end.
CancelAllOrder(o) ==
    /\ pc = "cancelAll"
    /\ First(o)
    /\ \E r \in CancelReplies(o) : \E a \in OrderState(o, r.st) :
         /\ CancelAsk(o, r, a)
         /\ \/ /\ CancelOutcome(r.ok, a) = "settled"
               /\ SettleOrder(o)
               /\ UNCHANGED clockVars
            \/ /\ CancelOutcome(r.ok, a) = "cancelled"
               /\ MarkCancelled(o)
               /\ UNCHANGED settled
            \/ /\ CancelOutcome(r.ok, a) = "kept"
               /\ UNCHANGED <<settled, clockVars>>
    /\ UNCHANGED tracked

EndCancelAll ==
    /\ pc = "cancelAll"
    /\ todo = {}
    /\ SetTracked(tracked \ settled, {})
    /\ SettleReports
    /\ settled' = {}
    /\ pc' = IF op = "leave" THEN "retry" ELSE "holds"
    /\ UNCHANGED <<venueVars, bookVars, op, key, ack, sig, held, todo, tries,
                   exits, listing, listenerVars, historyVars>>

\* The second look after the cancels: first the map, then the tracked orders.
CheckHolds ==
    /\ pc = "holds"
    /\ IF IF op = "rotate" THEN HoldsAnything ELSE \E k \in Keys : guard[k] # 0
       THEN Finish
       ELSE Goto("tracks")
    /\ UNCHANGED <<venueVars, bookVars, tracked, clockVars, reportVars, todo,
                   listenerVars, historyVars>>

CheckTracks_skipped ==
    /\ pc = "tracks"
    /\ Goto(IF op = "rotate" THEN "left" ELSE "retry")
    /\ UNCHANGED <<venueVars, bookVars, tracked, clockVars, reportVars, todo,
                   listenerVars, historyVars>>
CheckTracks ==
    /\ pc = "tracks"
    /\ IF TracksAnything THEN Finish ELSE Goto(IF op = "rotate" THEN "left" ELSE "retry")
    /\ UNCHANGED <<venueVars, bookVars, tracked, clockVars, reportVars, todo,
                   listenerVars, historyVars>>

\* cancel_all_before_leaving tries again while anything is tracked, a bounded
\* number of times, and leaves either way.
Retry ==
    /\ pc = "retry"
    /\ IF tracked # {} /\ tries < Attempts
       THEN /\ pc' = "cancelAll"
            /\ todo' = tracked
            /\ tries' = tries + 1
            /\ op' = "leave"
            /\ UNCHANGED exits
       ELSE /\ pc' = "flatten"
            /\ op' = "flatten"
            /\ exits' = {k \in Keys : /\ guard[k] # 0
                                      /\ shares[guard[k]] > 0
                                      /\ guard[k] \in confirmed \/ ~RestingFor(k)}
            /\ UNCHANGED <<todo, tries>>
    /\ UNCHANGED <<venueVars, bookVars, tracked, clockVars, reportVars, key, ack,
                   sig, held, settled, listing, listenerVars, historyVars>>

\* flatten_before_stand_down sends one exit for each guard that still trades
\* (an unfilled quote whose cancel did not go through holds nothing to sell;
\* a leg on the closed market or with no bid is left to settle).
Flatten(k) ==
    /\ pc = "flatten"
    /\ k \in exits
    /\ exits' = exits \ {k}
    /\ BeginExit("flatten", k)

\* The loop returns: the listener is dropped with it.
Depart ==
    /\ pc = "flatten"
    /\ Goto("left")
    /\ UNCHANGED <<venueVars, bookVars, tracked, clockVars, reportVars, todo,
                   listenerVars, historyVars>>

Stopped == pc = "left" /\ UNCHANGED vars

-----------------------------------------------------------------------------
(* The fill listener: confirm_on_fill.                                     *)

\* Keys of a leg that no tracked order holds: an event of an order the engine
\* does not track may confirm these and no others.
EventKeys(l) == {k \in Keys : k[2] = l /\ ~RestingFor(k)}

\* An event of a tracked order: a cumulative count no larger than what traded
\* (late, lost or uncounted frames make it smaller); Polymarket US also says
\* when the order is complete.  The order is copied under the tracked lock.
TrackedFill(o, n, done) ==
    /\ pc # "left"
    /\ lpc = "idle"
    /\ o \in tracked
    /\ n <= traded[o]
    /\ done => ~ReportsOrders /\ st[o] = "done"
    /\ lpc' = "size"
    /\ lid' = o
    /\ lcount' = n
    /\ ldone' = done
    /\ UNCHANGED <<venueVars, bookVars, tracked, clockVars, reportVars, loopVars,
                   lkeys, historyVars>>

\* A buy on the leg by an order this engine does not track: an immediate order,
\* another squadron's viper, the operator, or an own quote whose acknowledgment
\* the loop has not tracked yet.
UntrackedFill(l) ==
    /\ pc # "left"
    /\ lpc = "idle"
    /\ EventKeys(l) # {}
    /\ lpc' = "confirm"
    /\ lkeys' = EventKeys(l)
    /\ UNCHANGED <<venueVars, bookVars, tracked, clockVars, reportVars, loopVars,
                   lid, lcount, ldone, historyVars>>

ListenerRests ==
    /\ lpc' = "idle"
    /\ lid' = 0
    /\ lcount' = 0
    /\ ldone' = FALSE
    /\ lkeys' = {}

\* An untracked order's event confirms every unconfirmed guard of those keys,
\* whatever its size.
ConfirmUntracked ==
    LET hit == {guard[k] : k \in lkeys} \ ({0} \cup confirmed)
    IN /\ pc # "left"
       /\ lpc = "confirm"
       /\ confirmed' = confirmed \cup hit
       /\ inflated' = inflated \cup {g \in hit : shares[g] > traded[g]}
       /\ ListenerRests
       /\ UNCHANGED <<venueVars, guard, shares, tracked, clockVars, reportVars,
                      loopVars, unread, unheard>>

\* Contracts sold whose booking has not yet reduced the guard.
InFlight(g) == IF pc = "book" /\ guard[key] = g THEN ack ELSE 0

\* A tracked order's event sizes its own guard ...
SizeTracked ==
    LET g == guard[okey[lid]]
    IN /\ pc # "left"
       /\ lpc = "size"
       /\ SizeAndConfirm(lid, lcount)
       /\ inflated' = IF g # 0 /\ OwnsGuard(lid, g) /\ sold[g] > InFlight(g)
                      THEN inflated \cup {g} ELSE inflated
       /\ lpc' = "untrack"
       /\ UNCHANGED <<venueVars, tracked, clockVars, rows, loopVars, lid, lcount,
                      ldone, lkeys, unread, unheard>>

\* ... and the order leaves tracking once it is filled or complete.
UntrackFilled ==
    /\ pc # "left"
    /\ lpc = "untrack"
    /\ IF lcount >= Q \/ ldone
       THEN SetTracked(tracked \ {lid}, todo)
       ELSE UNCHANGED <<tracked, clockVars>>
    /\ ListenerRests
    /\ UNCHANGED <<venueVars, bookVars, reportVars, loopVars, historyVars>>

-----------------------------------------------------------------------------
Init ==
    /\ okey = [o \in Ids |-> AnyKey]
    /\ st = [o \in Ids |-> "new"]
    /\ traded = [o \in Ids |-> 0]
    /\ sold = [o \in Ids |-> 0]
    /\ lastId = 0
    /\ guard = [k \in Keys |-> 0]
    /\ shares = [o \in Ids |-> 0]
    /\ confirmed = {}
    /\ tracked = {}
    /\ cancelled = {}
    /\ missing = [o \in Ids |-> "none"]
    /\ queued = [k \in Keys |-> 0]
    /\ released = {}
    /\ rows = [k \in Keys |-> NoRow]
    /\ pc = "idle"
    /\ op = "none"
    /\ key = AnyKey
    /\ ack = 0
    /\ sig = 0
    /\ held = 0
    /\ todo = {}
    /\ settled = {}
    /\ tries = 0
    /\ exits = {}
    /\ listing = [o \in Ids |-> Unsaid]
    /\ lpc = "idle"
    /\ lid = 0
    /\ lcount = 0
    /\ ldone = FALSE
    /\ lkeys = {}
    /\ unread = {}
    /\ inflated = {}
    /\ unheard = [o \in Ids |-> 0]

\* Operations the loop chooses from its select.
LoopStarts ==
    \/ \E k \in Keys, gtc \in BOOLEAN, f \in 0..Q : Place(k, gtc, f)
    \/ \E k \in Keys : PlaceLost(k)
    \/ \E k \in Keys : Pull(k)
    \/ \E k \in Keys : Exit(k)
    \/ \E known \in BOOLEAN : BeginReconcile(known)
    \/ Rotate
    \/ Retire
    \/ Leave

\* Steps of an operation under way.
LoopSteps ==
    \/ RecordGuard
    \/ ConfirmGuard
    \/ Track
    \/ RecordEntry
    \/ \E o \in Ids : PullOrder(o)
    \/ PullDone
    \/ ExitDecide
    \/ \E m \in 0..Q : Sell(m)
    \/ \E m \in 1..Q : SellUnheard(m)
    \/ Book
    \/ Forget
    \/ \E o \in Ids : ReconcileOrder(o)
    \/ EndReconcile
    \/ \E o \in Ids : CancelAllOrder(o)
    \/ EndCancelAll
    \/ CheckHolds
    \/ CheckTracks
    \/ Retry
    \/ \E k \in Keys : Flatten(k)
    \/ Depart

ListenerSteps ==
    \/ ConfirmUntracked
    \/ SizeTracked
    \/ UntrackFilled

Events ==
    \/ \E o \in Ids, n \in 1..Q, done \in BOOLEAN : TrackedFill(o, n, done)
    \/ \E l \in Legs : UntrackedFill(l)

Venue ==
    \/ \E o \in Ids : Trade(o)
    \/ \E o \in Ids : Expire(o)

Next ==
    \/ LoopStarts
    \/ LoopSteps
    \/ ListenerSteps
    \/ Events
    \/ Venue
    \/ \E o \in Ids : Age(o)
    \/ Stopped

Spec == Init /\ [][Next]_vars

\* The loop runs its operations to their end and its lifecycle tick comes
\* round; the venue's listing is readable again and again; time passes; the
\* listener task is scheduled.
Fairness ==
    /\ WF_vars(LoopSteps)
    /\ SF_vars(BeginReconcile(TRUE))
    /\ \A o \in Ids : SF_vars(Age(o))
    /\ WF_vars(ListenerSteps)

FairSpec == Spec /\ Fairness

-----------------------------------------------------------------------------
(* Properties.                                                             *)

LoopPoints  == {"idle", "record", "confirm", "track", "row", "pull", "sell",
                "book", "forget", "reconcile", "cancelAll", "holds", "tracks",
                "retry", "flatten", "left"}
Operations  == {"none", "quote", "take", "pull", "exit", "reconcile", "blind",
                "rotate", "retire", "leave", "flatten"}

TypeVenue ==
    /\ okey \in [Ids -> Keys]
    /\ st \in [Ids -> Statuses]
    /\ traded \in [Ids -> 0..Q]
    /\ sold \in [Ids -> Nat]
    /\ lastId \in 0..MaxOrders
TypeBook ==
    /\ guard \in [Keys -> 0..MaxOrders]
    /\ shares \in [Ids -> 0..Q]
    /\ confirmed \subseteq Ids
TypeTracked ==
    /\ tracked \subseteq Ids
    /\ cancelled \subseteq Ids
    /\ missing \in [Ids -> Clock]
TypeReports ==
    /\ queued \in [Keys -> 0..MaxOrders]
    /\ released \subseteq Keys
    /\ rows \in [Keys -> [order : 0..MaxOrders, by : 0..MaxOrders]]
TypeLoop ==
    /\ pc \in LoopPoints
    /\ op \in Operations
    /\ key \in Keys
    /\ ack \in 0..Q
    /\ sig \in 0..Q
    /\ held \in 0..Q
    /\ todo \subseteq Ids
    /\ settled \subseteq Ids
    /\ tries \in 0..Attempts
    /\ exits \subseteq Keys
    /\ listing \in [Ids -> Unsaid..Q]
TypeListener ==
    /\ lpc \in {"idle", "size", "confirm", "untrack"}
    /\ lid \in 0..MaxOrders
    /\ lcount \in 0..Q
    /\ ldone \in BOOLEAN
    /\ lkeys \subseteq Keys
TypeHistory ==
    /\ unread \subseteq Ids
    /\ inflated \subseteq Ids
    /\ unheard \in [Ids -> 0..MaxUnheard]

\* Every variable keeps its shape: counts stay between zero and the size
\* placed, ids name orders, and the loop and the listener stay in their code.
TypeOK ==
    /\ TypeVenue
    /\ TypeBook
    /\ TypeTracked
    /\ TypeReports
    /\ TypeLoop
    /\ TypeListener
    /\ TypeHistory

Placing(o) == pc \in {"record", "confirm", "track"} /\ lastId = o
Backed(g)  == shares[g] + sold[g] - InFlight(g) <= traded[g]

\* A confirmed guard never shows contracts its order has not traded or that
\* an exit's reply counted as sold: size_and_confirm, confirm_guard and the
\* partial exit keep Position.shares within the venue's count.  The two windows
\* in which the listener breaks this are ConfirmedHasTraded and NotSizedBackUp
\* below; what was sold unheard stays on the guard, NothingSoldTwice.
GuardBacked ==
    \A k \in Keys : guard[k] \in confirmed \ inflated => Backed(guard[k])

\* Over any sequence of partial exits, cancels, late reads and events the FAK
\* exits of dispatch_signal sell out of a guard what its order bought, and
\* beyond it no more than exits sold without the engine hearing of it: the sales
\* their replies counted never exceed what was bought.
SoldInAll(o) == sold[o] + unheard[o]
NoOversell ==
    \A o \in Ids \ inflated : SoldInAll(o) <= traded[o] + unheard[o]

\* An unconfirmed guard is never orphaned: outside its own placement its order
\* is tracked, so a fill, a cancel or the grace clock will still settle it and
\* the viper is not locked out of the leg.
QuoteGuardTracked ==
    \A k \in Keys :
      guard[k] # 0 /\ guard[k] \notin confirmed =>
        guard[k] \in tracked \/ Placing(guard[k])

\* An order still working at the venue is tracked (or being placed), unless the
\* venue never answered about it: no cancel, refusal, merge or partial exit
\* forgets a live order.
NothingForgotten ==
    \A o \in Ids :
      st[o] = "working" => o \in tracked \cup unread \/ Placing(o)

\* What traded is never lost while the venue answers: an order with a fill and
\* nothing sold still has its guard, or is tracked, or is being placed.  A
\* guard is released only for an order that traded nothing.
FillNotLost ==
    \A o \in Ids \ unread :
      traded[o] > 0 /\ sold[o] = 0 =>
        guard[okey[o]] = o \/ o \in tracked \/ Placing(o)

\* One working quote per viper per leg [B74]: dispatch_single places no second
\* order while one of the leg's orders still works at the venue.
OneWorkingQuote ==
    \A o, p \in Ids \ unread :
      st[o] = "working" /\ st[p] = "working" /\ okey[o] = okey[p] => o = p

\* Between operations every guard has the row its own placement wrote, and a
\* row without a guard is one that another order's late figure confirmed.
RowsFollowGuards ==
    pc = "idle" =>
      \A k \in Keys :
        IF guard[k] # 0 THEN rows[k].order = guard[k]
        ELSE rows[k].order = 0 \/ rows[k].by \notin {0, rows[k].order}

\* A rotation or a retirement leaves the market only when nothing is tracked
\* and nothing the venue answered for still works; a retirement only flat.
LeavesNothingBehind ==
    (pc = "left" /\ op = "rotate") \/ (pc = "retry" /\ op = "retire" /\ tries = 1) =>
      /\ tracked = {}
      /\ \A o \in Ids \ unread : st[o] # "working"
      /\ op = "retire" => \A k \in Keys : guard[k] = 0

\* What the venue says about one order never settles another order's guard
\* (owns_guard): a guard becomes confirmed only at a count its own order has
\* reached, and is released unconfirmed only if its own order traded nothing or
\* the venue never answered about it.
OwnOrderOnly ==
    [][/\ \A g \in confirmed' \ confirmed :
            g \in inflated' \/ shares'[g] <= traded'[g]
       /\ \A k \in Keys :
            guard[k] \notin confirmed \cup {0, guard'[k]} =>
              traded[guard[k]] = 0 \/ guard[k] \in unread']_vars

\* A confirmed guard is a position: no cancel, late or smaller count, listing
\* or grace clock shrinks it, unconfirms it or removes it.  It shrinks by the
\* booked sale and by no more, whatever grew it meanwhile, and leaves the map
\* only when all it held as the sale was sent was sold.
ConfirmedKept ==
    [][\A k \in Keys :
         LET g == guard[k]
             sells == pc = "book" /\ key = k
         IN g \in confirmed =>
              \/ /\ guard'[k] = g
                 /\ g \in confirmed'
                 /\ shares'[g] >= shares[g] - (IF sells THEN ack ELSE 0)
              \/ guard'[k] = 0 /\ sells /\ ack >= held]_vars

\* An order that is done at the venue does not stay tracked for ever, even if
\* no question about it is ever answered: the grace clock settles it.
DoneOrderSettles ==
    \A o \in Ids :
      (o \in tracked /\ st[o] = "done") ~> (o \notin tracked \/ pc = "left")

\* The guards as their readers see them.
Promise == INSTANCE PositionBook
           WITH clock <- lastId, opened <- guard,
                holding <- {k \in Keys : guard[k] \in confirmed},
                sale <- IF pc = "book" THEN {key} ELSE {}

\* The map of guards is a PositionBook: cancels, refusals, late reads, the grace
\* clock and the listener between them only open, fill and let go of quotes, and a holding goes by a sale.
KeepsPromise == Promise!Spec

-----------------------------------------------------------------------------
(* What the code's comments say, and the model refutes.                    *)

\* confirm_on_fill: someone else's fill on the leg says nothing about whether
\* the quote traded, so a confirmed guard has traded what it shows.
ConfirmedHasTraded ==
    \A k \in Keys : guard[k] \in confirmed => shares[guard[k]] <= traded[guard[k]]

\* dispatch_signal: a cancelled order whose fill is still being read must not
\* size the guard back up past what was just sold.
NotSizedBackUp ==
    [][\A k \in Keys :
         LET g == guard[k]
         IN g # 0 /\ guard'[k] = g /\ Backed(g) /\ sold[g] > 0 => Backed(g)']_vars

\* The exit arm: "Nothing traded -- we still own it."  What is sold out of a
\* guard is what its order bought and not sold before.
NothingSoldTwice == \A o \in Ids \ inflated : SoldInAll(o) <= traded[o]

\* "From the live guard, not the snapshot: a fill event may have grown it while
\* the sell was in flight": what a guard grew by while a sale of all it held was
\* under way stays in the map.
GrowthKept ==
    [][\A k \in Keys :
         guard[k] \in confirmed /\ guard'[k] = 0 => shares[guard[k]] <= ack]_vars

\* size_and_confirm: a figure for a guard that is gone must not land on the row
\* the strategy writes on the leg next.
RowSizedByOwnOrder ==
    \A k \in Keys : rows[k].by \in {0, rows[k].order}

\* KalshiOrder::is_resting: an unknown status is treated as unanswered, so an
\* order that still works is not dropped on it.
UnknownStatusKeepsOrder ==
    [][pc = "reconcile" =>
         \A o \in settled' \ settled : st'[o] = "working" => missing[o] = "due"]_vars

\* The rescan arm: a quote that traded while leaving is this market's to
\* manage; a rotation leaves no position in the map it drops.
RotatesFlat ==
    pc = "left" /\ op = "rotate" => \A k \in Keys : guard[k] = 0
=============================================================================
