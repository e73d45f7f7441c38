------------------------------ MODULE LocalBook ------------------------------
(***************************************************************************)
(* squadron/local_book.rs: the order book of one token of the              *)
(* international venue, rebuilt from full `book` messages and the          *)
(* `price_change` messages between them, with the task of squadron/mod.rs  *)
(* (spawn_ws_task) that feeds it and publishes what it may trust.          *)
(*                                                                         *)
(* A level is there or not: a size is positive or zero.  A price_change    *)
(* carries one level.  A receipt time stands for the frame received then.  *)
(* The venue publishes an event in one or more frames, each stamped with   *)
(* the touch as it will stand once the whole event is published.  Its own  *)
(* full books are taken to be uncrossed: reset does not look.              *)
(***************************************************************************)
EXTENDS Integers, Sequences, FiniteSetsExt

CONSTANTS
    MaxPrice,   \* ticks of the price grid
    MaxEvents,  \* bound: venue events in one behaviour
    MaxFaults   \* bound: frames lost, repeated or overtaken, and reconnects

ASSUME BookAssumption ==
    /\ MaxPrice \in Nat \ {0}
    /\ MaxEvents \in Nat
    /\ MaxFaults \in Nat

Prices   == 1..MaxPrice
EmptyBid == 0
EmptyAsk == MaxPrice + 1
NoStamp  == <<EmptyAsk, EmptyBid>>    \* best_bid / best_ask absent
Touches  == (Prices \cup {EmptyBid}) \X (Prices \cup {EmptyAsk})
Levels   == [bids : SUBSET Prices, asks : SUBSET Prices]
NoLevels == [bids |-> {}, asks |-> {}]

VARIABLES
    \* --- the venue (external) ---
    venue,      \* Levels: the book as its frames so far describe it
    events,     \* events published; the venue timestamp of the last one
    frames,     \* frames published
    wire,       \* frames on their way, in the order they were sent
    faults,
    \* --- LocalBook ---
    levels,     \* bids and asks
    snapshot,   \* the last full book, or None
    hold,       \* "none", "soft", "hard"
    lastChange, \* receipt of the last change folded in
    \* --- spawn_ws_task ---
    published,  \* the watch channel: a touch and the receipt that dates it
    \* --- history, read by properties only ---
    truth,      \* Levels: what the frames delivered so far describe
    gap         \* a frame since the snapshot was lost or came out of order

bookVars == <<levels, snapshot, hold, lastChange>>
vars == <<venue, events, frames, wire, faults, bookVars, published, truth, gap>>

\* The touch; an empty side reads as a bid of 0 or an ask of 1.
Best(l) == << IF l.bids = {} THEN EmptyBid ELSE Max(l.bids),
              IF l.asks = {} THEN EmptyAsk ELSE Min(l.asks) >>
Crossed(t) == t[1] # EmptyBid /\ t[2] # EmptyAsk /\ t[1] >= t[2]

\* A level becomes what the entry says it is: the size is absolute, zero removes.
Changes == [side : {"bids", "asks"}, price : Prices, on : BOOLEAN]
Fold(l, c) ==
    [l EXCEPT ![c.side] = IF c.on THEN @ \cup {c.price} ELSE @ \ {c.price}]

\* When a frame was received: which frame, the touch its event settled on, and
\* whether the frame says so.
Receipts == [n : Nat, touch : Touches, stamped : BOOLEAN]
NoReceipt == [n |-> 0, touch |-> <<EmptyBid, EmptyAsk>>, stamped |-> TRUE]
None == [at |-> NoReceipt, ts |-> 0, touch |-> <<EmptyBid, EmptyAsk>>]

-----------------------------------------------------------------------------
(* The venue and the connection (external).                                *)

Frame(kind, change, stamp, settled, after, offset) ==
    [kind |-> kind, ts |-> events + 1, change |-> change, stamp |-> stamp,
     after |-> after,
     at |-> [n |-> frames + offset, touch |-> settled, stamped |-> stamp # NoStamp]]

NoChange == [side |-> "bids", price |-> 1, on |-> FALSE]

Emit(fs, after) ==
    /\ events < MaxEvents
    /\ events' = events + 1
    /\ frames' = frames + Len(fs)
    /\ wire' = wire \o fs
    /\ venue' = after
    /\ UNCHANGED <<faults, bookVars, published, truth, gap>>

\* One maker's change: one or two levels, a frame each, all with the touch the
\* event settles on; the venue may leave the stamps or a size out.
Stamped(how, t) == IF how = "unstamped" THEN NoStamp ELSE t
Kind(how) == IF how = "sizeless" THEN "sizeless" ELSE "change"
Differs(l, c) == c.on # (c.price \in l[c.side])

Requote(c, how) ==
    LET after == Fold(venue, c)
    IN /\ Differs(venue, c)
       /\ ~Crossed(Best(after))
       /\ Emit(<<Frame(Kind(how), c, Stamped(how, Best(after)), Best(after), after, 1)>>, after)

CancelReplace(c, d, how) ==
    LET first == Fold(venue, c)
        after == Fold(first, d)
        t     == Best(after)
    IN /\ Differs(venue, c) /\ Differs(first, d)
       /\ c.side = d.side /\ c.price # d.price
       /\ ~Crossed(t)
       /\ Emit(<<Frame(Kind(how), c, Stamped(how, t), t, first, 1),
                 Frame("change", d, Stamped(how, t), t, after, 2)>>, after)

\* A marketable order: its placement crosses the book until the full book that
\* follows every trade.  What it does not consume may rest.
Trade(side, p, rests) ==
    LET placed == Fold(venue, [side |-> side, price |-> p, on |-> TRUE])
        after  == IF side = "bids"
                  THEN [bids |-> IF rests THEN placed.bids ELSE venue.bids,
                        asks |-> {q \in venue.asks : q > p}]
                  ELSE [asks |-> IF rests THEN placed.asks ELSE venue.asks,
                        bids |-> {q \in venue.bids : q < p}]
        t      == Best(after)
    IN /\ Crossed(Best(placed))
       /\ Emit(<<Frame("change", [side |-> side, price |-> p, on |-> TRUE], t, t, placed, 1),
                 Frame("book", NoChange, t, t, after, 2)>>, after)

Remove(i) == SubSeq(wire, 1, i - 1) \o SubSeq(wire, i + 1, Len(wire))

\* A frame the feed never delivers, or one the kill switch skips.
Lose(i) ==
    /\ faults < MaxFaults
    /\ wire[i].kind # "lost"
    /\ faults' = faults + 1
    /\ wire' = [wire EXCEPT ![i].kind = "lost"]
    /\ UNCHANGED <<venue, events, frames, bookVars, published, truth, gap>>

-----------------------------------------------------------------------------
(* LocalBook.                                                              *)

\* price_state: the derived book while it is proven, else the last snapshot
\* with its own receipt.
PriceState_fresh(l, s, h, at) ==
    [touch |-> IF h # "none" THEN s.touch ELSE Best(l), at |-> at]
PriceState(l, s, h, at) ==
    IF h # "none" THEN [touch |-> s.touch, at |-> s.at]
                  ELSE [touch |-> Best(l), at |-> at]

Publish == published' = PriceState(levels', snapshot', hold', lastChange')

\* reset: a full book replaces everything and ends any hold.
Reset(f) ==
    /\ levels' = f.after
    /\ snapshot' = [touch |-> Best(f.after), ts |-> f.ts, at |-> f.at]
    /\ lastChange' = f.at
    /\ hold' = "none"

HoldHard_soft == hold' = "soft" /\ UNCHANGED <<levels, snapshot, lastChange>> /\ Publish
HoldHard == hold' = "hard" /\ UNCHANGED <<levels, snapshot, lastChange>> /\ Publish

\* What a batch whose levels were folded in does to the hold: a crossed book or
\* a touch the stamps contradict holds, agreement releases, silence keeps.
NextHold_uncrossed(t, stamp) ==
    IF stamp = NoStamp THEN hold ELSE IF t # stamp THEN "soft" ELSE "none"
NextHold(t, stamp) ==
    IF Crossed(t) THEN "soft"
    ELSE IF stamp = NoStamp THEN hold
    ELSE IF t # stamp THEN "soft" ELSE "none"

\* apply: nothing before the first snapshot, nothing older than it, nothing
\* under a hard hold.
Ignored(f) == snapshot = None \/ f.ts < snapshot.ts \/ hold = "hard"

Apply(f) ==
    IF Ignored(f) THEN UNCHANGED <<bookVars, published>>
    ELSE IF f.kind = "sizeless" THEN HoldHard
    ELSE /\ levels' = Fold(levels, f.change)
         /\ lastChange' = f.at
         /\ hold' = NextHold(Best(levels'), f.stamp)
         /\ UNCHANGED snapshot
         /\ IF hold # "none" /\ hold' # "none" THEN UNCHANGED published ELSE Publish

\* spawn_ws_task: one frame, and what it leaves published.
Receive(f) ==
    CASE f.kind = "book" -> Reset(f) /\ Publish
      [] f.kind = "lost" -> UNCHANGED <<bookVars, published>>
      [] OTHER           -> Apply(f)

\* The history: which levels the frames so far describe, and whether one of
\* them is missing or was folded in after a later snapshot.
Follow(f) ==
    /\ truth' = IF f.kind = "lost" THEN truth ELSE f.after
    /\ gap' = IF f.kind = "book" THEN FALSE
              ELSE gap \/ (snapshot # None /\ f.ts >= snapshot.ts
                           /\ (f.kind = "lost" \/ f.at.n < snapshot.at.n))

\* The next frame arrives; an older one than the snapshot describes nothing new.
Deliver ==
    /\ wire # <<>>
    /\ LET f == Head(wire)
       IN /\ Receive(f)
          /\ IF snapshot # None /\ f.ts < snapshot.ts
             THEN UNCHANGED <<truth, gap>> ELSE Follow(f)
    /\ wire' = Tail(wire)
    /\ UNCHANGED <<venue, events, frames, faults>>

\* A frame arrives twice in a row.
Repeat ==
    /\ wire # <<>>
    /\ faults < MaxFaults
    /\ Head(wire).kind = "change"
    /\ snapshot = None \/ Head(wire).ts >= snapshot.ts
    /\ Receive(Head(wire))
    /\ Follow(Head(wire))
    /\ faults' = faults + 1
    /\ UNCHANGED <<venue, events, frames, wire>>

\* A full book overtakes the changes sent before it.
Overtake(i) ==
    /\ faults < MaxFaults
    /\ i > 1
    /\ wire[i].kind = "book"
    /\ \A j \in 1..(i - 1) : wire[j].kind # "book"
    /\ Receive(wire[i])
    /\ Follow(wire[i])
    /\ wire' = Remove(i)
    /\ faults' = faults + 1
    /\ UNCHANGED <<venue, events, frames>>

\* The stream ends: the next connection starts an empty book and the venue
\* sends a full one; what was published stays.
Reconnect ==
    /\ faults < MaxFaults
    /\ faults' = faults + 1
    /\ levels' = NoLevels
    /\ snapshot' = None
    /\ hold' = "none"
    /\ lastChange' = NoReceipt
    /\ truth' = NoLevels
    /\ gap' = FALSE
    /\ frames' = frames + 1
    /\ wire' = <<[Frame("book", NoChange, Best(venue), Best(venue), venue, 1)
                    EXCEPT !.ts = events]>>
    /\ UNCHANGED <<venue, events, published>>

-----------------------------------------------------------------------------
Init ==
    /\ venue \in {l \in Levels : ~Crossed(Best(l))}
    /\ events = 0
    /\ frames = 1
    /\ wire = <<[kind |-> "book", ts |-> 0, change |-> NoChange, stamp |-> Best(venue),
                 after |-> venue,
                 at |-> [n |-> 1, touch |-> Best(venue), stamped |-> TRUE]]>>
    /\ faults = 0
    /\ levels = NoLevels
    /\ snapshot = None
    /\ hold = "none"
    /\ lastChange = NoReceipt
    /\ published = [touch |-> <<EmptyBid, EmptyAsk>>, at |-> NoReceipt]
    /\ truth = NoLevels
    /\ gap = FALSE

Next ==
    \/ \E c \in Changes, how \in {"stamped", "unstamped", "sizeless"} : Requote(c, how)
    \/ \E c, d \in Changes, how \in {"stamped", "unstamped"} : CancelReplace(c, d, how)
    \/ \E side \in {"bids", "asks"}, p \in Prices, rests \in BOOLEAN : Trade(side, p, rests)
    \/ \E i \in 1..Len(wire) : Lose(i) \/ Overtake(i)
    \/ Deliver
    \/ Repeat
    \/ Reconnect

Spec == Init /\ [][Next]_vars

-----------------------------------------------------------------------------
(* Properties.                                                             *)

\* Every variable keeps its shape.
TypeOK ==
    /\ venue \in Levels /\ levels \in Levels /\ truth \in Levels
    /\ events \in 0..MaxEvents /\ frames \in Nat /\ faults \in 0..MaxFaults
    /\ snapshot \in [touch : Touches, ts : 0..MaxEvents, at : Receipts]
    /\ hold \in {"none", "soft", "hard"}
    /\ lastChange \in Receipts
    /\ published \in [touch : Touches, at : Receipts]
    /\ gap \in BOOLEAN

\* What price_state publishes is dated truthfully: the touch is the one the
\* venue had settled on with the very frame whose receipt time dates it, through
\* half-published events, lost, repeated and overtaken frames.  In particular a
\* held book shows the snapshot with the snapshot's age and never a fresh one.
DatedTruly == published.at.stamped => published.touch = published.at.touch

\* A crossed book is never published, stamps or no stamps.
NeverCrossed == ~Crossed(published.touch)

\* Below the touch no stamp can help: unless a frame was lost or overtaken, the
\* published derived book has exactly the venue's levels, so a change that could
\* not be folded in (a size left out) must keep the book held until a snapshot.
DerivedIsExact == snapshot # None /\ hold = "none" /\ ~gap => levels = truth
=============================================================================
