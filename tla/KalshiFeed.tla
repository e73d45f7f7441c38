------------------------------ MODULE KalshiFeed ------------------------------
(***************************************************************************)
(* venues/kalshi/ws.rs: the order-book feed (spawn_orderbook_feed), one    *)
(* connection for all the tickers of a squadron with one sequence over all *)
(* of them, and the fill feed (spawn_fill_feed), which adds per-trade      *)
(* counts up to the cumulative count of a FillEvent.  build_snapshot       *)
(* (trader.rs) reads the hub.                                              *)
(*                                                                         *)
(* A book is one number per ticker, the quantity resting at one price.  A  *)
(* sequence number is modelled by what the code asks of it: does it follow *)
(* the number read last.  The venue sends each trade once: the code would  *)
(* count one sent twice, as it compares no trade ids.                      *)
(***************************************************************************)
EXTENDS Integers, Sequences

CONSTANTS
    Tickers,    \* markets on the connection
    Orders,     \* our orders
    OrderSize,  \* contracts each is for
    MaxQty,     \* bound: quantity resting at the price
    MaxWire,    \* bound: order-book frames on their way
    MaxFills    \* bound: fill frames on their way

ASSUME FeedAssumption == {MaxQty, OrderSize, MaxWire, MaxFills} \subseteq Nat

VARIABLES
    \* --- the venue and the connections (external) ---
    depth,      \* [Tickers -> 0..MaxQty]
    owed,       \* tickers whose snapshot this connection has not sent yet
    skipped,    \* the last frame numbered was never sent
    wire,       \* order-book frames on their way
    traded,     \* [Orders -> 0..OrderSize]
    fills,      \* fill frames on their way
    \* --- spawn_orderbook_feed ---
    conn,       \* "up" or "down"
    lastSeq,    \* 0 before the first frame of the connection, then 1
    hub,        \* BookHub: [Tickers -> [ready, qty]]
    \* --- spawn_fill_feed ---
    fconn,
    cum,        \* [Orders -> Nat]: contracts counted so far, FillEvent.filled
    \* --- history, read by properties only ---
    read,       \* depth as the last frame applied described it
    unlucky     \* tickers whose snapshot was lost before any frame was read

feedVars == <<depth, owed, skipped, wire, conn, lastSeq, hub, read, unlucky>>
fillVars == <<traded, fills, fconn, cum>>
vars == <<feedVars, fillVars>>

NoBook == [ready |-> FALSE, qty |-> 0]
Depths == [Tickers -> 0..MaxQty]
Frames == [kind : {"snapshot", "delta"}, ticker : Tickers, qty : -MaxQty..MaxQty,
           follows : BOOLEAN, after : Depths]
FillFrames == [order : Orders, count : 1..OrderSize]

-----------------------------------------------------------------------------
(* The venue (external).                                                   *)

\* A numbered frame is sent, or lost on the way.
Send(kind, t, q, lost) ==
    /\ conn = "up"
    /\ Len(wire) < MaxWire
    /\ wire' = IF lost THEN wire
               ELSE Append(wire, [kind |-> kind, ticker |-> t, qty |-> q,
                                  follows |-> ~skipped, after |-> depth'])
    /\ skipped' = lost

\* Someone places or cancels; only a live connection hears of it.
Change(t, q, lost) ==
    /\ q # depth[t]
    /\ depth' = [depth EXCEPT ![t] = q]
    /\ Send("delta", t, q - depth[t], lost)
    /\ UNCHANGED <<owed, conn, lastSeq, hub, read, unlucky, fillVars>>

ChangeUnheard(t, q) ==
    /\ conn = "down"
    /\ depth' = [depth EXCEPT ![t] = q]
    /\ UNCHANGED <<owed, skipped, wire, conn, lastSeq, hub, read, unlucky, fillVars>>

\* The snapshot a subscription is owed.
SendSnapshot(t, lost) ==
    /\ t \in owed
    /\ owed' = owed \ {t}
    /\ UNCHANGED depth
    /\ Send("snapshot", t, depth[t], lost)
    /\ unlucky' = IF lost /\ lastSeq = 0 /\ wire = <<>> THEN unlucky \cup {t} ELSE unlucky
    /\ UNCHANGED <<conn, lastSeq, hub, read, fillVars>>

-----------------------------------------------------------------------------
(* The order-book feed.                                                    *)

\* Connected and subscribed: every book starts again from its snapshot.
ClearBooks == hub' = [t \in Tickers |-> NoBook]
Connect ==
    /\ conn = "down"
    /\ conn' = "up"
    /\ lastSeq' = 0
    /\ ClearBooks
    /\ owed' = Tickers
    /\ skipped' = FALSE
    /\ wire' = <<>>
    /\ unlucky' = {}
    /\ UNCHANGED <<depth, read, fillVars>>

\* The stream errs or closes: the task waits and connects again; the hub keeps
\* what it has until then.
Disconnect ==
    /\ conn = "up"
    /\ conn' = "down"
    /\ wire' = <<>>
    /\ UNCHANGED <<depth, owed, skipped, lastSeq, hub, read, unlucky, fillVars>>

\* apply_ws_message: is this frame's number the next one?
Gap_never(f) == FALSE
Gap(f) == lastSeq # 0 /\ ~f.follows

\* A delta before the ticker's snapshot is ignored; a level at or below zero goes.
Applied_unmarked(b, f) ==
    [b EXCEPT !.qty = IF f.kind = "snapshot" THEN f.qty
                      ELSE IF @ + f.qty <= 0 THEN 0 ELSE @ + f.qty]
Applied(b, f) ==
    IF f.kind = "snapshot" THEN [ready |-> TRUE, qty |-> f.qty]
    ELSE IF ~b.ready THEN b
    ELSE [b EXCEPT !.qty = IF @ + f.qty <= 0 THEN 0 ELSE @ + f.qty]

ReadFrame ==
    /\ conn = "up"
    /\ wire # <<>>
    /\ LET f == Head(wire)
       IN IF Gap(f)
          THEN /\ conn' = "down"
               /\ wire' = <<>>
               /\ UNCHANGED <<lastSeq, hub, read>>
          ELSE /\ lastSeq' = 1
               /\ hub' = [hub EXCEPT ![f.ticker] = Applied(@, f)]
               /\ read' = f.after
               /\ wire' = Tail(wire)
               /\ UNCHANGED conn
    /\ UNCHANGED <<depth, owed, skipped, unlucky, fillVars>>

\* build_snapshot: nothing until the ticker's book is ready.
Describes(t) == hub[t].ready

-----------------------------------------------------------------------------
(* The fill feed.                                                          *)

\* One of our orders trades n contracts; a frame says so if anyone listens.
Trade(o, n) ==
    /\ traded[o] + n <= OrderSize
    /\ Len(fills) < MaxFills
    /\ traded' = [traded EXCEPT ![o] = @ + n]
    /\ fills' = IF fconn = "up" THEN Append(fills, [order |-> o, count |-> n]) ELSE fills
    /\ UNCHANGED <<fconn, cum, feedVars>>

\* fill_msg_to_event: the counts are per trade, the event is cumulative.
Count_market(o, n) == cum' = [p \in Orders |-> cum[p] + n]
Count(o, n) == cum' = [cum EXCEPT ![o] = @ + n]
ReadFill ==
    /\ fconn = "up"
    /\ fills # <<>>
    /\ Count(Head(fills).order, Head(fills).count)
    /\ fills' = Tail(fills)
    /\ UNCHANGED <<traded, fconn, feedVars>>

\* The counts survive the connection: what was counted stays counted.
FillDisconnect ==
    /\ fconn = "up"
    /\ fconn' = "down"
    /\ fills' = <<>>
    /\ UNCHANGED <<traded, cum, feedVars>>
FillConnect ==
    /\ fconn = "down"
    /\ fconn' = "up"
    /\ UNCHANGED <<traded, fills, cum, feedVars>>

-----------------------------------------------------------------------------
Init ==
    /\ depth \in Depths
    /\ owed = {} /\ skipped = FALSE /\ wire = <<>>
    /\ conn = "down" /\ lastSeq = 0
    /\ hub = [t \in Tickers |-> NoBook]
    /\ traded = [o \in Orders |-> 0] /\ fills = <<>>
    /\ fconn = "down"
    /\ cum = [o \in Orders |-> 0]
    /\ read = depth /\ unlucky = {}

Next ==
    \/ \E t \in Tickers, q \in 0..MaxQty, lost \in BOOLEAN : Change(t, q, lost)
    \/ \E t \in Tickers, q \in 0..MaxQty : ChangeUnheard(t, q)
    \/ \E t \in Tickers, lost \in BOOLEAN : SendSnapshot(t, lost)
    \/ Connect
    \/ Disconnect
    \/ ReadFrame
    \/ \E o \in Orders, n \in 1..OrderSize : Trade(o, n)
    \/ ReadFill
    \/ FillDisconnect
    \/ FillConnect

Spec == Init /\ [][Next]_vars

\* The task reads and reconnects; the venue sends the snapshots it owes, and
\* the markets of the connection go on changing.
Fairness ==
    /\ WF_vars(ReadFrame)
    /\ WF_vars(Connect)
    /\ \A t \in Tickers : SF_vars(\E lost \in BOOLEAN : SendSnapshot(t, lost))
    /\ SF_vars(\E t \in Tickers, q \in 0..MaxQty : Change(t, q, FALSE))

FairSpec == Spec /\ Fairness

-----------------------------------------------------------------------------
(* Properties.                                                             *)

\* Every variable keeps its shape: in particular no book goes below zero or
\* above what ever rested.
TypeOK ==
    /\ depth \in Depths /\ read \in Depths
    /\ owed \subseteq Tickers /\ unlucky \subseteq Tickers
    /\ skipped \in BOOLEAN
    /\ wire \in Seq(Frames)
    /\ conn \in {"up", "down"} /\ fconn \in {"up", "down"}
    /\ lastSeq \in {0, 1}
    /\ hub \in [Tickers -> [ready : BOOLEAN, qty : 0..MaxQty]]
    /\ traded \in [Orders -> 0..OrderSize]
    /\ cum \in [Orders -> Nat]
    /\ fills \in Seq(FillFrames)

\* A ready book is exactly the venue's book as of the last frame applied, on
\* every ticker of the connection: a lost frame of one ticker, a delta before a
\* snapshot, or a book of an earlier connection never leaves a wrong level.
ReadyIsExact == \A t \in Tickers : hub[t].ready => hub[t].qty = read[t]

\* A cumulative count never exceeds what the order traded, whatever other
\* orders trade on the market and however often the feed reconnects: the
\* lifecycle sizes guards by it.
NeverOvercounts == \A o \in Orders : cum[o] <= traded[o]

\* A subscribed ticker gets its book, or the connection is given up: a lost
\* snapshot is noticed by the next frame of any ticker, unless nothing had been
\* read yet (the first frame of a connection is taken whatever its number).
BookArrives ==
    \A t \in Tickers :
      conn = "up" /\ ~hub[t].ready
        ~> hub[t].ready \/ conn = "down" \/ t \in unlucky

-----------------------------------------------------------------------------
(* What a comment says, and the model refutes.                             *)

\* build_snapshot: a feed that is still connecting has no book to describe.
ConnectingHasNoBook == \A t \in Tickers : Describes(t) => conn = "up"
=============================================================================
