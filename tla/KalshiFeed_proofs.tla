-------------------------- MODULE KalshiFeed_proofs --------------------------
(***************************************************************************)
(* Proofs about KalshiFeed, for every set of tickers and orders and every  *)
(* bound on quantities and frames:                                         *)
(*                                                                         *)
(*   TypeCorrect    Spec => []TypeOK                                       *)
(*   BooksAreExact  Spec => []ReadyIsExact                                 *)
(*   CountsAreTrue  Spec => []NeverOvercounts                              *)
(*                                                                         *)
(* A frame that follows the one before it tells how the venue's books went *)
(* from one to the other, on every ticker of the connection; the frames on *)
(* their way so lead from the last one read to the venue's books.  The     *)
(* fill frames on their way lead in the same manner from what is counted   *)
(* to no more than what traded.                                            *)
(***************************************************************************)
EXTENDS KalshiFeed, TLAPS

USE FeedAssumption DEF FeedAssumption

-----------------------------------------------------------------------------
(* The invariant.                                                          *)

\* What the books were when the frame before the i-th was sent.
Before(i) == IF i = 1 THEN read ELSE wire[i - 1].after

\* What a frame says of the books, given what they were.
Tells(f, was) ==
    f.after = IF f.kind = "snapshot" THEN was
              ELSE [was EXCEPT ![f.ticker] = @ + f.qty]

\* A snapshot gives the level as it is; a frame whose number follows tells all
\* that changed since the one before it, if one was read or is on its way.
Exact(f) == f.kind = "snapshot" => f.qty = f.after[f.ticker]
Chained ==
    \A i \in 1..Len(wire) :
      /\ Exact(wire[i])
      /\ wire[i].follows /\ (i > 1 \/ lastSeq # 0) => Tells(wire[i], Before(i))

\* If the last frame numbered was sent, the frames lead to the books as they are.
UpToDate ==
    conn = "up" /\ ~skipped /\ (wire # <<>> \/ lastSeq # 0) => depth = Before(Len(wire) + 1)

\* Before its first frame a connection has no book.
NoneYet == conn = "up" /\ lastSeq = 0 => \A t \in Tickers : ~hub[t].ready

FeedInv == TypeOK /\ Chained /\ UpToDate /\ NoneYet /\ ReadyIsExact

-----------------------------------------------------------------------------
(* The initial states.                                                     *)

LEMMA NoBookType == NoBook \in [ready : BOOLEAN, qty : 0..MaxQty]
BY DEF NoBook

LEMMA EmptyType == <<>> \in Seq(Frames) /\ <<>> \in Seq(FillFrames)
OBVIOUS

LEMMA FeedInit == Init => FeedInv
<1> SUFFICES ASSUME Init PROVE FeedInv
  OBVIOUS
<1>1. hub \in [Tickers -> [ready : BOOLEAN, qty : 0..MaxQty]]
  BY NoBookType DEF Init
<1>2. TypeOK
  <2>1. traded \in [Orders -> 0..OrderSize] /\ cum \in [Orders -> Nat]
    BY DEF Init
  <2>2. wire \in Seq(Frames) /\ fills \in Seq(FillFrames)
    BY EmptyType DEF Init
  <2>3. depth \in Depths /\ read \in Depths
    BY DEF Init
  <2>4. /\ owed \subseteq Tickers /\ unlucky \subseteq Tickers /\ skipped \in BOOLEAN
        /\ conn \in {"up", "down"} /\ fconn \in {"up", "down"} /\ lastSeq \in {0, 1}
    BY DEF Init
  <2> QED BY <1>1, <2>1, <2>2, <2>3, <2>4 DEF TypeOK
<1>3. Chained /\ UpToDate /\ NoneYet /\ ReadyIsExact
  BY DEF Init, Chained, UpToDate, NoneYet, ReadyIsExact, NoBook
<1> QED BY <1>2, <1>3 DEF FeedInv

-----------------------------------------------------------------------------
(* A numbered frame.                                                       *)

\* A frame put on the wire after the books changed as it tells keeps the chain.
LEMMA SentKeeps ==
    ASSUME FeedInv, NEW kind \in {"snapshot", "delta"}, NEW t \in Tickers,
           NEW q \in -MaxQty..MaxQty, NEW lost \in BOOLEAN,
           Send(kind, t, q, lost), depth' \in Depths,
           kind = "snapshot" => depth' = depth /\ q = depth[t],
           kind = "delta" => depth' = [depth EXCEPT ![t] = @ + q],
           UNCHANGED <<conn, lastSeq, hub, read>>
    PROVE  /\ wire' \in Seq(Frames) /\ skipped' \in BOOLEAN
           /\ Chained' /\ UpToDate' /\ NoneYet' /\ ReadyIsExact'
<1> USE DEF FeedInv
<1>1. CASE lost
  <2>1. wire' = wire /\ skipped'
    BY <1>1 DEF Send
  <2> QED BY <2>1 DEF Chained, UpToDate, NoneYet, ReadyIsExact, Before, Tells, Exact, TypeOK
<1>2. CASE ~lost
  <2> DEFINE f == [kind |-> kind, ticker |-> t, qty |-> q, follows |-> ~skipped, after |-> depth']
  <2>0. PICK n \in Nat : n = Len(wire)
    BY DEF TypeOK
  <2>1. wire' = Append(wire, f) /\ skipped' = FALSE
    BY <1>2 DEF Send
  <2>2. f \in Frames
    BY DEF Frames, TypeOK
  <2>3. n = Len(wire) /\ wire \in Seq(Frames)
    BY <2>0 DEF TypeOK
  <2>4. /\ wire' \in Seq(Frames) /\ Len(wire') = n + 1
        /\ wire'[n + 1] = f
        /\ \A i \in 1..n : wire'[i] = wire[i]
    BY <2>1, <2>2, <2>3
  <2>5. \A i \in 1..n + 1 : Before(i)' = Before(i)
    BY <2>3, <2>4 DEF Before
  <2>6. Exact(f)
    BY DEF Exact, TypeOK
  <2>7. f.follows /\ (n + 1 > 1 \/ lastSeq # 0) => Tells(f, Before(n + 1))
    <3> SUFFICES ASSUME ~skipped, n + 1 > 1 \/ lastSeq # 0 PROVE Tells(f, Before(n + 1))
      OBVIOUS
    <3>1. depth = Before(n + 1)
      BY <2>3 DEF UpToDate, Send
    <3> QED BY <3>1 DEF Tells
  <2>8. Chained'
    <3> SUFFICES ASSUME NEW i \in 1..n + 1
                 PROVE  /\ Exact(wire'[i])
                        /\ wire'[i].follows /\ (i > 1 \/ lastSeq # 0) => Tells(wire'[i], Before(i))
      BY SMTT(30), <2>4, <2>5 DEF Chained, Tells, Exact
    <3>1. CASE i = n + 1
      BY <3>1, <2>4, <2>6, <2>7
    <3>2. CASE i \in 1..n
      BY <3>2, <2>3, <2>4 DEF Chained
    <3> QED BY <3>1, <3>2, <2>3
  <2>9. UpToDate'
    BY <2>3, <2>4 DEF UpToDate, Before
  <2> QED BY <2>1, <2>4, <2>8, <2>9 DEF NoneYet, ReadyIsExact
<1> QED BY <1>1, <1>2

LEMMA ChangeKeeps ==
    ASSUME FeedInv, NEW t \in Tickers, NEW q \in 0..MaxQty, NEW lost \in BOOLEAN,
           Change(t, q, lost)
    PROVE  FeedInv'
<1>1. depth \in Depths /\ depth[t] \in 0..MaxQty
  BY DEF FeedInv, TypeOK, Depths
<1>2. depth' \in Depths /\ q - depth[t] \in -MaxQty..MaxQty
  BY <1>1 DEF Change, Depths
<1>3. depth' = [depth EXCEPT ![t] = @ + (q - depth[t])]
  <2>1. q = depth[t] + (q - depth[t])
    BY <1>1
  <2> QED BY <2>1 DEF Change
<1>4. /\ wire' \in Seq(Frames) /\ skipped' \in BOOLEAN
      /\ Chained' /\ UpToDate' /\ NoneYet' /\ ReadyIsExact'
  BY <1>2, <1>3, SentKeeps DEF Change
<1>5. TypeOK'
  BY <1>2, <1>4 DEF Change, FeedInv, TypeOK, fillVars
<1> QED BY <1>4, <1>5 DEF FeedInv

LEMMA SnapshotKeeps ==
    ASSUME FeedInv, NEW t \in Tickers, NEW lost \in BOOLEAN, SendSnapshot(t, lost)
    PROVE  FeedInv'
<1>1. depth' = depth /\ depth \in Depths /\ depth[t] \in -MaxQty..MaxQty
  BY DEF FeedInv, TypeOK, Depths, SendSnapshot
<1>2. /\ wire' \in Seq(Frames) /\ skipped' \in BOOLEAN
      /\ Chained' /\ UpToDate' /\ NoneYet' /\ ReadyIsExact'
  BY <1>1, SentKeeps DEF SendSnapshot
<1>3. TypeOK'
  BY <1>1, <1>2 DEF SendSnapshot, FeedInv, TypeOK, fillVars
<1> QED BY <1>2, <1>3 DEF FeedInv

-----------------------------------------------------------------------------
(* Connections.                                                            *)

LEMMA ConnectKeeps == FeedInv /\ Connect => FeedInv'
<1> SUFFICES ASSUME FeedInv, Connect PROVE FeedInv'
  OBVIOUS
<1>0. hub' \in [Tickers -> [ready : BOOLEAN, qty : 0..MaxQty]]
  BY NoBookType DEF Connect, ClearBooks
<1>1. TypeOK'
  BY <1>0, EmptyType DEF Connect, FeedInv, TypeOK, fillVars
<1>2. Chained' /\ UpToDate' /\ NoneYet' /\ ReadyIsExact'
  BY DEF Connect, ClearBooks, NoBook, Chained, UpToDate, NoneYet, ReadyIsExact
<1> QED BY <1>1, <1>2 DEF FeedInv

\* A connection that ends leaves the books as they were read.
LEMMA DownKeeps ==
    ASSUME FeedInv, conn' = "down", wire' = <<>>,
           UNCHANGED <<depth, owed, skipped, lastSeq, hub, read, unlucky, fillVars>>
    PROVE  FeedInv'
<1>1. TypeOK'
  BY DEF FeedInv, TypeOK, fillVars
<1>2. Chained' /\ UpToDate' /\ NoneYet' /\ ReadyIsExact'
  BY DEF FeedInv, Chained, UpToDate, NoneYet, ReadyIsExact
<1> QED BY <1>1, <1>2 DEF FeedInv

\* The venue's books may change unheard: nobody is told, and nobody is connected.
LEMMA UnheardKeeps ==
    ASSUME FeedInv, NEW t \in Tickers, NEW q \in 0..MaxQty, ChangeUnheard(t, q)
    PROVE  FeedInv'
<1>1. TypeOK'
  BY DEF ChangeUnheard, FeedInv, TypeOK, Depths, fillVars
<1>2. Chained' /\ UpToDate' /\ NoneYet' /\ ReadyIsExact'
  BY DEF ChangeUnheard, FeedInv, Chained, UpToDate, NoneYet, ReadyIsExact, Before, Tells, Exact
<1> QED BY <1>1, <1>2 DEF FeedInv

-----------------------------------------------------------------------------
(* Reading a frame.                                                        *)

\* The book the frame is about: exact as of that frame, if it is ready.
LEMMA AppliedExact ==
    ASSUME FeedInv, wire # <<>>, conn = "up", ~Gap(Head(wire)), NEW t \in Tickers
    PROVE  LET f == Head(wire)
               b == IF t = f.ticker THEN Applied(hub[t], f) ELSE hub[t]
           IN /\ b \in [ready : BOOLEAN, qty : 0..MaxQty]
              /\ b.ready => b.qty = f.after[t]
<1> DEFINE f == Head(wire)
           b == IF t = f.ticker THEN Applied(hub[t], f) ELSE hub[t]
<1>1. f = wire[1] /\ f \in Frames /\ 1 \in 1..Len(wire)
  BY DEF FeedInv, TypeOK
<1>2. /\ f.kind \in {"snapshot", "delta"} /\ f.ticker \in Tickers
      /\ f.qty \in Int /\ f.after \in [Tickers -> 0..MaxQty] /\ f.follows \in BOOLEAN
  BY <1>1 DEF Frames, Depths
<1>3. /\ hub[t] \in [ready : BOOLEAN, qty : 0..MaxQty]
      /\ read \in [Tickers -> 0..MaxQty] /\ MaxQty \in Nat
  BY DEF FeedInv, TypeOK, Depths
<1>4. f.kind = "snapshot" => f.qty = f.after[f.ticker]
  BY <1>1 DEF FeedInv, Chained, Exact
<1>5. ASSUME hub[t].ready
      PROVE  /\ hub[t].qty = read[t]
             /\ f.after = IF f.kind = "snapshot" THEN read ELSE [read EXCEPT ![f.ticker] = @ + f.qty]
  <2>1. lastSeq # 0
    BY <1>5 DEF FeedInv, NoneYet
  <2>2. f.follows
    BY <2>1 DEF Gap
  <2>3. Tells(wire[1], Before(1))
    BY <1>1, <2>1, <2>2 DEF FeedInv, Chained
  <2>4. hub[t].qty = read[t]
    BY <1>5 DEF FeedInv, ReadyIsExact
  <2> QED BY <1>1, <2>3, <2>4 DEF Tells, Before
<1>6. CASE t # f.ticker
  BY <1>2, <1>3, <1>5, <1>6
<1>7. CASE t = f.ticker /\ f.kind = "snapshot"
  BY <1>2, <1>4, <1>7 DEF Applied
<1>8. CASE t = f.ticker /\ f.kind = "delta" /\ ~hub[t].ready
  BY <1>3, <1>8 DEF Applied
<1>9. CASE t = f.ticker /\ f.kind = "delta" /\ hub[t].ready
  <2>1. f.after[t] = hub[t].qty + f.qty /\ f.after[t] \in 0..MaxQty
    BY <1>2, <1>3, <1>5, <1>9
  <2>2. b = [hub[t] EXCEPT !.qty = f.after[t]]
    BY SMTT(30), <1>2, <1>3, <1>9, <2>1 DEF Applied
  <2> QED BY <1>3, <2>1, <2>2
<1> QED BY <1>2, <1>6, <1>7, <1>8, <1>9

\* Without its first frame the chain starts from what that frame said.
LEMMA TailChained ==
    ASSUME FeedInv, wire # <<>>, wire' = Tail(wire), read' = Head(wire).after, lastSeq' = 1,
           UNCHANGED <<depth, skipped, conn>>
    PROVE  wire' \in Seq(Frames) /\ Chained' /\ UpToDate'
<1>0. PICK n \in Nat : n = Len(wire)
  BY DEF FeedInv, TypeOK
<1>1. n = Len(wire) /\ n # 0 /\ wire \in Seq(Frames)
  BY <1>0 DEF FeedInv, TypeOK
<1>2. /\ wire' \in Seq(Frames) /\ Len(wire') = n - 1
      /\ \A i \in 1..n - 1 : wire'[i] = wire[i + 1]
  BY <1>1
<1>3. read' = wire[1].after
  BY <1>1
<1>4. \A i \in 1..n : Before(i)' = Before(i + 1)
  BY <1>1, <1>2, <1>3 DEF Before
<1>5. Chained'
  <2> SUFFICES ASSUME NEW i \in 1..n - 1
               PROVE  /\ Exact(wire'[i])
                      /\ wire'[i].follows => Tells(wire'[i], Before(i)')
    BY <1>2 DEF Chained, Exact, Tells
  <2>1. i + 1 \in 1..n /\ i + 1 > 1 /\ i \in 1..n
    BY <1>1
  <2>2. Exact(wire[i + 1]) /\ (wire[i + 1].follows => Tells(wire[i + 1], Before(i + 1)))
    BY <2>1, <1>1 DEF FeedInv, Chained
  <2> QED BY <2>1, <2>2, <1>2, <1>4
<1>6. UpToDate'
  <2> SUFFICES ASSUME conn = "up", ~skipped PROVE depth = Before(n)'
    BY <1>1, <1>2 DEF UpToDate, Before
  <2>1. depth = Before(n + 1)
    BY <1>1 DEF FeedInv, UpToDate
  <2> QED BY <2>1, <1>1, <1>4
<1> QED BY <1>2, <1>5, <1>6

LEMMA ReadKeeps == FeedInv /\ ReadFrame => FeedInv'
<1> SUFFICES ASSUME FeedInv, ReadFrame PROVE FeedInv'
  OBVIOUS
<1> DEFINE f == Head(wire)
<1>1. CASE Gap(f)
  BY <1>1, DownKeeps DEF ReadFrame
<1>2. CASE ~Gap(f)
  <2>1. /\ conn = "up" /\ wire # <<>> /\ lastSeq' = 1
        /\ hub' = [hub EXCEPT ![f.ticker] = Applied(@, f)]
        /\ read' = f.after /\ wire' = Tail(wire)
        /\ UNCHANGED <<depth, owed, skipped, conn, unlucky, fillVars>>
    BY <1>2 DEF ReadFrame
  <2>2. wire' \in Seq(Frames) /\ Chained' /\ UpToDate'
    BY <2>1, TailChained
  <2>3. f \in Frames
    BY <2>1 DEF FeedInv, TypeOK
  <2>4. f.after \in Depths /\ f.ticker \in Tickers
    BY <2>3 DEF Frames
  <2>5. \A t \in Tickers : /\ hub'[t] \in [ready : BOOLEAN, qty : 0..MaxQty]
                           /\ hub'[t].ready => hub'[t].qty = f.after[t]
    <3> TAKE t \in Tickers
    <3>1. hub'[t] = IF t = f.ticker THEN Applied(hub[t], f) ELSE hub[t]
      BY <2>1 DEF FeedInv, TypeOK
    <3> QED BY <1>2, <2>1, <3>1, AppliedExact
  <2>6. hub' \in [Tickers -> [ready : BOOLEAN, qty : 0..MaxQty]]
    BY <2>1, <2>5 DEF FeedInv, TypeOK
  <2>7. TypeOK'
    BY <2>1, <2>2, <2>4, <2>6 DEF FeedInv, TypeOK, fillVars
  <2>8. NoneYet' /\ ReadyIsExact'
    BY <2>1, <2>5 DEF NoneYet, ReadyIsExact
  <2> QED BY <2>2, <2>7, <2>8 DEF FeedInv
<1> QED BY <1>1, <1>2

-----------------------------------------------------------------------------
(* The fill feed leaves the books alone.                                   *)

LEMMA FillsKeep ==
    ASSUME FeedInv, UNCHANGED feedVars,
           fconn' \in {"up", "down"}, traded' \in [Orders -> 0..OrderSize],
           cum' \in [Orders -> Nat], fills' \in Seq(FillFrames)
    PROVE  FeedInv'
<1>1. TypeOK'
  BY DEF FeedInv, TypeOK, feedVars
<1>2. Chained' /\ UpToDate' /\ NoneYet' /\ ReadyIsExact'
  BY DEF FeedInv, feedVars, Chained, UpToDate, NoneYet, ReadyIsExact, Before, Tells, Exact
<1> QED BY <1>1, <1>2 DEF FeedInv

LEMMA TradeKeeps ==
    ASSUME FeedInv, NEW o \in Orders, NEW n \in 1..OrderSize, Trade(o, n)
    PROVE  FeedInv'
<1>1. traded' \in [Orders -> 0..OrderSize]
  BY DEF Trade, FeedInv, TypeOK
<1>2. fills' \in Seq(FillFrames)
  <2>1. [order |-> o, count |-> n] \in FillFrames
    BY DEF FillFrames
  <2> QED BY <2>1 DEF Trade, FeedInv, TypeOK
<1> QED BY <1>1, <1>2, FillsKeep DEF Trade, FeedInv, TypeOK

LEMMA ReadFillKeeps == FeedInv /\ ReadFill => FeedInv'
<1> SUFFICES ASSUME FeedInv, ReadFill PROVE FeedInv'
  OBVIOUS
<1>1. Head(fills) \in FillFrames
  BY DEF ReadFill, FeedInv, TypeOK
<1>2. cum' \in [Orders -> Nat]
  BY SMTT(30), <1>1 DEF FillFrames, ReadFill, Count, FeedInv, TypeOK
<1>3. fills' \in Seq(FillFrames)
  BY DEF ReadFill, FeedInv, TypeOK
<1> QED BY <1>2, <1>3, FillsKeep DEF ReadFill, FeedInv, TypeOK

-----------------------------------------------------------------------------
(* The theorems.                                                           *)

LEMMA FeedStep == FeedInv /\ [Next]_vars => FeedInv'
<1> SUFFICES ASSUME FeedInv, [Next]_vars PROVE FeedInv'
  OBVIOUS
<1>1. ASSUME NEW t \in Tickers, NEW q \in 0..MaxQty, NEW lost \in BOOLEAN, Change(t, q, lost)
      PROVE  FeedInv'
  BY <1>1, ChangeKeeps
<1>2. ASSUME NEW t \in Tickers, NEW q \in 0..MaxQty, ChangeUnheard(t, q)
      PROVE  FeedInv'
  BY <1>2, UnheardKeeps
<1>3. ASSUME NEW t \in Tickers, NEW lost \in BOOLEAN, SendSnapshot(t, lost)
      PROVE  FeedInv'
  BY <1>3, SnapshotKeeps
<1>4. CASE Connect
  BY <1>4, ConnectKeeps
<1>5. CASE Disconnect
  BY <1>5, DownKeeps DEF Disconnect
<1>6. CASE ReadFrame
  BY <1>6, ReadKeeps
<1>7. ASSUME NEW o \in Orders, NEW n \in 1..OrderSize, Trade(o, n)
      PROVE  FeedInv'
  BY <1>7, TradeKeeps
<1>8. CASE ReadFill
  BY <1>8, ReadFillKeeps
<1>9. CASE FillDisconnect
  BY <1>9, FillsKeep DEF FillDisconnect, FeedInv, TypeOK
<1>10. CASE FillConnect
  BY <1>10, FillsKeep DEF FillConnect, FeedInv, TypeOK
<1>11. CASE UNCHANGED vars
  BY <1>11, FillsKeep DEF vars, fillVars, FeedInv, TypeOK
<1> QED BY <1>1, <1>2, <1>3, <1>4, <1>5, <1>6, <1>7, <1>8, <1>9, <1>10, <1>11 DEF Next

\* Every variable of the feeds keeps its shape; no book goes below zero or above
\* what ever rested (spawn_orderbook_feed, spawn_fill_feed).
THEOREM TypeCorrect == Spec => []TypeOK
<1>1. FeedInv => TypeOK
  BY DEF FeedInv
<1> QED BY <1>1, FeedInit, FeedStep, PTL DEF Spec

\* A ready book is the venue's book as of the last frame applied, on every
\* ticker of a connection, however many there are and whatever frames are lost
\* (apply_ws_message's check of the sequence).
THEOREM BooksAreExact == Spec => []ReadyIsExact
<1>1. FeedInv => ReadyIsExact
  BY DEF FeedInv
<1> QED BY <1>1, FeedInit, FeedStep, PTL DEF Spec

-----------------------------------------------------------------------------
(* Cumulative counts.                                                      *)

\* c[1] is what the feed has counted and c[i + 1] what it will have counted once
\* it has read the first i of the frames on their way: never more than traded.
Counts(c) ==
    /\ c \in [Nat -> [Orders -> Nat]]
    /\ c[1] = cum
    /\ \A i \in 1..Len(fills) :
         c[i + 1] = [c[i] EXCEPT ![fills[i].order] = @ + fills[i].count]
    /\ \A i \in 1..Len(fills) + 1, o \in Orders : c[i][o] <= traded[o]

CountsTrue == \E c : Counts(c)

LEMMA CountsStart ==
    ASSUME cum \in [Orders -> Nat], fills = <<>>, NeverOvercounts
    PROVE  CountsTrue
<1> DEFINE c == [i \in Nat |-> cum]
<1>1. Len(fills) = 0
  OBVIOUS
<1>2. c \in [Nat -> [Orders -> Nat]] /\ \A i \in 1..1 : c[i] = cum
  OBVIOUS
<1>3. Counts(c)
  BY <1>1, <1>2 DEF Counts, NeverOvercounts
<1> QED BY <1>3 DEF CountsTrue

LEMMA CountsBound ==
    ASSUME TypeOK, CountsTrue
    PROVE  NeverOvercounts
<1>1. PICK c : Counts(c)
  BY DEF CountsTrue
<1>2. Len(fills) \in Nat
  BY DEF TypeOK
<1>3. 1 \in 1..Len(fills) + 1
  BY <1>2
<1> QED BY <1>1, <1>3 DEF Counts, NeverOvercounts

\* A trade is counted once its frame, if there is one, is read.
LEMMA CountsTrade ==
    ASSUME TypeOK, CountsTrue, NEW o \in Orders, NEW n \in 1..OrderSize, Trade(o, n)
    PROVE  CountsTrue'
<1>1. PICK c : Counts(c)
  BY DEF CountsTrue
<1>2. PICK k \in Nat : k = Len(fills)
  BY DEF TypeOK
<1>3. /\ \A p \in Orders : traded[p] \in Nat
      /\ \A p \in Orders : traded'[p] = IF p = o THEN traded[p] + n ELSE traded[p]
      /\ UNCHANGED cum /\ fills \in Seq(FillFrames) /\ n \in Nat
      /\ c \in [Nat -> [Orders -> Nat]]
      /\ \A i \in Nat : c[i] \in [Orders -> Nat]
      /\ \A i \in Nat, p \in Orders : c[i][p] \in Nat
  <2>1. OrderSize \in Nat
    OBVIOUS
  <2>2. traded \in [Orders -> 0..OrderSize] /\ fills \in Seq(FillFrames) /\ n \in Nat
    BY <2>1 DEF TypeOK
  <2>3. traded' = [traded EXCEPT ![o] = @ + n] /\ UNCHANGED cum
    BY DEF Trade
  <2>4. c \in [Nat -> [Orders -> Nat]]
    BY <1>1 DEF Counts
  <2>5. \A i \in Nat : c[i] \in [Orders -> Nat]
    BY <2>4
  <2>6. \A i \in Nat, p \in Orders : c[i][p] \in Nat
    BY <2>5
  <2>7. \A p \in Orders : traded[p] \in Nat
    BY <2>1, <2>2
  <2>8. \A p \in Orders : traded'[p] = IF p = o THEN traded[p] + n ELSE traded[p]
    BY <2>2, <2>3
  <2> QED BY <2>2, <2>3, <2>4, <2>5, <2>6, <2>7, <2>8
<1>4. \A i \in 1..k + 1, p \in Orders : c[i][p] <= traded[p] /\ c[i][p] <= traded'[p]
  <2> TAKE i \in 1..k + 1, p \in Orders
  <2>1. c[i][p] <= traded[p]
    BY <1>1, <1>2 DEF Counts
  <2>2. c[i][p] \in Nat /\ traded[p] \in Nat /\ n \in Nat
    BY <1>3
  <2>3. traded'[p] = traded[p] \/ traded'[p] = traded[p] + n
    BY <1>3
  <2> QED BY <2>1, <2>2, <2>3
<1>5. CASE fills' = fills
  <2>1. Counts(c)'
    BY <1>1, <1>2, <1>3, <1>4, <1>5 DEF Counts
  <2> QED BY <2>1 DEF CountsTrue
<1>6. CASE fills' = Append(fills, [order |-> o, count |-> n])
  <2> DEFINE e == [c[k + 1] EXCEPT ![o] = @ + n]
             d == [i \in Nat |-> IF i = k + 2 THEN e ELSE c[i]]
  <2>1. /\ Len(fills') = k + 1 /\ fills'[k + 1].order = o /\ fills'[k + 1].count = n
        /\ \A i \in 1..k : fills'[i] = fills[i]
    BY <1>2, <1>3, <1>6
  <2>2. c[k + 1] \in [Orders -> Nat] /\ e \in [Orders -> Nat]
    <3>1. k + 1 \in Nat
      OBVIOUS
    <3>2. c[k + 1] \in [Orders -> Nat] /\ c[k + 1][o] \in Nat
      BY <1>3, <3>1
    <3>3. c[k + 1][o] + n \in Nat
      <4>1. n \in Nat
        BY <1>3
      <4> QED BY <3>2, <4>1
    <3> QED BY <3>2, <3>3
  <2> HIDE DEF e
  <2>3. d \in [Nat -> [Orders -> Nat]] /\ d[k + 2] = e
    <3>1. \A i \in Nat : c[i] \in [Orders -> Nat]
      BY <1>3
    <3>2. \A i \in Nat : d[i] \in [Orders -> Nat]
      BY <2>2, <3>1
    <3>3. k + 2 \in Nat
      OBVIOUS
    <3> QED BY <3>2, <3>3
  <2>4. \A i \in 1..k + 1 : d[i] = c[i]
    OBVIOUS
  <2> HIDE DEF d
  <2>5. d[1] = cum'
    <3>1. 1 \in 1..k + 1
      OBVIOUS
    <3>2. c[1] = cum
      BY <1>1 DEF Counts
    <3> QED BY <1>3, <2>4, <3>1, <3>2
  <2>6. ASSUME NEW i \in 1..k + 1
        PROVE  d[i + 1] = [d[i] EXCEPT ![fills'[i].order] = @ + fills'[i].count]
    <3>1. CASE i = k + 1
      <4>1. d[k + 1] = c[k + 1] /\ i + 1 = k + 2
        BY <2>4, <3>1
      <4>2. fills'[i].order = o /\ fills'[i].count = n
        BY <2>1, <3>1
      <4> QED BY <2>3, <3>1, <4>1, <4>2 DEF e
    <3>2. CASE i \in 1..k
      <4>1. c[i + 1] = [c[i] EXCEPT ![fills[i].order] = @ + fills[i].count]
        BY <1>1, <1>2, <3>2 DEF Counts
      <4>2. d[i + 1] = c[i + 1] /\ d[i] = c[i] /\ fills'[i] = fills[i]
        BY <2>1, <2>4, <3>2
      <4> QED BY <4>1, <4>2
    <3> QED BY <3>1, <3>2
  <2>7. ASSUME NEW i \in 1..k + 2, NEW p \in Orders
        PROVE  d[i][p] <= traded'[p]
    <3>1. CASE i = k + 2
      <4>1. d[i][p] = IF p = o THEN c[k + 1][o] + n ELSE c[k + 1][p]
        BY <2>2, <2>3, <3>1 DEF e
      <4>2. traded'[p] = IF p = o THEN traded[o] + n ELSE traded[p]
        BY <1>3
      <4>3. c[k + 1][p] <= traded[p] /\ c[k + 1][p] \in Nat /\ traded[p] \in Nat
        <5>1. k + 1 \in 1..k + 1 /\ k + 1 \in Nat
          OBVIOUS
        <5> QED BY <1>3, <1>4, <5>1
      <4>4. n \in Nat
        BY <1>3
      <4>5. CASE p = o
        BY <4>1, <4>2, <4>3, <4>4, <4>5
      <4>6. CASE p # o
        BY <4>1, <4>2, <4>3, <4>6
      <4> QED BY <4>5, <4>6
    <3>2. CASE i \in 1..k + 1
      BY <1>4, <2>4, <3>2
    <3> QED BY <3>1, <3>2
  <2>8. Len(fills') + 1 = k + 2
    BY <2>1
  <2>9. Counts(d)'
    BY <2>1, <2>3, <2>5, <2>6, <2>7, <2>8 DEF Counts
  <2> QED BY <2>9 DEF CountsTrue
<1> QED BY <1>5, <1>6 DEF Trade

\* A frame that is read adds to its own order's count what it was on its way to.
LEMMA CountsRead ==
    ASSUME TypeOK, CountsTrue, ReadFill
    PROVE  CountsTrue'
<1>1. PICK c : Counts(c)
  BY DEF CountsTrue
<1>2. PICK k \in Nat : k = Len(fills)
  BY DEF TypeOK
<1>3. /\ fills \in Seq(FillFrames) /\ fills # <<>> /\ fills' = Tail(fills) /\ UNCHANGED traded
      /\ cum' = [cum EXCEPT ![fills[1].order] = @ + fills[1].count]
  <2>1. /\ fills \in Seq(FillFrames) /\ fills # <<>> /\ fills' = Tail(fills) /\ UNCHANGED traded
        /\ cum' = [cum EXCEPT ![Head(fills).order] = @ + Head(fills).count]
    BY DEF TypeOK, ReadFill, Count
  <2>2. Head(fills) = fills[1]
    BY <2>1
  <2> QED BY <2>1, <2>2
<1>4. /\ k # 0 /\ Len(fills') = k - 1
      /\ \A i \in 1..k - 1 : fills'[i] = fills[i + 1]
  BY <1>2, <1>3
<1> DEFINE d == [i \in Nat |-> c[i + 1]]
<1>5. d \in [Nat -> [Orders -> Nat]] /\ \A i \in Nat : d[i] = c[i + 1]
  BY SMTT(30), <1>1 DEF Counts
<1> HIDE DEF d
<1>6. d[1] = cum'
  <2>1. 1 \in 1..k
    BY <1>4
  <2>2. c[1 + 1] = [c[1] EXCEPT ![fills[1].order] = @ + fills[1].count] /\ c[1] = cum
    BY <1>1, <1>2, <2>1 DEF Counts
  <2>3. d[1] = c[1 + 1]
    BY <1>5
  <2> QED BY <1>3, <2>2, <2>3
<1>7. ASSUME NEW i \in 1..k - 1
      PROVE  d[i + 1] = [d[i] EXCEPT ![fills'[i].order] = @ + fills'[i].count]
  <2>1. i + 1 \in 1..k /\ i \in Nat
    OBVIOUS
  <2>2. c[(i + 1) + 1] = [c[i + 1] EXCEPT ![fills[i + 1].order] = @ + fills[i + 1].count]
    BY <1>1, <1>2, <2>1 DEF Counts
  <2>3. fills'[i] = fills[i + 1]
    BY <1>4
  <2>4. d[i] = c[i + 1] /\ d[i + 1] = c[(i + 1) + 1]
    <3>1. i \in Nat /\ i + 1 \in Nat
      BY <2>1
    <3> QED BY <1>5, <3>1
  <2> QED BY <2>2, <2>3, <2>4
<1>8. ASSUME NEW i \in 1..k, NEW o \in Orders
      PROVE  d[i][o] <= traded'[o]
  <2>1. i + 1 \in 1..k + 1 /\ i \in Nat
    OBVIOUS
  <2> QED BY <1>1, <1>2, <1>3, <1>5, <2>1 DEF Counts
<1>9. Len(fills') + 1 = k
  BY <1>4
<1>10. Counts(d)'
  BY <1>4, <1>5, <1>6, <1>7, <1>8, <1>9 DEF Counts
<1> QED BY <1>10 DEF CountsTrue

LEMMA CountsStep == TypeOK /\ TypeOK' /\ CountsTrue /\ [Next]_vars => CountsTrue'
<1> SUFFICES ASSUME TypeOK, TypeOK', CountsTrue, [Next]_vars
             PROVE  CountsTrue'
  OBVIOUS
<1>1. CASE UNCHANGED <<traded, fills, cum>>
  BY <1>1 DEF CountsTrue, Counts
<1>2. CASE FillDisconnect
  <2>1. fills' = <<>> /\ UNCHANGED <<traded, cum>>
    BY <1>2 DEF FillDisconnect
  <2>2. NeverOvercounts'
    BY <2>1, CountsBound DEF NeverOvercounts
  <2>3. cum' \in [Orders -> Nat]
    BY <2>1 DEF TypeOK
  <2> PICK c : c = [i \in Nat |-> cum']
    OBVIOUS
  <2>4. c \in [Nat -> [Orders -> Nat]] /\ (\A i \in 1..1 : c[i] = cum') /\ Len(fills') = 0
    BY <2>1, <2>3
  <2>5. /\ c[1] = cum' /\ 1..Len(fills') = {}
        /\ \A i \in 1..Len(fills') + 1, o \in Orders : c[i][o] <= traded'[o]
    BY <2>2, <2>4 DEF NeverOvercounts
  <2>6. Counts(c)'
    BY <2>4, <2>5 DEF Counts
  <2> QED BY <2>6 DEF CountsTrue
<1>3. CASE ReadFill \/ \E o \in Orders, n \in 1..OrderSize : Trade(o, n)
  BY <1>3, CountsRead, CountsTrade
<1>4. CASE UNCHANGED fillVars \/ FillConnect
  BY <1>1, <1>4 DEF fillVars, FillConnect
<1> QED BY <1>2, <1>3, <1>4
        DEF Next, vars, Change, ChangeUnheard, SendSnapshot, Connect, Disconnect, ReadFrame

\* The cumulative count of an order's events never exceeds what it traded,
\* however many trades are reported and however often the fill feed reconnects
\* (fill_msg_to_event): the lifecycle sizes guards by it.
THEOREM CountsAreTrue == Spec => []NeverOvercounts
<1>1. Init => CountsTrue
  <2> SUFFICES ASSUME Init PROVE CountsTrue
    OBVIOUS
  <2>1. cum \in [Orders -> Nat] /\ fills = <<>> /\ NeverOvercounts
    BY DEF Init, NeverOvercounts
  <2> QED BY <2>1, CountsStart
<1>2. TypeOK /\ CountsTrue => NeverOvercounts
  BY CountsBound
<1> QED BY <1>1, <1>2, CountsStep, TypeCorrect, PTL DEF Spec

=============================================================================
