-------------------------- MODULE LocalBook_proofs --------------------------
(***************************************************************************)
(* The local book is safe for a price grid of any size and any number of   *)
(* events, whatever frames are lost, repeated or overtaken: it publishes   *)
(* no touch its date does not deserve, none that is crossed, and a derived *)
(* book it does not hold is the venue's.                                   *)
(***************************************************************************)
EXTENDS LocalBook, SequenceTheorems, WellFoundedInduction, TLAPS

USE BookAssumption

-----------------------------------------------------------------------------
(* The touch of a book.                                                    *)

LEMMA Smallest ==
  ASSUME NEW S \in SUBSET Nat, S # {}
  PROVE  \E x \in S : \A y \in S : x <= y
<1> DEFINE R == {ss \in Nat \X Nat : ss[1] < ss[2]}
<1>1. IsWellFoundedOn(R, Nat)
  BY NatLessThanWellFounded DEF OpToRel
<1>2. \A x, y \in Nat : y < x => <<y, x>> \in R
  OBVIOUS
<1> HIDE DEF R
<1>3. PICK x \in S : \A y \in S : ~ (<<y, x>> \in R)
  BY <1>1, WFMin
<1>4. \A y \in S : ~ (y < x)
  BY <1>2, <1>3
<1>5. \A y \in S : x <= y
  BY <1>4
<1> QED BY <1>5

LEMMA MinOfPrices ==
  ASSUME NEW S \in SUBSET Prices, S # {}
  PROVE  Min(S) \in S /\ \A y \in S : Min(S) <= y
<1>1. S \in SUBSET Nat
  BY DEF Prices
<1>2. \E x \in S : \A y \in S : x <= y
  BY <1>1, Smallest
<1> QED BY <1>2 DEF Min

LEMMA MaxOfPrices ==
  ASSUME NEW S \in SUBSET Prices, S # {}
  PROVE  Max(S) \in S /\ \A y \in S : y <= Max(S)
<1> DEFINE T == {MaxPrice - x : x \in S}
<1>0. \A x \in S : MaxPrice - x \in Nat
  BY DEF Prices
<1>1. T \in SUBSET Nat /\ T # {}
  BY <1>0
<1>2. PICK t \in T : \A u \in T : t <= u
  BY <1>1, Smallest
<1>3. PICK x \in S : t = MaxPrice - x
  BY <1>2
<1>4. \A y \in S : MaxPrice - x <= MaxPrice - y
  BY <1>2, <1>3
<1>5. \A y \in S : x >= y
  BY <1>4 DEF Prices
<1>6. \E m \in S : \A y \in S : m >= y
  BY <1>5
<1>7. Max(S) \in S /\ \A y \in S : Max(S) >= y
  BY <1>6 DEF Max
<1> QED BY <1>7 DEF Prices

\* No bid reaches an ask.
Uncrossed(l) == \A b \in l.bids, a \in l.asks : b < a

LEMMA BestFacts ==
  ASSUME NEW l \in Levels
  PROVE  /\ Best(l) \in Touches
         /\ Best(l) # NoStamp
         /\ Crossed(Best(l)) <=> ~Uncrossed(l)
<1> DEFINE bid == IF l.bids = {} THEN EmptyBid ELSE Max(l.bids)
           ask == IF l.asks = {} THEN EmptyAsk ELSE Min(l.asks)
<1>1. l.bids \in SUBSET Prices /\ l.asks \in SUBSET Prices
  BY DEF Levels
<1>2. /\ l.bids = {} => bid = EmptyBid
      /\ l.bids # {} => bid \in l.bids /\ \A b \in l.bids : b <= bid
  BY <1>1, MaxOfPrices
<1>3. /\ l.asks = {} => ask = EmptyAsk
      /\ l.asks # {} => ask \in l.asks /\ \A a \in l.asks : ask <= a
  BY <1>1, MinOfPrices
<1>4. Best(l) = <<bid, ask>>
  BY DEF Best
<1> HIDE DEF bid, ask
<1>5. bid \in Prices \cup {EmptyBid} /\ ask \in Prices \cup {EmptyAsk}
  BY <1>1, <1>2, <1>3
<1>6. Best(l) \in Touches
  BY <1>4, <1>5 DEF Touches
<1>7. bid # EmptyAsk
  BY <1>5 DEF Prices, EmptyBid, EmptyAsk
<1>8. Best(l) # NoStamp
  BY <1>4, <1>7 DEF NoStamp
<1>9. Crossed(Best(l)) <=> bid # EmptyBid /\ ask # EmptyAsk /\ bid >= ask
  BY <1>4 DEF Crossed
<1>10. (bid = EmptyBid <=> l.bids = {}) /\ (ask = EmptyAsk <=> l.asks = {})
  BY <1>1, <1>2, <1>3 DEF Prices, EmptyBid, EmptyAsk
<1>11. ASSUME Crossed(Best(l)) PROVE ~Uncrossed(l)
  BY <1>1, <1>2, <1>3, <1>9, <1>10, <1>11 DEF Uncrossed, Prices
<1>12. ASSUME ~Uncrossed(l) PROVE Crossed(Best(l))
  <2>1. PICK b \in l.bids, a \in l.asks : ~(b < a)
    BY <1>12 DEF Uncrossed
  <2>2. b <= bid /\ ask <= a
    BY <1>2, <1>3, <2>1
  <2>3. bid >= ask
    BY <1>1, <1>2, <1>3, <2>1, <2>2 DEF Prices
  <2> QED BY <1>9, <1>10, <2>1, <2>3
<1> QED BY <1>6, <1>8, <1>11, <1>12

LEMMA FoldType ==
  ASSUME NEW l \in Levels, NEW c \in Changes
  PROVE  Fold(l, c) \in Levels
  BY DEF Fold, Levels, Changes

LEMMA FoldTwice ==
  ASSUME NEW l \in Levels, NEW c \in Changes
  PROVE  Fold(Fold(l, c), c) = Fold(l, c)
<1>1. CASE c.side = "bids"
  BY <1>1 DEF Fold, Levels, Changes
<1>2. CASE c.side = "asks"
  BY <1>2 DEF Fold, Levels, Changes
<1> QED BY <1>1, <1>2 DEF Changes

-----------------------------------------------------------------------------
(* Frames.                                                                 *)

Kinds  == {"book", "change", "sizeless", "lost"}
Frames == [kind : Kinds, ts : 0..MaxEvents, change : Changes,
           stamp : Touches \cup {NoStamp}, after : Levels, at : Receipts]

WireType == wire \in Seq(Frames)

\* A frame that changes one level.
Applies(f) == f.kind \in {"change", "sizeless"}

\* A frame whose receipt is stamped says which touch its event settled on; a full
\* book is the settled one itself.
GoodFrame(f) ==
  /\ f.at.stamped => f.stamp # NoStamp /\ f.stamp = f.at.touch
  /\ f.kind = "book" => f.at.touch = Best(f.after) /\ Uncrossed(f.after)

\* What a frame says.
Says(f, kind, c, stamp, settled, after, offset) ==
  /\ f \in Frames
  /\ f.kind = kind
  /\ f.ts = events + 1
  /\ f.change = c
  /\ f.stamp = stamp
  /\ f.after = after
  /\ f.at.n = frames + offset
  /\ f.at.touch = settled
  /\ f.at.stamped <=> stamp # NoStamp

LEMMA FrameSays ==
  ASSUME events + 1 \in 0..MaxEvents, frames \in Nat,
         NEW kind \in Kinds, NEW c \in Changes,
         NEW stamp \in Touches \cup {NoStamp}, NEW settled \in Touches,
         NEW after \in Levels, NEW offset \in Nat
  PROVE  Says(Frame(kind, c, stamp, settled, after, offset),
              kind, c, stamp, settled, after, offset)
<1> DEFINE r == [n |-> frames + offset, touch |-> settled, stamped |-> stamp # NoStamp]
           f == [kind |-> kind, ts |-> events + 1, change |-> c, stamp |-> stamp,
                 after |-> after, at |-> r]
<1>1. (stamp # NoStamp) \in BOOLEAN /\ frames + offset \in Nat
  OBVIOUS
<1>2. r \in Receipts
  BY <1>1 DEF Receipts
<1>3. r.n = frames + offset /\ r.touch = settled /\ r.stamped = (stamp # NoStamp)
  OBVIOUS
<1>4. Frame(kind, c, stamp, settled, after, offset) = f
  BY DEF Frame
<1> HIDE DEF r
<1>5. f \in Frames
  BY <1>2 DEF Frames
<1>6. /\ f.kind = kind
      /\ f.ts = events + 1
      /\ f.change = c
      /\ f.stamp = stamp
      /\ f.after = after
      /\ f.at = r
  OBVIOUS
<1> HIDE DEF f
<1> QED BY <1>3, <1>4, <1>5, <1>6 DEF Says

\* Frames fs published at once, after which the book is after.
Emitted(fs, after) ==
  /\ fs \in Seq(Frames)
  /\ Len(fs) \in Nat \ {0}
  /\ after \in Levels
  /\ Uncrossed(after)
  /\ events < MaxEvents
  /\ events' = events + 1
  /\ frames' = frames + Len(fs)
  /\ wire' = wire \o fs
  /\ venue' = after
  /\ \A k \in 1..Len(fs) :
       /\ fs[k].at.n = frames + k
       /\ fs[k].ts = events + 1
       /\ GoodFrame(fs[k])
  /\ Applies(fs[1])
  /\ Fold(venue, fs[1].change) = fs[1].after
  /\ \A k \in 1..(Len(fs) - 1) :
       Applies(fs[k + 1]) => Fold(fs[k].after, fs[k + 1].change) = fs[k + 1].after
  /\ fs[Len(fs)].after = after
  /\ UNCHANGED <<faults, bookVars, published, truth, gap>>

LEMMA StampFacts ==
  ASSUME NEW how, NEW l \in Levels
  PROVE  /\ Stamped(how, Best(l)) \in Touches \cup {NoStamp}
         /\ Stamped(how, Best(l)) # NoStamp => Stamped(how, Best(l)) = Best(l)
         /\ Kind(how) \in {"change", "sizeless"}
  BY BestFacts DEF Stamped, Kind

LEMMA RequoteEffect ==
  ASSUME TypeOK, NEW c \in Changes, NEW how, Requote(c, how)
  PROVE  \E fs, after : Emitted(fs, after)
<1> DEFINE after == Fold(venue, c)
           stamp == Stamped(how, Best(after))
           f == Frame(Kind(how), c, stamp, Best(after), after, 1)
<1>1. after \in Levels
  BY FoldType DEF TypeOK
<1>2. Best(after) \in Touches /\ ~Crossed(Best(after)) /\ Emit(<<f>>, after)
  BY <1>1, BestFacts DEF Requote
<1>3. Uncrossed(after)
  BY <1>1, <1>2, BestFacts
<1>4. events < MaxEvents /\ events + 1 \in 0..MaxEvents /\ frames \in Nat
  BY <1>2 DEF Emit, TypeOK
<1>5. /\ stamp \in Touches \cup {NoStamp}
      /\ stamp # NoStamp => stamp = Best(after)
      /\ Kind(how) \in {"change", "sizeless"}
  BY <1>1, StampFacts
<1>6. Says(f, Kind(how), c, stamp, Best(after), after, 1)
  <2>1. Kind(how) \in Kinds /\ 1 \in Nat
    BY <1>5 DEF Kinds
  <2> HIDE DEF after, stamp
  <2> QED BY <1>1, <1>2, <1>4, <1>5, <2>1, FrameSays
<1>7. Emit(<<f>>, after) /\ after = Fold(venue, c)
  BY <1>2
<1> HIDE DEF f, stamp, after
<1>8. GoodFrame(f) /\ Applies(f)
  BY <1>5, <1>6 DEF GoodFrame, Applies, Says
<1>9. <<f>> \in Seq(Frames) /\ Len(<<f>>) = 1 /\ <<f>>[1] = f
  BY <1>6 DEF Says
<1>10. Emitted(<<f>>, after)
  BY <1>1, <1>3, <1>4, <1>6, <1>7, <1>8, <1>9 DEF Emit, Emitted, Says
<1> QED BY <1>10

LEMMA CancelReplaceEffect ==
  ASSUME TypeOK, NEW c \in Changes, NEW d \in Changes, NEW how,
         CancelReplace(c, d, how)
  PROVE  \E fs, after : Emitted(fs, after)
<1> DEFINE first == Fold(venue, c)
           after == Fold(first, d)
           stamp == Stamped(how, Best(after))
           f == Frame(Kind(how), c, stamp, Best(after), first, 1)
           g == Frame("change", d, stamp, Best(after), after, 2)
<1>1. first \in Levels /\ after \in Levels
  BY FoldType DEF TypeOK
<1>2. Best(after) \in Touches /\ ~Crossed(Best(after)) /\ Emit(<<f, g>>, after)
  BY <1>1, BestFacts DEF CancelReplace
<1>3. Uncrossed(after)
  BY <1>1, <1>2, BestFacts
<1>4. events < MaxEvents /\ events + 1 \in 0..MaxEvents /\ frames \in Nat
  BY <1>2 DEF Emit, TypeOK
<1>5. /\ stamp \in Touches \cup {NoStamp}
      /\ stamp # NoStamp => stamp = Best(after)
      /\ Kind(how) \in {"change", "sizeless"}
  BY <1>1, StampFacts
<1>6. /\ Says(f, Kind(how), c, stamp, Best(after), first, 1)
      /\ Says(g, "change", d, stamp, Best(after), after, 2)
  <2>1. Kind(how) \in Kinds /\ "change" \in Kinds /\ 1 \in Nat /\ 2 \in Nat
    BY <1>5 DEF Kinds
  <2> HIDE DEF first, after, stamp
  <2> QED BY <1>1, <1>2, <1>4, <1>5, <2>1, FrameSays
<1>7. Emit(<<f, g>>, after) /\ first = Fold(venue, c) /\ after = Fold(first, d)
  BY <1>2
<1> HIDE DEF f, g, stamp, first, after
<1>8. GoodFrame(f) /\ Applies(f) /\ GoodFrame(g)
  BY <1>5, <1>6 DEF GoodFrame, Applies, Says
<1>9. /\ <<f, g>> \in Seq(Frames)
      /\ Len(<<f, g>>) = 2
      /\ <<f, g>>[1] = f
      /\ <<f, g>>[2] = g
  BY <1>6 DEF Says
<1>10. Emitted(<<f, g>>, after)
  BY <1>1, <1>3, <1>4, <1>6, <1>7, <1>8, <1>9 DEF Emit, Emitted, Says
<1> QED BY <1>10

LEMMA TradeEffect ==
  ASSUME TypeOK, Uncrossed(venue), NEW side \in {"bids", "asks"},
         NEW p \in Prices,
         NEW rests \in BOOLEAN, Trade(side, p, rests)
  PROVE  \E fs, after : Emitted(fs, after)
<1> DEFINE c == [side |-> side, price |-> p, on |-> TRUE]
           placed == Fold(venue, c)
           after == IF side = "bids"
                    THEN [bids |-> IF rests THEN placed.bids ELSE venue.bids,
                          asks |-> {q \in venue.asks : q > p}]
                    ELSE [asks |-> IF rests THEN placed.asks ELSE venue.asks,
                          bids |-> {q \in venue.bids : q < p}]
           t == Best(after)
           f == Frame("change", c, t, t, placed, 1)
           g == Frame("book", NoChange, t, t, after, 2)
<1>1. c \in Changes /\ NoChange \in Changes
  BY DEF Changes, NoChange, Prices
<1>2. placed \in Levels
  BY <1>1, FoldType DEF TypeOK
<1>3. Emit(<<f, g>>, after)
  BY DEF Trade
<1>4. venue \in Levels /\ p \in Nat /\ Prices \subseteq Nat
  BY DEF TypeOK, Prices
<1>5. /\ side = "bids" => placed.bids = venue.bids \cup {p}
      /\ side = "asks" => placed.asks = venue.asks \cup {p}
  BY <1>1, <1>4 DEF Fold, Levels
<1>6. after \in Levels /\ Uncrossed(after)
  <2>1. CASE side = "bids"
    <3>1. after = [bids |-> IF rests THEN placed.bids ELSE venue.bids,
                   asks |-> {q \in venue.asks : q > p}]
      BY <2>1
    <3>2. /\ after.bids = IF rests THEN placed.bids ELSE venue.bids
          /\ after.asks = {q \in venue.asks : q > p}
      BY <3>1
    <3>3. after \in Levels
      BY <1>2, <1>4, <3>1 DEF Levels
    <3>4. after.bids \subseteq venue.bids \cup {p}
      BY <1>5, <2>1, <3>2
    <3> HIDE DEF after, placed
    <3>5. ASSUME NEW b \in after.bids, NEW a \in after.asks
          PROVE  b < a
      <4>1. a \in venue.asks /\ a > p /\ (b \in venue.bids \/ b = p)
        BY <3>2, <3>4
      <4> QED BY <1>4, <4>1 DEF Uncrossed, Levels
    <3> QED BY <3>3, <3>5 DEF Uncrossed
  <2>2. CASE side = "asks"
    <3>1. after = [asks |-> IF rests THEN placed.asks ELSE venue.asks,
                   bids |-> {q \in venue.bids : q < p}]
      BY <2>2
    <3>2. /\ after.asks = IF rests THEN placed.asks ELSE venue.asks
          /\ after.bids = {q \in venue.bids : q < p}
      BY <3>1
    <3>3. after \in Levels
      BY <1>2, <1>4, <3>1 DEF Levels
    <3>4. after.asks \subseteq venue.asks \cup {p}
      BY <1>5, <2>2, <3>2
    <3> HIDE DEF after, placed
    <3>5. ASSUME NEW b \in after.bids, NEW a \in after.asks
          PROVE  b < a
      <4>1. b \in venue.bids /\ b < p /\ (a \in venue.asks \/ a = p)
        BY <3>2, <3>4
      <4> QED BY <1>4, <4>1 DEF Uncrossed, Levels
    <3> QED BY <3>3, <3>5 DEF Uncrossed
  <2> QED BY <2>1, <2>2
<1>7. t \in Touches /\ t # NoStamp
  <2> HIDE DEF after
  <2> QED BY <1>6, BestFacts
<1>8. events < MaxEvents /\ events + 1 \in 0..MaxEvents /\ frames \in Nat
  BY <1>3 DEF Emit, TypeOK
<1>9. placed = Fold(venue, c) /\ t = Best(after)
  OBVIOUS
<1>10. /\ Says(f, "change", c, t, t, placed, 1)
       /\ Says(g, "book", NoChange, t, t, after, 2)
  <2>1. "book" \in Kinds /\ "change" \in Kinds /\ 1 \in Nat /\ 2 \in Nat
    BY DEF Kinds
  <2> HIDE DEF placed, after, t, c
  <2> QED BY <1>1, <1>2, <1>6, <1>7, <1>8, <2>1, FrameSays
<1> HIDE DEF f, g, t, placed, after, c
<1>11. GoodFrame(f) /\ Applies(f) /\ GoodFrame(g) /\ ~Applies(g)
  BY <1>6, <1>7, <1>9, <1>10 DEF GoodFrame, Applies, Says
<1>12. /\ <<f, g>> \in Seq(Frames)
       /\ Len(<<f, g>>) = 2
       /\ <<f, g>>[1] = f
       /\ <<f, g>>[2] = g
  BY <1>10 DEF Says
<1>13. Emitted(<<f, g>>, after)
  BY <1>3, <1>6, <1>8, <1>9, <1>10, <1>11, <1>12 DEF Emit, Emitted, Says
<1> QED BY <1>13

-----------------------------------------------------------------------------
(* The wire and the receiver.                                              *)

\* Frame i is off the wire, the others as they were.
Taken(i) ==
  /\ i \in 1..Len(wire)
  /\ wire' \in Seq(Frames)
  /\ Len(wire') = Len(wire) - 1
  /\ \A j \in 1..Len(wire') : j < i => wire'[j] = wire[j]
  /\ \A j \in 1..Len(wire') : j >= i => wire'[j] = wire[j + 1]

LEMMA TailTakes ==
  ASSUME WireType, wire # <<>>, wire' = Tail(wire)
  PROVE  Taken(1) /\ Head(wire) = wire[1] /\ wire[1] \in Frames
<1>1. /\ Tail(wire) \in Seq(Frames)
      /\ Len(Tail(wire)) = Len(wire) - 1
      /\ \A j \in 1..Len(Tail(wire)) : Tail(wire)[j] = wire[j + 1]
      /\ Head(wire) \in Frames
  BY HeadTailProperties DEF WireType
<1>2. 1 \in 1..Len(wire) /\ Head(wire) = wire[1]
  BY DEF WireType
<1> QED BY <1>1, <1>2 DEF Taken

LEMMA RemoveTakes ==
  ASSUME WireType, NEW i \in 1..Len(wire), wire' = Remove(i)
  PROVE  Taken(i) /\ wire[i] \in Frames
<1> DEFINE s == SubSeq(wire, 1, i - 1)
           t == SubSeq(wire, i + 1, Len(wire))
<1>1. Len(wire) \in Nat /\ i - 1 \in Int /\ i + 1 \in Int /\ i \in Nat
  BY DEF WireType
<1>2. \A j \in 1..Len(wire) : wire[j] \in Frames
  BY DEF WireType
<1>3. /\ s \in Seq(Frames)
      /\ Len(s) = i - 1
      /\ \A j \in 1..(i - 1) : s[j] = wire[j]
  BY <1>1, <1>2, SubSeqProperties
<1>4. /\ t \in Seq(Frames)
      /\ Len(t) = Len(wire) - i
      /\ \A j \in 1..(Len(wire) - i) : t[j] = wire[i + j]
  BY <1>1, <1>2, SubSeqProperties
<1> HIDE DEF s, t
<1>5. /\ s \o t \in Seq(Frames)
      /\ Len(s \o t) = Len(s) + Len(t)
      /\ \A j \in 1..(Len(s) + Len(t)) :
           (s \o t)[j] = IF j <= Len(s) THEN s[j] ELSE t[j - Len(s)]
  BY <1>3, <1>4, ConcatProperties
<1>6. Len(s \o t) = Len(wire) - 1
  BY <1>1, <1>3, <1>4, <1>5
<1>7. ASSUME NEW j \in 1..(Len(wire) - 1), j < i
      PROVE  (s \o t)[j] = wire[j]
  BY <1>1, <1>3, <1>4, <1>5, <1>7
<1>8. ASSUME NEW j \in 1..(Len(wire) - 1), j >= i
      PROVE  (s \o t)[j] = wire[j + 1]
  <2>1. j - Len(s) \in 1..(Len(wire) - i) /\ i + (j - Len(s)) = j + 1
    BY <1>1, <1>3, <1>8
  <2>2. (s \o t)[j] = t[j - Len(s)]
    BY <1>1, <1>3, <1>4, <1>5, <1>8
  <2> QED BY <1>4, <2>1, <2>2
<1>9. wire' = s \o t
  BY DEF Remove, s, t
<1> QED BY <1>2, <1>5, <1>6, <1>7, <1>8, <1>9 DEF Taken

\* What a frame leaves in the book and on the channel.
Received(f) ==
  \/ /\ f.kind = "book"
     /\ Reset(f)
     /\ published' = [touch |-> Best(f.after), at |-> f.at]
  \/ /\ f.kind # "book"
     /\ f.kind = "lost" \/ Ignored(f)
     /\ UNCHANGED <<levels, snapshot, hold, lastChange, published>>
  \/ /\ f.kind = "sizeless"
     /\ ~Ignored(f)
     /\ hold' = "hard"
     /\ UNCHANGED <<levels, snapshot, lastChange>>
     /\ published' = [touch |-> snapshot.touch, at |-> snapshot.at]
  \/ /\ f.kind = "change"
     /\ ~Ignored(f)
     /\ levels' = Fold(levels, f.change)
     /\ lastChange' = f.at
     /\ hold' = NextHold(Best(levels'), f.stamp)
     /\ snapshot' = snapshot
     /\ \/ published' = published
        \/ published' = [touch |-> snapshot.touch, at |-> snapshot.at]
        \/ hold' = "none" /\ published' = [touch |-> Best(levels'), at |-> f.at]

LEMMA ReceiveEffect ==
  ASSUME NEW f \in Frames, Receive(f)
  PROVE  Received(f)
<1>1. f.kind \in Kinds
  BY DEF Frames
<1>2. CASE f.kind = "book"
  <2>1. Reset(f) /\ Publish
    BY <1>2 DEF Receive
  <2>2. published' = [touch |-> Best(f.after), at |-> f.at]
    BY <2>1 DEF Reset, Publish, PriceState
  <2> QED BY <1>2, <2>1, <2>2 DEF Received
<1>3. CASE f.kind = "lost"
  BY <1>3 DEF Receive, Received, bookVars
<1>4. CASE f.kind \notin {"book", "lost"}
  <2>1. Apply(f)
    BY <1>4 DEF Receive
  <2>2. CASE Ignored(f)
    BY <1>4, <2>1, <2>2 DEF Apply, Received, bookVars
  <2>3. CASE ~Ignored(f) /\ f.kind = "sizeless"
    <3>1. HoldHard
      BY <2>1, <2>3 DEF Apply
    <3>2. published' = [touch |-> snapshot.touch, at |-> snapshot.at]
      BY <3>1 DEF HoldHard, Publish, PriceState
    <3> QED BY <2>3, <3>1, <3>2 DEF Received, HoldHard
  <2>4. CASE ~Ignored(f) /\ f.kind = "change"
    <3>1. /\ levels' = Fold(levels, f.change)
          /\ lastChange' = f.at
          /\ hold' = NextHold(Best(levels'), f.stamp)
          /\ snapshot' = snapshot
          /\ published' = published \/ Publish
      BY <2>1, <2>4 DEF Apply
    <3>2. CASE published' = published
      BY <2>4, <3>1, <3>2 DEF Received
    <3>3. CASE Publish /\ hold' = "none"
      <4>1. published' = [touch |-> Best(levels'), at |-> f.at]
        BY <3>1, <3>3 DEF Publish, PriceState
      <4> QED BY <2>4, <3>1, <3>3, <4>1 DEF Received
    <3>4. CASE Publish /\ hold' # "none"
      <4>1. published' = [touch |-> snapshot.touch, at |-> snapshot.at]
        BY <3>1, <3>4 DEF Publish, PriceState
      <4> QED BY <2>4, <3>1, <3>4, <4>1 DEF Received
    <3> QED BY <3>1, <3>2, <3>3, <3>4
  <2> QED BY <1>1, <1>4, <2>2, <2>3, <2>4 DEF Kinds
<1> QED BY <1>1, <1>2, <1>3, <1>4 DEF Kinds

\* The shape of the book and of what is published.
BookTypes ==
  /\ levels \in Levels
  /\ snapshot \in [touch : Touches, ts : 0..MaxEvents, at : Receipts]
  /\ hold \in {"none", "soft", "hard"}
  /\ lastChange \in Receipts
  /\ published \in [touch : Touches, at : Receipts]

LEMMA ReceiveTypes ==
  ASSUME BookTypes, NEW f \in Frames, Received(f)
  PROVE  BookTypes'
<1>1. /\ f.after \in Levels
      /\ f.change \in Changes
      /\ f.at \in Receipts
      /\ f.ts \in 0..MaxEvents
      /\ f.kind \in Kinds
  BY DEF Frames
<1>2. Best(f.after) \in Touches
  BY <1>1, BestFacts
<1>3. Fold(levels, f.change) \in Levels
  BY <1>1, FoldType DEF BookTypes
<1>4. Best(Fold(levels, f.change)) \in Touches
  BY <1>3, BestFacts
<1>5. CASE f.kind = "book"
  BY <1>1, <1>2, <1>5 DEF Received, Reset, BookTypes
<1>6. CASE f.kind = "lost" \/ Ignored(f)
  BY <1>5, <1>6 DEF Received, BookTypes
<1>7. CASE f.kind = "sizeless" /\ ~Ignored(f)
  BY <1>7 DEF Received, BookTypes
<1>8. CASE f.kind = "change" /\ ~Ignored(f)
  <2>1. /\ levels' = Fold(levels, f.change)
        /\ lastChange' = f.at
        /\ hold' = NextHold(Best(levels'), f.stamp)
        /\ snapshot' = snapshot
        /\ \/ published' = published
           \/ published' = [touch |-> snapshot.touch, at |-> snapshot.at]
           \/ hold' = "none" /\ published' = [touch |-> Best(levels'), at |-> f.at]
    BY <1>8 DEF Received
  <2>2. hold' \in {"none", "soft", "hard"}
    BY <2>1 DEF NextHold, BookTypes
  <2>3. published' \in [touch : Touches, at : Receipts]
    BY <1>1, <1>4, <2>1 DEF BookTypes
  <2> QED BY <1>1, <1>3, <2>1, <2>2, <2>3 DEF BookTypes
<1> QED BY <1>1, <1>5, <1>6, <1>7, <1>8 DEF Kinds

-----------------------------------------------------------------------------
(* The steps, as what they do.                                             *)

\* The history of one frame delivered, as Follow keeps it.
Followed(f) ==
  /\ truth' = IF f.kind = "lost" THEN truth ELSE f.after
  /\ gap' \in BOOLEAN
  /\ f.kind = "book" => ~gap'
  /\ f.kind # "book" /\ gap => gap'
  /\ f.kind # "book" /\ snapshot # None /\ f.ts >= snapshot.ts
       /\ (f.kind = "lost" \/ f.at.n < snapshot.at.n) => gap'

Loses(i) ==
  /\ i \in 1..Len(wire)
  /\ wire' \in Seq(Frames)
  /\ Len(wire') = Len(wire)
  /\ wire'[i].kind = "lost"
  /\ wire'[i].ts = wire[i].ts
  /\ wire'[i].stamp = wire[i].stamp
  /\ wire'[i].after = wire[i].after
  /\ wire'[i].at = wire[i].at
  /\ \A j \in 1..Len(wire) : j # i => wire'[j] = wire[j]
  /\ UNCHANGED <<venue, events, frames, bookVars, published, truth, gap>>

Delivers ==
  /\ Taken(1)
  /\ Received(wire[1])
  /\ IF snapshot # None /\ wire[1].ts < snapshot.ts
     THEN UNCHANGED <<truth, gap>> ELSE Followed(wire[1])
  /\ UNCHANGED <<venue, events, frames>>

Overtakes(i) ==
  /\ Taken(i)
  /\ wire[i].kind = "book"
  /\ \A j \in 1..(i - 1) : wire[j].kind # "book"
  /\ Received(wire[i])
  /\ Followed(wire[i])
  /\ UNCHANGED <<venue, events, frames>>

Repeats ==
  /\ 1 \in 1..Len(wire)
  /\ wire[1].kind = "change"
  /\ snapshot = None \/ wire[1].ts >= snapshot.ts
  /\ Received(wire[1])
  /\ Followed(wire[1])
  /\ UNCHANGED <<wire, venue, events, frames>>

Reconnects ==
  /\ wire' \in Seq(Frames)
  /\ Len(wire') = 1
  /\ wire'[1].kind = "book"
  /\ wire'[1].ts = events
  /\ wire'[1].after = venue
  /\ wire'[1].at.n = frames + 1
  /\ GoodFrame(wire'[1])
  /\ frames' = frames + 1
  /\ levels' = NoLevels
  /\ snapshot' = None
  /\ hold' = "none"
  /\ lastChange' = NoReceipt
  /\ truth' = NoLevels
  /\ gap' = FALSE
  /\ UNCHANGED <<venue, events, published>>

LEMMA FollowEffect ==
  ASSUME TypeOK, NEW f, Follow(f)
  PROVE  Followed(f)
<1>1. gap \in BOOLEAN
  BY DEF TypeOK
<1> DEFINE g == gap \/ (snapshot # None /\ f.ts >= snapshot.ts
                        /\ (f.kind = "lost" \/ f.at.n < snapshot.at.n))
<1>2. gap' = IF f.kind = "book" THEN FALSE ELSE g
  BY DEF Follow
<1>3. CASE f.kind = "book"
  BY <1>2, <1>3 DEF Follow, Followed
<1>4. CASE f.kind # "book"
  <2>1. gap' = g
    BY <1>2, <1>4
  <2>2. g \in BOOLEAN
    BY <1>1
  <2> QED BY <1>4, <2>1, <2>2 DEF Follow, Followed
<1> QED BY <1>3, <1>4

LEMMA LoseEffect ==
  ASSUME WireType, NEW i \in 1..Len(wire), Lose(i)
  PROVE  Loses(i)
<1>1. wire[i] \in Frames /\ Len(wire) \in Nat
  BY DEF WireType
<1> DEFINE f == [wire[i] EXCEPT !.kind = "lost"]
<1>2. /\ f \in Frames
      /\ f.kind = "lost"
      /\ f.ts = wire[i].ts
      /\ f.stamp = wire[i].stamp
      /\ f.after = wire[i].after
      /\ f.at = wire[i].at
  BY <1>1 DEF Frames, Kinds
<1>3. wire' = [wire EXCEPT ![i] = f]
  BY DEF Lose
<1> HIDE DEF f
<1>4. /\ wire' \in Seq(Frames)
      /\ Len(wire') = Len(wire)
      /\ wire'[i] = f
      /\ \A j \in 1..Len(wire) : j # i => wire'[j] = wire[j]
  BY <1>1, <1>2, <1>3 DEF WireType
<1> QED BY <1>2, <1>4 DEF Loses, Lose

LEMMA ReconnectEffect ==
  ASSUME TypeOK, Uncrossed(venue), Reconnect
  PROVE  Reconnects
<1> DEFINE t == Best(venue)
           r == [n |-> frames + 1, touch |-> t, stamped |-> t # NoStamp]
           f == [kind |-> "book", ts |-> events, change |-> NoChange, stamp |-> t,
                 after |-> venue, at |-> r]
<1>1. /\ venue \in Levels
      /\ events \in 0..MaxEvents
      /\ frames \in Nat
  BY DEF TypeOK
<1>2. t \in Touches /\ t # NoStamp
  BY <1>1, BestFacts
<1>3. NoChange \in Changes
  BY DEF NoChange, Changes, Prices
<1>4. wire' = <<[Frame("book", NoChange, t, t, venue, 1) EXCEPT !.ts = events]>>
  BY DEF Reconnect
<1>5. [Frame("book", NoChange, t, t, venue, 1) EXCEPT !.ts = events] = f
  BY DEF Frame
<1>6. t = Best(venue)
  OBVIOUS
<1>7. r \in Receipts /\ r.n = frames + 1 /\ r.touch = t
  BY <1>1, <1>2 DEF Receipts
<1> HIDE DEF r, t
<1>8. /\ f \in Frames
      /\ f.kind = "book"
      /\ f.ts = events
      /\ f.stamp = t
      /\ f.after = venue
      /\ f.at = r
  BY <1>1, <1>2, <1>3, <1>7 DEF Frames, Kinds
<1> HIDE DEF f
<1>9. GoodFrame(f)
  BY <1>2, <1>6, <1>7, <1>8 DEF GoodFrame
<1>10. wire' \in Seq(Frames) /\ Len(wire') = 1 /\ wire'[1] = f
  BY <1>4, <1>5, <1>8
<1> QED BY <1>7, <1>8, <1>9, <1>10 DEF Reconnects, Reconnect

LEMMA StepCases ==
  ASSUME TypeOK, WireType, Uncrossed(venue), [Next]_vars
  PROVE  \/ \E fs, after : Emitted(fs, after)
         \/ \E i \in 1..Len(wire) : Loses(i)
         \/ \E i \in 1..Len(wire) : Overtakes(i)
         \/ Delivers
         \/ Repeats
         \/ Reconnects
         \/ UNCHANGED vars
<1>1. ASSUME NEW i \in 1..Len(wire), Overtake(i)
      PROVE  Overtakes(i)
  <2>1. wire' = Remove(i) /\ Receive(wire[i]) /\ Follow(wire[i])
    BY <1>1 DEF Overtake
  <2>2. Taken(i) /\ wire[i] \in Frames
    BY <2>1, RemoveTakes
  <2>3. Received(wire[i]) /\ Followed(wire[i])
    BY <2>1, <2>2, ReceiveEffect, FollowEffect
  <2> QED BY <1>1, <2>2, <2>3 DEF Overtake, Overtakes
<1>2. ASSUME Deliver
      PROVE  Delivers
  <2>1. wire # <<>> /\ wire' = Tail(wire)
    BY <1>2 DEF Deliver
  <2>2. Taken(1) /\ Head(wire) = wire[1] /\ wire[1] \in Frames
    BY <2>1, TailTakes
  <2>3. /\ Receive(wire[1])
        /\ IF snapshot # None /\ wire[1].ts < snapshot.ts
           THEN UNCHANGED <<truth, gap>> ELSE Follow(wire[1])
    BY <1>2, <2>2 DEF Deliver
  <2>4. Received(wire[1]) /\ (Follow(wire[1]) => Followed(wire[1]))
    BY <2>2, <2>3, ReceiveEffect, FollowEffect
  <2> QED BY <1>2, <2>2, <2>3, <2>4 DEF Deliver, Delivers
<1>3. ASSUME Repeat
      PROVE  Repeats
  <2>1. 1 \in 1..Len(wire) /\ Head(wire) = wire[1] /\ wire[1] \in Frames
    BY <1>3, HeadTailProperties DEF Repeat, WireType
  <2>2. Receive(wire[1]) /\ Follow(wire[1])
    BY <1>3, <2>1 DEF Repeat
  <2>3. Received(wire[1]) /\ Followed(wire[1])
    BY <2>1, <2>2, ReceiveEffect, FollowEffect
  <2> QED BY <1>3, <2>1, <2>3 DEF Repeat, Repeats
<1> QED
  BY <1>1, <1>2, <1>3, RequoteEffect, CancelReplaceEffect, TradeEffect,
     LoseEffect,
     ReconnectEffect DEF Next

LEMMA SentFacts ==
  ASSUME WireType, NEW fs, NEW after, Emitted(fs, after)
  PROVE  /\ Len(wire) \in Nat
         /\ wire' \in Seq(Frames)
         /\ Len(wire') = Len(wire) + Len(fs)
         /\ \A j \in 1..Len(wire) : wire'[j] = wire[j]
         /\ \A j \in 1..Len(wire') : j > Len(wire) =>
              j - Len(wire) \in 1..Len(fs) /\ wire'[j] = fs[j - Len(wire)]
<1>1. wire \in Seq(Frames) /\ fs \in Seq(Frames) /\ wire' = wire \o fs
  BY DEF WireType, Emitted
<1>2. Len(wire) \in Nat /\ Len(fs) \in Nat
  BY <1>1
<1>3. /\ wire \o fs \in Seq(Frames)
      /\ Len(wire \o fs) = Len(wire) + Len(fs)
      /\ \A j \in 1..(Len(wire) + Len(fs)) :
           (wire \o fs)[j] = IF j <= Len(wire) THEN wire[j] ELSE fs[j - Len(wire)]
  BY <1>1, ConcatProperties
<1> QED BY <1>1, <1>2, <1>3

-----------------------------------------------------------------------------
(* Types, and what the frames on the wire say.                             *)

WireGood == \A i \in 1..Len(wire) : GoodFrame(wire[i])

BaseInv ==
  /\ TypeOK
  /\ WireType
  /\ WireGood
  /\ Uncrossed(venue)

LEMMA BaseInit == Init => BaseInv
<1> SUFFICES ASSUME Init PROVE BaseInv
  OBVIOUS
<1> DEFINE t == Best(venue)
           r == [n |-> 1, touch |-> t, stamped |-> TRUE]
           f == [kind |-> "book", ts |-> 0, change |-> NoChange, stamp |-> t,
                 after |-> venue, at |-> r]
<1>1. venue \in Levels /\ ~Crossed(Best(venue)) /\ wire = <<f>>
  BY DEF Init
<1>2. Uncrossed(venue) /\ t \in Touches /\ t # NoStamp /\ t = Best(venue)
  BY <1>1, BestFacts
<1>3. NoChange \in Changes
  BY DEF NoChange, Changes, Prices
<1> HIDE DEF t
<1>4. r \in Receipts /\ r.n = 1 /\ r.touch = t
  BY <1>2 DEF Receipts
<1> HIDE DEF r
<1>5. f \in Frames /\ f.stamp = t /\ f.after = venue /\ f.at = r
  BY <1>1, <1>2, <1>3, <1>4 DEF Frames, Kinds
<1> HIDE DEF f
<1>6. GoodFrame(f)
  BY <1>2, <1>4, <1>5 DEF GoodFrame
<1>7. WireType /\ WireGood
  BY <1>1, <1>5, <1>6 DEF WireType, WireGood
<1>8. <<EmptyBid, EmptyAsk>> \in Touches
  BY DEF Touches
<1>9. NoReceipt \in Receipts
  BY <1>8 DEF Receipts, NoReceipt
<1>10. NoLevels \in Levels
  BY DEF Levels, NoLevels
<1>11. BookTypes
  BY <1>8, <1>9, <1>10 DEF Init, BookTypes, None
<1>12. /\ events = 0
       /\ faults = 0
       /\ frames = 1
       /\ gap = FALSE
       /\ truth = NoLevels
  BY DEF Init
<1>13. /\ events \in 0..MaxEvents
       /\ faults \in 0..MaxFaults
       /\ frames \in Nat
       /\ truth \in Levels
  BY <1>10, <1>12
<1>14. gap \in BOOLEAN
  BY <1>12, Zenon
<1>15. TypeOK
  BY <1>1, <1>11, <1>13, <1>14 DEF TypeOK, BookTypes
<1> QED BY <1>2, <1>7, <1>15 DEF BaseInv

LEMMA FaultsStep == TypeOK /\ [Next]_vars => faults' \in 0..MaxFaults
<1> SUFFICES ASSUME TypeOK, [Next]_vars PROVE faults' \in 0..MaxFaults
  OBVIOUS
<1>1. faults \in 0..MaxFaults
  BY DEF TypeOK
<1>2. ASSUME faults < MaxFaults, faults' = faults + 1
      PROVE  faults' \in 0..MaxFaults
  BY <1>1, <1>2
<1>3. ASSUME NEW fs, NEW after, Emit(fs, after)
      PROVE  faults' = faults
  BY <1>3 DEF Emit
<1>4. ASSUME NEW c, NEW d, NEW how, Requote(c, how) \/ CancelReplace(c, d, how)
      PROVE  faults' = faults
  BY <1>3, <1>4 DEF Requote, CancelReplace
<1>5. ASSUME NEW side, NEW p, NEW rests, Trade(side, p, rests)
      PROVE  faults' = faults
  BY <1>3, <1>5 DEF Trade
<1>6. ASSUME NEW i, Lose(i) \/ Overtake(i)
      PROVE  faults' \in 0..MaxFaults
  BY <1>2, <1>6 DEF Lose, Overtake
<1>7. CASE Deliver
  BY <1>1, <1>7 DEF Deliver
<1>8. CASE Repeat \/ Reconnect
  BY <1>2, <1>8 DEF Repeat, Reconnect
<1>9. CASE UNCHANGED vars
  BY <1>1, <1>9 DEF vars
<1> QED BY <1>1, <1>4, <1>5, <1>6, <1>7, <1>8, <1>9 DEF Next

LEMMA BaseStep == BaseInv /\ [Next]_vars => BaseInv'
<1> SUFFICES ASSUME BaseInv, [Next]_vars PROVE BaseInv'
  OBVIOUS
<1>1. /\ TypeOK
      /\ WireType
      /\ WireGood
      /\ Uncrossed(venue)
      /\ faults' \in 0..MaxFaults
  BY FaultsStep DEF BaseInv
<1>2. /\ BookTypes
      /\ venue \in Levels
      /\ truth \in Levels
      /\ events \in 0..MaxEvents
      /\ frames \in Nat
      /\ gap \in BOOLEAN
  BY <1>1 DEF TypeOK, BookTypes
<1>3. \A i \in 1..Len(wire) : wire[i] \in Frames
  BY <1>1 DEF WireType
<1>4. ASSUME NEW f \in Frames, Followed(f)
      PROVE  truth' \in Levels /\ gap' \in BOOLEAN
  BY <1>2, <1>4 DEF Followed, Frames
<1>5. ASSUME BookTypes', WireType', WireGood', Uncrossed(venue)',
             venue' \in Levels, truth' \in Levels, events' \in 0..MaxEvents,
             frames' \in Nat, gap' \in BOOLEAN
      PROVE  BaseInv'
  BY <1>1, <1>5 DEF BaseInv, TypeOK, BookTypes
<1>6. ASSUME NEW i, Taken(i)
      PROVE  WireType' /\ WireGood'
  BY <1>1, <1>6 DEF Taken, WireType, WireGood
<1>7. ASSUME NEW fs, NEW after, Emitted(fs, after)
      PROVE  BaseInv'
  <2>1. WireType' /\ WireGood'
    BY <1>1, <1>7, SentFacts DEF WireType, WireGood, Emitted
  <2>2. events' \in 0..MaxEvents /\ frames' \in Nat
    BY <1>2, <1>7 DEF Emitted
  <2>3. BookTypes'
    BY <1>2, <1>7 DEF BookTypes, Emitted, bookVars
  <2>4. /\ Uncrossed(venue)'
        /\ venue' \in Levels
        /\ truth' \in Levels
        /\ gap' \in BOOLEAN
    BY <1>2, <1>7 DEF Emitted, Uncrossed
  <2> QED BY <1>5, <2>1, <2>2, <2>3, <2>4
<1>8. ASSUME NEW i \in 1..Len(wire), Loses(i)
      PROVE  BaseInv'
  <2>1. WireType'
    BY <1>8 DEF Loses, WireType
  <2>2. WireGood'
    BY <1>1, <1>8 DEF Loses, WireGood, GoodFrame
  <2>3. BookTypes' /\ Uncrossed(venue)'
    BY <1>1, <1>2, <1>8 DEF Loses, BookTypes, bookVars, Uncrossed
  <2> QED BY <1>2, <1>5, <1>8, <2>1, <2>2, <2>3 DEF Loses
<1>9. ASSUME NEW i \in 1..Len(wire), Overtakes(i)
      PROVE  BaseInv'
  <2>1. WireType' /\ WireGood'
    BY <1>6, <1>9 DEF Overtakes
  <2>2. BookTypes'
    BY <1>2, <1>3, <1>9, ReceiveTypes DEF Overtakes
  <2>3. truth' \in Levels /\ gap' \in BOOLEAN
    BY <1>3, <1>4, <1>9 DEF Overtakes
  <2>4. Uncrossed(venue)' /\ UNCHANGED <<venue, events, frames>>
    BY <1>1, <1>9 DEF Overtakes, Uncrossed
  <2> QED BY <1>2, <1>5, <2>1, <2>2, <2>3, <2>4
<1>10. CASE Delivers
  <2>0. 1 \in 1..Len(wire)
    BY <1>10 DEF Delivers, Taken
  <2>1. WireType' /\ WireGood'
    BY <1>6, <1>10 DEF Delivers
  <2>2. BookTypes'
    BY <1>2, <1>3, <1>10, <2>0, ReceiveTypes DEF Delivers
  <2>3. truth' \in Levels /\ gap' \in BOOLEAN
    BY <1>2, <1>3, <1>4, <1>10, <2>0 DEF Delivers
  <2>4. Uncrossed(venue)' /\ UNCHANGED <<venue, events, frames>>
    BY <1>1, <1>10 DEF Delivers, Uncrossed
  <2> QED BY <1>2, <1>5, <2>1, <2>2, <2>3, <2>4
<1>11. CASE Repeats
  <2>1. WireType' /\ WireGood'
    BY <1>1, <1>11 DEF Repeats, WireType, WireGood
  <2>2. BookTypes'
    BY <1>2, <1>3, <1>11, ReceiveTypes DEF Repeats
  <2>3. truth' \in Levels /\ gap' \in BOOLEAN
    BY <1>3, <1>4, <1>11 DEF Repeats
  <2>4. Uncrossed(venue)' /\ UNCHANGED <<venue, events, frames>>
    BY <1>1, <1>11 DEF Repeats, Uncrossed
  <2> QED BY <1>2, <1>5, <2>1, <2>2, <2>3, <2>4
<1>12. CASE Reconnects
  <2>1. WireType' /\ WireGood'
    BY <1>12 DEF Reconnects, WireType, WireGood
  <2>2. NoLevels \in Levels
    BY DEF Levels, NoLevels
  <2>3. <<EmptyBid, EmptyAsk>> \in Touches
    BY DEF Touches
  <2>4. NoReceipt \in Receipts
    BY <2>3 DEF Receipts, NoReceipt
  <2>5. BookTypes'
    BY <1>2, <1>12, <2>2, <2>3, <2>4 DEF Reconnects, BookTypes, None
  <2>6. /\ UNCHANGED <<venue, events>>
        /\ frames' = frames + 1
        /\ truth' = NoLevels
        /\ gap' = FALSE
    BY <1>12 DEF Reconnects
  <2>7. Uncrossed(venue)'
    BY <1>1, <2>6 DEF Uncrossed
  <2>8. /\ venue' \in Levels
        /\ truth' \in Levels
        /\ events' \in 0..MaxEvents
        /\ frames' \in Nat
    BY <1>2, <2>2, <2>6
  <2>9. gap' \in BOOLEAN
    BY <2>6, Zenon
  <2> QED BY <1>5, <2>1, <2>5, <2>7, <2>8, <2>9
<1>13. CASE UNCHANGED vars
  BY <1>13 DEF BaseInv, TypeOK, WireType, WireGood, Uncrossed, vars, bookVars
<1> QED BY <1>1, <1>7, <1>8, <1>9, <1>10, <1>11, <1>12, <1>13, StepCases

-----------------------------------------------------------------------------
(* What is published.                                                      *)

\* The snapshot's touch is the one its frame settled on, and so is the derived
\* one while the book is not held; neither is crossed.
SnapInv == snapshot.touch = snapshot.at.touch /\ ~Crossed(snapshot.touch)
LiveInv ==
  hold = "none" =>
    /\ lastChange.stamped => Best(levels) = lastChange.touch
    /\ ~Crossed(Best(levels))

TouchInv == SnapInv /\ LiveInv /\ DatedTruly /\ NeverCrossed

LEMMA TouchInit == Init => TouchInv
<1> SUFFICES ASSUME Init PROVE TouchInv
  OBVIOUS
<1>1. Best(NoLevels) = <<EmptyBid, EmptyAsk>>
  BY DEF Best, NoLevels
<1>2. ~Crossed(<<EmptyBid, EmptyAsk>>)
  BY DEF Crossed
<1> QED BY <1>1, <1>2 DEF Init, TouchInv, SnapInv, LiveInv, DatedTruly,
     NeverCrossed, None, NoReceipt

LEMMA ReceiveTouch ==
  ASSUME BookTypes, TouchInv, NEW f \in Frames, GoodFrame(f), Received(f)
  PROVE  TouchInv'
<1>1. /\ f.after \in Levels
      /\ f.change \in Changes
      /\ f.kind \in Kinds
  BY DEF Frames
<1>2. f.kind = "book" => f.at.touch = Best(f.after) /\ ~Crossed(Best(f.after))
  BY <1>1, BestFacts DEF GoodFrame
<1> USE DEF TouchInv, SnapInv, LiveInv, DatedTruly, NeverCrossed
<1>3. CASE f.kind = "book"
  BY <1>2, <1>3 DEF Received, Reset
<1>4. CASE f.kind # "book" /\ (f.kind = "lost" \/ Ignored(f))
  BY <1>4 DEF Received
<1>5. CASE f.kind = "sizeless" /\ ~Ignored(f)
  BY <1>5 DEF Received
<1>6. CASE f.kind = "change" /\ ~Ignored(f)
  <2>1. /\ lastChange' = f.at
        /\ hold' = NextHold(Best(levels'), f.stamp)
        /\ snapshot' = snapshot
        /\ \/ published' = published
           \/ published' = [touch |-> snapshot.touch, at |-> snapshot.at]
           \/ hold' = "none" /\ published' = [touch |-> Best(levels'), at |-> f.at]
    BY <1>6 DEF Received
  <2>2. hold' = "none" =>
          ~Crossed(Best(levels')) /\ (f.stamp = NoStamp \/ Best(levels') = f.stamp)
    BY <2>1 DEF NextHold
  <2>3. hold' = "none" =>
          ~Crossed(Best(levels')) /\ (f.at.stamped => Best(levels') = f.at.touch)
    BY <2>2 DEF GoodFrame
  <2> QED BY <2>1, <2>3
<1> QED BY <1>1, <1>3, <1>4, <1>5, <1>6 DEF Kinds

LEMMA TouchStep == BaseInv /\ TouchInv /\ [Next]_vars => TouchInv'
<1> SUFFICES ASSUME BaseInv, TouchInv, [Next]_vars PROVE TouchInv'
  OBVIOUS
<1>1. TypeOK /\ WireType /\ Uncrossed(venue) /\ BookTypes
  BY DEF BaseInv, TypeOK, BookTypes
<1>2. \A i \in 1..Len(wire) : wire[i] \in Frames /\ GoodFrame(wire[i])
  BY DEF BaseInv, WireType, WireGood
<1>3. ASSUME UNCHANGED <<bookVars, published>>
      PROVE  TouchInv'
  BY <1>3 DEF TouchInv, SnapInv, LiveInv, DatedTruly, NeverCrossed, bookVars
<1>4. ASSUME NEW i \in 1..Len(wire), Received(wire[i])
      PROVE  TouchInv'
  BY <1>1, <1>2, <1>4, ReceiveTouch
<1>5. ASSUME NEW fs, NEW after, Emitted(fs, after)
      PROVE  TouchInv'
  BY <1>3, <1>5 DEF Emitted
<1>6. ASSUME NEW i \in 1..Len(wire), Loses(i)
      PROVE  TouchInv'
  BY <1>3, <1>6 DEF Loses
<1>7. CASE Reconnects
  <2>1. Best(NoLevels) = <<EmptyBid, EmptyAsk>>
    BY DEF Best, NoLevels
  <2>2. ~Crossed(<<EmptyBid, EmptyAsk>>)
    BY DEF Crossed
  <2>3. SnapInv' /\ LiveInv'
    BY <1>7, <2>1, <2>2 DEF Reconnects, SnapInv, LiveInv, None, NoReceipt
  <2> QED BY <1>7, <2>3 DEF Reconnects, TouchInv, DatedTruly, NeverCrossed
<1>8. CASE UNCHANGED vars
  BY <1>3, <1>8 DEF vars
<1>9. CASE Delivers
  BY <1>4, <1>9 DEF Delivers, Taken
<1>10. ASSUME NEW i \in 1..Len(wire), Overtakes(i)
       PROVE  TouchInv'
  BY <1>4, <1>10 DEF Overtakes
<1>11. CASE Repeats
  BY <1>4, <1>11 DEF Repeats
<1> QED BY <1>1, <1>5, <1>6, <1>7, <1>8, <1>9, <1>10, <1>11, StepCases

-----------------------------------------------------------------------------
(* The order of the frames on the wire.                                    *)

\* Sent after the snapshot.
Fresh(f) == f.at.n > snapshot.at.n

\* Frames stay in the order they were sent.  The snapshot splits them: those
\* sent before it, overtaken, hold no full book, those sent after it are no
\* older than it.
OrderInv ==
  /\ \A i \in 1..Len(wire) : wire[i].at.n \in 1..frames /\ wire[i].ts <= events
  /\ \A i, j \in 1..Len(wire) : i < j =>
       wire[i].at.n < wire[j].at.n /\ wire[i].ts <= wire[j].ts
  /\ snapshot.at.n <= frames
  /\ snapshot.ts <= events
  /\ \A i \in 1..Len(wire) : Fresh(wire[i]) => wire[i].ts >= snapshot.ts
  /\ \A i \in 1..Len(wire) :
       ~Fresh(wire[i]) => wire[i].kind # "book" /\ wire[i].at.n < snapshot.at.n

\* The snapshot becomes full book i, which overtook no other full book.
Replaces(i) ==
  /\ wire[i].kind = "book"
  /\ \A j \in 1..(i - 1) : wire[j].kind # "book"
  /\ snapshot'.at = wire[i].at
  /\ snapshot'.ts = wire[i].ts

LEMMA OrderInit == Init => OrderInv
<1> SUFFICES ASSUME Init PROVE OrderInv
  OBVIOUS
<1> DEFINE f == [kind |-> "book", ts |-> 0, change |-> NoChange, stamp |-> Best(venue),
                 after |-> venue,
                 at |-> [n |-> 1, touch |-> Best(venue), stamped |-> TRUE]]
<1>1. wire = <<f>> /\ f.at.n = 1 /\ f.ts = 0
  BY DEF Init
<1>2. Len(wire) = 1 /\ wire[1].at.n = 1 /\ wire[1].ts = 0
  BY <1>1
<1>3. snapshot.at.n = 0 /\ snapshot.ts = 0 /\ frames = 1 /\ events = 0
  BY DEF Init, None, NoReceipt
<1> QED BY <1>2, <1>3 DEF OrderInv, Fresh

\* What the types say of the numbers.
Numbers ==
  /\ Len(wire) \in Nat
  /\ \A i \in 1..Len(wire) : wire[i].at.n \in Nat /\ wire[i].ts \in Nat
  /\ snapshot.at.n \in Nat
  /\ snapshot.ts \in Nat
  /\ frames \in Nat
  /\ events \in Nat

LEMMA NumbersHold == BaseInv => Numbers
<1> SUFFICES ASSUME BaseInv PROVE Numbers
  OBVIOUS
<1>1. \A i \in 1..Len(wire) : wire[i] \in Frames
  BY DEF BaseInv, WireType
<1>2. \A f \in Frames : f.at.n \in Nat /\ f.ts \in Nat
  BY DEF Frames, Receipts
<1>3. snapshot.at.n \in Nat /\ snapshot.ts \in Nat /\ frames \in Nat /\ events \in Nat
  BY DEF BaseInv, TypeOK, Receipts
<1>4. Len(wire) \in Nat
  BY DEF BaseInv, WireType
<1> QED BY <1>1, <1>2, <1>3, <1>4 DEF Numbers

LEMMA SnapshotMoves ==
  ASSUME NEW i \in 1..Len(wire), Received(wire[i]),
         \A j \in 1..(i - 1) : wire[j].kind # "book"
  PROVE  \/ snapshot' = snapshot /\ wire[i].kind # "book"
         \/ Replaces(i)
  BY DEF Received, Reset, Replaces

LEMMA TakenOrder ==
  ASSUME Numbers, OrderInv, NEW i, Taken(i), UNCHANGED <<events, frames>>,
         snapshot' = snapshot \/ Replaces(i)
  PROVE  OrderInv'
<1>1. \A j \in 1..Len(wire') : j < i => j \in 1..Len(wire) /\ wire'[j] = wire[j]
  BY DEF Taken, Numbers
<1>2. \A j \in 1..Len(wire') : j >= i => j + 1 \in 1..Len(wire) /\ wire'[j] = wire[j + 1]
  BY DEF Taken, Numbers
<1>3. i \in 1..Len(wire) /\ Len(wire') \in Nat
  BY DEF Taken, Numbers
<1>0. /\ \A p \in 1..Len(wire) : wire[p].at.n \in 1..frames /\ wire[p].ts <= events
      /\ \A p, q \in 1..Len(wire) : p < q =>
           wire[p].at.n < wire[q].at.n /\ wire[p].ts <= wire[q].ts
      /\ Len(wire) \in Nat
  BY DEF OrderInv, Numbers
<1>4. ASSUME NEW j \in 1..Len(wire')
      PROVE  wire'[j].at.n \in 1..frames' /\ wire'[j].ts <= events'
  <2>1. PICK p \in 1..Len(wire) : wire'[j] = wire[p]
    <3>1. j < i \/ j >= i
      BY <1>3
    <3> QED BY <1>1, <1>2, <3>1
  <2> QED BY <1>0, <2>1
<1>5. ASSUME NEW j \in 1..Len(wire'), NEW k \in 1..Len(wire'), j < k
      PROVE  wire'[j].at.n < wire'[k].at.n /\ wire'[j].ts <= wire'[k].ts
  <2>1. CASE k < i
    <3>1. j < i
      BY <1>3, <1>5, <2>1
    <3> QED BY <1>0, <1>1, <1>5, <2>1, <3>1
  <2>2. CASE j < i /\ k >= i
    <3>1. wire'[j] = wire[j] /\ wire'[k] = wire[k + 1] /\ j < k + 1
      BY <1>1, <1>2, <1>3, <1>5, <2>2
    <3>2. j \in 1..Len(wire) /\ k + 1 \in 1..Len(wire)
      BY <1>1, <1>2, <2>2
    <3> QED BY <1>0, <3>1, <3>2
  <2>3. CASE j >= i
    <3>1. k >= i
      BY <1>3, <1>5, <2>3
    <3>2. wire'[j] = wire[j + 1] /\ wire'[k] = wire[k + 1] /\ j + 1 < k + 1
      BY <1>2, <1>3, <1>5, <2>3, <3>1
    <3>3. j + 1 \in 1..Len(wire) /\ k + 1 \in 1..Len(wire)
      BY <1>2, <2>3, <3>1
    <3> QED BY <1>0, <3>2, <3>3
  <2> QED BY <1>3, <2>1, <2>2, <2>3
<1>6. CASE snapshot' = snapshot
  <2>1. /\ snapshot'.at.n <= frames'
        /\ snapshot'.ts <= events'
    BY <1>6 DEF OrderInv
  <2>2. ASSUME NEW j \in 1..Len(wire')
        PROVE  /\ Fresh(wire'[j]) => wire'[j].ts >= snapshot.ts
               /\ ~Fresh(wire'[j]) => wire'[j].kind # "book" /\ wire'[j].at.n < snapshot.at.n
    <3>1. j < i \/ j >= i
      BY <1>3
    <3>2. PICK p \in 1..Len(wire) : wire'[j] = wire[p]
      BY <1>1, <1>2, <3>1
    <3> QED BY <3>2 DEF OrderInv
  <2> QED BY <1>4, <1>5, <1>6, <2>1, <2>2 DEF OrderInv, Fresh
<1>7. CASE Replaces(i)
  <2>1. /\ snapshot'.at.n <= frames'
        /\ snapshot'.ts <= events'
    BY <1>3, <1>7 DEF OrderInv, Numbers, Replaces
  <2>2. ASSUME NEW j \in 1..Len(wire'), j < i
        PROVE  /\ ~(wire'[j].at.n > snapshot'.at.n)
               /\ wire'[j].kind # "book"
               /\ wire'[j].at.n < snapshot'.at.n
    BY <1>1, <1>3, <1>7, <2>2 DEF OrderInv, Numbers, Replaces
  <2>3. ASSUME NEW j \in 1..Len(wire'), j >= i
        PROVE  wire'[j].at.n > snapshot'.at.n /\ wire'[j].ts >= snapshot'.ts
    BY SMTT(30), <1>2, <1>3, <1>7, <2>3 DEF OrderInv, Numbers, Replaces
  <2> QED BY <1>3, <1>4, <1>5, <2>1, <2>2, <2>3 DEF OrderInv, Fresh
<1> QED BY <1>6, <1>7

LEMMA OrderStep == BaseInv /\ OrderInv /\ [Next]_vars => OrderInv'
<1> SUFFICES ASSUME BaseInv, OrderInv, [Next]_vars PROVE OrderInv'
  OBVIOUS
<1>1. TypeOK /\ WireType /\ Uncrossed(venue) /\ Numbers
  BY NumbersHold DEF BaseInv
<1>2. ASSUME NEW fs, NEW after, Emitted(fs, after)
      PROVE  OrderInv'
  <2>1. /\ Len(wire') = Len(wire) + Len(fs)
        /\ \A j \in 1..Len(wire) : wire'[j] = wire[j]
        /\ \A j \in 1..Len(wire') : j > Len(wire) =>
             j - Len(wire) \in 1..Len(fs) /\ wire'[j] = fs[j - Len(wire)]
    BY <1>1, <1>2, SentFacts
  <2>2. /\ frames' = frames + Len(fs)
        /\ events' = events + 1
        /\ snapshot' = snapshot
        /\ Len(fs) \in Nat
        /\ \A k \in 1..Len(fs) : fs[k].at.n = frames + k /\ fs[k].ts = events + 1
    BY <1>2 DEF Emitted, bookVars
  <2>3. ASSUME NEW j \in 1..Len(wire'), j > Len(wire)
        PROVE  wire'[j].at.n = frames + (j - Len(wire)) /\ wire'[j].ts = events + 1
    BY <2>1, <2>2, <2>3
  <2>0. /\ \A p \in 1..Len(wire) : wire[p].at.n \in 1..frames /\ wire[p].ts <= events
        /\ \A p, q \in 1..Len(wire) : p < q =>
             wire[p].at.n < wire[q].at.n /\ wire[p].ts <= wire[q].ts
        /\ Len(wire) \in Nat
        /\ \A p \in 1..Len(wire) : wire[p].at.n \in Nat /\ wire[p].ts \in Nat
        /\ frames \in Nat
        /\ events \in Nat
    BY <1>1 DEF OrderInv, Numbers
  <2>4. ASSUME NEW j \in 1..Len(wire')
        PROVE  wire'[j].at.n \in 1..frames' /\ wire'[j].ts <= events'
    <3>1. CASE j <= Len(wire)
      <4>1. /\ wire'[j] = wire[j]
            /\ wire[j].at.n \in 1..frames
            /\ wire[j].ts <= events
            /\ wire[j].ts \in Nat
        BY <2>0, <2>1, <3>1
      <4> QED BY SMTT(30), <2>0, <2>2, <4>1
    <3>2. CASE j > Len(wire)
      <4>1. j - Len(wire) \in 1..Len(fs)
        BY <2>1, <3>2
      <4> QED BY <2>0, <2>2, <2>3, <3>2, <4>1
    <3> QED BY <2>0, <2>1, <2>2, <3>1, <3>2
  <2>5. ASSUME NEW j \in 1..Len(wire'), NEW k \in 1..Len(wire'), j < k
        PROVE  wire'[j].at.n < wire'[k].at.n /\ wire'[j].ts <= wire'[k].ts
    <3>1. CASE k <= Len(wire)
      BY SMTT(30), <1>1, <2>1, <2>5, <3>1 DEF OrderInv, Numbers
    <3>2. CASE j <= Len(wire) /\ k > Len(wire)
      <4>1. /\ wire'[j] = wire[j]
            /\ wire[j].at.n \in 1..frames
            /\ wire[j].ts <= events
            /\ wire[j].ts \in Nat
        BY <2>0, <2>1, <3>2
      <4>2. wire'[k].at.n = frames + (k - Len(wire)) /\ wire'[k].ts = events + 1
        BY <2>3, <3>2
      <4> QED BY <2>0, <3>2, <4>1, <4>2
    <3>3. CASE j > Len(wire)
      <4>1. k > Len(wire)
        BY <2>0, <2>5, <3>3
      <4>2. wire'[j].at.n = frames + (j - Len(wire)) /\ wire'[j].ts = events + 1
        BY <2>3, <3>3
      <4>3. wire'[k].at.n = frames + (k - Len(wire)) /\ wire'[k].ts = events + 1
        BY <2>3, <4>1
      <4> QED BY <2>0, <2>5, <4>2, <4>3
    <3> QED BY <2>0, <2>5, <3>1, <3>2, <3>3
  <2>6. ASSUME NEW j \in 1..Len(wire')
        PROVE  /\ Fresh(wire'[j]) => wire'[j].ts >= snapshot.ts
               /\ ~Fresh(wire'[j]) => wire'[j].kind # "book" /\ wire'[j].at.n < snapshot.at.n
    <3>1. CASE j <= Len(wire)
      BY <1>1, <2>1, <3>1 DEF OrderInv, Numbers
    <3>2. CASE j > Len(wire)
      <4>1. wire'[j].at.n = frames + (j - Len(wire)) /\ wire'[j].ts = events + 1
        BY <2>3, <3>2
      <4>2. snapshot.at.n <= frames /\ snapshot.ts <= events
        BY DEF OrderInv
      <4>3. snapshot.at.n \in Nat /\ snapshot.ts \in Nat
        BY <1>1 DEF Numbers
      <4>4. wire'[j].at.n > snapshot.at.n /\ wire'[j].ts >= snapshot.ts
        BY <2>0, <3>2, <4>1, <4>2, <4>3
      <4> QED BY <4>4 DEF Fresh
    <3> QED BY <1>1, <2>1, <2>2, <3>1, <3>2 DEF Numbers
  <2>7. snapshot'.at.n <= frames' /\ snapshot'.ts <= events'
    BY <1>1, <2>2 DEF OrderInv, Numbers
  <2> QED BY <2>2, <2>4, <2>5, <2>6, <2>7 DEF OrderInv, Fresh
<1>3. ASSUME NEW i \in 1..Len(wire), Loses(i)
      PROVE  OrderInv'
  <2>1. /\ Len(wire') = Len(wire)
        /\ \A j \in 1..Len(wire) :
             /\ wire'[j].at = wire[j].at
             /\ wire'[j].ts = wire[j].ts
             /\ wire'[j].kind = "book" => wire[j].kind = "book"
        /\ UNCHANGED <<events, frames, snapshot>>
    BY <1>3 DEF Loses, bookVars
  <2> QED BY <2>1 DEF OrderInv, Fresh
<1>4. ASSUME NEW i \in 1..Len(wire), Overtakes(i)
      PROVE  OrderInv'
  <2>1. snapshot' = snapshot \/ Replaces(i)
    BY <1>4, SnapshotMoves DEF Overtakes
  <2> QED BY <1>1, <1>4, <2>1, TakenOrder DEF Overtakes
<1>5. CASE Delivers
  <2>1. 1 \in 1..Len(wire) /\ Taken(1) /\ Received(wire[1])
    BY <1>5 DEF Delivers, Taken
  <2>2. snapshot' = snapshot \/ Replaces(1)
    BY <2>1, SnapshotMoves
  <2> QED BY <1>1, <1>5, <2>1, <2>2, TakenOrder DEF Delivers
<1>6. CASE Repeats
  <2>1. snapshot' = snapshot
    BY <1>6 DEF Repeats, Received
  <2> QED BY <1>6, <2>1 DEF Repeats, OrderInv, Fresh
<1>7. CASE Reconnects
  <2>1. /\ Len(wire') = 1
        /\ wire'[1].at.n = frames + 1
        /\ wire'[1].ts = events
        /\ frames' = frames + 1
        /\ events' = events
        /\ snapshot'.at.n = 0
        /\ snapshot'.ts = 0
    BY <1>7 DEF Reconnects, None, NoReceipt
  <2> QED BY <1>1, <2>1 DEF OrderInv, Fresh, Numbers
<1>8. CASE UNCHANGED vars
  BY <1>8 DEF vars, bookVars, OrderInv, Fresh
<1> QED BY <1>1, <1>2, <1>3, <1>4, <1>5, <1>6, <1>7, <1>8, StepCases

-----------------------------------------------------------------------------
(* The derived book is the venue's.                                        *)

\* The frames sent after the snapshot follow from each other, up to the venue's
\* book.
ChainInv ==
  /\ \A i \in 1..(Len(wire) - 1) :
       Fresh(wire[i]) /\ Applies(wire[i + 1]) =>
         Fold(wire[i].after, wire[i + 1].change) = wire[i + 1].after
  /\ Len(wire) > 0 /\ Fresh(wire[Len(wire)]) => wire[Len(wire)].after = venue

\* With no frame missing, the first of them follows from what was delivered,
\* which is the venue's book when there is none.
TruthInv ==
  snapshot # None /\ ~gap =>
    /\ (\A i \in 1..Len(wire) : ~Fresh(wire[i])) => truth = venue
    /\ \A i \in 1..Len(wire) :
         Fresh(wire[i]) /\ Applies(wire[i]) /\ (i = 1 \/ ~Fresh(wire[i - 1])) =>
           Fold(truth, wire[i].change) = wire[i].after

\* A book under a soft hold has the levels delivered, too.
LevelsInv == snapshot # None /\ hold # "hard" /\ ~gap => levels = truth

LEMMA ChainInit == Init => ChainInv /\ TruthInv /\ LevelsInv
<1> SUFFICES ASSUME Init PROVE ChainInv /\ TruthInv /\ LevelsInv
  OBVIOUS
<1> DEFINE f == [kind |-> "book", ts |-> 0, change |-> NoChange, stamp |-> Best(venue),
                 after |-> venue,
                 at |-> [n |-> 1, touch |-> Best(venue), stamped |-> TRUE]]
<1>1. wire = <<f>> /\ f.after = venue
  BY DEF Init
<1>2. Len(wire) = 1 /\ wire[1].after = venue
  BY <1>1
<1>3. snapshot = None
  BY DEF Init
<1> QED BY <1>2, <1>3 DEF ChainInv, TruthInv, LevelsInv

\* What one frame taken off the wire leaves of the chain.
LEMMA TakenChain ==
  ASSUME Numbers, OrderInv, ChainInv, NEW i, Taken(i), UNCHANGED venue,
         (i = 1 /\ snapshot' = snapshot) \/ Replaces(i)
  PROVE  ChainInv'
<1>1. \A j \in 1..Len(wire') : j < i => j \in 1..Len(wire) /\ wire'[j] = wire[j]
  BY SMTT(30) DEF Taken, Numbers
<1>2. \A j \in 1..Len(wire') : j >= i => j + 1 \in 1..Len(wire) /\ wire'[j] = wire[j + 1]
  BY DEF Taken, Numbers
<1>3. /\ i \in 1..Len(wire)
      /\ Len(wire) \in Nat
      /\ Len(wire') = Len(wire) - 1
      /\ snapshot.at.n \in Nat
  BY DEF Taken, Numbers
<1>4. \A p \in 1..Len(wire) : wire[p].at.n \in Nat
  BY DEF Numbers
<1>5. \A p, q \in 1..Len(wire) : p < q => wire[p].at.n < wire[q].at.n
  BY DEF OrderInv
<1> DEFINE new(f) == f.at.n > snapshot'.at.n
<1>6. ASSUME NEW j \in 1..Len(wire'), j < i
      PROVE  ~new(wire'[j])
  <2>1. CASE i = 1
    BY <1>3, <1>6, <2>1
  <2>2. CASE Replaces(i)
    BY <1>1, <1>3, <1>4, <1>5, <1>6, <2>2 DEF Replaces
  <2> QED BY <2>1, <2>2
<1>7. \A f : f.at.n \in Nat /\ new(f) => Fresh(f)
  <2>1. CASE snapshot' = snapshot
    BY <2>1 DEF Fresh
  <2>2. CASE Replaces(i)
    <3>1. Fresh(wire[i])
      BY <1>3, <2>2 DEF Replaces, OrderInv
    <3> QED BY <1>3, <1>4, <2>2, <3>1 DEF Replaces, Fresh
  <2> QED BY <2>1, <2>2
<1>8. ASSUME NEW j \in 1..(Len(wire') - 1), new(wire'[j]), Applies(wire'[j + 1])
      PROVE  Fold(wire'[j].after, wire'[j + 1].change) = wire'[j + 1].after
  <2>1. j \in 1..Len(wire') /\ j + 1 \in 1..Len(wire')
    BY <1>3
  <2>2. j >= i
    BY <1>3, <1>6, <1>8, <2>1
  <2>3. wire'[j] = wire[j + 1] /\ wire'[j + 1] = wire[(j + 1) + 1] /\ j + 1 \in 1..(Len(wire) - 1)
    BY <1>2, <1>3, <2>1, <2>2
  <2>4. j + 1 \in 1..Len(wire) /\ Fresh(wire[j + 1])
    BY <1>3, <1>4, <1>7, <1>8, <2>3
  <2> QED BY <1>8, <2>3, <2>4 DEF ChainInv
<1>9. ASSUME Len(wire') > 0, new(wire'[Len(wire')])
      PROVE  wire'[Len(wire')].after = venue
  <2>1. Len(wire') \in 1..Len(wire')
    BY <1>3, <1>9
  <2>2. Len(wire') >= i
    BY <1>3, <1>6, <1>9, <2>1
  <2>3. wire'[Len(wire')] = wire[Len(wire)] /\ Len(wire) \in 1..Len(wire)
    BY <1>2, <1>3, <2>1, <2>2
  <2>4. Fresh(wire[Len(wire)])
    BY <1>4, <1>7, <1>9, <2>3
  <2> QED BY <1>3, <2>3, <2>4 DEF ChainInv
<1> QED BY <1>8, <1>9 DEF ChainInv, Fresh

LEMMA ChainStep == BaseInv /\ OrderInv /\ ChainInv /\ [Next]_vars => ChainInv'
<1> SUFFICES ASSUME BaseInv, OrderInv, ChainInv, [Next]_vars PROVE ChainInv'
  OBVIOUS
<1>1. TypeOK /\ WireType /\ Uncrossed(venue) /\ Numbers
  BY NumbersHold DEF BaseInv
<1>2. ASSUME NEW fs, NEW after, Emitted(fs, after)
      PROVE  ChainInv'
  <2>1. /\ Len(wire') = Len(wire) + Len(fs)
        /\ \A j \in 1..Len(wire) : wire'[j] = wire[j]
        /\ \A j \in 1..Len(wire') : j > Len(wire) =>
             j - Len(wire) \in 1..Len(fs) /\ wire'[j] = fs[j - Len(wire)]
    BY <1>1, <1>2, SentFacts
  <2>2. /\ Len(fs) \in Nat \ {0}
        /\ snapshot' = snapshot
        /\ venue' = after
        /\ Fold(venue, fs[1].change) = fs[1].after
        /\ fs[Len(fs)].after = after
        /\ \A k \in 1..(Len(fs) - 1) :
             Applies(fs[k + 1]) => Fold(fs[k].after, fs[k + 1].change) = fs[k + 1].after
    BY <1>2 DEF Emitted, bookVars
  <2>3. Len(wire) \in Nat
    BY <1>1 DEF Numbers
  <2>4. ASSUME NEW j \in 1..(Len(wire') - 1), Fresh(wire'[j]),
               Applies(wire'[j + 1])
        PROVE  Fold(wire'[j].after, wire'[j + 1].change) = wire'[j + 1].after
    <3>1. CASE j < Len(wire)
      <4>1. j \in 1..(Len(wire) - 1) /\ j \in 1..Len(wire) /\ j + 1 \in 1..Len(wire)
        BY <2>3, <3>1
      <4>2. wire'[j] = wire[j] /\ wire'[j + 1] = wire[j + 1]
        BY <2>1, <4>1
      <4> QED BY <2>4, <4>1, <4>2 DEF ChainInv
    <3>2. CASE j = Len(wire)
      <4>1. j \in 1..Len(wire) /\ Len(wire) > 0
        BY <2>3, <3>2
      <4>2. wire'[j] = wire[Len(wire)]
        BY <2>1, <3>2, <4>1
      <4>3. wire'[j].after = venue
        BY <2>4, <4>1, <4>2 DEF ChainInv
      <4>4. j + 1 \in 1..Len(wire') /\ j + 1 > Len(wire) /\ (j + 1) - Len(wire) = 1
        BY <2>1, <2>2, <2>3, <3>2
      <4>5. wire'[j + 1] = fs[1]
        BY <2>1, <4>4
      <4> QED BY <2>2, <4>3, <4>5
    <3>3. CASE j > Len(wire)
      <4>1. /\ j \in 1..Len(wire')
            /\ j + 1 \in 1..Len(wire')
            /\ j + 1 > Len(wire)
            /\ j - Len(wire) \in 1..(Len(fs) - 1)
            /\ (j + 1) - Len(wire) = (j - Len(wire)) + 1
        BY <2>1, <2>2, <2>3, <3>3
      <4>2. wire'[j] = fs[j - Len(wire)] /\ wire'[j + 1] = fs[(j - Len(wire)) + 1]
        BY <2>1, <3>3, <4>1
      <4> QED BY <2>2, <2>4, <4>1, <4>2
    <3> QED BY <2>3, <3>1, <3>2, <3>3
  <2>5. wire'[Len(wire')].after = venue'
    <3>1. Len(wire') \in 1..Len(wire') /\ Len(wire') > Len(wire) /\ Len(wire') - Len(wire) = Len(fs)
      BY <2>1, <2>2, <2>3
    <3>2. wire'[Len(wire')] = fs[Len(fs)]
      BY <2>1, <3>1
    <3> QED BY <2>2, <3>2
  <2> QED BY <2>2, <2>4, <2>5 DEF ChainInv, Fresh
<1>3. ASSUME NEW i \in 1..Len(wire), Loses(i)
      PROVE  ChainInv'
  <2>1. /\ Len(wire') = Len(wire)
        /\ \A j \in 1..Len(wire) :
             /\ wire'[j].at = wire[j].at
             /\ wire'[j].after = wire[j].after
             /\ Applies(wire'[j]) => wire'[j] = wire[j]
        /\ UNCHANGED <<venue, snapshot>>
    BY <1>3 DEF Loses, bookVars, Applies
  <2>2. Len(wire) \in Nat
    BY <1>1 DEF Numbers
  <2>3. ASSUME NEW j \in 1..(Len(wire) - 1), Fresh(wire'[j]),
               Applies(wire'[j + 1])
        PROVE  Fold(wire'[j].after, wire'[j + 1].change) = wire'[j + 1].after
    <3>1. j \in 1..Len(wire) /\ j + 1 \in 1..Len(wire)
      BY <2>2
    <3>2. wire'[j + 1] = wire[j + 1] /\ wire'[j].after = wire[j].after /\ Fresh(wire[j])
      BY <2>1, <2>3, <3>1 DEF Fresh
    <3> QED BY <2>3, <3>2 DEF ChainInv
  <2>4. ASSUME Len(wire) > 0, Fresh(wire'[Len(wire)])
        PROVE  wire'[Len(wire)].after = venue
    <3>1. Len(wire) \in 1..Len(wire)
      BY <2>2, <2>4
    <3> QED BY <2>1, <2>4, <3>1 DEF ChainInv, Fresh
  <2> QED BY <2>1, <2>3, <2>4 DEF ChainInv, Fresh
<1>4. ASSUME NEW i \in 1..Len(wire), Overtakes(i)
      PROVE  ChainInv'
  <2>1. Replaces(i)
    BY <1>4, SnapshotMoves DEF Overtakes
  <2> QED BY <1>1, <1>4, <2>1, TakenChain DEF Overtakes
<1>5. CASE Delivers
  <2>1. 1 \in 1..Len(wire) /\ Taken(1) /\ Received(wire[1])
    BY <1>5 DEF Delivers, Taken
  <2>2. snapshot' = snapshot \/ Replaces(1)
    BY <2>1, SnapshotMoves
  <2> QED BY <1>1, <1>5, <2>1, <2>2, TakenChain DEF Delivers
<1>6. CASE Repeats
  <2>1. snapshot' = snapshot
    BY <1>6 DEF Repeats, Received
  <2> QED BY <1>6, <2>1 DEF Repeats, ChainInv, Fresh
<1>7. CASE Reconnects
  BY <1>7 DEF Reconnects, ChainInv
<1>8. CASE UNCHANGED vars
  BY <1>8 DEF vars, bookVars, ChainInv, Fresh
<1> QED BY <1>1, <1>2, <1>3, <1>4, <1>5, <1>6, <1>7, <1>8, StepCases

\* A change delivered in order: what it describes is folded in, or the book is held.
LEMMA FollowedFacts ==
  ASSUME BaseInv, OrderInv, TruthInv, LevelsInv,
         1 \in 1..Len(wire), Received(wire[1]), Followed(wire[1]),
         wire[1].kind # "book", snapshot # None, wire[1].ts >= snapshot.ts, ~gap'
  PROVE  /\ Fresh(wire[1])
         /\ snapshot' = snapshot
         /\ truth' = wire[1].after
         /\ Fold(truth, wire[1].change) = wire[1].after
         /\ LevelsInv'
<1>1. ~gap /\ wire[1].kind # "lost" /\ ~(wire[1].at.n < snapshot.at.n)
  BY DEF Followed
<1>2. Fresh(wire[1])
  BY <1>1 DEF OrderInv
<1>0. wire[1] \in Frames
  BY DEF BaseInv, WireType
<1>3. wire[1].kind \in Kinds
  BY <1>0 DEF Frames
<1>4. Applies(wire[1])
  BY <1>1, <1>3 DEF Kinds, Applies
<1>5. Fold(truth, wire[1].change) = wire[1].after
  BY <1>1, <1>2, <1>4 DEF TruthInv
<1>6. truth' = wire[1].after
  BY <1>1 DEF Followed
<1>7. snapshot' = snapshot
  BY DEF Received
<1>8. LevelsInv'
  <2>1. CASE Ignored(wire[1])
    <3>1. hold = "hard"
      BY <2>1, NumbersHold DEF Ignored, Numbers
    <3>2. hold' = hold
      BY <2>1 DEF Received
    <3> QED BY <3>1, <3>2 DEF LevelsInv
  <2>2. CASE ~Ignored(wire[1]) /\ wire[1].kind = "sizeless"
    <3>1. hold' = "hard"
      BY <2>2 DEF Received
    <3> QED BY <3>1 DEF LevelsInv
  <2>3. CASE ~Ignored(wire[1]) /\ wire[1].kind = "change"
    <3>1. levels' = Fold(levels, wire[1].change)
      BY <2>3 DEF Received
    <3>2. levels = truth
      BY <1>1, <2>3 DEF Ignored, LevelsInv
    <3> QED BY <1>5, <1>6, <3>1, <3>2 DEF LevelsInv
  <2> QED BY <1>4, <2>1, <2>2, <2>3 DEF Applies
<1> QED BY <1>2, <1>5, <1>6, <1>7, <1>8

\* A full book makes the levels delivered and the derived ones the same, and what
\* follows it on the wire follows from it.
LEMMA BookTruth ==
  ASSUME Numbers, OrderInv, ChainInv, NEW i, Taken(i), UNCHANGED venue,
         Received(wire[i]), Followed(wire[i]), wire[i].kind = "book",
         \A j \in 1..(i - 1) : wire[j].kind # "book"
  PROVE  TruthInv' /\ LevelsInv'
<1>1. /\ levels' = wire[i].after
      /\ truth' = wire[i].after
      /\ snapshot'.at = wire[i].at
  BY DEF Received, Reset, Followed
<1>2. /\ i \in 1..Len(wire)
      /\ Len(wire) \in Nat
      /\ Len(wire') = Len(wire) - 1
  BY DEF Taken, Numbers
<1>3. \A j \in 1..Len(wire') : j < i => j \in 1..Len(wire) /\ wire'[j] = wire[j]
  BY DEF Taken, Numbers
<1>4. \A j \in 1..Len(wire') : j >= i => j + 1 \in 1..Len(wire) /\ wire'[j] = wire[j + 1]
  BY DEF Taken, Numbers
<1>5. \A p \in 1..Len(wire) : wire[p].at.n \in Nat
  BY DEF Numbers
<1>6. \A p, q \in 1..Len(wire) : p < q => wire[p].at.n < wire[q].at.n
  BY DEF OrderInv
<1>7. Fresh(wire[i])
  BY <1>2 DEF OrderInv
<1> DEFINE new(f) == f.at.n > wire[i].at.n
<1>8. ASSUME NEW j \in 1..Len(wire'), j < i
      PROVE  ~new(wire'[j])
  BY <1>2, <1>3, <1>5, <1>6, <1>8
<1>9. ASSUME NEW j \in 1..Len(wire'), j >= i
      PROVE  new(wire'[j])
  <2>1. j + 1 \in 1..Len(wire) /\ wire'[j] = wire[j + 1] /\ i < j + 1
    BY <1>2, <1>4, <1>9
  <2> QED BY <1>2, <1>5, <1>6, <2>1
<1>10. ASSUME \A j \in 1..Len(wire') : ~new(wire'[j])
       PROVE  truth' = venue'
  <2>1. ~(i \in 1..Len(wire'))
    BY <1>2, <1>9, <1>10
  <2>2. i = Len(wire) /\ Len(wire) > 0
    BY <1>2, <2>1
  <2> QED BY <1>1, <1>7, <2>2 DEF ChainInv
<1>11. ASSUME NEW j \in 1..Len(wire'), new(wire'[j]), Applies(wire'[j]),
              j = 1 \/ ~new(wire'[j - 1])
       PROVE  Fold(truth', wire'[j].change) = wire'[j].after
  <2>1. j >= i
    BY <1>2, <1>8, <1>11
  <2>2. j = i
    <3>1. CASE j = 1
      BY <1>2, <2>1, <3>1
    <3>2. CASE j > i
      <4>1. j - 1 \in 1..Len(wire') /\ j - 1 >= i /\ j # 1
        BY <1>2, <3>2
      <4> QED BY <1>9, <1>11, <4>1
    <3> QED BY <1>2, <2>1, <3>2
  <2>3. wire'[j] = wire[i + 1] /\ i \in 1..(Len(wire) - 1)
    BY <1>2, <1>4, <2>2
  <2>4. Applies(wire[i + 1])
    BY <1>11, <2>3
  <2>5. Fold(wire[i].after, wire[i + 1].change) = wire[i + 1].after
    BY <1>7, <2>3, <2>4 DEF ChainInv
  <2> QED BY <1>1, <2>3, <2>5
<1>12. TruthInv'
  BY <1>1, <1>10, <1>11 DEF TruthInv, Fresh
<1> QED BY <1>1, <1>12 DEF LevelsInv

LEMMA TruthStep ==
  /\ BaseInv /\ OrderInv /\ ChainInv /\ TruthInv /\ LevelsInv
  /\ [Next]_vars
  => TruthInv' /\ LevelsInv'
<1> SUFFICES ASSUME BaseInv, OrderInv, ChainInv, TruthInv, LevelsInv, [Next]_vars
             PROVE  TruthInv' /\ LevelsInv'
  OBVIOUS
<1>1. TypeOK /\ WireType /\ Uncrossed(venue) /\ Numbers
  BY NumbersHold DEF BaseInv
<1>0. /\ \A p, q \in 1..Len(wire) : p < q => wire[p].at.n < wire[q].at.n
      /\ \A p \in 1..Len(wire) : wire[p].at.n \in Nat
      /\ Len(wire) \in Nat
      /\ snapshot.at.n \in Nat
  BY <1>1 DEF Numbers, OrderInv
<1>2. ASSUME NEW fs, NEW after, Emitted(fs, after)
      PROVE  TruthInv' /\ LevelsInv'
  <2>1. /\ Len(wire') = Len(wire) + Len(fs)
        /\ \A j \in 1..Len(wire) : wire'[j] = wire[j]
        /\ \A j \in 1..Len(wire') : j > Len(wire) =>
             j - Len(wire) \in 1..Len(fs) /\ wire'[j] = fs[j - Len(wire)]
    BY <1>1, <1>2, SentFacts
  <2>2. /\ Len(fs) \in Nat \ {0}
        /\ UNCHANGED <<levels, snapshot, hold, truth, gap>>
        /\ Fold(venue, fs[1].change) = fs[1].after
        /\ \A k \in 1..Len(fs) : fs[k].at.n = frames + k
    BY <1>2 DEF Emitted, bookVars
  <2>3. frames \in Nat /\ snapshot.at.n <= frames
    BY <1>1 DEF Numbers, OrderInv
  <2>4. ASSUME NEW j \in 1..Len(wire'), j > Len(wire)
        PROVE  Fresh(wire'[j])
    <3>1. j - Len(wire) \in 1..Len(fs) /\ wire'[j].at.n = frames + (j - Len(wire))
      BY <2>1, <2>2, <2>4
    <3> QED BY <1>0, <2>2, <2>3, <3>1 DEF Fresh
  <2>5. Len(wire) + 1 \in 1..Len(wire') /\ Len(wire) + 1 > Len(wire)
    BY <1>0, <2>1, <2>2
  <2>6. ~(\A j \in 1..Len(wire') : ~Fresh(wire'[j]))
    BY <2>4, <2>5
  <2>7. ASSUME snapshot # None, ~gap, NEW j \in 1..Len(wire'), Fresh(wire'[j]),
               Applies(wire'[j]), j = 1 \/ ~Fresh(wire'[j - 1])
        PROVE  Fold(truth, wire'[j].change) = wire'[j].after
    <3>1. CASE j <= Len(wire)
      <4>1. j \in 1..Len(wire) /\ (j = 1 \/ j - 1 \in 1..Len(wire))
        BY <1>0, <3>1
      <4>2. wire'[j] = wire[j] /\ (j = 1 \/ wire'[j - 1] = wire[j - 1])
        BY <2>1, <4>1
      <4> QED BY <2>7, <4>1, <4>2 DEF TruthInv
    <3>2. CASE j = Len(wire) + 1
      <4>1. \A p \in 1..Len(wire) : ~Fresh(wire[p])
        <5>1. CASE j = 1
          BY <1>0, <3>2, <5>1
        <5>2. CASE j # 1 /\ ~Fresh(wire'[j - 1])
          <6>1. Len(wire) \in 1..Len(wire) /\ j - 1 = Len(wire)
            BY <1>0, <3>2, <5>2
          <6>2. ~Fresh(wire[Len(wire)])
            BY <2>1, <5>2, <6>1
          <6>3. ASSUME NEW p \in 1..Len(wire)
                PROVE  ~Fresh(wire[p])
            <7>1. p = Len(wire) \/ p < Len(wire)
              BY <1>0
            <7> QED BY <1>0, <6>1, <6>2, <7>1 DEF Fresh
          <6> QED BY <6>3
        <5> QED BY <2>7, <5>1, <5>2
      <4>2. truth = venue
        BY <2>7, <4>1 DEF TruthInv
      <4>3. wire'[j] = fs[1]
        <5>1. j > Len(wire) /\ j - Len(wire) = 1
          BY <1>0, <3>2
        <5> QED BY <2>1, <5>1
      <4> QED BY <2>2, <4>2, <4>3
    <3>3. CASE j > Len(wire) + 1
      <4>1. j - 1 \in 1..Len(wire') /\ j - 1 > Len(wire) /\ j # 1
        BY <1>0, <2>1, <2>2, <3>3
      <4> QED BY <2>4, <2>7, <4>1
    <3> QED BY <1>0, <2>1, <2>2, <3>1, <3>2, <3>3
  <2> QED BY <2>2, <2>6, <2>7 DEF TruthInv, LevelsInv, Fresh
<1>3. ASSUME NEW i \in 1..Len(wire), Loses(i)
      PROVE  TruthInv' /\ LevelsInv'
  <2>1. /\ Len(wire') = Len(wire)
        /\ \A j \in 1..Len(wire) :
             /\ wire'[j].at = wire[j].at
             /\ Applies(wire'[j]) => wire'[j] = wire[j]
        /\ UNCHANGED <<venue, levels, snapshot, hold, truth, gap>>
    BY <1>3 DEF Loses, bookVars, Applies
  <2>2. \A j \in 1..Len(wire) : j = 1 \/ j - 1 \in 1..Len(wire)
    BY <1>0
  <2> QED BY <2>1, <2>2 DEF TruthInv, LevelsInv, Fresh
<1>4. ASSUME NEW i \in 1..Len(wire), Overtakes(i)
      PROVE  TruthInv' /\ LevelsInv'
  BY <1>1, <1>4, BookTruth DEF Overtakes
<1>5. CASE Delivers
  <2>1. 1 \in 1..Len(wire) /\ Taken(1) /\ Received(wire[1])
    BY <1>5 DEF Delivers, Taken
  <2>2. /\ Len(wire') = Len(wire) - 1
        /\ \A j \in 1..Len(wire') : j + 1 \in 1..Len(wire) /\ wire'[j] = wire[j + 1]
    BY <1>0, <2>1 DEF Taken
  <2>3. venue' = venue
    BY <1>5 DEF Delivers
  <2>4. CASE snapshot # None /\ wire[1].ts < snapshot.ts
    <3>1. ~Fresh(wire[1]) /\ wire[1].kind # "book"
      BY <1>1, <2>1, <2>4 DEF Numbers, OrderInv
    <3>2. UNCHANGED <<levels, snapshot, hold, truth, gap>>
      BY <1>5, <2>1, <2>4, <3>1 DEF Received, Ignored, Delivers
    <3>3. ASSUME \A j \in 1..Len(wire') : ~Fresh(wire'[j]),
                 NEW p \in 1..Len(wire)
          PROVE  ~Fresh(wire[p])
      <4>1. CASE p = 1
        BY <3>1, <4>1
      <4>2. CASE p # 1
        <5>1. p - 1 \in 1..Len(wire') /\ (p - 1) + 1 = p
          BY <1>0, <2>2, <4>2
        <5>2. wire'[p - 1] = wire[(p - 1) + 1]
          BY <2>2, <5>1
        <5> QED BY <3>3, <5>1, <5>2
      <4> QED BY <4>1, <4>2
    <3>4. ASSUME snapshot # None, ~gap, NEW j \in 1..Len(wire'),
                 Fresh(wire'[j]),
                 Applies(wire'[j]), j = 1 \/ ~Fresh(wire'[j - 1])
          PROVE  Fold(truth, wire'[j].change) = wire'[j].after
      <4>1. j + 1 \in 1..Len(wire) /\ wire'[j] = wire[j + 1] /\ (j + 1) - 1 = j
        BY <1>0, <2>2
      <4>2. ~Fresh(wire[(j + 1) - 1])
        <5>1. CASE j = 1
          BY <3>1, <4>1, <5>1
        <5>2. CASE j # 1
          <6>1. j - 1 \in 1..Len(wire') /\ (j - 1) + 1 = j
            BY <1>0, <2>2, <5>2
          <6>2. wire'[j - 1] = wire[(j - 1) + 1]
            BY <2>2, <6>1
          <6> QED BY <3>4, <4>1, <5>2, <6>1, <6>2
        <5> QED BY <5>1, <5>2
      <4>3. Fold(truth, wire[j + 1].change) = wire[j + 1].after
        BY <3>4, <4>1, <4>2 DEF TruthInv
      <4> QED BY <4>1, <4>3
    <3>5. TruthInv'
      <4>1. ASSUME snapshot # None, ~gap,
                   \A j \in 1..Len(wire') : ~Fresh(wire'[j])
            PROVE  truth = venue
        BY <3>3, <4>1 DEF TruthInv
      <4> QED BY <2>3, <3>2, <3>4, <4>1 DEF TruthInv, Fresh
    <3> QED BY <3>2, <3>5 DEF LevelsInv
  <2>5. CASE ~(snapshot # None /\ wire[1].ts < snapshot.ts)
    <3>1. Followed(wire[1])
      BY <1>5, <2>5 DEF Delivers
    <3>2. CASE wire[1].kind = "book"
      <4>1. \A j \in 1..(1 - 1) : wire[j].kind # "book"
        OBVIOUS
      <4> QED BY <1>1, <2>1, <2>3, <3>1, <3>2, <4>1, BookTruth
    <3>3. CASE wire[1].kind # "book" /\ (snapshot = None \/ gap')
      <4>1. snapshot' = snapshot
        BY <2>1, <3>3 DEF Received
      <4> QED BY <3>3, <4>1 DEF TruthInv, LevelsInv
    <3>4. CASE wire[1].kind # "book" /\ snapshot # None /\ ~gap'
      <4>1. wire[1].ts >= snapshot.ts
        BY <1>1, <2>1, <2>5, <3>4 DEF Numbers
      <4>2. /\ Fresh(wire[1])
            /\ snapshot' = snapshot
            /\ truth' = wire[1].after
            /\ LevelsInv'
        BY <2>1, <3>1, <3>4, <4>1, FollowedFacts
      <4>3. ASSUME NEW p \in 1..Len(wire)
            PROVE  Fresh(wire[p])
        <5>1. p = 1 \/ 1 < p
          BY <1>0
        <5> QED BY <1>0, <2>1, <4>2, <5>1 DEF Fresh
      <4>4. ASSUME \A j \in 1..Len(wire') : ~Fresh(wire'[j])
            PROVE  truth' = venue
        <5>1. ~(1 \in 1..Len(wire'))
          BY <2>2, <4>3, <4>4
        <5>2. Len(wire) = 1
          BY <1>0, <2>1, <2>2, <5>1
        <5> QED BY <4>2, <5>2 DEF ChainInv
      <4>5. ASSUME NEW j \in 1..Len(wire'), Applies(wire'[j]),
                   j = 1 \/ ~Fresh(wire'[j - 1])
            PROVE  Fold(truth', wire'[j].change) = wire'[j].after
        <5>1. j = 1
          <6>1. ASSUME j # 1 PROVE FALSE
            <7>1. j - 1 \in 1..Len(wire')
              BY <1>0, <2>2, <6>1
            <7> QED BY <2>2, <4>3, <4>5, <6>1, <7>1
          <6> QED BY <6>1
        <5>2. 1 \in 1..(Len(wire) - 1) /\ wire'[j] = wire[1 + 1]
          BY <1>0, <2>2, <5>1
        <5>3. Applies(wire[1 + 1])
          BY <4>5, <5>2
        <5>4. Fold(wire[1].after, wire[1 + 1].change) = wire[1 + 1].after
          BY <4>2, <5>2, <5>3 DEF ChainInv
        <5> QED BY <4>2, <5>2, <5>4
      <4>6. TruthInv'
        BY <2>3, <4>2, <4>4, <4>5 DEF TruthInv, Fresh
      <4> QED BY <4>2, <4>6
    <3> QED BY <3>2, <3>3, <3>4
  <2> QED BY <2>4, <2>5
<1>6. CASE Repeats
  <2>1. /\ 1 \in 1..Len(wire)
        /\ wire[1].kind # "book"
        /\ Received(wire[1])
        /\ Followed(wire[1])
        /\ wire' = wire
        /\ venue' = venue
    BY <1>6 DEF Repeats
  <2>2. snapshot' = snapshot
    BY <2>1 DEF Received
  <2>3. CASE snapshot = None \/ gap'
    BY <2>2, <2>3 DEF TruthInv, LevelsInv
  <2>4. CASE snapshot # None /\ ~gap'
    <3>1. wire[1].ts >= snapshot.ts
      BY <1>6, <2>4 DEF Repeats
    <3>2. /\ Fresh(wire[1])
          /\ truth' = wire[1].after
          /\ Fold(truth, wire[1].change) = wire[1].after
          /\ LevelsInv'
      BY <2>1, <2>4, <3>1, FollowedFacts
    <3>3. ASSUME NEW p \in 1..Len(wire)
          PROVE  Fresh(wire[p])
      <4>1. p = 1 \/ 1 < p
        BY <1>0
      <4> QED BY <1>0, <2>1, <3>2, <4>1 DEF Fresh
    <3>4. Fold(truth', wire[1].change) = wire[1].after
      <4>1. truth \in Levels /\ wire[1] \in Frames
        BY <1>1, <2>1 DEF TypeOK, WireType
      <4>2. wire[1].change \in Changes
        BY <4>1 DEF Frames
      <4> QED BY <3>2, <4>1, <4>2, FoldTwice
    <3>5. ASSUME NEW j \in 1..Len(wire), j = 1 \/ ~Fresh(wire[j - 1])
          PROVE  j = 1
      <4>1. ASSUME j # 1 PROVE FALSE
        <5>1. j - 1 \in 1..Len(wire)
          BY <1>0, <4>1
        <5> QED BY <3>3, <3>5, <4>1, <5>1
      <4> QED BY <4>1
    <3>6. TruthInv'
      BY <2>1, <2>2, <3>2, <3>4, <3>5 DEF TruthInv, Fresh
    <3> QED BY <3>2, <3>6
  <2> QED BY <2>3, <2>4
<1>7. CASE Reconnects
  BY <1>7 DEF Reconnects, TruthInv, LevelsInv
<1>8. CASE UNCHANGED vars
  BY <1>8 DEF vars, bookVars, TruthInv, LevelsInv, Fresh
<1> QED BY <1>1, <1>2, <1>3, <1>4, <1>5, <1>6, <1>7, <1>8, StepCases

-----------------------------------------------------------------------------
(* Theorems.                                                               *)

Inv == BaseInv /\ TouchInv /\ OrderInv /\ ChainInv /\ TruthInv /\ LevelsInv

LEMMA InvHolds == Spec => []Inv
<1>1. Init => Inv
  BY BaseInit, TouchInit, OrderInit, ChainInit DEF Inv
<1>2. Inv /\ [Next]_vars => Inv'
  BY BaseStep, TouchStep, OrderStep, ChainStep, TruthStep DEF Inv
<1> QED BY <1>1, <1>2, PTL DEF Spec

\* The book, the channel and the history keep their shapes; the events and the
\* faults stay within their bounds.
THEOREM TypeCorrect == Spec => []TypeOK
<1>1. Inv => TypeOK
  BY DEF Inv, BaseInv
<1> QED BY <1>1, InvHolds, PTL

\* price_state's touch is the one the venue had settled on with the frame whose
\* receipt dates it: a held book shows its last snapshot with the snapshot's age.
THEOREM TouchesAreDated == Spec => []DatedTruly
<1>1. Inv => DatedTruly
  BY DEF Inv, TouchInv
<1> QED BY <1>1, InvHolds, PTL

\* The crossed book apply may build between an order's placement and the full
\* book that follows its trade is never published.
THEOREM BooksNeverCross == Spec => []NeverCrossed
<1>1. Inv => NeverCrossed
  BY DEF Inv, TouchInv
<1> QED BY <1>1, InvHolds, PTL

\* With no frame lost or overtaken since the snapshot, a book not held has the
\* venue's levels: apply folds every change in, or holds until the next snapshot.
THEOREM DerivedBooksAreExact == Spec => []DerivedIsExact
<1>1. Inv => DerivedIsExact
  BY DEF Inv, LevelsInv, DerivedIsExact
<1> QED BY <1>1, InvHolds, PTL

=============================================================================
