------------------------- MODULE RestingExits_proofs -------------------------
(***************************************************************************)
(* The resting take-profit is sound for a position of any size, any prices *)
(* and any number of readings, listings, cancels and ticks that fail: the  *)
(* ledger books no lift the ask did not have, and shares that are held     *)
(* stay in the position map, outside the cases the properties name.        *)
(***************************************************************************)
EXTENDS RestingExits, TLAPS

USE SizeAssumption, BoundsAssumption

-----------------------------------------------------------------------------
(* The arithmetic of a booking.                                            *)

LEMMA MinTwo ==
  ASSUME NEW a \in Nat, NEW b \in Nat
  PROVE  /\ Min({a, b}) \in {a, b}
         /\ Min({a, b}) <= a
         /\ Min({a, b}) <= b
<1>1. \E x \in {a, b} : \A y \in {a, b} : x <= y
  <2>1. CASE a <= b
    BY <2>1
  <2>2. CASE b <= a
    BY <2>2
  <2> QED BY <2>1, <2>2
<1>2. Min({a, b}) \in {a, b} /\ \A y \in {a, b} : Min({a, b}) <= y
  BY <1>1 DEF Min
<1> QED BY <1>2

LEMMA MaxTwo ==
  ASSUME NEW a \in Nat, NEW b \in Nat
  PROVE  /\ Max({a, b}) \in {a, b}
         /\ Max({a, b}) >= a
         /\ Max({a, b}) >= b
<1>1. \E x \in {a, b} : \A y \in {a, b} : x >= y
  <2>1. CASE a >= b
    BY <2>1
  <2>2. CASE b >= a
    BY <2>2
  <2> QED BY <2>1, <2>2
<1>2. Max({a, b}) \in {a, b} /\ \A y \in {a, b} : Max({a, b}) >= y
  BY <1>1 DEF Max
<1> QED BY <1>2

LEMMA LessFacts ==
  ASSUME NEW a \in Nat, NEW b \in Nat
  PROVE  /\ Less(a, b) \in Nat
         /\ Less(a, b) <= a
         /\ a <= Less(a, b) + b
         /\ Less(a, b) > 0 => Less(a, b) + b = a
  BY DEF Less

\* What the order's matched size says is lifted, and not booked yet.
LEMMA LiftFacts ==
  ASSUME NEW found \in BOOLEAN, NEW matched \in Nat, NEW before \in Nat, NEW live \in Nat,
         NEW lift, lift = LiftSinceBooking(found, matched, before, live)
  PROVE  /\ lift \in Nat
         /\ lift <= live
         /\ lift > 0 => found /\ lift + before <= matched
<1>1. CASE found
  <2>1. lift = Min({Less(matched, before), live})
    BY <1>1 DEF LiftSinceBooking
  <2>2. Less(matched, before) \in Nat
    BY LessFacts
  <2>3. lift \in {Less(matched, before), live} /\ lift <= Less(matched, before) /\ lift <= live
    BY <2>1, <2>2, MinTwo
  <2>4. Less(matched, before) > 0 => Less(matched, before) + before = matched
    BY LessFacts
  <2>5. lift \in Nat /\ lift <= live
    BY <2>2, <2>3
  <2>6. lift > 0 => lift + before <= matched
    <3>1. CASE Less(matched, before) = 0
      BY <2>3, <2>5, <3>1
    <3>2. CASE Less(matched, before) > 0
      BY <2>2, <2>3, <2>4, <2>5, <3>2
    <3> QED BY <2>2, <3>1, <3>2
  <2> QED BY <1>1, <2>5, <2>6
<1>2. CASE ~found
  BY <1>2 DEF LiftSinceBooking
<1> QED BY <1>1, <1>2

LEMMA RemainingFacts ==
  ASSUME NEW live \in Nat, NEW sold \in Nat, NEW held \in Nat,
         NEW left, left = RemainingAfter(live, sold, held)
  PROVE  /\ left \in Nat
         /\ left <= live
         /\ \A n \in Nat : n + sold <= live /\ (held = 0 \/ n <= held) => n <= left
<1>1. /\ Less(live, sold) \in Nat
      /\ Less(live, sold) <= live
      /\ live <= Less(live, sold) + sold
  BY LessFacts
<1>2. CASE held = 0
  <2>1. left = Less(live, sold)
    BY <1>2 DEF RemainingAfter
  <2> QED BY <1>1, <1>2, <2>1
<1>3. CASE held # 0
  <2>1. left = Min({Less(live, sold), held})
    BY <1>3 DEF RemainingAfter
  <2>2. left \in {Less(live, sold), held} /\ left <= Less(live, sold) /\ left <= held
    BY <1>1, <2>1, MinTwo
  <2> QED BY <1>1, <1>3, <2>2
<1> QED BY <1>2, <1>3

-----------------------------------------------------------------------------
(* Records and the operation under way.                                    *)

LEMMA RecFacts ==
  ASSUME NEW r \in Rec \cup {NoRec}
  PROVE  /\ r \in Rec <=> r # NoRec
         /\ r # NoRec => /\ r.price \in Prices
                         /\ r.shares \in Shares
                         /\ r.booked \in Shares
                         /\ r.short \in 0 .. Confirmations
                         /\ r.most \in Shares
                         /\ r.vanished \in BOOLEAN
  BY DEF Rec, NoRec

LEMMA KeptFacts ==
  ASSUME NEW r \in Rec
  PROVE  /\ Kept(r) \in Rec
         /\ Kept(r) # NoRec
         /\ Kept(r).price = r.price
         /\ Kept(r).shares = r.shares
         /\ Kept(r).booked = r.booked
         /\ Kept(r).vanished
         /\ Kept(r).short = 0
<1> DEFINE a == [r EXCEPT !.vanished = TRUE]
           b == [a EXCEPT !.polled = FALSE]
           c == [b EXCEPT !.short = 0]
<1>1. 0 \in 0 .. Confirmations /\ 0 \in Shares
  BY DEF Confirmations, Shares
<1>2. /\ a \in Rec
      /\ a.price = r.price
      /\ a.shares = r.shares
      /\ a.booked = r.booked
      /\ a.vanished
  BY DEF Rec
<1>3. /\ b \in Rec
      /\ b.price = r.price
      /\ b.shares = r.shares
      /\ b.booked = r.booked
      /\ b.vanished
  BY <1>2 DEF Rec
<1> HIDE DEF b
<1>4. /\ c \in Rec
      /\ c.price = r.price
      /\ c.shares = r.shares
      /\ c.booked = r.booked
      /\ c.vanished
      /\ c.short = 0
  BY <1>1, <1>3 DEF Rec
<1> HIDE DEF c
<1>5. Kept(r) = [c EXCEPT !.most = 0]
  BY DEF Kept, a, b, c
<1>6. Kept(r) \in Rec /\ Kept(r).vanished
  BY <1>1, <1>4, <1>5 DEF Rec
<1>7. Kept(r) # NoRec
  BY <1>6, RecFacts
<1> QED BY <1>4, <1>5, <1>6, <1>7 DEF Rec

LEMMA NewRecFacts ==
  ASSUME NEW p \in Prices, pos \in Shares
  PROVE  /\ NewRec(p) \in Rec
         /\ NewRec(p) # NoRec
         /\ NewRec(p).price = p
         /\ NewRec(p).shares = pos
         /\ NewRec(p).booked = 0
         /\ ~NewRec(p).vanished
         /\ NewRec(p).short = 0
<1>1. NewRec(p) \in Rec
  BY DEF NewRec, Rec, Shares, Confirmations
<1>2. NewRec(p) # NoRec
  BY <1>1, RecFacts
<1> QED BY <1>1, <1>2 DEF NewRec

LEMMA AskFacts ==
  ASSUME NEW a \in Ask \cup {NoAsk}
  PROVE  /\ a.left \in Shares
         /\ a.matched \in Shares
         /\ a = NoAsk => a.left = 0 /\ a.matched = 0
         /\ a # NoAsk => a.price \in Prices /\ a.left > 0
  BY DEF Ask, NoAsk, Shares

Ops == [kind : Kinds, pc : Pcs, want : Prices \cup {None}, rec : Rec \cup {NoRec},
        found : BOOLEAN, matched : Shares]

LEMMA IdleFacts ==
  /\ Idle \in Ops
  /\ Idle.kind = "none"
  /\ Idle.pc = "idle"
  /\ Idle.rec = NoRec
  /\ ~Idle.found
  BY DEF Idle, Ops, Kinds, Pcs, Shares

LEMMA BeginsFacts ==
  ASSUME NEW kind \in Kinds, NEW pc \in Pcs, NEW p \in Prices \cup {None},
         NEW r \in Rec \cup {NoRec}, Begins(kind, pc, p, r)
  PROVE  /\ op' \in Ops
         /\ op'.kind = kind
         /\ op'.pc = pc
         /\ op'.want = p
         /\ op'.rec = r
         /\ ~op'.found
  BY IdleFacts DEF Begins, Idle, Ops

LEMMA OpMoves ==
  ASSUME NEW o \in Ops, NEW pc \in Pcs
  PROVE  LET n == [o EXCEPT !.pc = pc]
         IN  /\ n \in Ops
             /\ n.pc = pc
             /\ n.kind = o.kind
             /\ n.want = o.want
             /\ n.rec = o.rec
             /\ n.found = o.found
             /\ n.matched = o.matched
  BY DEF Ops

LEMMA ListFacts ==
  ASSUME NEW f \in BOOLEAN, NEW m \in Shares, NEW pc \in Pcs, op \in Ops,
         op' = [op EXCEPT !.found = f, !.matched = m, !.pc = pc]
  PROVE  /\ op' \in Ops
         /\ op'.pc = pc
         /\ op'.kind = op.kind
         /\ op'.want = op.want
         /\ op'.rec = op.rec
         /\ op'.found = f
         /\ op'.matched = m
<1> DEFINE a == [op EXCEPT !.found = f]
           b == [a EXCEPT !.matched = m]
<1>1. a \in Ops /\ a.kind = op.kind /\ a.want = op.want /\ a.rec = op.rec /\ a.found = f
  BY DEF Ops
<1>2. op' = [b EXCEPT !.pc = pc]
  OBVIOUS
<1>3. b = [a EXCEPT !.matched = m]
  OBVIOUS
<1> HIDE DEF a, b
<1>4. /\ b \in Ops
      /\ b.kind = op.kind
      /\ b.want = op.want
      /\ b.rec = op.rec
      /\ b.found = f
      /\ b.matched = m
  BY <1>1, <1>3 DEF Ops
<1> QED BY <1>2, <1>4 DEF Ops

LEMMA RestFacts ==
  ASSUME op \in Ops, op' = [op EXCEPT !.pc = "place", !.rec = NoRec]
  PROVE  /\ op' \in Ops
         /\ op'.pc = "place"
         /\ op'.kind = op.kind
         /\ op'.want = op.want
         /\ op'.rec = NoRec
<1> DEFINE a == [op EXCEPT !.pc = "place"]
<1>1. a \in Ops /\ a.pc = "place" /\ a.kind = op.kind /\ a.want = op.want
  BY DEF Ops, Pcs
<1>2. op' = [a EXCEPT !.rec = NoRec]
  OBVIOUS
<1> HIDE DEF a
<1> QED BY <1>1, <1>2 DEF Ops

LEMMA SellFacts ==
  ASSUME NEW n \in Shares, op \in Ops,
         op' = [op EXCEPT !.pc = "sold", !.matched = n]
  PROVE  /\ op' \in Ops
         /\ op'.pc = "sold"
         /\ op'.kind = op.kind
         /\ op'.want = op.want
         /\ op'.rec = op.rec
         /\ op'.matched = n
<1> DEFINE a == [op EXCEPT !.pc = "sold"]
<1>1. /\ a \in Ops
      /\ a.pc = "sold"
      /\ a.kind = op.kind
      /\ a.want = op.want
      /\ a.rec = op.rec
  BY DEF Ops, Pcs
<1>2. op' = [a EXCEPT !.matched = n]
  OBVIOUS
<1> HIDE DEF a
<1> QED BY <1>1, <1>2 DEF Ops

\* The sweep's reading: it counts up, and the largest one is kept, while all fall short.
LEMMA PollFacts ==
  ASSUME NEW r \in Rec, NEW held \in Shares, NEW q, q = Polled(r, held)
  PROVE  /\ q \in Rec
         /\ q.price = r.price
         /\ q.shares = r.shares
         /\ q.booked = r.booked
         /\ q.vanished = r.vanished
         /\ q.short > 0 => held < r.shares /\ q.most >= held
         /\ q.short > 0 /\ r.short = 0 => q.short = 1 /\ q.most = held
         /\ q.short > 0 /\ r.short > 0 =>
              q.short = Confirmations /\ q.most \in {r.most, held} /\ q.most >= r.most
<1>0. /\ r.shares \in Nat
      /\ r.most \in Shares
      /\ r.short \in 0 .. Confirmations
      /\ held \in Nat
      /\ \A n \in Shares : n \in Nat
  BY DEF Rec, Shares
<1> DEFINE a == [r EXCEPT !.polled = TRUE]
<1>1. /\ a \in Rec
      /\ a.price = r.price
      /\ a.shares = r.shares
      /\ a.booked = r.booked
      /\ a.vanished = r.vanished
      /\ a.short = r.short
      /\ a.most = r.most
  BY DEF Rec
<1>2. CASE held < r.shares
  <2> DEFINE s == Min({r.short + 1, Confirmations})
             m == IF r.short = 0 THEN held ELSE Max({r.most, held})
             b == [a EXCEPT !.short = s]
  <2>1. /\ s \in 1 .. Confirmations
        /\ r.short = 0 => s = 1
        /\ r.short > 0 => s = Confirmations
    <3>1. r.short + 1 \in Nat /\ Confirmations \in Nat
      BY <1>0 DEF Confirmations
    <3>2. s \in {r.short + 1, Confirmations} /\ s <= r.short + 1 /\ s <= Confirmations
      BY <3>1, MinTwo
    <3> QED BY <1>0, <3>2 DEF Confirmations
  <2>2. /\ m \in Shares
        /\ m >= held
        /\ r.short = 0 => m = held
        /\ r.short > 0 => m \in {r.most, held} /\ m >= r.most
    <3>1. /\ Max({r.most, held}) \in {r.most, held}
          /\ Max({r.most, held}) >= held
          /\ Max({r.most, held}) >= r.most
      BY <1>0, MaxTwo
    <3> QED BY <1>0, <3>1
  <2>3. q = [r EXCEPT !.polled = TRUE, !.short = Min({@ + 1, Confirmations}),
                      !.most = IF r.short = 0 THEN held ELSE Max({@, held})]
    BY <1>2 DEF Polled
  <2>4. q = [b EXCEPT !.most = m]
    BY <1>1, <2>3
  <2>5. b = [a EXCEPT !.short = s]
    OBVIOUS
  <2> HIDE DEF s, m, a, b
  <2>6. /\ b \in Rec
        /\ b.price = r.price
        /\ b.shares = r.shares
        /\ b.booked = r.booked
        /\ b.vanished = r.vanished
        /\ b.short = s
    BY <1>1, <2>1, <2>5 DEF Rec, Confirmations
  <2>7. /\ q \in Rec
        /\ q.price = r.price
        /\ q.shares = r.shares
        /\ q.booked = r.booked
        /\ q.vanished = r.vanished
        /\ q.short = s
        /\ q.most = m
    BY <2>2, <2>4, <2>6 DEF Rec
  <2> QED BY <1>2, <2>1, <2>2, <2>7
<1>3. CASE ~(held < r.shares)
  <2> DEFINE b == [a EXCEPT !.short = 0]
  <2>1. q = [b EXCEPT !.most = 0]
    BY <1>3 DEF Polled
  <2>2. 0 \in 0 .. Confirmations /\ 0 \in Shares /\ b = [a EXCEPT !.short = 0]
    BY DEF Confirmations, Shares
  <2> HIDE DEF a, b
  <2>3. /\ b \in Rec
        /\ b.price = r.price
        /\ b.shares = r.shares
        /\ b.booked = r.booked
        /\ b.vanished = r.vanished
        /\ b.short = 0
    BY <1>1, <2>2 DEF Rec
  <2>4. /\ q \in Rec
        /\ q.price = r.price
        /\ q.shares = r.shares
        /\ q.booked = r.booked
        /\ q.vanished = r.vanished
        /\ q.short = 0
    BY <2>1, <2>2, <2>3 DEF Rec
  <2> QED BY <2>4
<1> QED BY <1>2, <1>3

LEMMA RebaseFacts ==
  ASSUME NEW r \in Rec, NEW sold \in Nat, r.most + sold = r.shares,
         r.shares + r.booked <= Size, NEW q, q = Rebased(r, sold)
  PROVE  /\ q \in Rec \cup {NoRec}
         /\ q # NoRec => /\ q.price = r.price
                         /\ q.shares = r.most
                         /\ q.booked = r.booked + sold
                         /\ q.vanished = r.vanished
                         /\ q.short = r.short
                         /\ q.most = r.most
<1>1. CASE r.most = 0
  BY <1>1 DEF Rebased
<1>2. CASE r.most # 0
  <2> DEFINE a == [r EXCEPT !.shares = r.most]
  <2>0. r.booked \in Nat /\ r.most \in Shares /\ r.shares \in Nat
    BY DEF Rec, Shares
  <2>1. /\ a \in Rec
        /\ a.price = r.price
        /\ a.shares = r.most
        /\ a.booked = r.booked
        /\ a.vanished = r.vanished
        /\ a.short = r.short
        /\ a.most = r.most
    BY DEF Rec
  <2>2. r.booked + sold \in Shares
    BY <2>0 DEF Shares
  <2>3. q = [r EXCEPT !.shares = r.most, !.booked = @ + sold]
    BY <1>2 DEF Rebased
  <2>4. q = [a EXCEPT !.booked = r.booked + sold]
    BY <2>1, <2>3
  <2> HIDE DEF a
  <2> QED BY <2>1, <2>2, <2>4 DEF Rec
<1> QED BY <1>1, <1>2

-----------------------------------------------------------------------------
(* Types, and what each stage of an operation has in its hands.            *)

\* The ask is backed by the wallet, and nothing is counted beyond the position.
AskInv ==
  /\ ask.left <= wallet
  /\ ask.matched + wallet <= Size
  /\ \A p \in Prices : lifted[p] + wallet <= Size

RecInv ==
  /\ rec # NoRec => rec.shares + rec.booked <= Size
  /\ op.rec # NoRec => op.rec.shares + op.rec.booked <= Size

\* What an operation is about: the record it pulls is the standing one until it is
\* dropped for the reading; a position is there to reprice and to exit.
OpInv ==
  /\ op.kind = "none" => op.pc = "idle"
  /\ op.pc = "idle" => op = Idle
  /\ op.kind = "reprice" => /\ op.pc \in {"list", "cancel", "read", "place", "placed"}
                            /\ op.want \in Prices
                            /\ pos > 0
  /\ op.kind = "exit" => /\ op.pc \in {"list", "cancel", "read", "sell", "sold", "refused"}
                         /\ pos > 0
  /\ op.kind = "down" => op.pc \in {"all", "list", "cancel", "read"}
  /\ op.pc \in {"all", "list", "cancel"} => rec = op.rec
  /\ op.pc \in {"all", "list", "cancel", "read"} => op.rec # NoRec
  /\ op.pc \in {"read", "place", "placed"} => rec = NoRec
  /\ op.pc \in {"sell", "sold", "refused"} =>
       rec = NoRec \/ (op.rec # NoRec /\ rec = Kept(op.rec))
  /\ op.pc = "sold" => op.matched <= pos

\* What TypeOK says of every variable but due, which these proofs do not use.
Shapes ==
  /\ ask \in Ask \cup {NoAsk} /\ wallet \in Shares /\ seen \in wallet .. Size
  /\ lifted \in [Prices -> Shares] /\ booked \in [Prices -> Nat]
  /\ pos \in Shares /\ rec \in Rec \cup {NoRec} /\ op \in Ops
  /\ fails \in 0 .. MaxFails /\ faults \in 0 .. MaxFaults
  /\ hist \subseteq {"raised", "misread", "closed", "again", "unheard", "blind", "dropped"}

TypeInv == Shapes /\ AskInv /\ RecInv /\ OpInv

\* The types, as the later proofs use them.
Numbers ==
  /\ pos \in Nat
  /\ wallet \in Nat
  /\ seen \in Nat
  /\ wallet <= seen
  /\ ask.left \in Nat
  /\ ask.matched \in Nat
  /\ ask = NoAsk => ask.left = 0 /\ ask.matched = 0
  /\ ask # NoAsk => ask.price \in Prices
  /\ \A p \in Prices : lifted[p] \in Nat /\ booked[p] \in Nat
  /\ lifted \in [Prices -> Nat]
  /\ booked \in [Prices -> Nat]
  /\ rec # NoRec => /\ rec \in Rec
                    /\ rec.price \in Prices
                    /\ rec.shares \in Nat
                    /\ rec.booked \in Nat
                    /\ rec.short \in 0 .. Confirmations
                    /\ rec.most \in Nat
  /\ op \in Ops
  /\ op.rec # NoRec => /\ op.rec \in Rec
                       /\ op.rec.price \in Prices
                       /\ op.rec.shares \in Nat
                       /\ op.rec.booked \in Nat
  /\ op.found \in BOOLEAN
  /\ op.matched \in Nat
  /\ fails \in Nat

LEMMA NumbersHold == TypeInv => Numbers
<1> SUFFICES ASSUME TypeInv PROVE Numbers
  OBVIOUS
<1>1. /\ ask \in Ask \cup {NoAsk}
      /\ wallet \in Shares
      /\ seen \in wallet .. Size
      /\ lifted \in [Prices -> Shares]
      /\ booked \in [Prices -> Nat]
      /\ pos \in Shares
      /\ rec \in Rec \cup {NoRec}
      /\ op \in Ops
      /\ fails \in Nat
  BY DEF TypeInv, Shapes, Ops
<1>2. \A n \in Shares : n \in Nat
  BY DEF Shares
<1>3. seen \in Nat /\ wallet <= seen
  BY <1>1, <1>2
<1>4. op.rec \in Rec \cup {NoRec} /\ op.found \in BOOLEAN /\ op.matched \in Shares
  BY <1>1 DEF Ops
<1>5. /\ rec # NoRec => /\ rec \in Rec
                        /\ rec.price \in Prices
                        /\ rec.shares \in Shares
                        /\ rec.booked \in Shares
                        /\ rec.short \in 0 .. Confirmations
                        /\ rec.most \in Shares
      /\ op.rec # NoRec => /\ op.rec \in Rec
                           /\ op.rec.price \in Prices
                           /\ op.rec.shares \in Shares
                           /\ op.rec.booked \in Shares
  BY <1>1, <1>4, RecFacts
<1>6. /\ ask.left \in Shares
      /\ ask.matched \in Shares
      /\ ask = NoAsk => ask.left = 0 /\ ask.matched = 0
      /\ ask # NoAsk => ask.price \in Prices
  BY <1>1, AskFacts
<1>7. /\ \A p \in Prices : lifted[p] \in Nat /\ booked[p] \in Nat
      /\ lifted \in [Prices -> Nat]
      /\ booked \in [Prices -> Nat]
  BY <1>1, <1>2
<1> QED BY <1>1, <1>2, <1>3, <1>4, <1>5, <1>6, <1>7 DEF Numbers

-----------------------------------------------------------------------------
(* What the steps that book a lift do.                                     *)

\* A lift read off the order's matched size; one read off the wallet.
Matched(sold) == op.found /\ sold + op.rec.booked <= op.matched
Dropped(sold, from, held) == held = seen /\ sold + held = from

LEMMA BooksFacts ==
  ASSUME Numbers, op.rec # NoRec, NEW n \in Nat, Books(n)
  PROVE  /\ booked' \in [Prices -> Nat]
         /\ booked'[op.rec.price] = booked[op.rec.price] + n
         /\ \A p \in Prices : p # op.rec.price => booked'[p] = booked[p]
<1>1. op.rec.price \in Prices
  BY DEF Numbers
<1>2. booked' = [booked EXCEPT ![op.rec.price] = booked[op.rec.price] + n]
  BY DEF Books
<1>3. \A p \in Prices : booked'[p] = IF p = op.rec.price THEN booked[p] + n ELSE booked[p]
  BY <1>1, <1>2 DEF Numbers
<1>4. booked \in [Prices -> Nat]
  BY <1>2 DEF Numbers
<1> QED BY <1>1, <1>2, <1>3, <1>4 DEF Numbers

Repriced(sold, held) ==
  /\ op.pc = "read"
  /\ op.kind = "reprice"
  /\ held = seen \/ held = 0
  /\ sold \in Nat
  /\ sold > 0 => Matched(sold) \/ Dropped(sold, op.rec.shares, held)
  /\ fails' \in 0 .. MaxFails
  /\ faults' \in 0 .. MaxFaults
  /\ \/ /\ sold > 0
        /\ Books(sold)
        /\ pos' = RemainingAfter(pos, sold, held) \/ pos' = pos
        /\ rec' = rec
        /\ op' = Idle
     \/ /\ rec' = Kept(op.rec)
        /\ op' = Idle
        /\ UNCHANGED <<pos, booked>>
     \/ /\ op' = [op EXCEPT !.pc = "place", !.rec = NoRec]
        /\ UNCHANGED <<pos, rec, booked>>
  /\ UNCHANGED <<ask, wallet, seen, lifted, hist>>

LEMMA RepriceEffect ==
  ASSUME TypeInv, NEW held \in Shares, ReadReprice(held)
  PROVE  \E sold : Repriced(sold, held)
<1> DEFINE lift == LiftSinceBooking(op.found, op.matched, op.rec.booked, pos)
           drop == ChainDrop(op.rec.shares, held)
           sold == Max({lift, drop})
<1>1. op.pc = "read" /\ op.kind = "reprice" /\ (held = seen \/ held = 0)
  BY DEF ReadReprice, Reads
<1>2. Numbers /\ op.rec # NoRec /\ held \in Nat
  BY <1>1, NumbersHold DEF TypeInv, OpInv, Shares
<1>3. lift \in Nat /\ (lift > 0 => Matched(lift))
  <2>1. /\ op.found \in BOOLEAN
        /\ op.matched \in Nat
        /\ op.rec.booked \in Nat
        /\ pos \in Nat
    BY <1>2 DEF Numbers
  <2> QED BY <2>1, LiftFacts DEF Matched
<1>4. drop \in Nat /\ (drop > 0 => Dropped(drop, op.rec.shares, held))
  <2>1. CASE held = 0
    BY <2>1 DEF ChainDrop
  <2>2. CASE held # 0
    <3>1. drop = Less(op.rec.shares, held) /\ op.rec.shares \in Nat
      BY <1>2, <2>2 DEF ChainDrop, Numbers
    <3> QED BY <1>1, <1>2, <2>2, <3>1, LessFacts DEF Dropped
  <2> QED BY <2>1, <2>2
<1>5. sold \in {lift, drop}
  BY <1>3, <1>4, MaxTwo
<1>6. /\ \/ /\ sold > 0
            /\ Books(sold)
            /\ Lowers(RemainingAfter(pos, sold, held)) \/ CutBetween
            /\ UNCHANGED rec /\ Ends
         \/ /\ rec' = Kept(op.rec)
            /\ UNCHANGED <<pos, booked, faults>> /\ Ends
         \/ /\ op' = [op EXCEPT !.pc = "place", !.rec = NoRec]
            /\ UNCHANGED <<pos, rec, booked, faults>>
      /\ UNCHANGED <<venue, hist>>
      /\ Reads(held)
  BY DEF ReadReprice
<1> HIDE DEF lift, drop, sold
<1>7. sold \in Nat /\ (sold > 0 => Matched(sold) \/ Dropped(sold, op.rec.shares, held))
  BY <1>3, <1>4, <1>5
<1>8. fails' \in 0 .. MaxFails /\ faults' \in 0 .. MaxFaults
  <2>1. fails \in 0 .. MaxFails /\ faults \in 0 .. MaxFaults
    BY DEF TypeInv, Shapes
  <2> QED BY <1>6, <2>1 DEF Reads, Lowers, CutBetween, Fault
<1>9. Repriced(sold, held)
  BY <1>1, <1>6, <1>7, <1>8 DEF Repriced, Lowers, CutBetween, Ends, venue
<1> QED BY <1>9

Exited(sold, held) ==
  /\ op.pc = "read"
  /\ op.kind = "exit"
  /\ held = seen
  /\ sold \in Nat
  /\ sold > 0 => Matched(sold) \/ Dropped(sold, pos, held)
  /\ \/ /\ sold > 0
        /\ Books(sold)
        /\ rec' = rec
        /\ \/ pos' = held /\ held = 0 /\ op' = Idle
           \/ pos' = held /\ held > 0 /\ op' = [op EXCEPT !.pc = "sell"]
           \/ pos' = pos /\ op' = Idle
        /\ hist' \in {hist, hist \cup {"raised"}}
        /\ "raised" \in hist' \/ pos' + sold <= pos
     \/ /\ rec' = rec \/ rec' = Kept(op.rec)
        /\ op' = [op EXCEPT !.pc = "sell"]
        /\ UNCHANGED <<pos, booked, hist>>
  /\ faults' \in 0 .. MaxFaults
  /\ UNCHANGED <<ask, wallet, seen, lifted, fails>>

LEMMA ExitEffect ==
  ASSUME TypeInv, NEW held \in Shares, ReadExit(held)
  PROVE  \E sold : Exited(sold, held)
<1> DEFINE lift == LiftSinceBooking(op.found, op.matched, op.rec.booked, pos)
           sold == Max({Less(pos, held), lift})
<1>1. op.pc = "read" /\ op.kind = "exit" /\ held = seen /\ fails' = fails
  BY DEF ReadExit, ReadsAgain
<1>2. Numbers /\ op.rec # NoRec /\ held \in Nat /\ pos \in Nat
  BY <1>1, NumbersHold DEF TypeInv, OpInv, Shares, Numbers
<1>3. lift \in Nat /\ lift <= pos /\ (lift > 0 => Matched(lift))
  <2>1. /\ op.found \in BOOLEAN
        /\ op.matched \in Nat
        /\ op.rec.booked \in Nat
        /\ pos \in Nat
    BY <1>2 DEF Numbers
  <2> QED BY <2>1, LiftFacts DEF Matched
<1>4. /\ Less(pos, held) \in Nat
      /\ Less(pos, held) <= pos
      /\ Less(pos, held) > 0 => Dropped(Less(pos, held), pos, held)
  BY <1>1, <1>2, LessFacts DEF Dropped
<1>5. sold \in {Less(pos, held), lift}
  BY <1>3, <1>4, MaxTwo
<1>6. /\ \/ /\ sold > 0
            /\ Books(sold)
            /\ UNCHANGED rec
            /\ \/ /\ Lowers(held)
                  /\ op' = IF held = 0 THEN Idle ELSE [op EXCEPT !.pc = "sell"]
               \/ CutBetween /\ Ends
            /\ hist' = IF pos' > Less(pos, sold) THEN hist \cup {"raised"} ELSE hist
         \/ /\ sold = 0
            /\ rec' = IF op.found THEN rec ELSE Kept(op.rec)
            /\ op' = [op EXCEPT !.pc = "sell"]
            /\ UNCHANGED <<pos, booked, faults, hist>>
      /\ UNCHANGED venue
  BY DEF ReadExit, LiftAtPull
<1> HIDE DEF lift, sold
<1>7. sold \in Nat /\ sold <= pos /\ (sold > 0 => Matched(sold) \/ Dropped(sold, pos, held))
  BY <1>3, <1>4, <1>5
<1>8. faults' \in 0 .. MaxFaults
  <2>1. faults \in 0 .. MaxFaults
    BY DEF TypeInv, Shapes
  <2> QED BY <1>6, <2>1 DEF Lowers, CutBetween, Fault
<1>9. Exited(sold, held)
  <2>1. CASE sold > 0
    <3>1. /\ Books(sold)
          /\ rec' = rec
          /\ \/ pos' = held /\ held = 0 /\ op' = Idle
             \/ pos' = held /\ held > 0 /\ op' = [op EXCEPT !.pc = "sell"]
             \/ pos' = pos /\ op' = Idle
          /\ hist' = IF pos' > Less(pos, sold) THEN hist \cup {"raised"} ELSE hist
      BY <1>2, <1>6, <2>1 DEF Lowers, CutBetween, Ends
    <3>3. "raised" \in hist' \/ pos' + sold <= pos
      <4>1. PICK d \in Nat : d = Less(pos, sold)
        BY <1>2, <1>7, LessFacts
      <4>2. d + sold = pos
        BY <1>2, <1>7, <2>1, <4>1 DEF Less
      <4>3. CASE pos' > d
        BY <3>1, <4>1, <4>3
      <4>4. CASE ~(pos' > d)
        <5>1. CASE pos' = held
          BY <1>2, <1>7, <4>2, <4>4, <5>1
        <5>2. CASE pos' = pos
          BY <1>2, <1>7, <4>2, <4>4, <5>2
        <5> QED BY <3>1, <5>1, <5>2
      <4> QED BY <4>3, <4>4
    <3>4. hist' \in {hist, hist \cup {"raised"}}
      BY <3>1
    <3> QED BY <1>1, <1>6, <1>7, <1>8, <2>1, <3>1, <3>3, <3>4 DEF Exited, venue
  <2>2. CASE sold = 0
    BY <1>1, <1>6, <1>7, <1>8, <2>2 DEF Exited, venue
  <2> QED BY <1>7, <2>1, <2>2
<1> QED BY <1>9

Downed(sold, held) ==
  /\ op.pc = "read"
  /\ op.kind = "down"
  /\ sold \in Nat
  /\ sold > 0 => Matched(sold) \/ Dropped(sold, op.rec.shares, held)
  /\ Books(sold)
  /\ pos' = IF sold > 0 THEN 0 ELSE pos
  /\ sold > 0 /\ wallet > 0 => "closed" \in hist'
  /\ sold > 0 /\ pos = 0 => "again" \in hist'
  /\ hist \subseteq hist'
  /\ hist' \subseteq hist \cup {"closed", "again"}
  /\ op' = Idle
  /\ UNCHANGED <<ask, wallet, seen, lifted, rec, fails, faults>>

LEMMA DownEffect ==
  ASSUME TypeInv, NEW held \in Shares, ReadDown(held)
  PROVE  \E sold : Downed(sold, held)
<1> DEFINE matched == LiftSinceBooking(op.found, op.matched, op.rec.booked, op.rec.shares)
           asks == matched = 0 /\ op.rec.vanished
           sold == IF asks THEN Less(op.rec.shares, held) ELSE matched
<1>1. op.pc = "read" /\ op.kind = "down"
  BY DEF ReadDown
<1>2. /\ Numbers
      /\ op.rec # NoRec
      /\ held \in Nat
      /\ op.rec.shares \in Nat
  BY <1>1, NumbersHold DEF TypeInv, OpInv, Shares, Numbers
<1>3. matched \in Nat /\ (matched > 0 => Matched(matched))
  <2>1. /\ op.found \in BOOLEAN
        /\ op.matched \in Nat
        /\ op.rec.booked \in Nat
    BY <1>2 DEF Numbers
  <2> QED BY <1>2, <2>1, LiftFacts DEF Matched
<1>4. /\ IF asks THEN ReadsAgain(held) ELSE held = 0 /\ UNCHANGED fails
      /\ Books(sold)
      /\ pos' = IF sold > 0 THEN 0 ELSE pos
      /\ hist' = hist \cup (IF sold > 0 /\ wallet > 0 THEN {"closed"} ELSE {})
                      \cup (IF sold > 0 /\ pos = 0 THEN {"again"} ELSE {})
      /\ op' = Idle
      /\ UNCHANGED <<ask, wallet, seen, lifted, rec, faults>>
  BY DEF ReadDown, Ends, venue
<1>5. sold \in Nat /\ (sold > 0 => Matched(sold) \/ Dropped(sold, op.rec.shares, held))
  <2>1. CASE asks
    <3>1. held = seen /\ sold = Less(op.rec.shares, held)
      BY <1>4, <2>1 DEF ReadsAgain
    <3> QED BY <1>2, <3>1, LessFacts DEF Dropped
  <2>2. CASE ~asks
    BY <1>3, <2>2
  <2> QED BY <2>1, <2>2
<1>6. fails' = fails
  BY <1>4 DEF ReadsAgain
<1> HIDE DEF matched, asks, sold
<1>7. Downed(sold, held)
  BY <1>1, <1>4, <1>5, <1>6 DEF Downed
<1> QED BY <1>7

Swept(sold, held) ==
  /\ op.pc = "idle"
  /\ rec # NoRec
  /\ \/ rec' = NoRec /\ pos = 0 /\ UNCHANGED <<pos, booked, fails>>
     \/ /\ pos > 0
        /\ \/ held = seen /\ fails' = fails
           \/ held = 0 /\ fails' = fails + 1 /\ fails' <= MaxFails
        /\ \/ rec' = Polled(rec, held) /\ UNCHANGED <<pos, booked>>
           \/ /\ Polled(rec, held).short = Confirmations
              /\ sold \in Nat \ {0}
              /\ Polled(rec, held).most + sold = rec.shares
              /\ booked' = [booked EXCEPT ![rec.price] = @ + sold]
              /\ pos' = Polled(rec, held).most
              /\ rec' = Rebased(Polled(rec, held), sold)
  /\ hist' \in {hist, hist \cup {"blind"}}
  /\ "blind" \in hist' \/ ~Blind(held)
  /\ UNCHANGED <<ask, wallet, seen, lifted, op, faults>>

LEMMA SweepEffect ==
  ASSUME TypeInv, NEW held \in Shares, Sweep(held)
  PROVE  \E sold : Swept(sold, held)
<1>1. op.pc = "idle" /\ rec # NoRec
  BY DEF Sweep
<1>2. Numbers /\ rec \in Rec
  BY <1>1, NumbersHold DEF Numbers
<1>h. hist' \in {hist, hist \cup {"blind"}} /\ ("blind" \in hist' \/ ~Blind(held))
  BY DEF Sweep
<1>3. CASE pos = 0
  <2>1. Swept(0, held)
    BY <1>1, <1>3, <1>h DEF Sweep, Swept, venue
  <2> QED BY <2>1
<1>4. CASE pos # 0
  <2> DEFINE r == Polled(rec, held)
             sold == Less(r.shares, r.most)
  <2>1. r \in Rec /\ r.price = rec.price /\ r.shares = rec.shares
    BY <1>2, PollFacts
  <2>2. r.shares \in Nat /\ r.most \in Nat /\ r.short \in 0 .. Confirmations
    BY <2>1 DEF Rec, Shares
  <2>3. sold \in Nat /\ (sold > 0 => sold + r.most = r.shares)
    BY <2>2, LessFacts
  <2>4. /\ Reads(held)
        /\ IF r.short < Confirmations \/ sold = 0
           THEN rec' = r /\ UNCHANGED <<pos, booked>>
           ELSE /\ booked' = [booked EXCEPT ![r.price] = @ + sold]
                /\ pos' = r.most
                /\ rec' = Rebased(r, sold)
        /\ UNCHANGED <<ask, wallet, seen, lifted, op, faults>>
    BY <1>4 DEF Sweep, venue
  <2>5. /\ pos > 0
        /\ \/ held = seen /\ fails' = fails
           \/ held = 0 /\ fails' = fails + 1 /\ fails' <= MaxFails
    BY <1>2, <1>4, <2>4 DEF Reads, Numbers
  <2>6. r = Polled(rec, held)
    OBVIOUS
  <2> HIDE DEF r, sold
  <2>7. CASE r.short < Confirmations \/ sold = 0
    BY <1>1, <1>h, <2>4, <2>5, <2>6, <2>7 DEF Swept
  <2>8. CASE ~(r.short < Confirmations \/ sold = 0)
    <3>1. r.short = Confirmations /\ sold \in Nat \ {0} /\ r.most + sold = rec.shares
      BY <2>1, <2>2, <2>3, <2>8 DEF Confirmations
    <3> QED BY <1>1, <1>h, <2>1, <2>4, <2>5, <2>6, <2>8, <3>1 DEF Swept
  <2> QED BY <2>7, <2>8
<1> QED BY <1>3, <1>4

-----------------------------------------------------------------------------
(* Every step keeps the types.                                             *)

VenueOK ==
  /\ ask \in Ask \cup {NoAsk}
  /\ wallet \in Shares
  /\ seen \in wallet .. Size
  /\ lifted \in [Prices -> Shares]
  /\ AskInv
LoopOK ==
  /\ pos \in Shares
  /\ rec \in Rec \cup {NoRec}
  /\ booked \in [Prices -> Nat]
  /\ op \in Ops
BoundsOK ==
  /\ fails \in 0 .. MaxFails
  /\ faults \in 0 .. MaxFaults
  /\ hist \subseteq {"raised", "misread", "closed", "again", "unheard", "blind", "dropped"}

LEMMA TypeParts == TypeInv <=> VenueOK /\ LoopOK /\ BoundsOK /\ RecInv /\ OpInv
  BY DEF TypeInv, Shapes, VenueOK, LoopOK, BoundsOK, Ops

LEMMA TypeNext ==
  ASSUME VenueOK', LoopOK', BoundsOK', RecInv', OpInv'
  PROVE  TypeInv'
  BY DEF TypeInv, Shapes, VenueOK, LoopOK, BoundsOK, Ops

LEMMA IdleOp ==
  ASSUME op' = Idle
  PROVE  OpInv' /\ op' \in Ops /\ op'.rec = NoRec
  BY IdleFacts DEF OpInv

LEMMA TypeInit == Init => TypeInv
<1> SUFFICES ASSUME Init PROVE TypeInv
  OBVIOUS
<1>1. Size \in Shares /\ 0 \in Shares /\ Size \in Size .. Size /\ Size \in Nat
  BY DEF Shares
<1>2. NoAsk.left = 0 /\ NoAsk.matched = 0
  BY DEF NoAsk
<1>3. \A p \in Prices : lifted[p] = 0
  BY DEF Init
<1>4. lifted \in [Prices -> Shares] /\ booked \in [Prices -> Nat]
  BY <1>1 DEF Init
<1>5. VenueOK
  BY <1>1, <1>2, <1>3, <1>4 DEF Init, VenueOK, AskInv
<1>6. LoopOK
  BY <1>1, <1>4, IdleFacts DEF Init, LoopOK
<1>7. BoundsOK
  BY DEF Init, BoundsOK
<1>8. RecInv /\ OpInv
  BY IdleFacts DEF Init, RecInv, OpInv
<1> QED BY <1>5, <1>6, <1>7, <1>8, TypeParts

\* A lift takes from the ask what it takes from the wallet.
LEMMA LiftEffect ==
  ASSUME TypeInv, NEW n \in 1 .. Size, Lift(n)
  PROVE  /\ n \in Nat \ {0}
         /\ n <= ask.left
         /\ ask # NoAsk
         /\ ask' \in Ask \cup {NoAsk}
         /\ ask'.left + n = ask.left
         /\ ask' # NoAsk => ask'.matched = ask.matched + n /\ ask'.price = ask.price
         /\ wallet' = wallet - n
         /\ lifted' \in [Prices -> Nat]
         /\ lifted'[ask.price] = lifted[ask.price] + n
         /\ \A p \in Prices : p # ask.price => lifted'[p] = lifted[p]
         /\ \A p \in Prices : lifted'[p] \in {lifted[p], lifted[p] + n}
         /\ UNCHANGED <<seen, pos, rec, booked, op, fails, faults, hist>>
<1>1. /\ n \in 1 .. ask.left
      /\ ask' = IF n = ask.left THEN NoAsk
                ELSE [ask EXCEPT !.left = @ - n, !.matched = @ + n]
      /\ wallet' = wallet - n
      /\ lifted' = [lifted EXCEPT ![ask.price] = @ + n]
      /\ UNCHANGED <<seen, pos, rec, booked, op, fails, faults, hist>>
  BY DEF Lift
<1>2. Numbers
  BY NumbersHold
<1>3. n \in Nat \ {0} /\ n <= ask.left /\ ask.left \in Nat
  BY <1>1, <1>2 DEF Numbers
<1>4. ask # NoAsk /\ ask.price \in Prices
  BY <1>2, <1>3 DEF Numbers
<1>5. ask \in Ask
  BY <1>4 DEF TypeInv, Shapes
<1>6. ask.matched + n <= Size
  BY <1>2, <1>3 DEF TypeInv, AskInv, Numbers
<1>7. /\ ask' \in Ask \cup {NoAsk}
      /\ ask'.left + n = ask.left
      /\ ask' # NoAsk => ask'.matched = ask.matched + n /\ ask'.price = ask.price
  <2>1. CASE n = ask.left
    BY <1>1, <1>3, <2>1 DEF NoAsk
  <2>2. CASE n # ask.left
    <3> DEFINE a == [ask EXCEPT !.left = ask.left - n]
    <3>1. ask.left - n \in 1 .. Size /\ ask.matched + n \in Shares
      BY <1>2, <1>3, <1>5, <1>6, <2>2 DEF Ask, Shares, Numbers
    <3>2. /\ a \in Ask
          /\ a.left = ask.left - n
          /\ a.matched = ask.matched
          /\ a.price = ask.price
      BY <1>5, <3>1 DEF Ask
    <3>3. ask' = [a EXCEPT !.matched = ask.matched + n]
      BY <1>1, <2>2, <3>2
    <3> HIDE DEF a
    <3>4. /\ ask' \in Ask
          /\ ask'.left = ask.left - n
          /\ ask'.matched = ask.matched + n
          /\ ask'.price = ask.price
      BY <3>1, <3>2, <3>3 DEF Ask
    <3> QED BY <1>3, <3>4
  <2> QED BY <2>1, <2>2
<1>8. /\ lifted' \in [Prices -> Nat]
      /\ lifted'[ask.price] = lifted[ask.price] + n
      /\ \A p \in Prices : p # ask.price => lifted'[p] = lifted[p]
      /\ \A p \in Prices : lifted'[p] \in {lifted[p], lifted[p] + n}
  BY <1>1, <1>2, <1>3, <1>4 DEF Numbers
<1> QED BY <1>1, <1>3, <1>4, <1>7, <1>8

LEMMA LiftTypes == ASSUME TypeInv, NEW n \in 1 .. Size, Lift(n) PROVE VenueOK'
<1>1. /\ n \in Nat \ {0}
      /\ n <= ask.left
      /\ ask' \in Ask \cup {NoAsk}
      /\ ask'.left + n = ask.left
      /\ ask' # NoAsk => ask'.matched = ask.matched + n
      /\ wallet' = wallet - n
      /\ lifted' \in [Prices -> Nat]
      /\ \A p \in Prices : lifted'[p] \in {lifted[p], lifted[p] + n}
      /\ seen' = seen
  BY LiftEffect
<1>2. /\ wallet \in Nat
      /\ wallet <= Size
      /\ ask.left <= wallet
      /\ ask.matched + wallet <= Size
      /\ \A p \in Prices : lifted[p] + wallet <= Size
      /\ seen \in wallet .. Size
      /\ ask.left \in Nat
      /\ ask.matched \in Nat
      /\ \A p \in Prices : lifted[p] \in Nat
  BY NumbersHold, TypeParts DEF VenueOK, AskInv, Numbers, Shares
<1>3. /\ wallet - n \in Shares
      /\ seen' \in (wallet - n) .. Size
  BY <1>1, <1>2 DEF Shares
<1>4. ask'.left <= wallet - n /\ ask'.matched + (wallet - n) <= Size
  <2>1. ask'.left \in Nat /\ ask'.matched \in Nat /\ (ask' = NoAsk => ask'.matched = 0)
    BY <1>1, AskFacts DEF Shares
  <2>2. CASE ask' = NoAsk
    BY <1>1, <1>2, <2>1, <2>2
  <2>3. CASE ask' # NoAsk
    BY <1>1, <1>2, <2>1, <2>3
  <2> QED BY <2>2, <2>3
<1>5. \A p \in Prices : lifted'[p] + (wallet - n) <= Size
  BY <1>1, <1>2
<1>6. lifted' \in [Prices -> Shares]
  BY <1>1, <1>2, <1>5 DEF Shares
<1> QED BY <1>1, <1>3, <1>4, <1>5, <1>6 DEF VenueOK, AskInv

\* Without an ask there is less to back.
LEMMA AskGone ==
  ASSUME VenueOK, ask' = ask \/ ask' = NoAsk, UNCHANGED <<wallet, seen, lifted>>
  PROVE  VenueOK'
<1>1. CASE ask' = ask
  BY <1>1 DEF VenueOK, AskInv
<1>2. CASE ask' = NoAsk
  <2>1. NoAsk.left = 0 /\ NoAsk.matched = 0
    BY DEF NoAsk
  <2> QED BY <1>2, <2>1 DEF VenueOK, AskInv, Shares
<1> QED BY <1>1, <1>2

LEMMA LoopOKSame ==
  ASSUME TypeInv, UNCHANGED <<pos, rec, booked, op>>
  PROVE  LoopOK' /\ RecInv' /\ OpInv'
  BY TypeParts DEF LoopOK, RecInv, OpInv

LEMMA BoundsSame ==
  ASSUME BoundsOK, UNCHANGED hist,
         fails' = fails \/ (fails < MaxFails /\ fails' = fails + 1),
         faults' = faults \/ (faults < MaxFaults /\ faults' = faults + 1)
  PROVE  BoundsOK'
  BY DEF BoundsOK

LEMMA PlaceTypes == ASSUME TypeInv, Place PROVE TypeInv'
<1>1. op.pc = "place" /\ op.kind = "reprice" /\ op.want \in Prices /\ pos > 0 /\ rec = NoRec
  <2>1. op.pc = "place" /\ op \in Ops
    BY TypeParts DEF Place, LoopOK
  <2>2. op.kind \in Kinds
    BY <2>1 DEF Ops
  <2> QED BY <2>1, <2>2 DEF TypeInv, OpInv, Kinds
<1>2. Numbers /\ VenueOK /\ LoopOK /\ BoundsOK /\ RecInv
  BY NumbersHold, TypeParts
<1>3. /\ UNCHANGED <<wallet, seen, lifted, pos, booked, fails, faults, hist>>
      /\ \/ /\ pos <= wallet - ask.left
            /\ ask' = [price |-> op.want, left |-> pos, matched |-> 0]
            /\ op' = [op EXCEPT !.pc = "placed"]
            /\ UNCHANGED rec
         \/ /\ rec' = IF op.rec = NoRec THEN rec ELSE Kept(op.rec)
            /\ op' = Idle
            /\ UNCHANGED ask
         \/ op' = Idle /\ UNCHANGED <<ask, rec>>
  BY DEF Place, Free, Ends
<1>4. BoundsOK'
  BY <1>2, <1>3 DEF BoundsOK
<1>5. CASE /\ pos <= wallet - ask.left
           /\ ask' = [price |-> op.want, left |-> pos, matched |-> 0]
           /\ op' = [op EXCEPT !.pc = "placed"]
           /\ UNCHANGED rec
  <2>1. /\ ask' \in Ask
        /\ ask'.left = pos
        /\ ask'.matched = 0
    BY <1>1, <1>2, <1>5 DEF Ask, LoopOK, Shares
  <2>2. VenueOK'
    BY <1>2, <1>3, <1>5, <2>1 DEF VenueOK, AskInv, Numbers, Shares
  <2>3. /\ op' \in Ops
        /\ op'.pc = "placed"
        /\ op'.kind = op.kind
        /\ op'.want = op.want
        /\ op'.rec = op.rec
    BY <1>2, <1>5, OpMoves DEF LoopOK, Pcs
  <2>4. LoopOK' /\ RecInv' /\ OpInv'
    BY <1>1, <1>2, <1>3, <1>5, <2>3 DEF LoopOK, RecInv, OpInv
  <2> QED BY <1>4, <2>2, <2>4, TypeNext
<1>6. CASE op' = Idle /\ ask' = ask /\ (rec' = rec \/ (op.rec # NoRec /\ rec' = Kept(op.rec)))
  <2>1. VenueOK'
    BY <1>2, <1>3, <1>6, AskGone
  <2>2. op.rec # NoRec => /\ Kept(op.rec) \in Rec
                          /\ Kept(op.rec).shares = op.rec.shares
                          /\ Kept(op.rec).booked = op.rec.booked
    BY <1>2, KeptFacts DEF Numbers
  <2>3. LoopOK' /\ RecInv' /\ OpInv'
    BY <1>2, <1>3, <1>6, <2>2, IdleOp DEF LoopOK, RecInv
  <2> QED BY <1>4, <2>1, <2>3, TypeNext
<1> QED BY <1>3, <1>5, <1>6

LEMMA SellTypes == ASSUME TypeInv, Sell PROVE TypeInv'
<1>1. op.pc = "sell"
  BY DEF Sell
<1>2. Numbers /\ VenueOK /\ LoopOK /\ BoundsOK /\ RecInv
  BY NumbersHold, TypeParts
<1>3. UNCHANGED <<ask, seen, lifted, pos, rec, booked, fails, faults, hist>>
  BY DEF Sell
<1>4. BoundsOK'
  BY <1>2, <1>3 DEF BoundsOK
<1>5. op.kind = "exit" /\ pos > 0 /\ (rec = NoRec \/ (op.rec # NoRec /\ rec = Kept(op.rec)))
  <2>1. op.kind \in Kinds
    BY <1>2 DEF LoopOK, Ops
  <2> QED BY <1>1, <2>1 DEF TypeInv, OpInv, Kinds
<1>6. CASE op' = [op EXCEPT !.pc = "refused"] /\ wallet' = wallet
  <2>1. /\ op' \in Ops
        /\ op'.pc = "refused"
        /\ op'.kind = op.kind
        /\ op'.rec = op.rec
    BY <1>2, <1>6, OpMoves DEF LoopOK, Pcs
  <2>2. VenueOK'
    BY <1>2, <1>3, <1>6, AskGone
  <2>3. LoopOK' /\ RecInv' /\ OpInv'
    BY <1>2, <1>3, <1>5, <2>1 DEF LoopOK, RecInv, OpInv
  <2> QED BY <1>4, <2>2, <2>3, TypeNext
<1>7. ASSUME pos <= Free, NEW n \in 0 .. pos, wallet' = wallet - n,
             op' = [op EXCEPT !.pc = "sold", !.matched = n]
      PROVE  TypeInv'
  <2>0. n \in Shares /\ n <= pos /\ n \in Nat
    BY <1>2, <1>7 DEF LoopOK, Shares
  <2>1. /\ op' \in Ops
        /\ op'.pc = "sold"
        /\ op'.kind = op.kind
        /\ op'.rec = op.rec
        /\ op'.matched = n
    BY <1>2, <1>7, <2>0, SellFacts DEF LoopOK
  <2>2. n + ask.left <= wallet
    BY <1>2, <1>7, <2>0 DEF Free, Numbers, VenueOK, AskInv
  <2>3. VenueOK'
    <3>1. /\ wallet - n \in Shares
          /\ seen \in (wallet - n) .. Size
          /\ ask.left <= wallet - n
          /\ ask.matched + (wallet - n) <= Size
          /\ \A p \in Prices : lifted[p] + (wallet - n) <= Size
      BY <1>2, <2>0, <2>2 DEF Numbers, VenueOK, AskInv, Shares
    <3> QED BY <1>2, <1>3, <1>7, <3>1 DEF VenueOK, AskInv
  <2>4. LoopOK' /\ RecInv'
    BY <1>2, <1>3, <2>1 DEF LoopOK, RecInv
  <2>5. OpInv'
    BY <1>3, <1>5, <2>0, <2>1 DEF OpInv
  <2> QED BY <1>4, <2>3, <2>4, <2>5, TypeNext
<1>8. CASE op' = Idle /\ wallet' = wallet
  <2>1. VenueOK'
    BY <1>2, <1>3, <1>8, AskGone
  <2>2. LoopOK' /\ RecInv' /\ OpInv'
    BY <1>2, <1>3, <1>8, IdleOp DEF LoopOK, RecInv
  <2> QED BY <1>4, <2>1, <2>2, TypeNext
<1> QED BY <1>6, <1>7, <1>8 DEF Sell, Ends

\* What an operation begins with.
LEMMA SignalTypes ==
  ASSUME TypeInv, op.pc = "idle",
         UNCHANGED <<venue, pos, booked, fails, faults, hist>>,
         NEW kind \in Kinds, NEW pc \in Pcs, NEW p \in Prices \cup {None},
         NEW r \in Rec \cup {NoRec}, Begins(kind, pc, p, r),
         r = NoRec \/ r = rec,
         \/ /\ kind = "reprice" /\ p \in Prices /\ pos > 0
            /\ \/ pc = "place" /\ rec' = NoRec
               \/ pc = "list" /\ rec' = rec /\ r = rec /\ rec # NoRec
         \/ /\ kind = "exit" /\ pos > 0 /\ rec' = rec /\ r = rec
            /\ pc = IF rec = NoRec THEN "sell" ELSE "list"
         \/ kind = "down" /\ pc = "all" /\ rec' = rec /\ r = rec /\ rec # NoRec
  PROVE  TypeInv'
<1>1. /\ op' \in Ops
      /\ op'.kind = kind
      /\ op'.pc = pc
      /\ op'.want = p
      /\ op'.rec = r
  BY BeginsFacts
<1>2. VenueOK /\ LoopOK /\ BoundsOK /\ RecInv
  BY TypeParts
<1>3. VenueOK'
  BY <1>2, AskGone DEF venue
<1>4. LoopOK' /\ RecInv'
  BY <1>1, <1>2 DEF LoopOK, RecInv, venue
<1>5. BoundsOK'
  BY <1>2 DEF BoundsOK
<1>6. OpInv'
  BY <1>1 DEF OpInv
<1> QED BY <1>3, <1>4, <1>5, <1>6, TypeNext

LEMMA BeginTypes == ASSUME TypeInv, (\E p \in Prices : WantAsk(p)) \/ Exit \/ TearDown
                    PROVE  TypeInv'
<1>1. rec \in Rec \cup {NoRec} /\ NoRec \in Rec \cup {NoRec}
  BY DEF TypeInv, Shapes
<1>2. /\ {"reprice", "exit", "down"} \subseteq Kinds
      /\ {"all", "place", "list", "sell"} \subseteq Pcs
  BY DEF Kinds, Pcs
<1>3. ASSUME NEW p \in Prices, WantAsk(p) PROVE TypeInv'
  <2>1. /\ op.pc = "idle"
        /\ pos > 0
        /\ UNCHANGED <<venue, pos, booked, fails, faults, hist>>
    BY <1>3 DEF WantAsk
  <2>2. CASE rec = NoRec /\ Begins("reprice", "place", p, NoRec) /\ UNCHANGED rec
    BY <1>1, <1>2, <2>1, <2>2, SignalTypes
  <2>3. CASE rec # NoRec /\ Begins("reprice", "place", p, rec) /\ rec' = NoRec
    BY <1>1, <1>2, <2>1, <2>3, SignalTypes
  <2>4. CASE rec # NoRec /\ Begins("reprice", "list", p, rec) /\ UNCHANGED rec
    BY <1>1, <1>2, <2>1, <2>4, SignalTypes
  <2> QED BY <1>3, <2>2, <2>3, <2>4 DEF WantAsk
<1>4. CASE Exit
  <2>1. /\ op.pc = "idle"
        /\ pos > 0
        /\ Begins("exit", IF rec = NoRec THEN "sell" ELSE "list", None, rec)
        /\ UNCHANGED <<venue, pos, rec, booked, fails, faults, hist>>
    BY <1>4 DEF Exit
  <2>2. CASE rec = NoRec
    <3>1. Begins("exit", "sell", None, rec)
      BY <2>1, <2>2
    <3> QED BY <1>1, <1>2, <2>1, <2>2, <3>1, SignalTypes
  <2>3. CASE rec # NoRec
    <3>1. Begins("exit", "list", None, rec)
      BY <2>1, <2>3
    <3> QED BY <1>1, <1>2, <2>1, <2>3, <3>1, SignalTypes
  <2> QED BY <2>2, <2>3
<1>5. CASE TearDown
  <2>1. /\ op.pc = "idle"
        /\ rec # NoRec
        /\ Begins("down", "all", None, rec)
        /\ UNCHANGED <<venue, pos, rec, booked, fails, faults, hist>>
    BY <1>5 DEF TearDown
  <2> QED BY <1>1, <1>2, <2>1, SignalTypes
<1> QED BY <1>3, <1>4, <1>5

\* Two stages of the pull that keep or drop the record.
LEMMA PullTypes ==
  ASSUME TypeInv, CancelAll \/ List \/ Cancel
  PROVE  TypeInv'
<1>1. VenueOK /\ LoopOK /\ BoundsOK /\ RecInv
  BY TypeParts
<1>2. op \in Ops /\ op.kind \in Kinds
  BY <1>1 DEF LoopOK, Ops
<1>3. CASE CancelAll
  <2>1. /\ op.pc = "all"
        /\ op' = [op EXCEPT !.pc = "list"]
        /\ ask' = ask \/ ask' = NoAsk
        /\ faults' = faults \/ (faults < MaxFaults /\ faults' = faults + 1)
        /\ UNCHANGED <<wallet, seen, lifted, pos, rec, booked, fails, hist>>
    BY <1>3 DEF CancelAll, Fault
  <2>2. /\ op' \in Ops
        /\ op'.pc = "list"
        /\ op'.kind = op.kind
        /\ op'.want = op.want
        /\ op'.rec = op.rec
    BY <1>2, <2>1, OpMoves DEF Pcs
  <2>3. VenueOK' /\ BoundsOK'
    BY <1>1, <2>1, AskGone, BoundsSame
  <2>4. LoopOK' /\ RecInv'
    BY <1>1, <2>1, <2>2 DEF LoopOK, RecInv
  <2>5. OpInv'
    BY <1>2, <2>1, <2>2 DEF OpInv, TypeInv, Kinds
  <2> QED BY <2>3, <2>4, <2>5, TypeNext
<1>4. CASE List
  <2>1. /\ op.pc = "list"
        /\ \/ op' = [op EXCEPT !.found = ask # NoAsk, !.matched = ask.matched,
                               !.pc = IF ask # NoAsk THEN "cancel" ELSE "read"]
           \/ op' = [op EXCEPT !.pc = "read"]
        /\ rec' = IF op'.pc = "read" THEN NoRec ELSE rec
        /\ faults' = faults \/ (faults < MaxFaults /\ faults' = faults + 1)
        /\ UNCHANGED <<ask, wallet, seen, lifted, pos, booked, fails, hist>>
    BY <1>4 DEF List, Fault, venue
  <2>2. /\ op' \in Ops
        /\ op'.pc \in {"cancel", "read"}
        /\ op'.kind = op.kind
        /\ op'.want = op.want
        /\ op'.rec = op.rec
    <3>1. CASE op' = [op EXCEPT !.found = ask # NoAsk, !.matched = ask.matched,
                                !.pc = IF ask # NoAsk THEN "cancel" ELSE "read"]
      <4>1. (ask # NoAsk) \in BOOLEAN /\ ask.matched \in Shares
        BY <1>1, AskFacts DEF VenueOK
      <4>2. (IF ask # NoAsk THEN "cancel" ELSE "read") \in {"cancel", "read"}
        OBVIOUS
      <4>3. {"cancel", "read"} \subseteq Pcs
        BY DEF Pcs
      <4> QED BY <1>2, <3>1, <4>1, <4>2, <4>3, ListFacts
    <3>2. CASE op' = [op EXCEPT !.pc = "read"]
      BY <1>2, <3>2, OpMoves DEF Pcs
    <3> QED BY <2>1, <3>1, <3>2
  <2>3. VenueOK' /\ BoundsOK'
    BY <1>1, <2>1, AskGone, BoundsSame
  <2>4. LoopOK' /\ RecInv'
    BY <1>1, <2>1, <2>2 DEF LoopOK, RecInv
  <2>5. OpInv'
    BY <1>2, <2>1, <2>2 DEF OpInv, TypeInv, Kinds
  <2> QED BY <2>3, <2>4, <2>5, TypeNext
<1>5. CASE Cancel
  <2>1. /\ op.pc = "cancel"
        /\ op' = [op EXCEPT !.pc = "read"]
        /\ rec' = NoRec
        /\ ask' = ask \/ ask' = NoAsk
        /\ faults' = faults \/ (faults < MaxFaults /\ faults' = faults + 1)
        /\ UNCHANGED <<wallet, seen, lifted, pos, booked, fails, hist>>
    BY <1>5 DEF Cancel, Fault
  <2>2. /\ op' \in Ops
        /\ op'.pc = "read"
        /\ op'.kind = op.kind
        /\ op'.want = op.want
        /\ op'.rec = op.rec
    BY <1>2, <2>1, OpMoves DEF Pcs
  <2>3. VenueOK' /\ BoundsOK'
    BY <1>1, <2>1, AskGone, BoundsSame
  <2>4. LoopOK' /\ RecInv'
    BY <1>1, <2>1, <2>2 DEF LoopOK, RecInv
  <2>5. OpInv'
    BY <1>2, <2>1, <2>2 DEF OpInv, TypeInv, Kinds
  <2> QED BY <2>3, <2>4, <2>5, TypeNext
<1> QED BY <1>3, <1>4, <1>5

LEMMA RepriceTypes ==
  ASSUME TypeInv, NEW held \in Shares, NEW sold, Repriced(sold, held)
  PROVE  TypeInv'
<1>1. VenueOK /\ LoopOK /\ BoundsOK /\ RecInv /\ Numbers
  BY TypeParts, NumbersHold
<1>2. op.rec # NoRec /\ op.rec \in Rec /\ rec = NoRec
  BY <1>1 DEF Repriced, TypeInv, OpInv, Numbers
<1>3. /\ Kept(op.rec) \in Rec
      /\ Kept(op.rec).shares = op.rec.shares
      /\ Kept(op.rec).booked = op.rec.booked
  BY <1>2, KeptFacts
<1>4. VenueOK'
  BY <1>1, AskGone DEF Repriced
<1>5. BoundsOK'
  BY <1>1 DEF Repriced, BoundsOK
<1>6. CASE /\ Books(sold)
           /\ pos' = RemainingAfter(pos, sold, held) \/ pos' = pos
           /\ rec' = rec
           /\ op' = Idle
  <2>1. booked' \in [Prices -> Nat]
    BY <1>1, <1>2, <1>6, BooksFacts DEF Repriced
  <2>2. pos' \in Shares
    <3>1. CASE pos' = pos
      BY <1>1, <3>1 DEF LoopOK
    <3>2. CASE pos' = RemainingAfter(pos, sold, held)
      <4>1. held \in Nat /\ pos \in Nat /\ pos <= Size /\ sold \in Nat
        BY <1>1 DEF Shares, LoopOK, Repriced
      <4>2. pos' \in Nat /\ pos' <= pos
        BY <3>2, <4>1, RemainingFacts
      <4> QED BY <4>1, <4>2 DEF Shares
    <3> QED BY <1>6, <3>1, <3>2
  <2>3. LoopOK' /\ RecInv' /\ OpInv'
    BY <1>1, <1>6, <2>1, <2>2, IdleOp DEF LoopOK, RecInv
  <2> QED BY <1>4, <1>5, <2>3, TypeNext
<1>7. CASE rec' = Kept(op.rec) /\ op' = Idle /\ UNCHANGED <<pos, booked>>
  <2>1. LoopOK' /\ RecInv' /\ OpInv'
    BY <1>1, <1>2, <1>3, <1>7, IdleOp DEF LoopOK, RecInv
  <2> QED BY <1>4, <1>5, <2>1, TypeNext
<1>8. CASE /\ op' = [op EXCEPT !.pc = "place", !.rec = NoRec]
           /\ UNCHANGED <<pos, rec, booked>>
  <2>1. /\ op' \in Ops
        /\ op'.pc = "place"
        /\ op'.kind = op.kind
        /\ op'.want = op.want
        /\ op'.rec = NoRec
    BY <1>1, <1>8, RestFacts DEF LoopOK
  <2>2. LoopOK' /\ RecInv'
    BY <1>1, <1>8, <2>1 DEF LoopOK, RecInv
  <2>3. OpInv'
    BY <1>2, <1>8, <2>1 DEF OpInv, TypeInv, Repriced
  <2> QED BY <1>4, <1>5, <2>2, <2>3, TypeNext
<1> QED BY <1>6, <1>7, <1>8 DEF Repriced

LEMMA ExitTypes ==
  ASSUME TypeInv, NEW held \in Shares, NEW sold, Exited(sold, held)
  PROVE  TypeInv'
<1>1. VenueOK /\ LoopOK /\ BoundsOK /\ RecInv /\ Numbers
  BY TypeParts, NumbersHold
<1>2. op.rec # NoRec /\ op.rec \in Rec /\ rec = NoRec /\ pos > 0
  BY <1>1 DEF Exited, TypeInv, OpInv, Numbers
<1>3. /\ Kept(op.rec) \in Rec
      /\ Kept(op.rec).shares = op.rec.shares
      /\ Kept(op.rec).booked = op.rec.booked
  BY <1>2, KeptFacts
<1>4. VenueOK'
  BY <1>1, AskGone DEF Exited
<1>5. BoundsOK'
  BY <1>1 DEF Exited, BoundsOK
<1>6. ASSUME op' = [op EXCEPT !.pc = "sell"]
      PROVE  /\ op' \in Ops
             /\ op'.pc = "sell"
             /\ op'.kind = "exit"
             /\ op'.want = op.want
             /\ op'.rec = op.rec
  <2>1. op \in Ops /\ "sell" \in Pcs /\ op.kind = "exit"
    BY <1>1 DEF Exited, LoopOK, Pcs
  <2> QED BY <1>6, <2>1, OpMoves
<1>7. CASE /\ Books(sold)
           /\ rec' = rec
           /\ \/ pos' = held /\ held = 0 /\ op' = Idle
              \/ pos' = held /\ held > 0 /\ op' = [op EXCEPT !.pc = "sell"]
              \/ pos' = pos /\ op' = Idle
  <2>1. booked' \in [Prices -> Nat] /\ pos' \in Shares
    BY <1>1, <1>2, <1>7, BooksFacts DEF Exited, LoopOK
  <2>2. CASE op' = Idle
    <3>1. LoopOK' /\ RecInv' /\ OpInv'
      BY <1>1, <1>7, <2>1, <2>2, IdleOp DEF LoopOK, RecInv
    <3> QED BY <1>4, <1>5, <3>1, TypeNext
  <2>3. CASE op' = [op EXCEPT !.pc = "sell"] /\ pos' = held /\ held > 0
    <3>1. LoopOK' /\ RecInv'
      BY <1>1, <1>6, <1>7, <2>1, <2>3 DEF LoopOK, RecInv
    <3>2. OpInv'
      BY <1>2, <1>6, <1>7, <2>3 DEF OpInv
    <3> QED BY <1>4, <1>5, <3>1, <3>2, TypeNext
  <2> QED BY <1>7, <2>2, <2>3
<1>8. CASE /\ rec' = rec \/ rec' = Kept(op.rec)
           /\ op' = [op EXCEPT !.pc = "sell"]
           /\ UNCHANGED <<pos, booked>>
  <2>1. LoopOK' /\ RecInv'
    BY <1>1, <1>2, <1>3, <1>6, <1>8 DEF LoopOK, RecInv
  <2>2. OpInv'
    BY <1>2, <1>6, <1>8 DEF OpInv
  <2> QED BY <1>4, <1>5, <2>1, <2>2, TypeNext
<1> QED BY <1>7, <1>8 DEF Exited

LEMMA DownTypes ==
  ASSUME TypeInv, NEW held \in Shares, NEW sold, Downed(sold, held)
  PROVE  TypeInv'
<1>1. VenueOK /\ LoopOK /\ BoundsOK /\ RecInv /\ Numbers
  BY TypeParts, NumbersHold
<1>2. op.rec # NoRec
  BY DEF Downed, TypeInv, OpInv
<1>3. booked' \in [Prices -> Nat]
  BY <1>1, <1>2, BooksFacts DEF Downed
<1>4. VenueOK'
  BY <1>1, AskGone DEF Downed
<1>5. BoundsOK'
  BY <1>1 DEF Downed, BoundsOK
<1>6. LoopOK' /\ RecInv' /\ OpInv'
  BY <1>1, <1>3, IdleOp DEF Downed, LoopOK, RecInv, Shares
<1> QED BY <1>4, <1>5, <1>6, TypeNext

LEMMA SweepTypes ==
  ASSUME TypeInv, NEW held \in Shares, NEW sold, Swept(sold, held)
  PROVE  TypeInv'
<1>1. VenueOK /\ LoopOK /\ BoundsOK /\ RecInv /\ Numbers
  BY TypeParts, NumbersHold
<1>2. rec \in Rec /\ rec # NoRec /\ op' = Idle
  BY <1>1 DEF Swept, Numbers, TypeInv, OpInv
<1> DEFINE r == Polled(rec, held)
<1>3. /\ r \in Rec
      /\ r.price = rec.price
      /\ r.shares = rec.shares
      /\ r.booked = rec.booked
  BY <1>2, PollFacts
<1>4. VenueOK'
  BY <1>1, AskGone DEF Swept
<1>5. BoundsOK'
  BY <1>1 DEF Swept, BoundsOK
<1>6. /\ op' = Idle
      /\ \/ rec' = NoRec /\ UNCHANGED <<pos, booked>>
         \/ rec' = r /\ UNCHANGED <<pos, booked>>
         \/ /\ sold \in Nat \ {0}
            /\ r.most + sold = rec.shares
            /\ booked' = [booked EXCEPT ![rec.price] = @ + sold]
            /\ pos' = r.most
            /\ rec' = Rebased(r, sold)
  BY <1>2 DEF Swept
<1> HIDE DEF r
<1>7. CASE \/ rec' = NoRec /\ UNCHANGED <<pos, booked>>
           \/ rec' = r /\ UNCHANGED <<pos, booked>>
  <2>1. LoopOK' /\ RecInv' /\ OpInv'
    BY <1>1, <1>2, <1>3, <1>7, IdleOp DEF LoopOK, RecInv
  <2> QED BY <1>4, <1>5, <2>1, TypeNext
<1>8. CASE /\ sold \in Nat \ {0}
           /\ r.most + sold = rec.shares
           /\ booked' = [booked EXCEPT ![rec.price] = @ + sold]
           /\ pos' = r.most
           /\ rec' = Rebased(r, sold)
  <2>1. rec.shares + rec.booked <= Size
    BY <1>1, <1>2 DEF RecInv
  <2>2. /\ rec' \in Rec \cup {NoRec}
        /\ rec' # NoRec => rec'.shares = r.most /\ rec'.booked = r.booked + sold
    BY <1>3, <1>8, <2>1, RebaseFacts
  <2>3. pos' \in Shares
    BY <1>3, <1>8 DEF Rec
  <2>4. booked' \in [Prices -> Nat]
    BY <1>1, <1>2, <1>8 DEF Numbers
  <2>5. r.booked \in Nat /\ r.most \in Nat
    BY <1>3 DEF Rec, Shares
  <2>6. r.most + (r.booked + sold) <= Size
    BY <1>3, <1>8, <2>1, <2>5
  <2>7. LoopOK' /\ RecInv' /\ OpInv'
    BY <1>2, <2>2, <2>3, <2>4, <2>6, IdleOp DEF LoopOK, RecInv
  <2> QED BY <1>4, <1>5, <2>7, TypeNext
<1> QED BY <1>6, <1>7, <1>8

LEMMA RefusedTypes ==
  ASSUME TypeInv, NEW held \in Shares, Refused(held)
  PROVE  TypeInv'
<1>1. VenueOK /\ LoopOK /\ BoundsOK /\ RecInv /\ Numbers
  BY TypeParts, NumbersHold
<1>2. /\ op.pc = "refused"
      /\ fails' = fails \/ (fails < MaxFails /\ fails' = fails + 1)
      /\ faults' = faults \/ (faults < MaxFaults /\ faults' = faults + 1)
      /\ pos' \in {pos, held, 0}
      /\ booked' = booked \/ (op.rec # NoRec /\ Books(pos))
      /\ hist' = hist \cup (IF pos' = 0 /\ wallet > 0 THEN {"misread"} ELSE {})
                      \cup (IF pos' > pos THEN {"raised"} ELSE {})
      /\ op' = Idle
      /\ UNCHANGED <<ask, wallet, seen, lifted, rec>>
  BY DEF Refused, Reads, Fault, Ends, venue
<1>3. VenueOK'
  BY <1>1, <1>2, AskGone
<1>4. BoundsOK'
  BY <1>1, <1>2 DEF BoundsOK
<1>5. booked' \in [Prices -> Nat]
  BY <1>1, <1>2, BooksFacts DEF Numbers
<1>6. LoopOK' /\ RecInv' /\ OpInv'
  BY <1>1, <1>2, <1>5, IdleOp DEF LoopOK, RecInv, Shares
<1> QED BY <1>3, <1>4, <1>6, TypeNext

LEMMA TypeStep == TypeInv /\ [Next]_vars => TypeInv'
<1> SUFFICES ASSUME TypeInv, [Next]_vars PROVE TypeInv'
  OBVIOUS
<1>0. VenueOK /\ LoopOK /\ BoundsOK /\ RecInv /\ Numbers
  BY TypeParts, NumbersHold
<1>1. ASSUME NEW n \in 1 .. Size, Lift(n) PROVE TypeInv'
  <2>1. UNCHANGED <<seen, pos, rec, booked, op, fails, faults, hist>>
    BY <1>1 DEF Lift
  <2>2. VenueOK'
    BY <1>1, LiftTypes
  <2>3. BoundsOK'
    BY <1>0, <2>1 DEF BoundsOK
  <2> QED BY <2>1, <2>2, <2>3, LoopOKSame, TypeNext
<1>2. CASE Settle
  <2>1. /\ seen' \in wallet .. seen - 1
        /\ UNCHANGED <<ask, wallet, lifted, pos, rec, booked, op, fails, faults, hist>>
    BY <1>2 DEF Settle
  <2>2. VenueOK'
    <3>1. wallet \in Nat /\ seen \in wallet .. Size /\ Size \in Nat
      BY <1>0 DEF VenueOK, Shares
    <3>2. wallet .. seen - 1 \subseteq wallet .. Size
      BY <3>1
    <3> QED BY <1>0, <2>1, <3>2 DEF VenueOK, AskInv
  <2>3. BoundsOK'
    BY <1>0, <2>1 DEF BoundsOK
  <2> QED BY <2>1, <2>2, <2>3, LoopOKSame, TypeNext
<1>3. CASE OthersCancelAll
  <2>1. /\ ask' = NoAsk
        /\ UNCHANGED <<wallet, seen, lifted, pos, rec, booked, op, fails, faults, hist>>
    BY <1>3 DEF OthersCancelAll
  <2>2. VenueOK' /\ BoundsOK'
    BY <1>0, <2>1, AskGone, BoundsSame
  <2> QED BY <2>1, <2>2, LoopOKSame, TypeNext
<1>4. CASE (\E p \in Prices : WantAsk(p)) \/ Exit \/ TearDown
  BY <1>4, BeginTypes
<1>5. CASE Release
  <2>1. /\ op' = Idle
        /\ pos' = 0
        /\ rec' = NoRec
        /\ UNCHANGED <<ask, wallet, seen, lifted, booked, fails, faults, hist>>
    BY <1>5 DEF Release, venue, TypeInv, OpInv
  <2>2. VenueOK' /\ BoundsOK'
    BY <1>0, <2>1, AskGone, BoundsSame
  <2>3. LoopOK' /\ RecInv' /\ OpInv'
    BY <1>0, <2>1, IdleOp DEF LoopOK, RecInv, Shares
  <2> QED BY <2>2, <2>3, TypeNext
<1>6. CASE CancelAll \/ List \/ Cancel
  BY <1>6, PullTypes
<1>7. CASE Place
  BY <1>7, PlaceTypes
<1>8. CASE RecordAsk
  <2>1. /\ op.pc = "placed"
        /\ rec' = NewRec(op.want)
        /\ op' = Idle
        /\ UNCHANGED <<ask, wallet, seen, lifted, pos, booked, fails, faults, hist>>
    BY <1>8 DEF RecordAsk, Ends, venue
  <2>2. op.want \in Prices /\ pos \in Shares
    BY <1>0, <2>1 DEF TypeInv, OpInv, LoopOK, Ops, Kinds
  <2>3. /\ rec' \in Rec
        /\ rec'.shares = pos
        /\ rec'.booked = 0
    BY <2>1, <2>2, NewRecFacts
  <2>4. VenueOK' /\ BoundsOK'
    BY <1>0, <2>1, AskGone, BoundsSame
  <2>5. LoopOK' /\ RecInv' /\ OpInv'
    BY <1>0, <2>1, <2>2, <2>3, IdleOp DEF LoopOK, RecInv, Shares
  <2> QED BY <2>4, <2>5, TypeNext
<1>9. CASE Sell
  BY <1>9, SellTypes
<1>10. CASE BookSale
  <2>1. /\ op.pc = "sold"
        /\ pos' = pos - op.matched
        /\ rec' = NoRec
        /\ op' = Idle
        /\ UNCHANGED <<ask, wallet, seen, lifted, booked, fails, faults, hist>>
    BY <1>10 DEF BookSale, Ends, venue
  <2>2. op.matched <= pos
    BY <2>1 DEF TypeInv, OpInv
  <2>3. pos' \in Shares
    BY <1>0, <2>1, <2>2 DEF Numbers, LoopOK, Shares
  <2>4. VenueOK' /\ BoundsOK'
    BY <1>0, <2>1, AskGone, BoundsSame
  <2>5. LoopOK' /\ RecInv' /\ OpInv'
    BY <1>0, <2>1, <2>3, IdleOp DEF LoopOK, RecInv
  <2> QED BY <2>4, <2>5, TypeNext
<1>11. ASSUME NEW held \in Shares, ReadReprice(held) PROVE TypeInv'
  BY <1>11, RepriceEffect, RepriceTypes
<1>12. ASSUME NEW held \in Shares, ReadExit(held) PROVE TypeInv'
  BY <1>12, ExitEffect, ExitTypes
<1>13. ASSUME NEW held \in Shares, ReadDown(held) PROVE TypeInv'
  BY <1>13, DownEffect, DownTypes
<1>14. ASSUME NEW held \in Shares, Refused(held) PROVE TypeInv'
  BY <1>14, RefusedTypes
<1>15. CASE CutOff
  <2>1. /\ op' = Idle
        /\ ask' = ask \/ ask' = NoAsk
        /\ faults < MaxFaults /\ faults' = faults + 1
        /\ hist' \in {hist, hist \cup {"unheard"}}
        /\ UNCHANGED <<wallet, seen, lifted, pos, rec, booked, fails>>
    BY <1>15 DEF CutOff, Fault, Ends
  <2>2. VenueOK'
    BY <1>0, <2>1, AskGone
  <2>3. BoundsOK'
    BY <1>0, <2>1 DEF BoundsOK
  <2>4. LoopOK' /\ RecInv' /\ OpInv'
    BY <1>0, <2>1, IdleOp DEF LoopOK, RecInv
  <2> QED BY <2>2, <2>3, <2>4, TypeNext
<1>16. ASSUME NEW held \in Shares, Sweep(held) PROVE TypeInv'
  BY <1>16, SweepEffect, SweepTypes
<1>17. CASE UNCHANGED vars \/ Tick \/ TickEnds
  <2>1. UNCHANGED <<ask, wallet, seen, lifted, pos, rec, booked, op, fails, faults, hist>>
    BY <1>17 DEF vars, venue, Tick, TickEnds
  <2>2. VenueOK' /\ BoundsOK'
    BY <1>0, <2>1, AskGone, BoundsSame
  <2> QED BY <2>1, <2>2, LoopOKSame, TypeNext
<1>18. CASE Drop
  <2>1. /\ pos' = 0
        /\ op' = Idle
        /\ hist' \in {hist, hist \cup {"dropped"}}
        /\ UNCHANGED <<ask, wallet, seen, lifted, rec, booked, fails, faults>>
    BY <1>18 DEF Drop, Ends, venue
  <2>2. VenueOK'
    BY <1>0, <2>1, AskGone
  <2>3. BoundsOK'
    BY <1>0, <2>1 DEF BoundsOK
  <2>4. LoopOK' /\ RecInv' /\ OpInv'
    BY <1>0, <2>1, IdleOp DEF LoopOK, RecInv, Shares
  <2> QED BY <2>2, <2>3, <2>4, TypeNext
<1> QED
  BY <1>1, <1>2, <1>3, <1>4, <1>5, <1>6, <1>7, <1>8, <1>9, <1>10, <1>11, <1>12, <1>13,
     <1>14, <1>15, <1>16, <1>17, <1>18 DEF Next, Signals, OpSteps, Poll

-----------------------------------------------------------------------------
(* What each kind of step does, as the proofs about shares use it.         *)

\* The venue cancels, the balance catches up, or nothing happens.
Quiet ==
  /\ ask' = ask \/ ask' = NoAsk
  /\ UNCHANGED <<wallet, lifted, pos, rec, booked, op, hist>>

Began ==
  /\ op.pc = "idle"
  /\ op'.found = FALSE
  /\ op'.rec = rec
  /\ \/ op'.kind = "reprice" /\ op'.pc = "place" /\ rec' = NoRec
     \/ /\ op'.kind = "reprice" /\ op'.pc = "list"
        /\ rec' = rec /\ rec # NoRec /\ rec.vanished = FALSE
     \/ op'.kind = "exit" /\ op'.pc = "sell" /\ rec' = rec /\ rec = NoRec
     \/ op'.kind = "exit" /\ op'.pc = "list" /\ rec' = rec
     \/ op'.kind = "down" /\ op'.pc = "all" /\ rec' = rec
  /\ UNCHANGED <<ask, wallet, lifted, pos, booked, hist>>

Released ==
  /\ wallet = 0
  /\ pos' = 0
  /\ rec' = NoRec
  /\ op' = Idle
  /\ UNCHANGED <<ask, wallet, lifted, booked, hist>>

Pulled ==
  /\ ask' = ask \/ ask' = NoAsk
  /\ rec' = rec \/ rec' = NoRec
  /\ op'.kind = op.kind
  /\ op'.rec = op.rec
  /\ \/ op.pc = "all" /\ op'.pc = "list" /\ op'.found = op.found
     \/ /\ op.pc = "list"
        /\ op'.pc \in {"cancel", "read"}
        /\ ask' = ask
        /\ \/ op'.found = FALSE
           \/ op'.found = op.found
           \/ op'.found = TRUE /\ ask # NoAsk /\ op'.matched = ask.matched
     \/ /\ op.pc = "cancel" /\ op'.pc = "read"
        /\ op'.found = op.found /\ op'.matched = op.matched
  /\ UNCHANGED <<wallet, lifted, pos, booked, hist>>

Placed ==
  /\ op.pc = "place"
  /\ op.kind = "reprice"
  /\ op.want \in Prices
  /\ rec = NoRec
  /\ pos > 0
  /\ \/ /\ pos <= wallet
        /\ ask' # NoAsk
        /\ ask'.price = op.want /\ ask'.matched = 0
        /\ op'.pc = "placed" /\ op'.kind = "reprice" /\ op'.want = op.want
        /\ rec' = NoRec
     \/ /\ op' = Idle
        /\ ask' = ask
        /\ rec' = NoRec \/ (op.rec # NoRec /\ rec' = Kept(op.rec))
  /\ UNCHANGED <<wallet, lifted, pos, booked, hist>>

Recorded ==
  /\ op.pc = "placed"
  /\ op.want \in Prices
  /\ pos > 0
  /\ op' = Idle
  /\ rec' = NewRec(op.want)
  /\ UNCHANGED <<ask, wallet, lifted, pos, booked, hist>>

Sold ==
  /\ op.pc = "sell"
  /\ op.kind = "exit"
  /\ rec = NoRec \/ (op.rec # NoRec /\ rec = Kept(op.rec))
  /\ \/ /\ op'.pc = "refused" /\ op'.kind = "exit" /\ op'.rec = op.rec
        /\ UNCHANGED wallet
     \/ /\ op'.pc = "sold" /\ op'.kind = "exit" /\ op'.rec = op.rec
        /\ op'.matched \in Nat /\ op'.matched <= pos /\ op'.matched <= wallet
        /\ wallet' = wallet - op'.matched
     \/ op' = Idle /\ UNCHANGED wallet
  /\ UNCHANGED <<ask, lifted, pos, rec, booked, hist>>

SaleBooked ==
  /\ op.pc = "sold"
  /\ op.matched <= pos
  /\ pos' = pos - op.matched
  /\ rec' = NoRec
  /\ op' = Idle
  /\ UNCHANGED <<ask, wallet, lifted, booked, hist>>

Unsold ==
  /\ op.pc = "sell"
  /\ pos' = 0
  /\ "dropped" \in hist' \/ wallet = 0
  /\ hist \subseteq hist'
  /\ rec = NoRec \/ (op.rec # NoRec /\ rec = Kept(op.rec))
  /\ op' = Idle
  /\ UNCHANGED <<ask, wallet, lifted, rec, booked>>

Explained(held) ==
  /\ op.pc = "refused"
  /\ op.kind = "exit"
  /\ rec = NoRec \/ (op.rec # NoRec /\ rec = Kept(op.rec))
  /\ \/ held = seen /\ pos' = held /\ UNCHANGED booked
     \/ UNCHANGED <<pos, booked>>
     \/ pos' = 0 /\ (booked' = booked \/ (op.rec # NoRec /\ Books(pos)))
  /\ "misread" \in hist' \/ pos' > 0 \/ wallet = 0
  /\ "raised" \in hist' \/ pos' <= pos
  /\ hist \subseteq hist'
  /\ op' = Idle
  /\ UNCHANGED <<ask, wallet, lifted, rec>>

Cut ==
  /\ op.pc # "idle"
  /\ op' = Idle
  /\ ask' = ask \/ ask' = NoAsk
  /\ "unheard" \in hist' \/ op.pc # "sold"
  /\ hist' \in {hist, hist \cup {"unheard"}}
  /\ UNCHANGED <<wallet, lifted, pos, rec, booked>>

Steps ==
  \/ \E n \in 1 .. Size : Lift(n)
  \/ Quiet \/ Began \/ Released \/ Pulled \/ Placed \/ Recorded \/ Sold \/ SaleBooked \/ Cut
  \/ Unsold
  \/ \E held \in Shares : Explained(held)
  \/ \E held \in Shares : \E sold : Repriced(sold, held)
  \/ \E held \in Shares : \E sold : Exited(sold, held)
  \/ \E held \in Shares : \E sold : Downed(sold, held)
  \/ \E held \in Shares : \E sold : Swept(sold, held)

LEMMA BeganEffect ==
  ASSUME TypeInv, (\E p \in Prices : WantAsk(p)) \/ Exit \/ TearDown
  PROVE  Began
<1>1. rec \in Rec \cup {NoRec} /\ NoRec \in Rec \cup {NoRec}
  BY DEF TypeInv, Shapes
<1>2. /\ {"reprice", "exit", "down"} \subseteq Kinds
      /\ {"all", "place", "list", "sell"} \subseteq Pcs
  BY DEF Kinds, Pcs
<1>3. ASSUME NEW kind \in Kinds, NEW pc \in Pcs, NEW p \in Prices \cup {None},
             Begins(kind, pc, p, rec)
      PROVE  op'.kind = kind /\ op'.pc = pc /\ op'.rec = rec /\ op'.found = FALSE
  <2>1. op' \in Ops /\ ~op'.found
    BY <1>1, <1>3, BeginsFacts
  <2>2. op'.found = FALSE
    BY <2>1 DEF Ops
  <2> QED BY <1>1, <1>3, <2>2, BeginsFacts
<1>4. ASSUME NEW p \in Prices, WantAsk(p) PROVE Began
  <2>1. op.pc = "idle" /\ UNCHANGED <<ask, wallet, lifted, pos, booked, hist>>
    BY <1>4 DEF WantAsk, venue
  <2>2. CASE Begins("reprice", "place", p, rec) /\ rec' = NoRec
    BY <1>2, <1>3, <2>1, <2>2 DEF Began
  <2>3. CASE /\ rec # NoRec /\ ~rec.vanished
             /\ Begins("reprice", "list", p, rec)
             /\ UNCHANGED rec
    <3>1. rec.vanished = FALSE
      BY <1>1, <2>3, RecFacts
    <3> QED BY <1>2, <1>3, <2>1, <2>3, <3>1 DEF Began
  <2> QED BY <1>4, <2>2, <2>3 DEF WantAsk
<1>5. CASE Exit
  <2>1. /\ op.pc = "idle"
        /\ Begins("exit", IF rec = NoRec THEN "sell" ELSE "list", None, rec)
        /\ UNCHANGED <<ask, wallet, lifted, pos, rec, booked, hist>>
    BY <1>5 DEF Exit, venue
  <2>2. CASE rec = NoRec
    <3>1. Begins("exit", "sell", None, rec)
      BY <2>1, <2>2
    <3> QED BY <1>2, <1>3, <2>1, <2>2, <3>1 DEF Began
  <2>3. CASE rec # NoRec
    <3>1. Begins("exit", "list", None, rec)
      BY <2>1, <2>3
    <3> QED BY <1>2, <1>3, <2>1, <3>1 DEF Began
  <2> QED BY <2>2, <2>3
<1>6. CASE TearDown
  <2>1. /\ op.pc = "idle"
        /\ Begins("down", "all", None, rec)
        /\ UNCHANGED <<ask, wallet, lifted, pos, rec, booked, hist>>
    BY <1>6 DEF TearDown, venue
  <2> QED BY <1>2, <1>3, <2>1 DEF Began
<1> QED BY <1>4, <1>5, <1>6

LEMMA PulledEffect ==
  ASSUME TypeInv, CancelAll \/ List \/ Cancel
  PROVE  Pulled
<1>1. op \in Ops /\ ask.matched \in Shares
  BY TypeParts, AskFacts DEF LoopOK, VenueOK
<1>2. {"list", "read", "cancel"} \subseteq Pcs
  BY DEF Pcs
<1>3. CASE CancelAll
  <2>1. /\ op.pc = "all"
        /\ op' = [op EXCEPT !.pc = "list"]
        /\ ask' = ask \/ ask' = NoAsk
        /\ UNCHANGED <<wallet, lifted, pos, rec, booked, hist>>
    BY <1>3 DEF CancelAll
  <2> QED BY <1>1, <1>2, <2>1, OpMoves DEF Pulled
<1>4. CASE List
  <2>1. /\ op.pc = "list"
        /\ rec' = rec \/ rec' = NoRec
        /\ UNCHANGED <<ask, wallet, lifted, pos, booked, hist>>
    BY <1>4 DEF List, venue
  <2>2. CASE op' = [op EXCEPT !.found = ask # NoAsk, !.matched = ask.matched,
                              !.pc = IF ask # NoAsk THEN "cancel" ELSE "read"]
    <3> DEFINE f == ask # NoAsk
               pc == IF ask # NoAsk THEN "cancel" ELSE "read"
    <3>1. f \in BOOLEAN /\ pc \in Pcs /\ pc \in {"cancel", "read"}
      BY <1>2
    <3>2. op' = [op EXCEPT !.found = f, !.matched = ask.matched, !.pc = pc]
      BY <2>2
    <3>3. f = FALSE \/ (f = TRUE /\ ask # NoAsk)
      OBVIOUS
    <3> HIDE DEF f, pc
    <3>4. /\ op'.pc = pc
          /\ op'.kind = op.kind
          /\ op'.rec = op.rec
          /\ op'.found = f
          /\ op'.matched = ask.matched
      BY <1>1, <3>1, <3>2, ListFacts
    <3> QED BY <2>1, <3>1, <3>3, <3>4 DEF Pulled
  <2>3. CASE op' = [op EXCEPT !.pc = "read"]
    <3>1. /\ op'.pc = "read"
          /\ op'.kind = op.kind
          /\ op'.rec = op.rec
          /\ op'.found = op.found
      BY <1>1, <1>2, <2>3, OpMoves
    <3> QED BY <2>1, <3>1 DEF Pulled
  <2> QED BY <1>4, <2>2, <2>3 DEF List
<1>5. CASE Cancel
  <2>1. /\ op.pc = "cancel"
        /\ op' = [op EXCEPT !.pc = "read"]
        /\ rec' = NoRec
        /\ ask' = ask \/ ask' = NoAsk
        /\ UNCHANGED <<wallet, lifted, pos, booked, hist>>
    BY <1>5 DEF Cancel
  <2> QED BY <1>1, <1>2, <2>1, OpMoves DEF Pulled
<1> QED BY <1>3, <1>4, <1>5

LEMMA PlacedEffect == ASSUME TypeInv, Place PROVE Placed
<1>1. /\ op \in Ops
      /\ op.kind \in Kinds
      /\ op.pc = "place"
      /\ UNCHANGED <<wallet, lifted, pos, booked, hist>>
      /\ pos \in Nat
      /\ wallet \in Nat
      /\ ask.left \in Nat
      /\ "placed" \in Pcs
  BY NumbersHold DEF Place, Numbers, Ops, Pcs
<1>2. op.kind = "reprice" /\ op.want \in Prices /\ rec = NoRec /\ pos > 0
  BY <1>1 DEF TypeInv, OpInv, Kinds
<1>3. CASE /\ pos <= Free
           /\ ask' = [price |-> op.want, left |-> pos, matched |-> 0]
           /\ op' = [op EXCEPT !.pc = "placed"]
           /\ UNCHANGED rec
  <2>1. pos <= wallet
    BY <1>1, <1>3 DEF Free, TypeInv, AskInv
  <2>2. ask' # NoAsk /\ ask'.price = op.want /\ ask'.matched = 0
    BY <1>2, <1>3 DEF NoAsk
  <2>3. op'.pc = "placed" /\ op'.kind = "reprice" /\ op'.want = op.want
    BY <1>1, <1>2, <1>3, OpMoves
  <2> QED BY <1>1, <1>2, <1>3, <2>1, <2>2, <2>3 DEF Placed
<1>4. CASE op' = Idle /\ ask' = ask /\ (rec' = NoRec \/ (op.rec # NoRec /\ rec' = Kept(op.rec)))
  BY <1>1, <1>2, <1>4 DEF Placed
<1> QED BY <1>2, <1>3, <1>4 DEF Place, Ends

LEMMA SoldEffect == ASSUME TypeInv, Sell PROVE Sold
<1>1. /\ op \in Ops
      /\ op.kind \in Kinds
      /\ op.pc = "sell"
      /\ UNCHANGED <<ask, lifted, pos, rec, booked, hist>>
      /\ pos \in Shares
      /\ wallet \in Nat
      /\ ask.left \in Nat
      /\ "refused" \in Pcs
  BY NumbersHold DEF Sell, Numbers, Ops, Pcs, TypeInv, Shapes
<1>2. op.kind = "exit" /\ (rec = NoRec \/ (op.rec # NoRec /\ rec = Kept(op.rec)))
  BY <1>1 DEF TypeInv, OpInv, Kinds
<1>3. CASE op' = [op EXCEPT !.pc = "refused"] /\ UNCHANGED wallet
  <2>1. op'.pc = "refused" /\ op'.kind = "exit" /\ op'.rec = op.rec
    BY <1>1, <1>2, <1>3, OpMoves
  <2> QED BY <1>1, <1>2, <1>3, <2>1 DEF Sold
<1>4. ASSUME pos <= Free, NEW n \in 0 .. pos, wallet' = wallet - n,
             op' = [op EXCEPT !.pc = "sold", !.matched = n]
      PROVE  Sold
  <2>1. n \in Shares /\ n \in Nat /\ n <= pos /\ pos \in Nat
    BY <1>1, <1>4 DEF Shares
  <2>2. n <= wallet
    BY <1>1, <1>4, <2>1 DEF Free, TypeInv, AskInv
  <2>3. op'.pc = "sold" /\ op'.kind = "exit" /\ op'.rec = op.rec /\ op'.matched = n
    BY <1>1, <1>2, <1>4, <2>1, SellFacts
  <2> QED BY <1>1, <1>2, <1>4, <2>1, <2>2, <2>3 DEF Sold
<1>5. CASE op' = Idle /\ UNCHANGED wallet
  BY <1>1, <1>2, <1>5 DEF Sold
<1> QED BY <1>3, <1>4, <1>5 DEF Sell, Ends

LEMMA ExplainedEffect == ASSUME TypeInv, NEW held \in Shares, Refused(held) PROVE Explained(held)
<1>1. /\ op.pc = "refused"
      /\ op.kind \in Kinds
      /\ pos \in Nat
      /\ wallet \in Nat
      /\ held \in Nat
  BY NumbersHold DEF Refused, Numbers, Ops, Shares
<1>2. op.kind = "exit" /\ (rec = NoRec \/ (op.rec # NoRec /\ rec = Kept(op.rec)))
  BY <1>1 DEF TypeInv, OpInv, Kinds
<1>3. /\ \/ held # 0 /\ held = seen /\ pos' = held /\ UNCHANGED booked
         \/ UNCHANGED <<pos, booked>>
         \/ pos' = 0 /\ (booked' = booked \/ (op.rec # NoRec /\ Books(pos)))
      /\ hist' = hist \cup (IF pos' = 0 /\ wallet > 0 THEN {"misread"} ELSE {})
                      \cup (IF pos' > pos THEN {"raised"} ELSE {})
      /\ op' = Idle
      /\ UNCHANGED <<ask, wallet, lifted, rec>>
  BY DEF Refused, Reads, Ends, venue
<1>4. hist \subseteq hist'
  BY <1>3
<1>5. \/ held = seen /\ pos' = held /\ UNCHANGED booked
      \/ UNCHANGED <<pos, booked>>
      \/ pos' = 0 /\ (booked' = booked \/ (op.rec # NoRec /\ Books(pos)))
  BY <1>3
<1>6. pos' \in {held, pos, 0}
  BY <1>3
<1>7. "misread" \in hist' \/ pos' > 0 \/ wallet = 0
  <2>1. CASE pos' = 0 /\ wallet > 0
    BY <1>3, <2>1
  <2>2. CASE pos' # 0
    BY <1>1, <1>6, <2>2
  <2> QED BY <1>1, <2>1, <2>2
<1>8. "raised" \in hist' \/ pos' <= pos
  <2>1. CASE pos' > pos
    BY <1>3, <2>1
  <2>2. CASE ~(pos' > pos)
    <3>1. CASE pos' = held
      BY <1>1, <2>2, <3>1
    <3>2. CASE pos' = pos
      BY <1>1, <3>2
    <3>3. CASE pos' = 0
      BY <1>1, <3>3
    <3> QED BY <1>6, <3>1, <3>2, <3>3
  <2> QED BY <2>1, <2>2
<1> QED BY <1>1, <1>2, <1>3, <1>4, <1>5, <1>7, <1>8 DEF Explained

LEMMA StepsAre == TypeInv /\ [Next]_vars => Steps
<1> SUFFICES ASSUME TypeInv, [Next]_vars PROVE Steps
  OBVIOUS
<1>1. CASE Settle \/ OthersCancelAll \/ Tick \/ TickEnds \/ UNCHANGED vars
  <2>1. Quiet
    BY <1>1 DEF Settle, OthersCancelAll, Tick, TickEnds, venue, vars, Quiet
  <2> QED BY <2>1 DEF Steps
<1>2. CASE (\E p \in Prices : WantAsk(p)) \/ Exit \/ TearDown
  BY <1>2, BeganEffect DEF Steps
<1>3. CASE Release
  <2>1. Released
    BY <1>3 DEF Release, Released, venue, TypeInv, OpInv
  <2> QED BY <2>1 DEF Steps
<1>4. CASE CancelAll \/ List \/ Cancel
  BY <1>4, PulledEffect DEF Steps
<1>5. CASE Place
  BY <1>5, PlacedEffect DEF Steps
<1>6. CASE RecordAsk
  <2>1. op.pc = "placed" /\ op.kind \in Kinds
    BY <1>6, NumbersHold DEF RecordAsk, Numbers, Ops
  <2>2. op.want \in Prices /\ pos > 0
    BY <2>1 DEF TypeInv, OpInv, Kinds
  <2>3. Recorded
    BY <1>6, <2>1, <2>2 DEF RecordAsk, Recorded, Ends, venue
  <2> QED BY <2>3 DEF Steps
<1>7. CASE Sell
  BY <1>7, SoldEffect DEF Steps
<1>8. CASE BookSale
  <2>1. SaleBooked
    BY <1>8 DEF BookSale, SaleBooked, Ends, venue, TypeInv, OpInv
  <2> QED BY <2>1 DEF Steps
<1>9. CASE CutOff
  <2>1. Cut
    BY <1>9 DEF CutOff, Cut, Ends
  <2> QED BY <2>1 DEF Steps
<1>10. ASSUME NEW held \in Shares, Refused(held) PROVE Steps
  BY <1>10, ExplainedEffect DEF Steps
<1>11. ASSUME NEW held \in Shares, ReadReprice(held) PROVE Steps
  BY <1>11, RepriceEffect DEF Steps
<1>12. ASSUME NEW held \in Shares, ReadExit(held) PROVE Steps
  BY <1>12, ExitEffect DEF Steps
<1>13. ASSUME NEW held \in Shares, ReadDown(held) PROVE Steps
  BY <1>13, DownEffect DEF Steps
<1>14. ASSUME NEW held \in Shares, Sweep(held) PROVE Steps
  BY <1>14, SweepEffect DEF Steps
<1>15. CASE \E n \in 1 .. Size : Lift(n)
  BY <1>15 DEF Steps
<1>16. CASE Drop
  <2>1. op.pc = "sell" /\ wallet \in Nat
    BY <1>16, NumbersHold DEF Drop, Numbers
  <2>2. rec = NoRec \/ (op.rec # NoRec /\ rec = Kept(op.rec))
    BY <2>1 DEF TypeInv, OpInv
  <2>3. ("dropped" \in hist' \/ wallet = 0) /\ hist \subseteq hist'
    BY <1>16, <2>1 DEF Drop
  <2>4. Unsold
    BY <1>16, <2>1, <2>2, <2>3 DEF Drop, Unsold, Ends, venue
  <2> QED BY <2>4 DEF Steps
<1> QED
  BY <1>1, <1>2, <1>3, <1>4, <1>5, <1>6, <1>7, <1>8, <1>9, <1>10, <1>11, <1>12, <1>13,
     <1>14, <1>15, <1>16 DEF Next, Signals, OpSteps, Poll

-----------------------------------------------------------------------------
(* Shares that are held stay in the position map.                          *)

\* A record whose ask is not known to be gone is about the whole position, and so is
\* the one a reprice pulls; nothing is found before the listing.
BaseInv ==
  /\ rec # NoRec /\ ~rec.vanished => rec.shares = pos
  /\ op.kind = "reprice" /\ op.pc \in {"list", "cancel", "read"} => op.rec.shares = pos
  /\ op.kind = "reprice" /\ op.pc = "list" => ~op.rec.vanished
  /\ op.pc \in {"all", "list"} => ~op.found

\* The wallet holds no more than the largest of the short readings, unless the only
\* one was a reading that failed.
ReadInv ==
  "blind" \notin hist /\ rec # NoRec /\ rec.short > 0 =>
    wallet <= rec.most \/ (rec.most = 0 /\ rec.short = 1)

Honest == hist \cap {"misread", "closed", "blind", "dropped"} = {}

\* What is held, and what an ask was seen to sell of it, fits the position and the
\* record's account of it.
Fits ==
  /\ op.pc = "sold" => wallet + op.matched <= pos
  /\ op.pc # "sold" => wallet <= pos
  /\ op.pc = "placed" /\ ask # NoAsk => wallet + ask.matched <= pos
  /\ rec # NoRec /\ ~rec.vanished /\ ask # NoAsk =>
       wallet + ask.matched <= rec.shares + rec.booked
  /\ op.kind = "reprice" /\ op.pc \in {"cancel", "read"} /\ op.found =>
       wallet + op.matched <= op.rec.shares + op.rec.booked

HeldInv == Honest => Fits

LEMMA BaseStep == ASSUME TypeInv, BaseInv, Steps PROVE BaseInv'
<1>0. Numbers /\ OpInv
  BY NumbersHold DEF TypeInv
<1>1. CASE (\E n \in 1 .. Size : Lift(n)) \/ Quiet
  BY <1>1 DEF Lift, Quiet, BaseInv
<1>2. CASE Began
  BY <1>2 DEF Began, BaseInv
<1>3. CASE Released \/ SaleBooked
  BY <1>3, IdleFacts DEF Released, SaleBooked, BaseInv
<1>4. CASE Pulled
  <2>1. op.kind = "reprice" => op.pc \in {"list", "cancel", "read", "place", "placed"}
    BY <1>0 DEF OpInv
  <2>2. rec # NoRec /\ ~rec.vanished => rec.shares = pos
    BY DEF BaseInv
  <2>3. rec' # NoRec /\ ~rec'.vanished => rec'.shares = pos'
    BY <1>4, <2>2 DEF Pulled
  <2> QED BY <1>4, <2>1, <2>3 DEF Pulled, BaseInv
<1>5. CASE Placed
  BY <1>0, <1>5, IdleFacts, KeptFacts DEF Placed, BaseInv, Numbers
<1>6. CASE Recorded
  <2>1. pos \in Shares
    BY DEF TypeInv, Shapes
  <2>2. rec'.shares = pos
    BY <1>6, <2>1, NewRecFacts DEF Recorded
  <2> QED BY <1>6, <2>2, IdleFacts DEF Recorded, BaseInv
<1>7. CASE Sold
  BY <1>7, IdleFacts DEF Sold, BaseInv
<1>8. CASE Cut
  BY <1>8, IdleFacts DEF Cut, BaseInv
<1>9. ASSUME NEW held \in Shares, Explained(held) PROVE BaseInv'
  BY <1>0, <1>9, IdleFacts, KeptFacts DEF Explained, BaseInv, Numbers
<1>10. ASSUME NEW held \in Shares, NEW sold, Repriced(sold, held) PROVE BaseInv'
  <2>1. rec = NoRec /\ op.rec \in Rec
    BY <1>0, <1>10 DEF Repriced, OpInv, Numbers
  <2>2. CASE op' = Idle /\ (rec' = NoRec \/ rec' = Kept(op.rec))
    BY <2>1, <2>2, IdleFacts, KeptFacts DEF BaseInv
  <2>3. CASE op' = [op EXCEPT !.pc = "place", !.rec = NoRec] /\ rec' = NoRec
    BY <1>0, <2>3, RestFacts DEF BaseInv, Numbers
  <2> QED BY <1>10, <2>1, <2>2, <2>3 DEF Repriced
<1>11. ASSUME NEW held \in Shares, NEW sold, Exited(sold, held) PROVE BaseInv'
  <2>1. rec = NoRec /\ op.rec \in Rec /\ op \in Ops /\ "sell" \in Pcs
    BY <1>0, <1>11 DEF Exited, OpInv, Numbers, Pcs
  <2>2. rec' = NoRec \/ rec' = Kept(op.rec)
    BY <1>11, <2>1 DEF Exited
  <2>3. op' = Idle \/ op'.pc = "sell"
    <3>1. op' = Idle \/ op' = [op EXCEPT !.pc = "sell"]
      BY <1>11 DEF Exited
    <3>2. [op EXCEPT !.pc = "sell"].pc = "sell"
      BY <2>1, OpMoves
    <3> QED BY <3>1, <3>2
  <2> QED BY <2>1, <2>2, <2>3, IdleFacts, KeptFacts DEF BaseInv
<1>12. ASSUME NEW held \in Shares, NEW sold, Downed(sold, held) PROVE BaseInv'
  BY <1>0, <1>12, IdleFacts DEF Downed, OpInv, BaseInv
<1>13. ASSUME NEW held \in Shares, NEW sold, Swept(sold, held) PROVE BaseInv'
  <2>1. rec \in Rec /\ op' = Idle
    BY <1>0, <1>13 DEF Swept, OpInv, Numbers
  <2> DEFINE q == Polled(rec, held)
  <2>2. /\ q \in Rec
        /\ q.shares = rec.shares
        /\ q.booked = rec.booked
        /\ q.vanished = rec.vanished
    BY <1>13, <2>1, PollFacts
  <2>3. rec.shares + rec.booked <= Size
    BY <1>13 DEF Swept, TypeInv, RecInv
  <2>4. \/ rec' = NoRec
        \/ rec' = q /\ pos' = pos
        \/ /\ sold \in Nat /\ q.most + sold = q.shares
           /\ pos' = q.most /\ rec' = Rebased(q, sold)
    BY <1>13, <2>2 DEF Swept
  <2> HIDE DEF q
  <2>5. \/ rec' = NoRec
        \/ rec'.shares = rec.shares /\ rec'.vanished = rec.vanished /\ pos' = pos
        \/ rec'.shares = pos'
    BY <2>2, <2>3, <2>4, RebaseFacts
  <2> QED BY <1>13, <2>1, <2>5, IdleFacts DEF BaseInv, Swept
<1>14. CASE Unsold
  BY <1>0, <1>14, IdleFacts, KeptFacts DEF Unsold, BaseInv, Numbers
<1> QED
  BY <1>1, <1>2, <1>3, <1>4, <1>5, <1>6, <1>7, <1>8, <1>9, <1>10, <1>11, <1>12, <1>13,
     <1>14 DEF Steps

\* Readings that agree on a lift, not all of them failed, show at least what is held.
LEMMA ReadingAgrees ==
  ASSUME TypeInv, ReadInv, "blind" \notin hist, rec # NoRec, pos > 0,
         NEW held \in Shares, held = seen \/ held = 0, ~Blind(held)
  PROVE  LET q == Polled(rec, held)
         IN  q.short > 0 => wallet <= q.most \/ (q.most = 0 /\ q.short = 1)
<1> DEFINE q == Polled(rec, held)
<1>1. /\ rec \in Rec
      /\ rec.short \in 0 .. Confirmations
      /\ rec.most \in Nat
      /\ wallet \in Nat
      /\ seen \in Nat
      /\ wallet <= seen
      /\ held \in Nat
  BY NumbersHold DEF Numbers, Shares
<1>2. /\ q \in Rec
      /\ q.short > 0 => q.most >= held
      /\ q.short > 0 /\ rec.short = 0 => q.short = 1 /\ q.most = held
      /\ q.short > 0 /\ rec.short > 0 =>
           q.short = Confirmations /\ q.most \in {rec.most, held} /\ q.most >= rec.most
  BY <1>1, PollFacts
<1>3. q.most \in Nat /\ q.short \in Nat
  BY <1>2 DEF Rec, Shares, Confirmations
<1> HIDE DEF q
<1>4. ASSUME q.short > 0 PROVE wallet <= q.most \/ (q.most = 0 /\ q.short = 1)
  <2>1. CASE held = seen
    BY <1>1, <1>2, <1>3, <1>4, <2>1
  <2>2. CASE held = 0 /\ held # seen
    <3>1. CASE rec.short = 0
      BY <1>2, <1>4, <2>2, <3>1
    <3>2. CASE rec.short > 0
      <4>1. wallet = 0 \/ wallet <= rec.most
        BY <1>1, <2>2, <3>2 DEF Blind, ReadInv
      <4> QED BY <1>1, <1>2, <1>3, <1>4, <3>2, <4>1
    <3> QED BY <1>1, <3>1, <3>2 DEF Confirmations
  <2> QED BY <2>1, <2>2
<1> QED BY <1>4 DEF q

LEMMA ReadStep == ASSUME TypeInv, ReadInv, Steps PROVE ReadInv'
<1>0. Numbers /\ OpInv
  BY NumbersHold DEF TypeInv
<1>1. ASSUME NEW n \in 1 .. Size, Lift(n) PROVE ReadInv'
  <2>1. n \in Nat /\ n <= wallet
    BY <1>0, <1>1, LiftEffect DEF Numbers, TypeInv, AskInv
  <2>2. wallet' = wallet - n /\ UNCHANGED <<rec, hist>>
    BY <1>1 DEF Lift
  <2> QED BY <1>0, <2>1, <2>2 DEF ReadInv, Numbers
<1>2. CASE Quiet \/ Cut
  BY <1>2 DEF Quiet, Cut, ReadInv
<1>3. CASE Began \/ Pulled
  BY <1>3 DEF Began, Pulled, ReadInv
<1>4. CASE Released \/ SaleBooked
  BY <1>4 DEF Released, SaleBooked, ReadInv
<1>5. CASE Placed
  BY <1>0, <1>5, KeptFacts DEF Placed, ReadInv, Numbers
<1>6. CASE Recorded
  <2>1. pos \in Shares
    BY DEF TypeInv, Shapes
  <2>2. rec'.short = 0
    BY <1>6, <2>1, NewRecFacts DEF Recorded
  <2> QED BY <2>2 DEF ReadInv
<1>7. CASE Sold
  <2>1. rec' = NoRec \/ rec'.short = 0
    BY <1>0, <1>7, KeptFacts DEF Sold, Numbers
  <2> QED BY <2>1 DEF ReadInv
<1>8. ASSUME NEW held \in Shares, Explained(held) PROVE ReadInv'
  <2>1. rec' = NoRec \/ rec'.short = 0
    BY <1>0, <1>8, KeptFacts DEF Explained, Numbers
  <2> QED BY <2>1 DEF ReadInv
<1>9. ASSUME NEW held \in Shares, NEW sold, Repriced(sold, held) PROVE ReadInv'
  <2>1. rec = NoRec /\ op.rec \in Rec
    BY <1>0, <1>9 DEF Repriced, OpInv, Numbers
  <2>2. rec' = NoRec \/ rec'.short = 0
    BY <1>9, <2>1, KeptFacts DEF Repriced
  <2> QED BY <2>2 DEF ReadInv
<1>10. ASSUME NEW held \in Shares, NEW sold, Exited(sold, held) PROVE ReadInv'
  <2>1. rec = NoRec /\ op.rec \in Rec
    BY <1>0, <1>10 DEF Exited, OpInv, Numbers
  <2>2. rec' = NoRec \/ rec'.short = 0
    BY <1>10, <2>1, KeptFacts DEF Exited
  <2> QED BY <2>2 DEF ReadInv
<1>11. ASSUME NEW held \in Shares, NEW sold, Downed(sold, held) PROVE ReadInv'
  BY <1>11 DEF Downed, ReadInv
<1>12. ASSUME NEW held \in Shares, NEW sold, Swept(sold, held) PROVE ReadInv'
  <2>1. /\ rec # NoRec
        /\ rec \in Rec
        /\ wallet' = wallet
        /\ hist \subseteq hist'
        /\ "blind" \in hist' \/ ~Blind(held)
    BY <1>0, <1>12 DEF Swept, Numbers
  <2> DEFINE q == Polled(rec, held)
  <2>2. CASE rec' = NoRec
    BY <2>2 DEF ReadInv
  <2>3. CASE /\ pos > 0
             /\ held = seen \/ held = 0
             /\ \/ rec' = q
                \/ sold \in Nat /\ q.most + sold = rec.shares /\ rec' = Rebased(q, sold)
    <3>1. "blind" \notin hist' /\ q.short > 0 =>
            wallet <= q.most \/ (q.most = 0 /\ q.short = 1)
      BY <2>1, <2>3, ReadingAgrees
    <3>2. q \in Rec /\ q.shares = rec.shares /\ q.booked = rec.booked
      BY <2>1, PollFacts
    <3>3. rec.shares + rec.booked <= Size
      BY <2>1 DEF TypeInv, RecInv
    <3> HIDE DEF q
    <3>4. rec' = NoRec \/ (rec'.short = q.short /\ rec'.most = q.most)
      BY <2>3, <3>2, <3>3, RebaseFacts
    <3> QED BY <2>1, <3>1, <3>4 DEF ReadInv
  <2> QED BY <1>12, <2>2, <2>3 DEF Swept
<1>13. CASE Unsold
  <2>1. rec' = NoRec \/ rec'.short = 0
    BY <1>0, <1>13, KeptFacts DEF Unsold, Numbers
  <2> QED BY <2>1 DEF ReadInv
<1> QED
  BY <1>1, <1>2, <1>3, <1>4, <1>5, <1>6, <1>7, <1>8, <1>9, <1>10, <1>11, <1>12,
     <1>13 DEF Steps

\* No step takes a share from the position that the wallet still has.
LEMMA HeldStep ==
  ASSUME TypeInv, BaseInv, ReadInv, HeldInv, Steps
  PROVE  HeldInv'
<1> SUFFICES ASSUME Honest' PROVE Fits'
  BY DEF HeldInv
<1>0. Numbers /\ OpInv
  BY NumbersHold DEF TypeInv
<1>h. hist \subseteq hist' => Fits
  BY DEF Honest, HeldInv
<1>i. op' = Idle => op'.kind = "none" /\ op'.pc = "idle"
  BY IdleFacts
<1>1. ASSUME NEW n \in 1 .. Size, Lift(n) PROVE Fits'
  <2>1. /\ n \in Nat
        /\ n <= ask.left
        /\ ask # NoAsk
        /\ ask' # NoAsk => ask'.matched = ask.matched + n
        /\ wallet' = wallet - n
        /\ UNCHANGED <<pos, rec, op, hist>>
    BY <1>1, LiftEffect
  <2>2. Fits
    BY <1>h, <2>1
  <2>3. /\ wallet \in Nat
        /\ ask.matched \in Nat
        /\ op.matched \in Nat
        /\ pos \in Nat
        /\ rec # NoRec => rec.shares \in Nat /\ rec.booked \in Nat
        /\ op.rec # NoRec => op.rec.shares \in Nat /\ op.rec.booked \in Nat
        /\ op.pc \in {"cancel", "read"} => op.rec # NoRec
    BY <1>0 DEF Numbers, OpInv
  <2>4. wallet' <= wallet /\ (ask' # NoAsk => wallet' + ask'.matched = wallet + ask.matched)
    BY <2>1, <2>3
  <2>5. wallet' + op.matched <= wallet + op.matched
    BY <2>1, <2>3
  <2>6. CASE op.pc = "sold"
    BY <2>1, <2>2, <2>3, <2>4, <2>5, <2>6 DEF Fits
  <2>7. CASE op.pc # "sold"
    <3>1. wallet' <= pos
      BY <2>1, <2>2, <2>3, <2>7 DEF Fits
    <3>2. op.pc = "placed" /\ ask' # NoAsk => wallet' + ask'.matched <= pos
      BY <2>1, <2>2, <2>4 DEF Fits
    <3>3. rec # NoRec /\ ~rec.vanished /\ ask' # NoAsk =>
            wallet' + ask'.matched <= rec.shares + rec.booked
      BY <2>1, <2>2, <2>4 DEF Fits
    <3>4. op.kind = "reprice" /\ op.pc \in {"cancel", "read"} /\ op.found =>
            wallet' + op.matched <= op.rec.shares + op.rec.booked
      BY <2>1, <2>2, <2>3 DEF Fits
    <3> QED BY <2>1, <2>7, <3>1, <3>2, <3>3, <3>4 DEF Fits
  <2> QED BY <2>6, <2>7
<1>2. CASE Quiet
  <2>1. Fits
    BY <1>h, <1>2 DEF Quiet
  <2> QED BY <1>2, <2>1 DEF Quiet, Fits
<1>3. CASE Began
  <2>1. Fits
    BY <1>h, <1>3 DEF Began
  <2> QED BY <1>3, <2>1 DEF Began, Fits
<1>4. CASE Released
  BY <1>i, <1>4 DEF Released, Fits
<1>5. CASE Pulled
  <2>1. Fits
    BY <1>h, <1>5 DEF Pulled
  <2>2. /\ op.kind = "reprice" => op.pc \in {"list", "cancel", "read", "place", "placed"}
        /\ op.pc = "list" => rec = op.rec /\ op.rec # NoRec
    BY <1>0 DEF OpInv
  <2>3. CASE op.pc = "all" /\ op'.pc = "list"
    BY <1>5, <2>1, <2>2, <2>3 DEF Pulled, Fits
  <2>4. CASE op.pc = "cancel" /\ op'.pc = "read"
    BY <1>5, <2>1, <2>2, <2>4 DEF Pulled, Fits
  <2>5. CASE op.pc = "list" /\ op'.pc \in {"cancel", "read"} /\ ask' = ask
    <3>1. op.kind = "reprice" => ~op.rec.vanished
      BY <2>5 DEF BaseInv
    <3>2. ~op.found
      BY <2>5 DEF BaseInv
    <3>3. op.kind = "reprice" /\ op'.found =>
            wallet + op'.matched <= op.rec.shares + op.rec.booked
      BY <1>5, <2>1, <2>2, <2>5, <3>1, <3>2 DEF Pulled, Fits
    <3> QED BY <1>5, <2>1, <2>5, <3>3 DEF Pulled, Fits
  <2> QED BY <1>5, <2>3, <2>4, <2>5 DEF Pulled
<1>6. CASE Placed
  <2>1. wallet <= pos
    BY <1>h, <1>6 DEF Placed, Fits
  <2>2. CASE ask'.matched = 0 /\ op'.pc = "placed" /\ rec' = NoRec
    BY <1>0, <1>6, <2>1, <2>2 DEF Placed, Fits, Numbers
  <2>3. CASE op' = Idle /\ (rec' = NoRec \/ (op.rec # NoRec /\ rec' = Kept(op.rec)))
    <3>1. rec' = NoRec \/ rec'.vanished
      BY <1>0, <2>3, KeptFacts DEF Numbers
    <3> QED BY <1>6, <1>i, <2>1, <2>3, <3>1 DEF Placed, Fits
  <2> QED BY <1>6, <2>2, <2>3 DEF Placed
<1>7. CASE Recorded
  <2>1. wallet <= pos /\ (ask # NoAsk => wallet + ask.matched <= pos)
    BY <1>h, <1>7 DEF Recorded, Fits
  <2>2. pos \in Shares
    BY DEF TypeInv, Shapes
  <2>3. rec'.shares = pos /\ rec'.booked = 0
    BY <1>7, <2>2, NewRecFacts DEF Recorded
  <2> QED BY <1>0, <1>7, <1>i, <2>1, <2>3 DEF Recorded, Fits, Numbers
<1>8. CASE Sold
  <2>1. wallet <= pos
    BY <1>h, <1>8 DEF Sold, Fits
  <2>2. rec = NoRec \/ rec.vanished
    BY <1>0, <1>8, KeptFacts DEF Sold, Numbers
  <2>3. CASE UNCHANGED wallet /\ op'.pc # "sold" /\ op'.pc # "placed" /\ op'.kind # "reprice"
    BY <1>8, <2>1, <2>2, <2>3 DEF Sold, Fits
  <2>4. CASE /\ op'.pc = "sold" /\ op'.kind = "exit"
             /\ op'.matched \in Nat /\ op'.matched <= wallet
             /\ wallet' = wallet - op'.matched
    <3>1. PICK n : n = op'.matched
      OBVIOUS
    <3>2. wallet' + op'.matched <= pos
      BY <1>0, <2>1, <2>4, <3>1 DEF Numbers
    <3> QED BY <1>8, <2>2, <2>4, <3>2 DEF Sold, Fits
  <2> QED BY <1>8, <1>i, <2>3, <2>4 DEF Sold
<1>9. CASE SaleBooked
  <2>1. wallet + op.matched <= pos
    BY <1>h, <1>9 DEF SaleBooked, Fits
  <2>2. wallet <= pos - op.matched
    BY <1>0, <2>1 DEF Numbers
  <2> QED BY <1>9, <1>i, <2>2 DEF SaleBooked, Fits
<1>10. CASE Cut
  <2>1. Fits
    BY <1>h, <1>10 DEF Cut
  <2>2. wallet <= pos
    BY <1>0, <2>1 DEF Fits, Numbers
  <2> QED BY <1>10, <1>i, <2>1, <2>2 DEF Cut, Fits
<1>11. ASSUME NEW held \in Shares, Explained(held) PROVE Fits'
  <2>1. wallet <= pos
    BY <1>h, <1>11 DEF Explained, Fits
  <2>2. rec = NoRec \/ rec.vanished
    BY <1>0, <1>11, KeptFacts DEF Explained, Numbers
  <2>3. wallet <= pos'
    <3>1. CASE held = seen /\ pos' = held
      BY <1>0, <3>1 DEF Numbers
    <3>2. CASE pos' = pos
      BY <2>1, <3>2
    <3>3. CASE pos' = 0
      <4>1. "misread" \notin hist'
        BY DEF Honest
      <4> QED BY <1>11, <3>3, <4>1 DEF Explained
    <3> QED BY <1>11, <3>1, <3>2, <3>3 DEF Explained
  <2> QED BY <1>11, <1>i, <2>2, <2>3 DEF Explained, Fits
<1>12. ASSUME NEW held \in Shares, NEW sold, Repriced(sold, held) PROVE Fits'
  <2>1. /\ rec = NoRec
        /\ op.rec \in Rec
        /\ op.rec.shares \in Nat
        /\ op.rec.booked \in Nat
        /\ op.rec.shares = pos
    BY <1>0, <1>12 DEF Repriced, OpInv, Numbers, BaseInv
  <2>2. Fits
    BY <1>h, <1>12 DEF Repriced
  <2>3. wallet <= pos /\ (op.found => wallet + op.matched <= op.rec.shares + op.rec.booked)
    BY <1>12, <2>2 DEF Repriced, Fits
  <2>4. wallet <= pos'
    <3>1. CASE pos' = pos
      BY <2>3, <3>1
    <3>2. CASE sold > 0 /\ pos' = RemainingAfter(pos, sold, held)
      <4>1. /\ sold \in Nat
            /\ Matched(sold) \/ Dropped(sold, op.rec.shares, held)
            /\ held = seen \/ held = 0
            /\ held \in Nat
        BY <1>12, <3>2 DEF Repriced, Shares
      <4>2. wallet + sold <= pos
        BY <1>0, <2>1, <2>3, <4>1 DEF Matched, Dropped, Numbers
      <4>3. held = 0 \/ wallet <= held
        BY <1>0, <4>1 DEF Numbers
      <4> QED BY <1>0, <3>2, <4>1, <4>2, <4>3, RemainingFacts DEF Numbers
    <3> QED BY <1>12, <3>1, <3>2 DEF Repriced
  <2>5. CASE op' = Idle /\ (rec' = NoRec \/ rec' = Kept(op.rec))
    <3>1. rec' = NoRec \/ rec'.vanished
      BY <2>1, <2>5, KeptFacts
    <3> QED BY <1>12, <1>i, <2>4, <2>5, <3>1 DEF Repriced, Fits
  <2>6. CASE op' = [op EXCEPT !.pc = "place", !.rec = NoRec] /\ rec' = NoRec
    <3>1. op'.pc = "place"
      BY <1>0, <2>6, RestFacts DEF Numbers
    <3> QED BY <1>12, <2>4, <2>6, <3>1 DEF Repriced, Fits
  <2> QED BY <1>12, <2>1, <2>5, <2>6 DEF Repriced
<1>13. ASSUME NEW held \in Shares, NEW sold, Exited(sold, held) PROVE Fits'
  <2>1. rec = NoRec /\ op.rec \in Rec /\ op \in Ops /\ "sell" \in Pcs
    BY <1>0, <1>13 DEF Exited, OpInv, Numbers, Pcs
  <2>2. rec' = NoRec \/ rec'.vanished
    BY <1>13, <2>1, KeptFacts DEF Exited
  <2>3. op'.pc \in {"idle", "sell"} /\ op'.kind # "reprice"
    <3>1. op' = Idle \/ op' = [op EXCEPT !.pc = "sell"]
      BY <1>13 DEF Exited
    <3>2. LET n == [op EXCEPT !.pc = "sell"] IN n.pc = "sell" /\ n.kind = op.kind
      BY <2>1, OpMoves
    <3>3. op.kind = "exit"
      BY <1>13 DEF Exited
    <3> QED BY <1>i, <3>1, <3>2, <3>3
  <2>4. wallet <= pos'
    <3>1. hist \subseteq hist'
      BY <1>13 DEF Exited
    <3>2. wallet <= pos
      BY <1>h, <1>13, <3>1 DEF Exited, Fits
    <3>3. pos' = pos \/ (pos' = held /\ held = seen)
      BY <1>13 DEF Exited
    <3> QED BY <1>0, <3>2, <3>3 DEF Numbers
  <2> QED BY <1>13, <2>2, <2>3, <2>4 DEF Exited, Fits
<1>14. ASSUME NEW held \in Shares, NEW sold, Downed(sold, held) PROVE Fits'
  <2>1. rec' = NoRec /\ wallet <= pos
    BY <1>0, <1>h, <1>14 DEF Downed, Fits, OpInv
  <2>2. wallet <= pos'
    <3>1. "closed" \notin hist'
      BY DEF Honest
    <3> QED BY <1>0, <1>14, <2>1, <3>1 DEF Downed, Numbers
  <2> QED BY <1>14, <1>i, <2>1, <2>2 DEF Downed, Fits
<1>15. ASSUME NEW held \in Shares, NEW sold, Swept(sold, held) PROVE Fits'
  <2>1. rec \in Rec /\ op' = Idle /\ UNCHANGED <<wallet, ask>>
    BY <1>0, <1>15 DEF Swept, OpInv, Numbers
  <2>2. /\ wallet <= pos
        /\ ~rec.vanished /\ ask # NoAsk => wallet + ask.matched <= rec.shares + rec.booked
    BY <1>h, <1>15 DEF Swept, Fits
  <2> DEFINE q == Polled(rec, held)
  <2>3. /\ q \in Rec
        /\ q.shares = rec.shares
        /\ q.booked = rec.booked
        /\ q.vanished = rec.vanished
    BY <2>1, PollFacts
  <2>4. rec.shares + rec.booked <= Size
    BY <1>15 DEF Swept, TypeInv, RecInv
  <2>5. \/ rec' = NoRec /\ pos' = pos
        \/ rec' = q /\ pos' = pos
        \/ /\ q.short = Confirmations
           /\ pos > 0
           /\ held = seen \/ held = 0
           /\ sold \in Nat /\ q.most + sold = q.shares
           /\ pos' = q.most /\ rec' = Rebased(q, sold)
    BY <1>15, <2>3 DEF Swept
  <2> HIDE DEF q
  <2>6. CASE pos' = pos /\ (rec' = NoRec \/ rec' = q)
    BY <1>i, <2>1, <2>2, <2>3, <2>6 DEF Fits
  <2>7. CASE /\ q.short = Confirmations
             /\ pos > 0
             /\ held = seen \/ held = 0
             /\ sold \in Nat /\ q.most + sold = q.shares
             /\ pos' = q.most /\ rec' = Rebased(q, sold)
    <3>1. rec' # NoRec => /\ rec'.shares = q.most
                          /\ rec'.booked = q.booked + sold
                          /\ rec'.vanished = q.vanished
                          /\ rec'.short = q.short
                          /\ rec'.most = q.most
      BY <2>3, <2>4, <2>7, RebaseFacts
    <3>2. /\ q.most \in Nat
          /\ q.booked \in Nat
          /\ q.shares \in Nat
      BY <2>3 DEF Rec, Shares
    <3>3. wallet <= q.most
      <4>1. rec # NoRec /\ "blind" \notin hist /\ ~Blind(held)
        BY <1>15 DEF Swept, Honest
      <4>2. q.short > 0 => wallet <= q.most \/ (q.most = 0 /\ q.short = 1)
        BY <2>7, <4>1, ReadingAgrees DEF q
      <4> QED BY <2>7, <4>2 DEF Confirmations
    <3>4. q.most + (q.booked + sold) = rec.shares + rec.booked
      BY <2>3, <2>7, <3>2
    <3> QED BY <1>i, <2>1, <2>2, <2>3, <2>7, <3>1, <3>3, <3>4 DEF Fits
  <2> QED BY <2>5, <2>6, <2>7
<1>16. CASE Unsold
  <2>1. wallet = 0
    <3>1. "dropped" \notin hist'
      BY DEF Honest
    <3> QED BY <1>16, <3>1 DEF Unsold
  <2>2. rec = NoRec \/ rec.vanished
    BY <1>0, <1>16, KeptFacts DEF Unsold, Numbers
  <2> QED BY <1>16, <1>i, <2>1, <2>2 DEF Unsold, Fits
<1> QED
  BY <1>1, <1>2, <1>3, <1>4, <1>5, <1>6, <1>7, <1>8, <1>9, <1>10, <1>11, <1>12, <1>13,
     <1>14, <1>15, <1>16 DEF Steps

-----------------------------------------------------------------------------
(* No lift is booked that the ask did not have.                            *)

Trusted == hist \cap {"raised", "misread", "again", "unheard", "blind"} = {}

\* What an account of s shares at a price leaves out is in the wallet or was lifted.
Owed(s, p) == s + booked[p] <= wallet + lifted[p]

\* The ask on the book is the record's, and so is what it sold.
OfAsk(r) ==
  ask # NoAsk => /\ ask.price = r.price
                 /\ ask.matched + booked[r.price] <= lifted[r.price] + r.booked

NoExcess == \A p \in Prices : booked[p] <= lifted[p]

\* The standing record, and the one an operation pulled.
Standing ==
  rec # NoRec /\ pos > 0 => /\ pos <= rec.shares
                            /\ OfAsk(rec)
                            /\ op.pc # "sold" => Owed(rec.shares, rec.price)
Pulling ==
  op.rec # NoRec /\ pos > 0 /\ op.pc \in {"list", "cancel", "read", "place"} =>
    /\ pos <= op.rec.shares
    /\ OfAsk(op.rec)
    /\ Owed(op.rec.shares, op.rec.price)

\* What the listing saw of it, and the asks an operation meets and posts.
Found ==
  op.rec # NoRec /\ pos > 0 /\ op.pc \in {"cancel", "read"} /\ op.found =>
    op.matched + booked[op.rec.price] <= lifted[op.rec.price] + op.rec.booked
SamePrice ==
  op.rec # NoRec /\ pos > 0 /\ op.pc # "placed" /\ ask # NoAsk => ask.price = op.rec.price
Selling == op.rec # NoRec /\ op.pc \in {"sell", "refused"} => Owed(pos, op.rec.price)
Posting ==
  op.pc = "placed" =>
    /\ Owed(pos, op.want)
    /\ ask # NoAsk => ask.price = op.want /\ ask.matched + booked[op.want] <= lifted[op.want]

Accounts == NoExcess /\ Standing /\ Pulling /\ Found /\ SamePrice /\ Selling /\ Posting
LedgerInv == Trusted => Accounts

LEMMA IdleAccounts == ASSUME op' = Idle, NoExcess', Standing' PROVE Accounts'
<1>1. op'.pc = "idle" /\ op'.rec = NoRec
  BY IdleFacts
<1> QED BY <1>1 DEF Accounts, Pulling, Found, SamePrice, Selling, Posting

LEMMA NoExcessSame == ASSUME NoExcess, UNCHANGED <<booked, lifted>> PROVE NoExcess'
  BY DEF NoExcess

\* A record that is kept is as good as the one that was pulled.
LEMMA KeptStanding ==
  ASSUME Numbers, Pulling, op.rec # NoRec, op.pc \in {"read", "place"}, rec' = Kept(op.rec),
         UNCHANGED <<ask, wallet, lifted, booked, pos>>
  PROVE  Standing'
<1>1. /\ rec'.price = op.rec.price
      /\ rec'.shares = op.rec.shares
      /\ rec'.booked = op.rec.booked
  BY KeptFacts DEF Numbers
<1>2. pos > 0 => pos <= op.rec.shares /\ OfAsk(op.rec) /\ Owed(op.rec.shares, op.rec.price)
  BY DEF Pulling
<1> QED BY <1>1, <1>2 DEF Standing, OfAsk, Owed

\* A booking at the pulled record's price that both witnesses bound.
LEMMA BookedRight ==
  ASSUME Numbers, NoExcess, op.rec # NoRec, NEW n \in Nat, Books(n), lifted' = lifted,
         n + booked[op.rec.price] <= lifted[op.rec.price]
  PROVE  NoExcess'
<1>1. /\ booked'[op.rec.price] = booked[op.rec.price] + n
      /\ \A p \in Prices : p # op.rec.price => booked'[p] = booked[p]
  BY BooksFacts
<1>2. ASSUME NEW p \in Prices PROVE booked'[p] <= lifted'[p]
  <2>1. CASE p = op.rec.price
    <3>1. booked[p] \in Nat /\ lifted[p] \in Nat /\ booked[p] + n <= lifted[p]
      BY <2>1 DEF Numbers
    <3> QED BY <1>1, <2>1, <3>1
  <2>2. CASE p # op.rec.price
    BY <1>1, <2>2 DEF NoExcess
  <2> QED BY <2>1, <2>2
<1> QED BY <1>2 DEF NoExcess

\* A pull books a lift that there was, by the matched size or by the wallet.
LEMMA PullBooksRight ==
  ASSUME Numbers, Pulling, Found, op.rec # NoRec, pos > 0, op.pc = "read",
         NEW n \in Nat, NEW held, NEW from \in Nat, from <= op.rec.shares,
         Matched(n) \/ Dropped(n, from, held)
  PROVE  n + booked[op.rec.price] <= lifted[op.rec.price]
<1>1. /\ op.rec.shares + booked[op.rec.price] <= wallet + lifted[op.rec.price]
      /\ op.found => op.matched + booked[op.rec.price] <= lifted[op.rec.price] + op.rec.booked
  BY DEF Pulling, Found, Owed
<1>2. PICK b \in Nat, l \in Nat : b = booked[op.rec.price] /\ l = lifted[op.rec.price]
  BY DEF Numbers
<1>3. /\ op.rec.shares \in Nat
      /\ op.rec.booked \in Nat
      /\ op.matched \in Nat
      /\ wallet \in Nat
      /\ seen \in Nat
      /\ wallet <= seen
  BY DEF Numbers
<1>4. CASE Matched(n)
  BY <1>1, <1>2, <1>3, <1>4 DEF Matched
<1>5. CASE Dropped(n, from, held)
  BY <1>1, <1>2, <1>3, <1>5 DEF Dropped
<1> QED BY <1>4, <1>5

LEMMA LiftLedger == ASSUME TypeInv, Accounts, NEW n \in 1 .. Size, Lift(n) PROVE Accounts'
<1>0. Numbers /\ OpInv
  BY NumbersHold DEF TypeInv
<1>1. /\ n \in Nat
      /\ n <= ask.left
      /\ ask # NoAsk
      /\ ask' # NoAsk => ask'.matched = ask.matched + n /\ ask'.price = ask.price
      /\ wallet' = wallet - n
      /\ lifted'[ask.price] = lifted[ask.price] + n
      /\ \A p \in Prices : lifted'[p] \in {lifted[p], lifted[p] + n}
      /\ UNCHANGED <<pos, rec, booked, op>>
  BY LiftEffect
<1>2. /\ wallet \in Nat
      /\ n <= wallet
      /\ ask.price \in Prices
      /\ ask.matched \in Nat
      /\ pos \in Nat
      /\ \A p \in Prices : lifted[p] \in Nat /\ booked[p] \in Nat
  BY <1>0, <1>1 DEF Numbers, TypeInv, AskInv
<1>3. ASSUME NEW p \in Prices, NEW b \in Nat, NEW m \in Nat, m + booked[p] <= lifted[p] + b
      PROVE  m + booked[p] <= lifted'[p] + b
  BY <1>1, <1>2, <1>3
<1>4. ASSUME NEW p, p = ask.price, NEW s \in Nat, s + booked[p] <= wallet + lifted[p]
      PROVE  s + booked[p] <= wallet' + lifted'[p]
  BY <1>1, <1>2, <1>4
<1>5. ASSUME ask' # NoAsk, NEW p, ask.price = p, NEW b \in Nat,
             ask.matched + booked[p] <= lifted[p] + b
      PROVE  ask'.matched + booked[p] <= lifted'[p] + b
  BY <1>1, <1>2, <1>5
<1>6. ASSUME NEW r, r # NoRec, r.price \in Prices, r.booked \in Nat, r.shares \in Nat, OfAsk(r)
      PROVE  /\ ask.price = r.price
             /\ ask' # NoAsk => /\ ask'.price = r.price
                                /\ ask'.matched + booked[r.price] <= lifted'[r.price] + r.booked
             /\ Owed(r.shares, r.price) =>
                  r.shares + booked[r.price] <= wallet' + lifted'[r.price]
  <2>1. ask.price = r.price /\ ask.matched + booked[r.price] <= lifted[r.price] + r.booked
    BY <1>1, <1>6 DEF OfAsk
  <2>2. ask' # NoAsk => ask'.matched + booked[r.price] <= lifted'[r.price] + r.booked
    BY <1>5, <1>6, <2>1
  <2>3. Owed(r.shares, r.price) => r.shares + booked[r.price] <= wallet' + lifted'[r.price]
    BY <1>4, <1>6, <2>1 DEF Owed
  <2> QED BY <1>1, <2>1, <2>2, <2>3
<1>7. /\ rec # NoRec => rec.price \in Prices /\ rec.booked \in Nat /\ rec.shares \in Nat
      /\ op.rec # NoRec => /\ op.rec.price \in Prices
                           /\ op.rec.booked \in Nat
                           /\ op.rec.shares \in Nat
      /\ op.matched \in Nat
  BY <1>0 DEF Numbers
<1>8. NoExcess'
  <2>1. ASSUME NEW p \in Prices PROVE booked[p] <= lifted'[p]
    BY <1>1, <1>2 DEF Accounts, NoExcess
  <2> QED BY <1>1, <2>1 DEF NoExcess
<1>9. Standing'
  <2> SUFFICES ASSUME rec # NoRec, pos > 0
               PROVE  /\ pos <= rec.shares
                      /\ ask' # NoAsk => /\ ask'.price = rec.price
                                         /\ ask'.matched + booked[rec.price]
                                              <= lifted'[rec.price] + rec.booked
                      /\ op.pc # "sold" => rec.shares + booked[rec.price]
                                             <= wallet' + lifted'[rec.price]
    BY <1>1 DEF Standing, OfAsk, Owed
  <2>1. /\ pos <= rec.shares
        /\ OfAsk(rec)
        /\ op.pc # "sold" => Owed(rec.shares, rec.price)
    BY DEF Accounts, Standing
  <2> QED BY <1>6, <1>7, <2>1
<1>10. Pulling'
  <2> SUFFICES ASSUME op.rec # NoRec, pos > 0, op.pc \in {"list", "cancel", "read", "place"}
               PROVE  /\ pos <= op.rec.shares
                      /\ ask' # NoAsk => /\ ask'.price = op.rec.price
                                         /\ ask'.matched + booked[op.rec.price]
                                              <= lifted'[op.rec.price] + op.rec.booked
                      /\ op.rec.shares + booked[op.rec.price] <= wallet' + lifted'[op.rec.price]
    BY <1>1 DEF Pulling, OfAsk, Owed
  <2>1. pos <= op.rec.shares /\ OfAsk(op.rec) /\ Owed(op.rec.shares, op.rec.price)
    BY DEF Accounts, Pulling
  <2> QED BY <1>6, <1>7, <2>1
<1>11. Found'
  <2> SUFFICES ASSUME op.rec # NoRec, pos > 0, op.pc \in {"cancel", "read"}, op.found
               PROVE  op.matched + booked[op.rec.price] <= lifted'[op.rec.price] + op.rec.booked
    BY <1>1 DEF Found
  <2>1. op.matched + booked[op.rec.price] <= lifted[op.rec.price] + op.rec.booked
    BY DEF Accounts, Found
  <2> QED BY <1>3, <1>7, <2>1
<1>12. SamePrice'
  BY <1>1 DEF Accounts, SamePrice
<1>13. Selling'
  <2> SUFFICES ASSUME op.rec # NoRec, op.pc \in {"sell", "refused"}
               PROVE  pos + booked[op.rec.price] <= wallet' + lifted'[op.rec.price]
    BY <1>1 DEF Selling, Owed
  <2>1. pos > 0
    <3>1. op.kind \in Kinds
      BY <1>0 DEF Numbers, Ops
    <3> QED BY <1>0, <3>1 DEF OpInv, Kinds
  <2>2. ask.price = op.rec.price /\ pos + booked[op.rec.price] <= wallet + lifted[op.rec.price]
    BY <1>1, <2>1 DEF Accounts, SamePrice, Selling, Owed
  <2> QED BY <1>2, <1>4, <2>2
<1>14. Posting'
  <2> SUFFICES ASSUME op.pc = "placed"
               PROVE  /\ pos + booked[op.want] <= wallet' + lifted'[op.want]
                      /\ ask' # NoAsk => /\ ask'.price = op.want
                                         /\ ask'.matched + booked[op.want] <= lifted'[op.want]
    BY <1>1 DEF Posting, Owed
  <2>1. /\ pos + booked[op.want] <= wallet + lifted[op.want]
        /\ ask.price = op.want
        /\ ask.matched + booked[op.want] <= lifted[op.want]
    BY <1>1 DEF Accounts, Posting, Owed
  <2>2. pos + booked[op.want] <= wallet' + lifted'[op.want]
    BY <1>2, <1>4, <2>1
  <2>3. ask' # NoAsk => ask'.matched + booked[op.want] <= lifted'[op.want]
    BY <1>1, <1>2, <2>1
  <2> QED BY <1>1, <2>1, <2>2, <2>3
<1> QED BY <1>8, <1>9, <1>10, <1>11, <1>12, <1>13, <1>14 DEF Accounts

LEMMA LedgerStep ==
  ASSUME TypeInv, BaseInv, ReadInv, LedgerInv, Steps
  PROVE  LedgerInv'
<1> SUFFICES ASSUME Trusted' PROVE Accounts'
  BY DEF LedgerInv
<1>0. Numbers /\ OpInv
  BY NumbersHold DEF TypeInv
<1>h. hist \subseteq hist' => Accounts
  BY DEF Trusted, LedgerInv
<1>t. /\ "raised" \notin hist'
      /\ "misread" \notin hist'
      /\ "again" \notin hist'
      /\ "unheard" \notin hist'
      /\ "blind" \notin hist'
  BY DEF Trusted
<1>k. op.kind \in Kinds /\ pos \in Nat
  BY <1>0 DEF Numbers, Ops
<1>1. ASSUME NEW n \in 1 .. Size, Lift(n) PROVE Accounts'
  <2>1. hist' = hist
    BY <1>1 DEF Lift
  <2> QED BY <1>1, <1>h, <2>1, LiftLedger
<1>2. CASE Quiet
  <2>1. Accounts
    BY <1>h, <1>2 DEF Quiet
  <2>2. UNCHANGED <<wallet, lifted, pos, rec, booked, op>> /\ (ask' = ask \/ ask' = NoAsk)
    BY <1>2 DEF Quiet
  <2>3. NoExcess' /\ Selling'
    BY <2>1, <2>2 DEF Accounts, NoExcess, Selling, Owed
  <2>4. Standing' /\ Pulling'
    BY <2>1, <2>2 DEF Accounts, Standing, Pulling, Owed, OfAsk
  <2>5. Found' /\ SamePrice' /\ Posting'
    BY <2>1, <2>2 DEF Accounts, Found, SamePrice, Posting, Owed
  <2> QED BY <2>3, <2>4, <2>5 DEF Accounts
<1>3. CASE Began
  <2>1. Accounts
    BY <1>h, <1>3 DEF Began
  <2>2. /\ op.pc = "idle"
        /\ op'.pc \in {"place", "list", "sell", "all"}
        /\ op'.rec = rec
        /\ op'.pc = "sell" => rec = NoRec
        /\ rec' = rec \/ rec' = NoRec
        /\ UNCHANGED <<ask, wallet, lifted, pos, booked>>
    BY <1>3 DEF Began
  <2>3. rec # NoRec /\ pos > 0 => /\ pos <= rec.shares
                                  /\ OfAsk(rec)
                                  /\ Owed(rec.shares, rec.price)
    BY <2>1, <2>2 DEF Accounts, Standing
  <2>4. NoExcess'
    BY <2>1, <2>2, NoExcessSame DEF Accounts
  <2>5. Standing' /\ Pulling'
    BY <2>2, <2>3 DEF Standing, Pulling, Owed, OfAsk
  <2>6. Found' /\ SamePrice' /\ Selling' /\ Posting'
    BY <2>2, <2>3 DEF Found, SamePrice, Selling, Posting, OfAsk
  <2> QED BY <2>4, <2>5, <2>6 DEF Accounts
<1>4. CASE Released
  <2>1. NoExcess
    BY <1>h, <1>4 DEF Released, Accounts
  <2>2. NoExcess'
    BY <1>4, <2>1, NoExcessSame DEF Released
  <2>3. Standing'
    BY <1>4 DEF Released, Standing
  <2> QED BY <1>4, <2>2, <2>3, IdleAccounts DEF Released
<1>5. CASE Pulled
  <2>1. Accounts
    BY <1>h, <1>5 DEF Pulled
  <2>2. /\ ask' = ask \/ ask' = NoAsk
        /\ rec' = rec \/ rec' = NoRec
        /\ op'.rec = op.rec
        /\ op.pc \in {"all", "list", "cancel"}
        /\ op'.pc \in {"list", "cancel", "read"}
        /\ UNCHANGED <<wallet, lifted, pos, booked>>
    BY <1>5 DEF Pulled
  <2>3. rec = op.rec
    BY <1>0, <2>2 DEF OpInv
  <2>4. rec # NoRec /\ pos > 0 => /\ pos <= rec.shares
                                  /\ OfAsk(rec)
                                  /\ Owed(rec.shares, rec.price)
    BY <2>1, <2>2 DEF Accounts, Standing
  <2>5. NoExcess'
    BY <2>1, <2>2, NoExcessSame DEF Accounts
  <2>6. Standing' /\ Pulling'
    BY <2>2, <2>3, <2>4 DEF Standing, Pulling, Owed, OfAsk
  <2>7. SamePrice' /\ Selling' /\ Posting'
    BY <2>2, <2>3, <2>4 DEF SamePrice, Selling, Posting, OfAsk
  <2>8. Found'
    <3>1. CASE op.pc = "all" /\ op'.pc = "list"
      BY <3>1 DEF Found
    <3>2. CASE /\ op.pc = "list"
               /\ \/ op'.found = FALSE
                  \/ op'.found = op.found
                  \/ op'.found = TRUE /\ ask # NoAsk /\ op'.matched = ask.matched
      <4>1. ~op.found
        BY <3>2 DEF BaseInv
      <4>2. op'.found => ask # NoAsk /\ op'.matched = ask.matched
        BY <3>2, <4>1
      <4> QED BY <2>2, <2>3, <2>4, <4>2 DEF Found, OfAsk
    <3>3. CASE op.pc = "cancel" /\ op'.found = op.found /\ op'.matched = op.matched
      BY <2>1, <2>2, <3>3 DEF Accounts, Found
    <3> QED BY <1>5, <3>1, <3>2, <3>3 DEF Pulled
  <2> QED BY <2>5, <2>6, <2>7, <2>8 DEF Accounts
<1>6. CASE Placed
  <2>1. Accounts
    BY <1>h, <1>6 DEF Placed
  <2>2. op.pc = "place" /\ op.want \in Prices /\ UNCHANGED <<wallet, lifted, pos, booked>>
    BY <1>6 DEF Placed
  <2>3. NoExcess'
    BY <2>1, <2>2, NoExcessSame DEF Accounts
  <2>4. CASE /\ pos <= wallet
             /\ ask' # NoAsk
             /\ ask'.price = op.want /\ ask'.matched = 0
             /\ op'.pc = "placed" /\ op'.want = op.want
             /\ rec' = NoRec
    <3>1. /\ booked[op.want] <= lifted[op.want]
          /\ booked[op.want] \in Nat
          /\ lifted[op.want] \in Nat
          /\ wallet \in Nat
      BY <1>0, <2>1, <2>2 DEF Accounts, NoExcess, Numbers
    <3>2. pos + booked[op.want] <= wallet + lifted[op.want]
      BY <1>k, <2>4, <3>1
    <3>3. ask'.matched + booked[op.want] <= lifted[op.want]
      BY <2>4, <3>1
    <3>4. Posting'
      BY <2>2, <2>4, <3>2, <3>3 DEF Posting, Owed
    <3>5. Standing' /\ Pulling' /\ Found' /\ SamePrice' /\ Selling'
      BY <2>4 DEF Standing, Pulling, Found, SamePrice, Selling
    <3> QED BY <2>3, <3>4, <3>5 DEF Accounts
  <2>5. CASE op' = Idle /\ ask' = ask /\ (rec' = NoRec \/ (op.rec # NoRec /\ rec' = Kept(op.rec)))
    <3>1. CASE rec' = NoRec
      BY <2>3, <2>5, <3>1, IdleAccounts DEF Standing
    <3>2. CASE op.rec # NoRec /\ rec' = Kept(op.rec)
      <4>1. Standing'
        BY <1>0, <2>1, <2>2, <2>5, <3>2, KeptStanding DEF Accounts
      <4> QED BY <2>3, <2>5, <4>1, IdleAccounts
    <3> QED BY <2>5, <3>1, <3>2
  <2> QED BY <1>6, <2>4, <2>5 DEF Placed
<1>7. CASE Recorded
  <2>1. Accounts
    BY <1>h, <1>7 DEF Recorded
  <2>2. /\ op.pc = "placed"
        /\ op.want \in Prices
        /\ op' = Idle
        /\ UNCHANGED <<ask, wallet, lifted, pos, booked>>
    BY <1>7 DEF Recorded
  <2>3. pos \in Shares
    BY DEF TypeInv, Shapes
  <2>4. /\ rec'.price = op.want
        /\ rec'.shares = pos
        /\ rec'.booked = 0
    BY <1>7, <2>2, <2>3, NewRecFacts DEF Recorded
  <2>5. /\ pos + booked[op.want] <= wallet + lifted[op.want]
        /\ ask # NoAsk => ask.price = op.want /\ ask.matched + booked[op.want] <= lifted[op.want]
    BY <2>1, <2>2 DEF Accounts, Posting, Owed
  <2>6. lifted[op.want] \in Nat
    BY <1>0, <2>2 DEF Numbers
  <2>7. OfAsk(rec)'
    BY <2>2, <2>4, <2>5, <2>6 DEF OfAsk
  <2>8. Owed(rec.shares, rec.price)'
    BY <2>2, <2>4, <2>5 DEF Owed
  <2>9. Standing'
    BY <1>k, <2>2, <2>4, <2>7, <2>8 DEF Standing
  <2>10. NoExcess'
    BY <2>1, <2>2, NoExcessSame DEF Accounts
  <2> QED BY <2>2, <2>9, <2>10, IdleAccounts
<1>8. CASE Sold
  <2>1. Accounts
    BY <1>h, <1>8 DEF Sold
  <2>2. op.pc = "sell" /\ UNCHANGED <<ask, lifted, pos, rec, booked>>
    BY <1>8 DEF Sold
  <2>3. NoExcess'
    BY <2>1, <2>2, NoExcessSame DEF Accounts
  <2>4. CASE op'.pc = "refused" /\ op'.rec = op.rec /\ UNCHANGED wallet
    <3>1. Standing' /\ Pulling' /\ Found'
      BY <2>1, <2>2, <2>4 DEF Accounts, Standing, Pulling, Found, OfAsk, Owed
    <3>2. SamePrice' /\ Selling' /\ Posting'
      BY <2>1, <2>2, <2>4 DEF Accounts, SamePrice, Selling, Posting, Owed
    <3> QED BY <2>3, <3>1, <3>2 DEF Accounts
  <2>5. CASE op'.pc = "sold" /\ op'.rec = op.rec
    <3>1. Standing' /\ Pulling' /\ Found'
      BY <2>1, <2>2, <2>5 DEF Accounts, Standing, Pulling, Found, OfAsk
    <3>2. SamePrice' /\ Selling' /\ Posting'
      BY <2>1, <2>2, <2>5 DEF Accounts, SamePrice, Selling, Posting
    <3> QED BY <2>3, <3>1, <3>2 DEF Accounts
  <2>6. CASE op' = Idle /\ UNCHANGED wallet
    <3>1. Standing'
      BY <2>1, <2>2, <2>6 DEF Accounts, Standing, OfAsk, Owed
    <3> QED BY <2>3, <2>6, <3>1, IdleAccounts
  <2> QED BY <1>8, <2>4, <2>5, <2>6 DEF Sold
<1>9. CASE SaleBooked
  <2>1. NoExcess
    BY <1>h, <1>9 DEF SaleBooked, Accounts
  <2>2. NoExcess'
    BY <1>9, <2>1, NoExcessSame DEF SaleBooked
  <2>3. Standing'
    BY <1>9 DEF SaleBooked, Standing
  <2> QED BY <1>9, <2>2, <2>3, IdleAccounts DEF SaleBooked
<1>10. CASE Cut
  <2>1. Accounts
    BY <1>h, <1>10 DEF Cut
  <2>2. op.pc # "sold"
    BY <1>10, <1>t DEF Cut
  <2>3. /\ op' = Idle
        /\ ask' = ask \/ ask' = NoAsk
        /\ UNCHANGED <<wallet, lifted, pos, rec, booked>>
    BY <1>10 DEF Cut
  <2>4. Standing'
    BY <2>1, <2>2, <2>3 DEF Accounts, Standing, OfAsk, Owed
  <2>5. NoExcess'
    BY <2>1, <2>3, NoExcessSame DEF Accounts
  <2> QED BY <2>3, <2>4, <2>5, IdleAccounts
<1>11. ASSUME NEW held \in Shares, Explained(held) PROVE Accounts'
  <2>1. Accounts
    BY <1>h, <1>11 DEF Explained
  <2>2. /\ op.pc = "refused"
        /\ op' = Idle
        /\ UNCHANGED <<ask, wallet, lifted, rec>>
        /\ pos' <= pos
        /\ pos' > 0 \/ wallet = 0
        /\ \/ held = seen /\ pos' = held /\ UNCHANGED booked
           \/ UNCHANGED <<pos, booked>>
           \/ pos' = 0 /\ (booked' = booked \/ (op.rec # NoRec /\ Books(pos)))
    BY <1>11, <1>t DEF Explained
  <2>3. pos > 0
    BY <1>0, <1>11 DEF Explained, OpInv
  <2>4. rec # NoRec => rec.shares \in Nat
    BY <1>0 DEF Numbers
  <2>5. CASE UNCHANGED booked
    <3>1. NoExcess'
      BY <2>1, <2>2, <2>5, NoExcessSame DEF Accounts
    <3>2. Standing'
      <4>1. rec # NoRec => /\ pos <= rec.shares
                           /\ OfAsk(rec)
                           /\ Owed(rec.shares, rec.price)
        BY <2>1, <2>2, <2>3 DEF Accounts, Standing
      <4>2. pos' \in {held, pos, 0} /\ held \in Nat
        BY <2>2 DEF Shares
      <4>3. rec # NoRec => pos' <= rec.shares
        BY <1>k, <2>2, <2>4, <4>1, <4>2
      <4>4. rec # NoRec => OfAsk(rec)' /\ Owed(rec.shares, rec.price)'
        BY <2>2, <2>5, <4>1 DEF OfAsk, Owed
      <4> QED BY <2>2, <4>3, <4>4 DEF Standing
    <3> QED BY <2>2, <3>1, <3>2, IdleAccounts
  <2>6. CASE pos' = 0 /\ op.rec # NoRec /\ Books(pos)
    <3>1. wallet = 0
      BY <2>2, <2>6
    <3>2. pos + booked[op.rec.price] <= wallet + lifted[op.rec.price]
      BY <2>1, <2>2, <2>6 DEF Accounts, Selling, Owed
    <3>3. lifted[op.rec.price] \in Nat
      BY <1>0, <2>6 DEF Numbers
    <3>4. pos + booked[op.rec.price] <= lifted[op.rec.price]
      BY <3>1, <3>2, <3>3
    <3>5. NoExcess'
      BY <1>0, <1>k, <2>1, <2>2, <2>6, <3>4, BookedRight DEF Accounts
    <3>6. Standing'
      BY <2>6 DEF Standing
    <3> QED BY <2>2, <3>5, <3>6, IdleAccounts
  <2> QED BY <2>2, <2>5, <2>6
<1>12. ASSUME NEW held \in Shares, NEW sold, Repriced(sold, held) PROVE Accounts'
  <2>1. Accounts
    BY <1>h, <1>12 DEF Repriced
  <2>2. /\ op.pc = "read"
        /\ sold \in Nat
        /\ sold > 0 => Matched(sold) \/ Dropped(sold, op.rec.shares, held)
        /\ UNCHANGED <<ask, wallet, lifted>>
    BY <1>12 DEF Repriced
  <2>3. rec = NoRec /\ op.rec # NoRec /\ pos > 0
    BY <1>0, <1>12 DEF Repriced, OpInv
  <2>4. CASE sold > 0 /\ Books(sold) /\ rec' = rec /\ op' = Idle
    <3>1. op.rec.shares \in Nat
      BY <1>0, <2>3 DEF Numbers
    <3>2. sold + booked[op.rec.price] <= lifted[op.rec.price]
      BY <1>0, <2>1, <2>2, <2>3, <2>4, <3>1, PullBooksRight DEF Accounts
    <3>3. NoExcess'
      BY <1>0, <2>1, <2>2, <2>3, <2>4, <3>2, BookedRight DEF Accounts
    <3>4. Standing'
      BY <2>3, <2>4 DEF Standing
    <3> QED BY <2>4, <3>3, <3>4, IdleAccounts
  <2>5. CASE rec' = Kept(op.rec) /\ op' = Idle /\ UNCHANGED <<pos, booked>>
    <3>1. Standing'
      BY <1>0, <2>1, <2>2, <2>3, <2>5, KeptStanding DEF Accounts
    <3>2. NoExcess'
      BY <2>1, <2>2, <2>5, NoExcessSame DEF Accounts
    <3> QED BY <2>5, <3>1, <3>2, IdleAccounts
  <2>6. CASE /\ op' = [op EXCEPT !.pc = "place", !.rec = NoRec]
             /\ UNCHANGED <<pos, rec, booked>>
    <3>1. op'.pc = "place" /\ op'.rec = NoRec
      BY <1>0, <2>6, RestFacts DEF Numbers
    <3>2. NoExcess'
      BY <2>1, <2>2, <2>6, NoExcessSame DEF Accounts
    <3>3. Standing' /\ Pulling' /\ Found' /\ SamePrice' /\ Selling' /\ Posting'
      BY <2>3, <2>6, <3>1 DEF Standing, Pulling, Found, SamePrice, Selling, Posting
    <3> QED BY <3>2, <3>3 DEF Accounts
  <2> QED BY <1>12, <2>4, <2>5, <2>6 DEF Repriced
<1>13. ASSUME NEW held \in Shares, NEW sold, Exited(sold, held) PROVE Accounts'
  <2>1. Accounts
    BY <1>h, <1>13 DEF Exited
  <2>2. /\ op.pc = "read"
        /\ op.kind = "exit"
        /\ held = seen
        /\ sold \in Nat
        /\ sold > 0 => Matched(sold) \/ Dropped(sold, pos, held)
        /\ UNCHANGED <<ask, wallet, lifted>>
    BY <1>13 DEF Exited
  <2>3. /\ rec = NoRec
        /\ op.rec # NoRec
        /\ pos > 0
        /\ op \in Ops
        /\ "sell" \in Pcs
    BY <1>0, <2>2 DEF OpInv, Numbers, Pcs
  <2>4. /\ pos <= op.rec.shares
        /\ Owed(op.rec.shares, op.rec.price)
        /\ ask # NoAsk => ask.price = op.rec.price
    BY <2>1, <2>2, <2>3 DEF Accounts, Pulling, OfAsk
  <2>5. PICK b \in Nat, l \in Nat : b = booked[op.rec.price] /\ l = lifted[op.rec.price]
    BY <1>0, <2>3 DEF Numbers
  <2>6. op.rec.shares \in Nat /\ wallet \in Nat /\ op.rec.shares + b <= wallet + l
    BY <1>0, <2>3, <2>4, <2>5 DEF Numbers, Owed
  <2>7. ASSUME op' = [op EXCEPT !.pc = "sell"]
        PROVE  op'.pc = "sell" /\ op'.rec = op.rec
    BY <2>3, <2>7, OpMoves
  <2>8. CASE /\ sold > 0
             /\ Books(sold)
             /\ rec' = rec
             /\ \/ op' = Idle
                \/ /\ pos' = held /\ pos' + sold <= pos
                   /\ op' = [op EXCEPT !.pc = "sell"]
    <3>1. sold + booked[op.rec.price] <= lifted[op.rec.price]
      BY <1>0, <1>k, <2>1, <2>2, <2>3, <2>4, <2>8, PullBooksRight DEF Accounts
    <3>2. NoExcess'
      BY <1>0, <2>1, <2>2, <2>3, <2>8, <3>1, BookedRight DEF Accounts
    <3>3. Standing'
      BY <2>3, <2>8 DEF Standing
    <3>4. CASE op' = Idle
      BY <3>2, <3>3, <3>4, IdleAccounts
    <3>5. CASE pos' = held /\ pos' + sold <= pos /\ op' = [op EXCEPT !.pc = "sell"]
      <4>1. held + sold <= pos
        BY <3>5
      <4>2. op'.pc = "sell" /\ op'.rec = op.rec
        BY <2>7, <3>5
      <4>3. booked'[op.rec.price] = b + sold
        BY <1>0, <2>2, <2>3, <2>5, <2>8, BooksFacts
      <4>4. held + (b + sold) <= wallet + l
        BY <1>k, <2>2, <2>4, <2>6, <4>1 DEF Shares
      <4>5. Owed(pos, op.rec.price)'
        BY <2>2, <2>5, <3>5, <4>2, <4>3, <4>4 DEF Owed
      <4>6. Selling'
        BY <4>5 DEF Selling
      <4>7. SamePrice'
        BY <2>2, <2>4, <4>2 DEF SamePrice
      <4>8. Pulling' /\ Found' /\ Posting'
        BY <4>2 DEF Pulling, Found, Posting
      <4> QED BY <3>2, <3>3, <4>6, <4>7, <4>8 DEF Accounts
    <3> QED BY <2>8, <3>4, <3>5
  <2>9. CASE /\ rec' = rec \/ rec' = Kept(op.rec)
             /\ op' = [op EXCEPT !.pc = "sell"]
             /\ UNCHANGED <<pos, booked>>
    <3>1. op'.pc = "sell" /\ op'.rec = op.rec
      BY <2>7, <2>9
    <3>2. NoExcess'
      BY <2>1, <2>2, <2>9, NoExcessSame DEF Accounts
    <3>3. Standing'
      <4>1. CASE rec' = rec
        BY <2>3, <4>1 DEF Standing
      <4>2. CASE rec' = Kept(op.rec)
        BY <1>0, <2>1, <2>2, <2>3, <2>9, <4>2, KeptStanding DEF Accounts
      <4> QED BY <2>9, <4>1, <4>2
    <3>4. pos + b <= wallet + l
      BY <1>k, <2>4, <2>5, <2>6
    <3>5. Owed(pos, op.rec.price)'
      BY <2>2, <2>5, <2>9, <3>1, <3>4 DEF Owed
    <3>6. Selling'
      BY <3>5 DEF Selling
    <3>7. SamePrice'
      BY <2>2, <2>4, <3>1 DEF SamePrice
    <3>8. Pulling' /\ Found' /\ Posting'
      BY <3>1 DEF Pulling, Found, Posting
    <3> QED BY <3>2, <3>3, <3>6, <3>7, <3>8 DEF Accounts
  <2> QED BY <1>13, <1>t, <2>8, <2>9 DEF Exited
<1>14. ASSUME NEW held \in Shares, NEW sold, Downed(sold, held) PROVE Accounts'
  <2>1. Accounts
    BY <1>h, <1>14 DEF Downed
  <2>2. /\ op.pc = "read"
        /\ sold \in Nat
        /\ sold > 0 => Matched(sold) \/ Dropped(sold, op.rec.shares, held)
        /\ Books(sold)
        /\ sold > 0 => pos # 0
        /\ op' = Idle
        /\ UNCHANGED <<lifted, rec>>
    BY <1>14, <1>t DEF Downed
  <2>3. rec = NoRec /\ op.rec # NoRec
    BY <1>0, <2>2 DEF OpInv
  <2>4. sold + booked[op.rec.price] <= lifted[op.rec.price]
    <3>1. CASE sold = 0
      <4>1. op.rec.price \in Prices
        BY <1>0, <2>3 DEF Numbers
      <4>2. booked[op.rec.price] <= lifted[op.rec.price] /\ booked[op.rec.price] \in Nat
        BY <1>0, <2>1, <4>1 DEF Accounts, NoExcess, Numbers
      <4> QED BY <3>1, <4>2
    <3>2. CASE sold > 0
      <4>1. op.rec.shares \in Nat /\ pos > 0
        BY <1>0, <1>k, <2>2, <2>3, <3>2 DEF Numbers
      <4> QED BY <1>0, <2>1, <2>2, <2>3, <3>2, <4>1, PullBooksRight DEF Accounts
    <3> QED BY <2>2, <3>1, <3>2
  <2>5. NoExcess'
    BY <1>0, <2>1, <2>2, <2>3, <2>4, BookedRight DEF Accounts
  <2>6. Standing'
    BY <2>2, <2>3 DEF Standing
  <2> QED BY <2>2, <2>5, <2>6, IdleAccounts
<1>15. ASSUME NEW held \in Shares, NEW sold, Swept(sold, held) PROVE Accounts'
  <2>1. Accounts
    BY <1>h, <1>15 DEF Swept
  <2>2. /\ rec # NoRec
        /\ rec \in Rec
        /\ op.pc = "idle"
        /\ op' = Idle
        /\ UNCHANGED <<wallet, ask, lifted>>
    BY <1>0, <1>15 DEF Swept, OpInv, Numbers
  <2> DEFINE q == Polled(rec, held)
  <2>3. /\ q \in Rec
        /\ q.price = rec.price
        /\ q.shares = rec.shares
        /\ q.booked = rec.booked
    BY <2>2, PollFacts
  <2>4. rec.shares + rec.booked <= Size
    BY <2>2 DEF TypeInv, RecInv
  <2>5. \/ rec' = NoRec /\ UNCHANGED <<pos, booked>>
        \/ rec' = q /\ UNCHANGED <<pos, booked>>
        \/ /\ q.short = Confirmations
           /\ pos > 0
           /\ held = seen \/ held = 0
           /\ sold \in Nat /\ q.most + sold = q.shares
           /\ booked' = [booked EXCEPT ![rec.price] = @ + sold]
           /\ pos' = q.most /\ rec' = Rebased(q, sold)
    BY <1>15, <2>3 DEF Swept
  <2>6. pos > 0 => /\ pos <= rec.shares
                   /\ OfAsk(rec)
                   /\ Owed(rec.shares, rec.price)
    BY <2>1, <2>2 DEF Accounts, Standing
  <2> HIDE DEF q
  <2>7. CASE (rec' = NoRec \/ rec' = q) /\ UNCHANGED <<pos, booked>>
    <3>1. NoExcess'
      BY <2>1, <2>2, <2>7, NoExcessSame DEF Accounts
    <3>2. Standing'
      BY <2>2, <2>3, <2>6, <2>7 DEF Standing, OfAsk, Owed
    <3> QED BY <2>2, <3>1, <3>2, IdleAccounts
  <2>8. CASE /\ q.short = Confirmations
             /\ pos > 0
             /\ held = seen \/ held = 0
             /\ sold \in Nat /\ q.most + sold = q.shares
             /\ booked' = [booked EXCEPT ![rec.price] = @ + sold]
             /\ pos' = q.most /\ rec' = Rebased(q, sold)
    <3>1. wallet <= q.most
      <4>1. "blind" \notin hist /\ ~Blind(held)
        BY <1>15, <1>t DEF Swept
      <4>2. q.short > 0 => wallet <= q.most \/ (q.most = 0 /\ q.short = 1)
        BY <2>2, <2>8, <4>1, ReadingAgrees DEF q
      <4> QED BY <2>8, <4>2 DEF Confirmations
    <3>2. rec' # NoRec => /\ rec'.price = q.price
                          /\ rec'.shares = q.most
                          /\ rec'.booked = q.booked + sold
      BY <2>3, <2>4, <2>8, RebaseFacts
    <3>3. /\ q.most \in Nat
          /\ q.booked \in Nat
          /\ q.shares \in Nat
          /\ rec.price \in Prices
      BY <2>3 DEF Rec, Shares
    <3>4. /\ wallet \in Nat
          /\ ask.matched \in Nat
          /\ booked \in [Prices -> Nat]
          /\ \A p \in Prices : booked[p] \in Nat /\ lifted[p] \in Nat
      BY <1>0 DEF Numbers
    <3>5. PICK b \in Nat, l \in Nat : b = booked[rec.price] /\ l = lifted[rec.price]
      BY <3>3, <3>4
    <3>6. /\ booked'[rec.price] = b + sold
          /\ \A p \in Prices : p # rec.price => booked'[p] = booked[p]
      BY <2>8, <3>3, <3>4, <3>5
    <3>7. /\ q.shares + b <= wallet + l
          /\ ask # NoAsk => ask.price = rec.price /\ ask.matched + b <= l + q.booked
      BY <2>3, <2>6, <2>8, <3>5 DEF Owed, OfAsk
    <3>8. b + sold <= l
      BY <2>8, <3>1, <3>3, <3>4, <3>5, <3>7
    <3>9. NoExcess'
      <4>1. ASSUME NEW p \in Prices PROVE booked'[p] <= lifted'[p]
        <5>1. CASE p = rec.price
          BY <2>2, <3>5, <3>6, <3>8, <5>1
        <5>2. CASE p # rec.price
          BY <2>1, <2>2, <3>6, <5>2 DEF Accounts, NoExcess
        <5> QED BY <5>1, <5>2
      <4> QED BY <4>1 DEF NoExcess
    <3>10. Standing'
      <4> SUFFICES ASSUME rec' # NoRec
                   PROVE  /\ pos' <= rec'.shares
                          /\ OfAsk(rec)'
                          /\ Owed(rec.shares, rec.price)'
        BY DEF Standing
      <4>1. pos' <= rec'.shares
        BY <2>8, <3>2, <3>3
      <4>2. q.most + (b + sold) <= wallet + l
        BY <2>8, <3>3, <3>4, <3>5, <3>7
      <4>3. Owed(rec.shares, rec.price)'
        BY <2>2, <2>3, <3>2, <3>5, <3>6, <4>2 DEF Owed
      <4>4. ask # NoAsk => ask.matched + (b + sold) <= l + (q.booked + sold)
        BY <2>8, <3>3, <3>4, <3>5, <3>7
      <4>5. OfAsk(rec)'
        BY <2>2, <2>3, <3>2, <3>5, <3>6, <3>7, <4>4 DEF OfAsk
      <4> QED BY <4>1, <4>3, <4>5
    <3> QED BY <2>2, <3>9, <3>10, IdleAccounts
  <2> QED BY <2>5, <2>7, <2>8
<1>16. CASE Unsold
  <2>1. NoExcess
    BY <1>h, <1>16 DEF Unsold, Accounts
  <2>2. NoExcess'
    BY <1>16, <2>1, NoExcessSame DEF Unsold
  <2>3. Standing'
    BY <1>16 DEF Unsold, Standing
  <2> QED BY <1>16, <2>2, <2>3, IdleAccounts DEF Unsold
<1> QED
  BY <1>1, <1>2, <1>3, <1>4, <1>5, <1>6, <1>7, <1>8, <1>9, <1>10, <1>11, <1>12, <1>13,
     <1>14, <1>15, <1>16 DEF Steps

-----------------------------------------------------------------------------
(* The theorems.                                                           *)

\* Every variable keeps its shape, the ask is backed by the wallet, and every stage of
\* a reprice, an exit or a tear-down has the record and the position it works on.
THEOREM TypeCorrect == Spec => []TypeOK
<1> DEFINE Due == due \in BOOLEAN
<1>1. Init => Due
  BY DEF Init
<1>2. Due /\ [Next]_vars => Due'
  <2> SUFFICES ASSUME Due, [Next]_vars PROVE due' \in BOOLEAN
    OBVIOUS
  <2>1. CASE Tick \/ TickEnds \/ (\E held \in Shares : Sweep(held))
    BY <2>1 DEF Tick, TickEnds, Sweep
  <2>2. CASE (\E n \in 1 .. Size : Lift(n)) \/ Settle \/ OthersCancelAll \/ CutOff
    BY <2>2 DEF Lift, Settle, OthersCancelAll, CutOff
  <2>3. CASE Signals
    BY <2>3 DEF Signals, WantAsk, Exit, TearDown, Release
  <2>4. CASE OpSteps
    BY <2>4 DEF OpSteps, CancelAll, List, Cancel, Place, RecordAsk, Drop, Sell, BookSale,
                ReadReprice, ReadExit, ReadDown, Refused
  <2>5. CASE UNCHANGED vars
    BY <2>5 DEF vars
  <2> QED BY <2>1, <2>2, <2>3, <2>4, <2>5 DEF Next, Poll
<1>3. TypeInv /\ Due => TypeOK
  BY DEF TypeInv, Shapes, Ops, TypeOK
<1> QED BY <1>1, <1>2, <1>3, TypeInit, TypeStep, PTL DEF Spec

\* Shares in the wallet stay in the position map, for every size of a position and any
\* number of failed readings and faults: no lagging or failed reading and no cut-off tick
\* drops them.  Outside this are the refusal explained by a failed reading, the
\* tear-down that closes the whole position on a lift of a part, a sweep whose second
\* reading in a row failed, and the exit at a price of 0, dropped unsold.
THEOREM HeldStaysManaged == Spec => []HeldIsManaged
<1> DEFINE Inv == TypeInv /\ BaseInv /\ ReadInv /\ HeldInv
<1>1. Init => Inv
  <2> SUFFICES ASSUME Init PROVE Inv
    OBVIOUS
  <2>1. TypeInv
    BY TypeInit
  <2>2. BaseInv /\ ReadInv
    BY IdleFacts DEF Init, BaseInv, ReadInv
  <2>3. HeldInv
    BY IdleFacts DEF Init, HeldInv, Fits
  <2> QED BY <2>1, <2>2, <2>3
<1>2. Inv /\ [Next]_vars => Inv'
  <2> SUFFICES ASSUME Inv, [Next]_vars PROVE Inv'
    OBVIOUS
  <2>1. TypeInv' /\ Steps
    BY TypeStep, StepsAre
  <2>2. BaseInv' /\ ReadInv' /\ HeldInv'
    BY <2>1, BaseStep, ReadStep, HeldStep
  <2> QED BY <2>1, <2>2
<1>3. Inv => HeldIsManaged
  BY DEF HeldInv, Fits, Honest, HeldIsManaged
<1> QED BY <1>1, <1>2, <1>3, PTL DEF Spec

\* The ledger books no lift at a price that the ask of that price did not have:
\* whichever of the reprice, the exit, the sweep and the tear-down books it, it books
\* what the order's matched size and the wallet agree was sold and not booked yet,
\* outside the cases the property names.
THEOREM LiftsAreBookedOnce == Spec => []BookedAtItsPrice
<1> DEFINE Inv == TypeInv /\ BaseInv /\ ReadInv /\ LedgerInv
<1>1. Init => Inv
  <2> SUFFICES ASSUME Init PROVE Inv
    OBVIOUS
  <2>1. TypeInv
    BY TypeInit
  <2>2. BaseInv /\ ReadInv
    BY IdleFacts DEF Init, BaseInv, ReadInv
  <2>3. NoExcess
    BY DEF Init, NoExcess
  <2>4. Standing /\ Pulling /\ Found /\ SamePrice /\ Selling /\ Posting
    BY IdleFacts DEF Init, Standing, Pulling, Found, SamePrice, Selling, Posting
  <2> QED BY <2>1, <2>2, <2>3, <2>4 DEF LedgerInv, Accounts
<1>2. Inv /\ [Next]_vars => Inv'
  <2> SUFFICES ASSUME Inv, [Next]_vars PROVE Inv'
    OBVIOUS
  <2>1. TypeInv' /\ Steps
    BY TypeStep, StepsAre
  <2>2. BaseInv' /\ ReadInv' /\ LedgerInv'
    BY <2>1, BaseStep, ReadStep, LedgerStep
  <2> QED BY <2>1, <2>2
<1>3. Inv => BookedAtItsPrice
  BY DEF LedgerInv, Accounts, NoExcess, Trusted, BookedAtItsPrice
<1> QED BY <1>1, <1>2, <1>3, PTL DEF Spec
=============================================================================
