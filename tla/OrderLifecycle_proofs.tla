----------------------- MODULE OrderLifecycle_proofs -----------------------
(***************************************************************************)
(* Proofs about OrderLifecycle, for every set of vipers and legs, every    *)
(* number of orders, every order size and every number of attempts:        *)
(*                                                                         *)
(*   TypeCorrect        Spec => []TypeOK                                   *)
(*   QuotesAreTracked   Spec => []QuoteGuardTracked                        *)
(*   PromiseKept        Spec => KeepsPromise (refines PositionBook)        *)
(*                                                                         *)
(* then that what a guard shows and an exit sells was bought by its own    *)
(* order, and that a holding is kept but for what is sold out of it        *)
(* (GuardsAreBacked, NeverOversold, HoldingsKept, OwnGuardOnly), and that  *)
(* no order that works, no fill and no row is lost sight of                *)
(* (LiveOrdersAreTracked, QuotesAreSingle, FillsAreKept, LeavesClean,      *)
(* RowsAreGuarded).                                                        *)
(***************************************************************************)
EXTENDS OrderLifecycle, TLAPS

-----------------------------------------------------------------------------
(* Type correctness.                                                       *)

\* A working order has contracts left to trade, the listener's order exists,
\* and so does the one being recorded: what TypeOK needs to be inductive.
WorkingShort   == \A o \in Ids : st[o] = "working" => traded[o] < Q
ListenerHasOne == lpc \in {"size", "untrack"} => lid \in Ids
PlacedOne == pc \in {"record", "confirm", "track", "row"} => lastId \in Ids
TypeInv == TypeOK /\ WorkingShort /\ ListenerHasOne /\ PlacedOne

USE BoundsAssumption DEF Ids, Clock, Statuses, Unsaid

\* There is a key: the loop's key is one even when no operation runs.
LEMMA AnyKeyIsKey == AnyKey \in Keys
<1>1. PICK s \in Strategies, l \in Legs : TRUE
  BY BoundsAssumption
<1>2. <<s, l>> \in Keys
  BY DEF Keys
<1> QED BY <1>2 DEF AnyKey

LEMMA TypeInit == Init => TypeInv
<1> SUFFICES ASSUME Init PROVE TypeInv
  OBVIOUS
<1> USE DEF Init
<1>1. TypeVenue /\ TypeBook /\ TypeTracked
  BY AnyKeyIsKey DEF TypeVenue, TypeBook, TypeTracked
<1>2. TypeReports
  BY DEF TypeReports, NoRow
<1>3. TypeLoop
  BY AnyKeyIsKey DEF TypeLoop, LoopPoints, Operations
<1>4. TypeListener
  <2>1. ldone \in BOOLEAN
    OBVIOUS
  <2>2. /\ lpc \in {"idle", "size", "confirm", "untrack"} /\ lid \in 0..MaxOrders
        /\ lcount \in 0..Q /\ lkeys \subseteq Keys
    OBVIOUS
  <2> QED BY <2>1, <2>2 DEF TypeListener
<1>5. TypeHistory /\ WorkingShort /\ ListenerHasOne /\ PlacedOne
  BY DEF TypeHistory, WorkingShort, ListenerHasOne, PlacedOne
<1> QED BY <1>1, <1>2, <1>3, <1>4, <1>5 DEF TypeInv, TypeOK

-----------------------------------------------------------------------------
(* What the shared operators do to the types.                              *)

\* Sizing a guard to a count keeps it between zero and the size placed.
LEMMA SizeType ==
    ASSUME TypeBook, TypeReports, TypeVenue, NEW o \in Ids, NEW n \in Nat,
           SizeAndConfirm(o, n), UNCHANGED rows
    PROVE  TypeBook' /\ TypeReports'
<1> DEFINE g == guard[okey[o]]
<1>1. g \in 0..MaxOrders /\ okey[o] \in Keys
  BY DEF TypeBook, TypeVenue
<1>2. CASE g # 0 /\ OwnsGuard(o, g)
  <2>1. SizedTo(g, n) \in 0..Q
    BY <1>1, <1>2 DEF SizedTo, Min2, Max2, TypeBook
  <2>2. /\ shares' = [shares EXCEPT ![g] = SizedTo(g, n)]
        /\ confirmed' = confirmed \cup {g}
        /\ queued' = [queued EXCEPT ![okey[o]] = o]
        /\ UNCHANGED <<guard, released>>
    BY <1>2 DEF SizeAndConfirm
  <2>3. g \in Ids
    BY <1>1, <1>2
  <2>4. shares' \in [Ids -> 0..Q]
    BY <2>1, <2>2, <2>3 DEF TypeBook
  <2>5. queued' \in [Keys -> 0..MaxOrders]
    BY <1>1, <2>2 DEF TypeReports
  <2> QED BY <2>2, <2>3, <2>4, <2>5 DEF TypeBook, TypeReports
<1>3. CASE ~(g # 0 /\ OwnsGuard(o, g))
  BY <1>3 DEF SizeAndConfirm, LeaveGuard, bookVars, TypeBook, TypeReports
<1> QED BY <1>2, <1>3

LEMMA RemoveType ==
    ASSUME TypeBook, NEW k \in Keys, RemoveGuard(k)
    PROVE  TypeBook'
<1>1. guard' \in [Keys -> 0..MaxOrders]
  BY DEF TypeBook, RemoveGuard
<1>2. shares' \in [Ids -> 0..Q]
  BY DEF TypeBook, RemoveGuard
<1>3. confirmed' \subseteq Ids
  BY DEF TypeBook, RemoveGuard
<1> QED BY <1>1, <1>2, <1>3 DEF TypeBook

LEMMA ReleaseType ==
    ASSUME TypeBook, TypeReports, TypeVenue, NEW o \in Ids,
           ReleaseQuote(o), UNCHANGED rows
    PROVE  TypeBook' /\ TypeReports'
<1>1. okey[o] \in Keys
  BY DEF TypeVenue
<1>2. CASE RemoveGuard(okey[o]) /\ released' = released \cup {okey[o]} /\ UNCHANGED queued
  BY <1>1, <1>2, RemoveType DEF TypeReports
<1>3. CASE LeaveGuard
  BY <1>3 DEF LeaveGuard, bookVars, TypeBook, TypeReports
<1> QED BY <1>2, <1>3 DEF ReleaseQuote

LEMMA LeaveType ==
    ASSUME TypeBook, TypeReports, LeaveGuard, UNCHANGED rows
    PROVE  TypeBook' /\ TypeReports'
BY DEF LeaveGuard, bookVars, TypeBook, TypeReports

LEMMA DrainType ==
    ASSUME TypeReports, SettleReports
    PROVE  TypeReports'
<1> SUFFICES ASSUME NEW k \in Keys
             PROVE  Reported(k) \in [order : 0..MaxOrders, by : 0..MaxOrders]
  BY DEF SettleReports, TypeReports
<1> QED BY DEF TypeReports, Reported, NoRow

LEMMA TrackedType ==
    ASSUME TypeTracked, NEW t \in SUBSET Ids, NEW rest, SetTracked(t, rest)
    PROVE  TypeTracked'
BY DEF TypeTracked, SetTracked

LEMMA FinishType ==
    ASSUME TypeLoop, Finish, todo' \in SUBSET Ids
    PROVE  TypeLoop'
BY AnyKeyIsKey DEF TypeLoop, Finish, LoopPoints, Operations

LEMMA GotoType ==
    ASSUME TypeLoop, NEW at \in LoopPoints, Goto(at), todo' \in SUBSET Ids
    PROVE  TypeLoop'
BY DEF TypeLoop, Goto, localVars

\* What the venue may answer.
LEMMA AnswerType ==
    ASSUME TypeVenue, NEW o \in Ids, NEW s, NEW a \in OrderState(o, s)
    PROVE  /\ a.filled \in {Unsaid, traded[o]}
           /\ a.filled \in Unsaid..Q
           /\ a.resting = "yes" => s = "working"
           /\ a.resting = "no" => s # "working"
BY DEF OrderState, Resting, TypeVenue

LEMMA ReplyType ==
    ASSUME TypeVenue, NEW o \in Ids, NEW r \in CancelReplies(o)
    PROVE  /\ r.st \in Statuses
           /\ r.ok \in BOOLEAN
           /\ r.st = "working" => st[o] = "working"
           /\ r.ok => r.st = "done"
<1>1. CASE st[o] = "working"
  <2>1. r \in {[ok |-> TRUE, st |-> "done"], [ok |-> FALSE, st |-> "working"],
               [ok |-> FALSE, st |-> "done"]}
    BY <1>1 DEF CancelReplies
  <2>2. CASE r = [ok |-> TRUE, st |-> "done"]
    BY <2>2
  <2>3. CASE r = [ok |-> FALSE, st |-> "working"]
    BY <1>1, <2>3
  <2>4. CASE r = [ok |-> FALSE, st |-> "done"]
    BY <2>4
  <2> QED BY <2>1, <2>2, <2>3, <2>4
<1>2. CASE st[o] # "working"
  <2>1. r = [ok |-> FALSE, st |-> st[o]]
    BY <1>2 DEF CancelReplies
  <2>2. st[o] \in Statuses
    BY DEF TypeVenue
  <2> QED BY <1>2, <2>1, <2>2
<1> QED BY <1>1, <1>2

LEMMA StatusType ==
    ASSUME TypeVenue, WorkingShort, NEW o \in Ids, NEW s \in Statuses,
           s = "working" => st[o] = "working",
           SetStatus(o, s), UNCHANGED <<okey, traded, sold, lastId>>
    PROVE  TypeVenue' /\ WorkingShort'
BY DEF TypeVenue, WorkingShort, SetStatus

-----------------------------------------------------------------------------
(* Each action keeps the types.                                            *)

\* Opening an operation.
LEMMA TypeStarts ==
    ASSUME TypeInv, LoopStarts
    PROVE  TypeInv'
<1> USE DEF TypeInv, TypeOK, venueVars, bookVars, clockVars, reportVars,
        localVars, loopVars, listenerVars, historyVars
<1>1. ASSUME NEW k \in Keys, NEW gtc \in BOOLEAN, NEW f \in 0..Q, Place(k, gtc, f)
      PROVE  TypeInv'
  <2> USE <1>1 DEF Place, MayPlace, NewOrder, Start
  <2>1. TypeVenue' /\ WorkingShort'
    BY DEF TypeVenue, WorkingShort
  <2>2. TypeBook'
    BY DEF TypeBook
  <2>3. TypeTracked'
    BY DEF TypeTracked
  <2>4. TypeReports'
    BY DEF TypeReports
  <2>5. TypeLoop'
    BY DEF TypeLoop, LoopPoints, Operations
  <2>6. TypeListener' /\ TypeHistory'
    BY DEF TypeListener, TypeHistory
  <2>7. ListenerHasOne' /\ PlacedOne'
    BY DEF ListenerHasOne, PlacedOne, TypeVenue, TypeTracked, Finish, Goto,
        localVars
  <2> QED BY <2>1, <2>2, <2>3, <2>4, <2>5, <2>6, <2>7
<1>2. ASSUME NEW k \in Keys, PlaceLost(k)
      PROVE  TypeInv'
  <2> USE <1>2 DEF PlaceLost, MayPlace, NewOrder
  <2>1. TypeVenue' /\ WorkingShort'
    BY DEF TypeVenue, WorkingShort
  <2>2. TypeBook'
    BY DEF TypeBook
  <2>3. TypeTracked'
    BY DEF TypeTracked
  <2>4. TypeReports'
    BY DEF TypeReports
  <2>5. TypeLoop'
    BY DEF TypeLoop, LoopPoints, Operations
  <2>6. TypeListener' /\ TypeHistory'
    <3>1. lastId + 1 \in Ids
      BY DEF TypeVenue
    <3>2. TypeHistory'
      BY <3>1 DEF TypeHistory
    <3> QED BY <3>2 DEF TypeListener
  <2>7. ListenerHasOne' /\ PlacedOne'
    BY DEF ListenerHasOne, PlacedOne, TypeVenue, TypeTracked, Finish, Goto,
        localVars
  <2> QED BY <2>1, <2>2, <2>3, <2>4, <2>5, <2>6, <2>7
<1>3. ASSUME NEW k \in Keys, Pull(k)
      PROVE  TypeInv'
  <2> USE <1>3 DEF Pull, Start, OnKey
  <2>1. TypeVenue' /\ WorkingShort'
    BY DEF TypeVenue, WorkingShort
  <2>2. TypeBook'
    BY DEF TypeBook
  <2>3. TypeTracked'
    BY DEF TypeTracked
  <2>4. TypeReports'
    BY DEF TypeReports
  <2>5. TypeLoop'
    BY DEF TypeLoop, LoopPoints, Operations, TypeTracked
  <2>6. TypeListener' /\ TypeHistory'
    BY DEF TypeListener, TypeHistory
  <2>7. ListenerHasOne' /\ PlacedOne'
    BY DEF ListenerHasOne, PlacedOne, TypeVenue, TypeTracked, Finish, Goto,
        localVars
  <2> QED BY <2>1, <2>2, <2>3, <2>4, <2>5, <2>6, <2>7
<1>4. ASSUME NEW k \in Keys, Exit(k)
      PROVE  TypeInv'
  <2> USE <1>4 DEF Exit, BeginExit, OnKey
  <2>1. TypeVenue' /\ WorkingShort'
    BY DEF TypeVenue, WorkingShort
  <2>2. TypeBook'
    BY DEF TypeBook
  <2>3. TypeTracked'
    BY DEF TypeTracked
  <2>4. TypeReports'
    BY DEF TypeReports
  <2>5. TypeLoop'
    <3>1. sig' \in 0..Q
      BY DEF TypeBook
    <3>2. todo' \subseteq Ids
      BY DEF TypeTracked
    <3> QED BY <3>1, <3>2 DEF TypeLoop, LoopPoints, Operations
  <2>6. TypeListener' /\ TypeHistory'
    BY DEF TypeListener, TypeHistory
  <2>7. ListenerHasOne' /\ PlacedOne'
    BY DEF ListenerHasOne, PlacedOne, TypeVenue, TypeTracked, Finish, Goto,
        localVars
  <2> QED BY <2>1, <2>2, <2>3, <2>4, <2>5, <2>6, <2>7
<1>5. ASSUME NEW known \in BOOLEAN, BeginReconcile(known)
      PROVE  TypeInv'
  <2> USE <1>5 DEF BeginReconcile, Start
  <2>1. TypeVenue' /\ WorkingShort'
    BY DEF TypeVenue, WorkingShort
  <2>2. TypeBook'
    BY DEF TypeBook
  <2>3. TypeTracked'
    BY DEF TypeTracked
  <2>4. TypeReports'
    BY DEF TypeReports
  <2>5. TypeLoop'
    BY DEF TypeLoop, LoopPoints, Operations, TypeTracked, TypeVenue
  <2>6. TypeListener' /\ TypeHistory'
    BY DEF TypeListener, TypeHistory
  <2>7. ListenerHasOne' /\ PlacedOne'
    BY DEF ListenerHasOne, PlacedOne, TypeVenue, TypeTracked, Finish, Goto,
        localVars
  <2> QED BY <2>1, <2>2, <2>3, <2>4, <2>5, <2>6, <2>7
<1>6. ASSUME NEW name \in {"rotate", "retire", "leave"}, BeginCancelAll(name)
      PROVE  TypeInv'
  <2> USE <1>6 DEF BeginCancelAll, Start
  <2>1. TypeVenue' /\ WorkingShort'
    BY DEF TypeVenue, WorkingShort
  <2>2. TypeBook'
    BY DEF TypeBook
  <2>3. TypeTracked'
    BY DEF TypeTracked
  <2>4. TypeReports'
    BY DEF TypeReports
  <2>5. TypeLoop'
    <3>1. pc' \in LoopPoints /\ op' \in Operations /\ key' \in Keys
      BY DEF LoopPoints, Operations, TypeLoop
    <3>2. todo' \subseteq Ids
      BY DEF TypeTracked
    <3>3. tries' \in 0..Attempts
      OBVIOUS
    <3> QED BY <3>1, <3>2, <3>3 DEF TypeLoop
  <2>6. TypeListener' /\ TypeHistory'
    BY DEF TypeListener, TypeHistory
  <2>7. ListenerHasOne' /\ PlacedOne'
    BY DEF ListenerHasOne, PlacedOne, TypeVenue, TypeTracked, Finish, Goto,
        localVars
  <2> QED BY <2>1, <2>2, <2>3, <2>4, <2>5, <2>6, <2>7
<1> QED BY <1>1, <1>2, <1>3, <1>4, <1>5, <1>6
        DEF LoopStarts, Rotate, Retire, Leave

\* Recording a placed order.
LEMMA TypePlacing ==
    ASSUME TypeInv, RecordGuard \/ ConfirmGuard \/ Track \/ RecordEntry
    PROVE  TypeInv'
<1> USE DEF TypeInv, TypeOK, venueVars, bookVars, clockVars, reportVars,
        localVars, loopVars, listenerVars, historyVars
<1>1. ASSUME RecordGuard
      PROVE  TypeInv'
  <2> USE <1>1 DEF RecordGuard, Goto
  <2>1. TypeVenue' /\ WorkingShort'
    BY DEF TypeVenue, WorkingShort
  <2>2. TypeBook'
    <3>1. guard' \in [Keys -> 0..MaxOrders]
      BY DEF TypeBook, TypeVenue
    <3>2. (IF ack = 0 THEN Q ELSE ack) \in 0..Q
      BY DEF TypeLoop
    <3>3. shares' \in [Ids -> 0..Q]
      BY <3>2 DEF TypeBook
    <3> QED BY <3>1, <3>3 DEF TypeBook
  <2>3. TypeTracked'
    BY DEF TypeTracked
  <2>4. TypeReports'
    BY DEF TypeReports
  <2>5. TypeLoop'
    BY DEF TypeLoop, LoopPoints, Operations
  <2>6. TypeListener' /\ TypeHistory'
    BY DEF TypeListener, TypeHistory
  <2>7. ListenerHasOne' /\ PlacedOne'
    BY DEF ListenerHasOne, PlacedOne, TypeVenue, TypeTracked, Finish, Goto,
        localVars
  <2> QED BY <2>1, <2>2, <2>3, <2>4, <2>5, <2>6, <2>7
<1>2. ASSUME ConfirmGuard
      PROVE  TypeInv'
  <2> USE <1>2 DEF ConfirmGuard, Goto
  <2>1. TypeVenue' /\ WorkingShort'
    BY DEF TypeVenue, WorkingShort
  <2>2. TypeBook'
    <3>1. guard[key] \in 0..MaxOrders
      BY DEF TypeBook, TypeLoop
    <3>2. {guard[key]} \ {0} \subseteq Ids
      BY <3>1
    <3> QED BY <3>2 DEF TypeBook
  <2>3. TypeTracked'
    BY DEF TypeTracked
  <2>4. TypeReports'
    BY DEF TypeReports
  <2>5. TypeLoop'
    BY DEF TypeLoop, LoopPoints, Operations
  <2>6. TypeListener' /\ TypeHistory'
    BY DEF TypeListener, TypeHistory
  <2>7. ListenerHasOne' /\ PlacedOne'
    BY DEF ListenerHasOne, PlacedOne, TypeVenue, TypeTracked, Finish, Goto,
        localVars
  <2> QED BY <2>1, <2>2, <2>3, <2>4, <2>5, <2>6, <2>7
<1>3. ASSUME Track
      PROVE  TypeInv'
  <2> USE <1>3 DEF Track, Goto
  <2>1. TypeVenue' /\ WorkingShort'
    BY DEF TypeVenue, WorkingShort
  <2>2. TypeBook'
    BY DEF TypeBook
  <2>3. TypeTracked'
    BY DEF TypeTracked, PlacedOne
  <2>4. TypeReports'
    BY DEF TypeReports
  <2>5. TypeLoop'
    BY DEF TypeLoop, LoopPoints, Operations
  <2>6. TypeListener' /\ TypeHistory'
    BY DEF TypeListener, TypeHistory
  <2>7. ListenerHasOne' /\ PlacedOne'
    BY DEF ListenerHasOne, PlacedOne, TypeVenue, TypeTracked, Finish, Goto,
        localVars
  <2> QED BY <2>1, <2>2, <2>3, <2>4, <2>5, <2>6, <2>7
<1>4. ASSUME RecordEntry
      PROVE  TypeInv'
  <2> USE <1>4 DEF RecordEntry, Finish
  <2>1. TypeVenue' /\ WorkingShort'
    BY DEF TypeVenue, WorkingShort
  <2>2. TypeBook'
    BY DEF TypeBook
  <2>3. TypeTracked'
    BY DEF TypeTracked
  <2>4. TypeReports'
    BY DEF TypeReports, TypeVenue, TypeLoop
  <2>5. TypeLoop'
    BY FinishType DEF TypeLoop
  <2>6. TypeListener' /\ TypeHistory'
    BY DEF TypeListener, TypeHistory
  <2>7. ListenerHasOne' /\ PlacedOne'
    BY DEF ListenerHasOne, PlacedOne, TypeVenue, TypeTracked, Finish, Goto,
        localVars
  <2> QED BY <2>1, <2>2, <2>3, <2>4, <2>5, <2>6, <2>7
<1> QED BY <1>1, <1>2, <1>3, <1>4

-----------------------------------------------------------------------------
(* The answers of the venue, one order at a time.                          *)

\* What one order's answer may touch, all of it keeping its type.
AnswerTyped ==
    /\ TypeVenue' /\ WorkingShort'
    /\ TypeBook' /\ TypeReports'
    /\ cancelled' \subseteq Ids /\ missing' \in [Ids -> Clock]
    /\ settled' \subseteq Ids /\ unread' \subseteq Ids

LEMMA SizeIfAnyType ==
    ASSUME TypeBook, TypeReports, TypeVenue, NEW o \in Ids, NEW n \in Unsaid..Q,
           SizeIfAny(o, n), UNCHANGED rows
    PROVE  TypeBook' /\ TypeReports'
<1>1. CASE n > 0
  BY <1>1, SizeType DEF SizeIfAny
<1>2. CASE ~(n > 0)
  BY <1>2, LeaveType DEF SizeIfAny
<1> QED BY <1>1, <1>2

LEMMA GraceType ==
    ASSUME TypeInv, NEW o \in Ids, Grace(o),
           UNCHANGED <<okey, st, traded, sold, lastId, rows, cancelled>>
    PROVE  AnswerTyped
<1> USE DEF TypeInv, TypeOK
<1>1. TypeVenue' /\ WorkingShort'
  BY DEF TypeVenue, WorkingShort
<1>2. TypeBook' /\ TypeReports'
  BY ReleaseType, LeaveType DEF Grace
<1>3. /\ cancelled' \subseteq Ids /\ missing' \in [Ids -> Clock]
      /\ settled' \subseteq Ids /\ unread' \subseteq Ids
  BY DEF Grace, StartClock, SettleOrder, TypeTracked, TypeLoop, TypeHistory
<1> QED BY <1>1, <1>2, <1>3 DEF AnswerTyped

LEMMA SeenType ==
    ASSUME TypeInv, NEW o \in Ids, NEW part \in 0..Q, SeenWorking(o, part),
           UNCHANGED <<okey, traded, sold, lastId, rows>>
    PROVE  AnswerTyped
<1> USE DEF TypeInv, TypeOK
<1>1. CASE KeepWorking(o, part)
  <2>1. PICK r \in CancelReplies(o) \cup {[ok |-> FALSE, st |-> st[o]]} :
           SetStatus(o, r.st)
    BY <1>1 DEF KeepWorking
  <2>2. r.st \in Statuses /\ (r.st = "working" => st[o] = "working")
    BY <2>1, ReplyType DEF TypeVenue
  <2>3. TypeVenue' /\ WorkingShort'
    BY <2>1, <2>2, StatusType
  <2>4. TypeBook' /\ TypeReports'
    BY <1>1, SizeIfAnyType DEF KeepWorking
  <2>5. /\ cancelled' \subseteq Ids /\ missing' \in [Ids -> Clock]
        /\ settled' \subseteq Ids /\ unread' \subseteq Ids
    BY <1>1 DEF KeepWorking, SettleOrder, TypeTracked, TypeLoop, TypeHistory
  <2> QED BY <2>3, <2>4, <2>5 DEF AnswerTyped
<1>2. CASE CancelStale(o, part)
  <2>1. TypeVenue' /\ WorkingShort'
    BY <1>2, StatusType DEF CancelStale
  <2>2. PICK a \in OrderState(o, "done") :
          /\ IF part = 0 /\ Releases(TRUE, a) THEN ReleaseQuote(o)
             ELSE SizeIfAny(o, Max2(part, a.filled))
          /\ unread' = IF a.said = "none" THEN unread \cup {o} ELSE unread
          /\ IF CancelOutcome(TRUE, a) = "settled"
             THEN /\ SettleOrder(o)
                  /\ missing' = [missing EXCEPT ![o] = "none"]
                  /\ UNCHANGED cancelled
             ELSE /\ cancelled' = cancelled \cup {o}
                  /\ missing' = [missing EXCEPT ![o] = "running"]
                  /\ UNCHANGED settled
    BY <1>2 DEF CancelStale
  <2>3. Max2(part, a.filled) \in Unsaid..Q
    BY AnswerType DEF Max2
  <2>4. TypeBook' /\ TypeReports'
    BY <2>2, <2>3, ReleaseType, SizeIfAnyType
  <2>5. /\ cancelled' \subseteq Ids /\ missing' \in [Ids -> Clock]
        /\ settled' \subseteq Ids /\ unread' \subseteq Ids
    BY <2>2 DEF SettleOrder, TypeTracked, TypeLoop, TypeHistory
  <2> QED BY <2>1, <2>4, <2>5 DEF AnswerTyped
<1> QED BY <1>1, <1>2 DEF SeenWorking

LEMMA AskCancelledType ==
    ASSUME TypeInv, NEW o \in Ids, AskCancelled(o),
           UNCHANGED <<okey, traded, sold, lastId, rows>>
    PROVE  AnswerTyped
<1> USE DEF TypeInv, TypeOK
<1>1. PICK a \in OrderState(o, st[o]) :
        IF a.filled = Unsaid THEN Grace(o)
        ELSE /\ IF a.filled > 0 THEN SizeAndConfirm(o, a.filled) ELSE ReleaseQuote(o)
             /\ SettleOrder(o)
             /\ UNCHANGED <<missing, unread>>
  BY DEF AskCancelled
<1>2. UNCHANGED <<st, cancelled>>
  BY DEF AskCancelled
<1>3. CASE a.filled = Unsaid
  BY <1>1, <1>2, <1>3, GraceType
<1>4. CASE a.filled # Unsaid
  <2>1. a.filled \in Nat
    BY <1>4, AnswerType
  <2>2. TypeBook' /\ TypeReports'
    BY <1>1, <1>4, <2>1, SizeType, ReleaseType
  <2>3. TypeVenue' /\ WorkingShort'
    BY <1>2 DEF TypeVenue, WorkingShort
  <2> QED BY <1>1, <1>2, <1>4, <2>2, <2>3
          DEF AnswerTyped, SettleOrder, TypeTracked, TypeLoop, TypeHistory
<1> QED BY <1>3, <1>4

LEMMA WaitBlindType ==
    ASSUME TypeInv, NEW o \in Ids, WaitBlind(o),
           UNCHANGED <<okey, traded, sold, lastId, rows>>
    PROVE  AnswerTyped
<1> USE DEF TypeInv, TypeOK, WaitBlind
<1>1. TypeBook' /\ TypeReports'
  BY LeaveType
<1>2. TypeVenue' /\ WorkingShort'
  BY DEF TypeVenue, WorkingShort
<1> QED BY <1>1, <1>2 DEF AnswerTyped, TypeTracked, TypeLoop, TypeHistory

LEMMA ListedType ==
    ASSUME TypeInv, NEW o \in Ids, Listed(o),
           UNCHANGED <<okey, traded, sold, lastId, rows>>
    PROVE  AnswerTyped
<1>1. listing[o] \in 0..Q
  BY DEF Listed, TypeInv, TypeOK, TypeLoop
<1> QED BY <1>1, SeenType DEF Listed

LEMMA VanishedType ==
    ASSUME TypeInv, NEW o \in Ids, Vanished(o),
           UNCHANGED <<okey, traded, sold, lastId, rows>>
    PROVE  AnswerTyped
<1> USE DEF TypeInv, TypeOK
<1>1. PICK a \in OrderState(o, st[o]) :
        \/ SeenWorking(o, Max2(a.filled, 0))
        \/ /\ a.filled > 0 \/ a.filled = 0
           /\ IF a.filled > 0 THEN SizeAndConfirm(o, a.filled) ELSE ReleaseQuote(o)
           /\ SettleOrder(o)
           /\ unread' = IF a.resting = "unknown" THEN unread \cup {o} ELSE unread
           /\ UNCHANGED <<st, cancelled, missing>>
        \/ Grace(o) /\ UNCHANGED <<st, cancelled>>
  BY DEF Vanished
<1>2. a.filled \in Unsaid..Q
  BY AnswerType
<1>3. CASE SeenWorking(o, Max2(a.filled, 0))
  <2>1. Max2(a.filled, 0) \in 0..Q
    BY <1>2 DEF Max2
  <2> QED BY <1>3, <2>1, SeenType
<1>4. CASE /\ a.filled > 0 \/ a.filled = 0
           /\ IF a.filled > 0 THEN SizeAndConfirm(o, a.filled) ELSE ReleaseQuote(o)
           /\ SettleOrder(o)
           /\ unread' = IF a.resting = "unknown" THEN unread \cup {o} ELSE unread
           /\ UNCHANGED <<st, cancelled, missing>>
  <2>1. TypeBook' /\ TypeReports'
    BY <1>2, <1>4, SizeType, ReleaseType
  <2>2. TypeVenue' /\ WorkingShort'
    BY <1>4 DEF TypeVenue, WorkingShort
  <2> QED BY <1>4, <2>1, <2>2
          DEF AnswerTyped, SettleOrder, TypeTracked, TypeLoop, TypeHistory
<1>5. CASE Grace(o) /\ UNCHANGED <<st, cancelled>>
  BY <1>5, GraceType
<1> QED BY <1>1, <1>3, <1>4, <1>5

\* One order cancelled, pulled or reconciled.
LEMMA TypeAnswers ==
    ASSUME TypeInv, NEW x \in Ids, PullOrder(x) \/ CancelAllOrder(x) \/ ReconcileOrder(x)
    PROVE  TypeInv'
<1> USE DEF TypeInv, TypeOK, venueVars, bookVars, clockVars, reportVars,
        localVars, loopVars, listenerVars, historyVars
<1>1. ASSUME NEW o \in Ids, NEW r \in CancelReplies(o), NEW a \in OrderState(o, r.st),
             CancelAsk(o, r, a)
      PROVE  /\ TypeVenue' /\ WorkingShort' /\ TypeBook' /\ TypeReports'
             /\ TypeListener' /\ TypeHistory' /\ ListenerHasOne' /\ PlacedOne'
             /\ todo' \subseteq Ids /\ TypeLoop
  <2> USE <1>1 DEF CancelAsk
  <2>1. TypeVenue' /\ WorkingShort'
    BY ReplyType, StatusType
  <2>2. a.filled \in Unsaid..Q
    BY AnswerType
  <2>3. TypeBook' /\ TypeReports'
    <3>1. CASE Sizes(r.ok, a)
      <4>1. a.filled \in Nat
        BY <2>2, <3>1 DEF Sizes
      <4> QED BY <3>1, <4>1, SizeType DEF GuardEffect
    <3>2. CASE ~Sizes(r.ok, a)
      BY <3>2, ReleaseType, LeaveType DEF GuardEffect
    <3> QED BY <3>1, <3>2
  <2>4. TypeListener' /\ TypeHistory' /\ todo' \subseteq Ids
    BY DEF TypeListener, TypeHistory, TypeLoop
  <2>5. ListenerHasOne' /\ PlacedOne'
    BY DEF ListenerHasOne, PlacedOne
  <2> QED BY <2>1, <2>3, <2>4, <2>5
<1>2. ASSUME NEW o \in Ids, MarkCancelled(o), UNCHANGED tracked
      PROVE  TypeTracked'
  BY <1>2 DEF MarkCancelled, StartClock, TypeTracked
<1>3. ASSUME NEW o \in Ids, PullOrder(o)
      PROVE  TypeInv'
  <2>0. PICK r \in CancelReplies(o) :
          \E a \in OrderState(o, r.st) :
            /\ CancelAsk(o, r, a)
            /\ \/ SetTracked(tracked \ {o}, todo \ {o})
               \/ MarkCancelled(o) /\ UNCHANGED tracked
               \/ UNCHANGED <<tracked, clockVars>>
    BY <1>3 DEF PullOrder
  <2>1. PICK a \in OrderState(o, r.st) :
          /\ CancelAsk(o, r, a)
          /\ \/ SetTracked(tracked \ {o}, todo \ {o})
             \/ MarkCancelled(o) /\ UNCHANGED tracked
             \/ UNCHANGED <<tracked, clockVars>>
    BY <2>0
  <2>2. tracked \ {o} \in SUBSET Ids
    BY DEF TypeTracked
  <2>3. TypeTracked'
    BY <1>2, <2>1, <2>2, TrackedType DEF TypeTracked
  <2>4. TypeLoop'
    BY <1>1, <1>3, <2>1 DEF PullOrder, CancelAsk, TypeLoop
  <2> QED BY <1>1, <2>1, <2>3, <2>4
<1>4. ASSUME NEW o \in Ids, CancelAllOrder(o)
      PROVE  TypeInv'
  <2>0. PICK r \in CancelReplies(o) :
          \E a \in OrderState(o, r.st) :
            /\ CancelAsk(o, r, a)
            /\ \/ SettleOrder(o) /\ UNCHANGED clockVars
               \/ MarkCancelled(o) /\ UNCHANGED settled
               \/ UNCHANGED <<settled, clockVars>>
    BY <1>4 DEF CancelAllOrder
  <2>1. PICK a \in OrderState(o, r.st) :
          /\ CancelAsk(o, r, a)
          /\ \/ SettleOrder(o) /\ UNCHANGED clockVars
             \/ MarkCancelled(o) /\ UNCHANGED settled
             \/ UNCHANGED <<settled, clockVars>>
    BY <2>0
  <2>2. TypeTracked'
    BY <1>2, <1>4, <2>1 DEF CancelAllOrder, TypeTracked
  <2>3. settled' \subseteq Ids
    BY <2>1 DEF SettleOrder, TypeLoop
  <2>4. TypeLoop'
    BY <1>1, <2>1, <2>3 DEF CancelAsk, TypeLoop
  <2> QED BY <1>1, <2>1, <2>2, <2>4
<1>5. ASSUME NEW o \in Ids, ReconcileOrder(o)
      PROVE  TypeInv'
  <2>1. AskCancelled(o) \/ WaitBlind(o) \/ Listed(o) \/ Vanished(o)
    BY <1>5 DEF ReconcileOrder
  <2>2. /\ UNCHANGED <<okey, traded, sold, lastId, tracked, rows, pc, op, key, ack>>
        /\ UNCHANGED <<sig, held, tries, exits, listing, listenerVars, inflated, unheard>>
        /\ todo' = todo \ {o}
    BY <1>5 DEF ReconcileOrder
  <2>3. AnswerTyped
    <3>1. CASE WaitBlind(o)
      BY <2>2, <3>1, WaitBlindType
    <3>2. CASE Listed(o)
      BY <2>2, <3>2, ListedType
    <3>3. CASE AskCancelled(o)
      BY <2>2, <3>3, AskCancelledType
    <3>4. CASE Vanished(o)
      BY <2>2, <3>4, VanishedType
    <3> QED BY <2>1, <3>1, <3>2, <3>3, <3>4
  <2>4. TypeTracked'
    BY <2>2, <2>3 DEF AnswerTyped, TypeTracked
  <2>5. TypeLoop'
    BY <2>2, <2>3 DEF AnswerTyped, TypeLoop
  <2>6. TypeListener' /\ TypeHistory'
    BY <2>2, <2>3 DEF AnswerTyped, TypeListener, TypeHistory
  <2>7. ListenerHasOne' /\ PlacedOne'
    BY <2>2 DEF ListenerHasOne, PlacedOne
  <2> QED BY <2>3, <2>4, <2>5, <2>6, <2>7 DEF AnswerTyped
<1> QED BY <1>3, <1>4, <1>5

\* The end of a pass, where the reports are drained.
LEMMA TypeEnds ==
    ASSUME TypeInv, PullDone \/ ExitDecide \/ EndReconcile \/ EndCancelAll
    PROVE  TypeInv'
<1> USE DEF TypeInv, TypeOK, venueVars, bookVars, clockVars, reportVars,
        localVars, loopVars, listenerVars, historyVars
<1>1. ASSUME PullDone
      PROVE  TypeInv'
  <2> USE <1>1 DEF PullDone, Finish
  <2>1. TypeVenue' /\ WorkingShort'
    <3>1. PICK scan \in SUBSET Ids :
             st' = [o \in Ids |-> IF o \in scan THEN "done" ELSE st[o]]
      OBVIOUS
    <3>2. st' \in [Ids -> Statuses]
      BY <3>1 DEF TypeVenue
    <3>3. WorkingShort'
      BY <3>1 DEF WorkingShort
    <3> QED BY <3>2, <3>3 DEF TypeVenue
  <2>2. TypeBook'
    <3>1. key \in Keys
      BY DEF TypeLoop
    <3> QED BY <3>1, RemoveType DEF TypeBook
  <2>3. TypeTracked'
    BY DEF TypeTracked
  <2>4. TypeReports'
    BY DrainType
  <2>5. TypeLoop'
    BY FinishType DEF TypeLoop
  <2>6. TypeListener' /\ TypeHistory'
    BY DEF TypeListener, TypeHistory
  <2>7. ListenerHasOne' /\ PlacedOne'
    BY DEF ListenerHasOne, PlacedOne, TypeVenue, TypeTracked, Finish, Goto,
        localVars
  <2> QED BY <2>1, <2>2, <2>3, <2>4, <2>5, <2>6, <2>7
<1>2. ASSUME ExitDecide
      PROVE  TypeInv'
  <2> USE <1>2 DEF ExitDecide
  <2>1. TypeVenue' /\ WorkingShort'
    BY DEF TypeVenue, WorkingShort
  <2>2. TypeBook'
    BY DEF TypeBook
  <2>3. TypeTracked'
    BY DEF TypeTracked
  <2>4. TypeReports'
    BY DrainType
  <2>5. TypeLoop'
    BY FinishType, GotoType DEF TypeLoop, LoopPoints
  <2>6. TypeListener' /\ TypeHistory'
    BY DEF TypeListener, TypeHistory
  <2>7. ListenerHasOne' /\ PlacedOne'
    BY DEF ListenerHasOne, PlacedOne, TypeVenue, TypeTracked, Finish, Goto,
        localVars
  <2> QED BY <2>1, <2>2, <2>3, <2>4, <2>5, <2>6, <2>7
<1>3. ASSUME EndReconcile
      PROVE  TypeInv'
  <2> USE <1>3 DEF EndReconcile, MergeTracked
  <2>1. TypeVenue' /\ WorkingShort'
    BY DEF TypeVenue, WorkingShort
  <2>2. TypeBook'
    BY DEF TypeBook
  <2>3. TypeTracked'
    <3>1. tracked \ settled \in SUBSET Ids
      BY DEF TypeTracked
    <3> QED BY <3>1, TrackedType
  <2>4. TypeReports'
    BY DrainType
  <2>5. TypeLoop'
    BY FinishType DEF TypeLoop
  <2>6. TypeListener' /\ TypeHistory'
    BY DEF TypeListener, TypeHistory
  <2>7. ListenerHasOne' /\ PlacedOne'
    BY DEF ListenerHasOne, PlacedOne, TypeVenue, TypeTracked, Finish, Goto,
        localVars
  <2> QED BY <2>1, <2>2, <2>3, <2>4, <2>5, <2>6, <2>7
<1>4. ASSUME EndCancelAll
      PROVE  TypeInv'
  <2> USE <1>4 DEF EndCancelAll
  <2>1. TypeVenue' /\ WorkingShort'
    BY DEF TypeVenue, WorkingShort
  <2>2. TypeBook'
    BY DEF TypeBook
  <2>3. TypeTracked'
    <3>1. tracked \ settled \in SUBSET Ids
      BY DEF TypeTracked
    <3> QED BY <3>1, TrackedType
  <2>4. TypeReports'
    BY DrainType
  <2>5. TypeLoop'
    BY DEF TypeLoop, LoopPoints, Operations
  <2>6. TypeListener' /\ TypeHistory'
    BY DEF TypeListener, TypeHistory
  <2>7. ListenerHasOne' /\ PlacedOne'
    BY DEF ListenerHasOne, PlacedOne, TypeVenue, TypeTracked, Finish, Goto,
        localVars
  <2> QED BY <2>1, <2>2, <2>3, <2>4, <2>5, <2>6, <2>7
<1> QED BY <1>1, <1>2, <1>3, <1>4

\* Selling and booking the sale.
LEMMA TypeExits ==
    ASSUME TypeInv,
           \/ (\E m \in 0..Q : Sell(m)) \/ (\E m \in 1..Q : SellUnheard(m))
           \/ Book \/ Forget
    PROVE  TypeInv'
<1> USE DEF TypeInv, TypeOK, venueVars, bookVars, clockVars, reportVars,
        localVars, loopVars, listenerVars, historyVars
<1>1. ASSUME NEW m \in 0..Q, Sell(m)
      PROVE  TypeInv'
  <2> USE <1>1 DEF Sell
  <2>1. TypeVenue' /\ WorkingShort'
    <3>1. guard[key] \in Ids
      BY DEF TypeBook, TypeLoop
    <3>2. sold' \in [Ids -> Nat]
      BY <3>1 DEF TypeVenue
    <3> QED BY <3>2 DEF TypeVenue, WorkingShort
  <2>2. TypeBook'
    BY DEF TypeBook
  <2>3. TypeTracked'
    BY DEF TypeTracked
  <2>4. TypeReports'
    BY DEF TypeReports
  <2>5. TypeLoop'
    <3>1. CASE m = 0
      BY <3>1, FinishType DEF TypeLoop
    <3>2. CASE m # 0
      <4>1. shares[guard[key]] \in 0..Q
        BY DEF TypeBook, TypeLoop
      <4> QED BY <3>2, <4>1 DEF TypeLoop, LoopPoints
    <3> QED BY <3>1, <3>2
  <2>6. TypeListener' /\ TypeHistory'
    BY DEF TypeListener, TypeHistory
  <2>7. ListenerHasOne' /\ PlacedOne'
    BY DEF ListenerHasOne, PlacedOne, TypeVenue, TypeTracked, Finish, Goto,
        localVars
  <2> QED BY <2>1, <2>2, <2>3, <2>4, <2>5, <2>6, <2>7
<1>2. ASSUME Book
      PROVE  TypeInv'
  <2> USE <1>2 DEF Book
  <2>1. TypeVenue' /\ WorkingShort'
    BY DEF TypeVenue, WorkingShort
  <2>2. TypeBook'
    <3> DEFINE out == Min2(ack, held)
    <3>0. out \in 0..Q
      BY DEF Min2, TypeLoop
    <3>1. CASE held > out
      <4>1. \A x \in 0..Q : Max2(x - out, 0) \in 0..Q
        BY <3>0 DEF Max2
      <4>2. shares' = [shares EXCEPT ![guard[key]] = Max2(shares[guard[key]] - out, 0)]
        BY <3>1
      <4>3. shares' \in [Ids -> 0..Q]
        BY <4>1, <4>2 DEF TypeBook
      <4> QED BY <3>1, <4>3 DEF TypeBook
    <3>2. CASE ~(held > out)
      <4>1. key \in Keys
        BY DEF TypeLoop
      <4> QED BY <3>2, <4>1, RemoveType
    <3> QED BY <3>1, <3>2
  <2>3. TypeTracked'
    BY DEF TypeTracked
  <2>4. TypeReports'
    <3>1. key \in Keys /\ NoRow \in [order : 0..MaxOrders, by : 0..MaxOrders]
      BY DEF TypeLoop, NoRow
    <3>2. rows' \in [Keys -> [order : 0..MaxOrders, by : 0..MaxOrders]]
      BY <3>1 DEF TypeReports, Goto, Finish
    <3> QED BY <3>2 DEF TypeReports
  <2>5. TypeLoop'
    BY FinishType, GotoType DEF TypeLoop, LoopPoints
  <2>6. TypeListener' /\ TypeHistory'
    BY DEF TypeListener, TypeHistory
  <2>7. ListenerHasOne' /\ PlacedOne'
    BY DEF ListenerHasOne, PlacedOne, TypeVenue, TypeTracked, Finish, Goto,
        localVars
  <2> QED BY <2>1, <2>2, <2>3, <2>4, <2>5, <2>6, <2>7
<1>3. ASSUME Forget
      PROVE  TypeInv'
  <2> USE <1>3 DEF Forget, ForgetCancelled
  <2>1. TypeVenue' /\ WorkingShort'
    BY DEF TypeVenue, WorkingShort
  <2>2. TypeBook'
    BY DEF TypeBook
  <2>3. TypeTracked'
    <3>1. tracked \ (OnKey(key) \cap cancelled) \in SUBSET Ids
      BY DEF TypeTracked
    <3> QED BY <3>1, TrackedType
  <2>4. TypeReports'
    BY DEF TypeReports
  <2>5. TypeLoop'
    BY FinishType DEF TypeLoop
  <2>6. TypeListener' /\ TypeHistory'
    BY DEF TypeListener, TypeHistory
  <2>7. ListenerHasOne' /\ PlacedOne'
    BY DEF ListenerHasOne, PlacedOne, TypeVenue, TypeTracked, Finish, Goto,
        localVars
  <2> QED BY <2>1, <2>2, <2>3, <2>4, <2>5, <2>6, <2>7
<1>4. ASSUME NEW m \in 1..Q, SellUnheard(m)
      PROVE  TypeInv'
  <2> USE <1>4 DEF SellUnheard
  <2>1. TypeVenue' /\ WorkingShort'
    BY DEF TypeVenue, WorkingShort
  <2>2. TypeBook'
    BY DEF TypeBook
  <2>3. TypeTracked'
    BY DEF TypeTracked
  <2>4. TypeReports'
    BY DEF TypeReports
  <2>5. TypeLoop'
    BY FinishType DEF TypeLoop
  <2>6. TypeListener' /\ TypeHistory'
    <3>1. guard[key] \in Ids /\ unheard \in [Ids -> 0..MaxUnheard]
      BY DEF TypeBook, TypeLoop, TypeHistory
    <3>2. unheard[guard[key]] + m \in 0..MaxUnheard
      BY <3>1
    <3>3. unheard' \in [Ids -> 0..MaxUnheard]
      BY <3>1, <3>2
    <3>4. TypeHistory'
      BY <3>3 DEF TypeHistory
    <3> QED BY <3>4 DEF TypeListener
  <2>7. ListenerHasOne' /\ PlacedOne'
    BY DEF ListenerHasOne, PlacedOne, TypeVenue, TypeTracked, Finish, Goto,
        localVars
  <2> QED BY <2>1, <2>2, <2>3, <2>4, <2>5, <2>6, <2>7
<1> QED BY <1>1, <1>2, <1>3, <1>4

\* Leaving the market.
LEMMA TypeLeaving ==
    ASSUME TypeInv, CheckHolds \/ CheckTracks \/ Retry \/ (\E k \in Keys : Flatten(k)) \/ Depart
    PROVE  TypeInv'
<1> USE DEF TypeInv, TypeOK, venueVars, bookVars, clockVars, reportVars,
        localVars, loopVars, listenerVars, historyVars
<1>1. ASSUME CheckHolds
      PROVE  TypeInv'
  <2> USE <1>1 DEF CheckHolds
  <2>1. TypeVenue' /\ WorkingShort'
    BY DEF TypeVenue, WorkingShort
  <2>2. TypeBook'
    BY DEF TypeBook
  <2>3. TypeTracked'
    BY DEF TypeTracked
  <2>4. TypeReports'
    BY DEF TypeReports
  <2>5. TypeLoop'
    BY FinishType, GotoType DEF TypeLoop, LoopPoints
  <2>6. TypeListener' /\ TypeHistory'
    BY DEF TypeListener, TypeHistory
  <2>7. ListenerHasOne' /\ PlacedOne'
    BY DEF ListenerHasOne, PlacedOne, TypeVenue, TypeTracked, Finish, Goto,
        localVars
  <2> QED BY <2>1, <2>2, <2>3, <2>4, <2>5, <2>6, <2>7
<1>2. ASSUME CheckTracks
      PROVE  TypeInv'
  <2> USE <1>2 DEF CheckTracks
  <2>1. TypeVenue' /\ WorkingShort'
    BY DEF TypeVenue, WorkingShort
  <2>2. TypeBook'
    BY DEF TypeBook
  <2>3. TypeTracked'
    BY DEF TypeTracked
  <2>4. TypeReports'
    BY DEF TypeReports
  <2>5. TypeLoop'
    BY FinishType, GotoType DEF TypeLoop, LoopPoints
  <2>6. TypeListener' /\ TypeHistory'
    BY DEF TypeListener, TypeHistory
  <2>7. ListenerHasOne' /\ PlacedOne'
    BY DEF ListenerHasOne, PlacedOne, TypeVenue, TypeTracked, Finish, Goto,
        localVars
  <2> QED BY <2>1, <2>2, <2>3, <2>4, <2>5, <2>6, <2>7
<1>3. ASSUME Retry
      PROVE  TypeInv'
  <2> USE <1>3 DEF Retry
  <2>1. TypeVenue' /\ WorkingShort'
    BY DEF TypeVenue, WorkingShort
  <2>2. TypeBook'
    BY DEF TypeBook
  <2>3. TypeTracked'
    BY DEF TypeTracked
  <2>4. TypeReports'
    BY DEF TypeReports
  <2>5. TypeLoop'
    <3>1. CASE tracked # {} /\ tries < Attempts
      <4>0. tries' = tries + 1 /\ todo' = tracked
        BY <3>1
      <4>1. tries' \in 0..Attempts /\ todo' \subseteq Ids
        <5>1. tries \in 0..Attempts /\ tracked \subseteq Ids
          BY DEF TypeLoop, TypeTracked
        <5>2. tries + 1 \in 0..Attempts
          BY <3>1, <5>1
        <5> QED BY <4>0, <5>1, <5>2
      <4>2. pc' \in LoopPoints /\ op' \in Operations /\ exits' \subseteq Keys
        BY <3>1 DEF TypeLoop, LoopPoints, Operations
      <4> QED BY <4>1, <4>2 DEF TypeLoop
    <3>2. CASE ~(tracked # {} /\ tries < Attempts)
      BY <3>2 DEF TypeLoop, LoopPoints, Operations
    <3> QED BY <3>1, <3>2
  <2>6. TypeListener' /\ TypeHistory'
    BY DEF TypeListener, TypeHistory
  <2>7. ListenerHasOne' /\ PlacedOne'
    BY DEF ListenerHasOne, PlacedOne, TypeVenue, TypeTracked, Finish, Goto,
        localVars
  <2> QED BY <2>1, <2>2, <2>3, <2>4, <2>5, <2>6, <2>7
<1>4. ASSUME NEW k \in Keys, Flatten(k)
      PROVE  TypeInv'
  <2> USE <1>4 DEF Flatten, BeginExit, OnKey
  <2>1. TypeVenue' /\ WorkingShort'
    BY DEF TypeVenue, WorkingShort
  <2>2. TypeBook'
    BY DEF TypeBook
  <2>3. TypeTracked'
    BY DEF TypeTracked
  <2>4. TypeReports'
    BY DEF TypeReports
  <2>5. TypeLoop'
    <3>1. sig' \in 0..Q
      BY DEF TypeBook
    <3>2. todo' \subseteq Ids /\ exits' \subseteq Keys
      BY DEF TypeTracked, TypeLoop
    <3> QED BY <3>1, <3>2 DEF TypeLoop, LoopPoints, Operations
  <2>6. TypeListener' /\ TypeHistory'
    BY DEF TypeListener, TypeHistory
  <2>7. ListenerHasOne' /\ PlacedOne'
    BY DEF ListenerHasOne, PlacedOne, TypeVenue, TypeTracked, Finish, Goto,
        localVars
  <2> QED BY <2>1, <2>2, <2>3, <2>4, <2>5, <2>6, <2>7
<1>5. ASSUME Depart
      PROVE  TypeInv'
  <2> USE <1>5 DEF Depart
  <2>1. TypeVenue' /\ WorkingShort'
    BY DEF TypeVenue, WorkingShort
  <2>2. TypeBook'
    BY DEF TypeBook
  <2>3. TypeTracked'
    BY DEF TypeTracked
  <2>4. TypeReports'
    BY DEF TypeReports
  <2>5. TypeLoop'
    BY FinishType, GotoType DEF TypeLoop, LoopPoints
  <2>6. TypeListener' /\ TypeHistory'
    BY DEF TypeListener, TypeHistory
  <2>7. ListenerHasOne' /\ PlacedOne'
    BY DEF ListenerHasOne, PlacedOne, TypeVenue, TypeTracked, Finish, Goto,
        localVars
  <2> QED BY <2>1, <2>2, <2>3, <2>4, <2>5, <2>6, <2>7
<1> QED BY <1>1, <1>2, <1>3, <1>4, <1>5

\* The fill listener and the events that wake it.
LEMMA TypeListens ==
    ASSUME TypeInv, ListenerSteps \/ Events
    PROVE  TypeInv'
<1> USE DEF TypeInv, TypeOK, venueVars, bookVars, clockVars, reportVars,
        localVars, loopVars, listenerVars, historyVars
<1>1. ASSUME NEW o \in Ids, NEW n \in 1..Q, NEW done \in BOOLEAN, TrackedFill(o, n, done)
      PROVE  TypeInv'
  <2> USE <1>1 DEF TrackedFill
  <2>1. TypeVenue' /\ WorkingShort'
    BY DEF TypeVenue, WorkingShort
  <2>2. TypeBook'
    BY DEF TypeBook
  <2>3. TypeTracked'
    BY DEF TypeTracked
  <2>4. TypeReports'
    BY DEF TypeReports
  <2>5. TypeLoop'
    BY DEF TypeLoop, LoopPoints, Operations
  <2>6. TypeListener' /\ TypeHistory'
    BY DEF TypeListener, TypeHistory
  <2>7. ListenerHasOne' /\ PlacedOne'
    BY DEF ListenerHasOne, PlacedOne, TypeVenue, TypeTracked, Finish, Goto,
        localVars
  <2> QED BY <2>1, <2>2, <2>3, <2>4, <2>5, <2>6, <2>7
<1>2. ASSUME NEW l \in Legs, UntrackedFill(l)
      PROVE  TypeInv'
  <2> USE <1>2 DEF UntrackedFill, EventKeys
  <2>1. TypeVenue' /\ WorkingShort'
    BY DEF TypeVenue, WorkingShort
  <2>2. TypeBook'
    BY DEF TypeBook
  <2>3. TypeTracked'
    BY DEF TypeTracked
  <2>4. TypeReports'
    BY DEF TypeReports
  <2>5. TypeLoop'
    BY DEF TypeLoop, LoopPoints, Operations
  <2>6. TypeListener' /\ TypeHistory'
    BY DEF TypeListener, TypeHistory
  <2>7. ListenerHasOne' /\ PlacedOne'
    BY DEF ListenerHasOne, PlacedOne, TypeVenue, TypeTracked, Finish, Goto,
        localVars
  <2> QED BY <2>1, <2>2, <2>3, <2>4, <2>5, <2>6, <2>7
<1>3. ASSUME ConfirmUntracked
      PROVE  TypeInv'
  <2> USE <1>3 DEF ConfirmUntracked, ListenerRests
  <2>1. TypeVenue' /\ WorkingShort'
    BY DEF TypeVenue, WorkingShort
  <2>2. TypeBook'
    <3>1. {guard[k] : k \in lkeys} \ ({0} \cup confirmed) \subseteq Ids
      BY DEF TypeBook, TypeListener
    <3> QED BY <3>1 DEF TypeBook
  <2>3. TypeTracked'
    BY DEF TypeTracked
  <2>4. TypeReports'
    BY DEF TypeReports
  <2>5. TypeLoop'
    BY DEF TypeLoop, LoopPoints, Operations
  <2>6. TypeListener' /\ TypeHistory'
    <3>1. {guard[k] : k \in lkeys} \ ({0} \cup confirmed) \subseteq Ids
      BY DEF TypeBook, TypeListener
    <3>2. TypeHistory'
      BY <3>1 DEF TypeHistory
    <3>3. ldone' \in BOOLEAN
      OBVIOUS
    <3> QED BY <3>2, <3>3 DEF TypeListener
  <2>7. ListenerHasOne' /\ PlacedOne'
    BY DEF ListenerHasOne, PlacedOne, TypeVenue, TypeTracked, Finish, Goto,
        localVars
  <2> QED BY <2>1, <2>2, <2>3, <2>4, <2>5, <2>6, <2>7
<1>4. ASSUME SizeTracked
      PROVE  TypeInv'
  <2> USE <1>4 DEF SizeTracked
  <2>1. TypeVenue' /\ WorkingShort'
    BY DEF TypeVenue, WorkingShort
  <2>2. TypeBook'
    <3>1. lid \in Ids /\ lcount \in Nat
      BY DEF ListenerHasOne, TypeListener
    <3> QED BY <3>1, SizeType
  <2>3. TypeTracked'
    BY DEF TypeTracked
  <2>4. TypeReports'
    <3>1. lid \in Ids /\ lcount \in Nat
      BY DEF ListenerHasOne, TypeListener
    <3> QED BY <3>1, SizeType
  <2>5. TypeLoop'
    BY DEF TypeLoop, LoopPoints, Operations
  <2>6. TypeListener' /\ TypeHistory'
    <3>1. guard[okey[lid]] \in 0..MaxOrders
      BY DEF ListenerHasOne, TypeVenue, TypeBook
    <3>2. CASE guard[okey[lid]] = 0
      <4>1. inflated' = inflated
        BY <3>2
      <4> QED BY <4>1 DEF TypeListener, TypeHistory
    <3>3. CASE guard[okey[lid]] # 0
      <4>1. guard[okey[lid]] \in Ids
        BY <3>1, <3>3
      <4>2. inflated' \subseteq inflated \cup {guard[okey[lid]]}
        OBVIOUS
      <4>3. TypeHistory'
        BY <4>1, <4>2 DEF TypeHistory
      <4> QED BY <4>3 DEF TypeListener
    <3> QED BY <3>2, <3>3
  <2>7. ListenerHasOne' /\ PlacedOne'
    BY DEF ListenerHasOne, PlacedOne, TypeVenue, TypeTracked, Finish, Goto,
        localVars
  <2> QED BY <2>1, <2>2, <2>3, <2>4, <2>5, <2>6, <2>7
<1>5. ASSUME UntrackFilled
      PROVE  TypeInv'
  <2> USE <1>5 DEF UntrackFilled, ListenerRests
  <2>1. TypeVenue' /\ WorkingShort'
    BY DEF TypeVenue, WorkingShort
  <2>2. TypeBook'
    BY DEF TypeBook
  <2>3. TypeTracked'
    <3>1. tracked \ {lid} \in SUBSET Ids
      BY DEF TypeTracked
    <3> QED BY <3>1, TrackedType DEF TypeTracked
  <2>4. TypeReports'
    BY DEF TypeReports
  <2>5. TypeLoop'
    BY DEF TypeLoop, LoopPoints, Operations
  <2>6. TypeListener' /\ TypeHistory'
    <3>1. ldone' \in BOOLEAN
      OBVIOUS
    <3> QED BY <3>1 DEF TypeListener, TypeHistory
  <2>7. ListenerHasOne' /\ PlacedOne'
    BY DEF ListenerHasOne, PlacedOne, TypeVenue, TypeTracked, Finish, Goto,
        localVars
  <2> QED BY <2>1, <2>2, <2>3, <2>4, <2>5, <2>6, <2>7
<1> QED BY <1>1, <1>2, <1>3, <1>4, <1>5 DEF ListenerSteps, Events

\* The venue and the clock.
LEMMA TypeWorld ==
    ASSUME TypeInv, Venue \/ (\E o \in Ids : Age(o))
    PROVE  TypeInv'
<1> USE DEF TypeInv, TypeOK, venueVars, bookVars, clockVars, reportVars,
        localVars, loopVars, listenerVars, historyVars
<1>1. ASSUME NEW o \in Ids, Trade(o)
      PROVE  TypeInv'
  <2> USE <1>1 DEF Trade
  <2>1. TypeVenue' /\ WorkingShort'
    <3>1. traded[o] + 1 \in 0..Q
      BY DEF TypeVenue, WorkingShort
    <3>2. traded' \in [Ids -> 0..Q]
      BY <3>1 DEF TypeVenue
    <3>3. st' \in [Ids -> Statuses]
      BY DEF TypeVenue, SetStatus
    <3>4. WorkingShort'
      BY <3>1 DEF WorkingShort, TypeVenue, SetStatus
    <3> QED BY <3>2, <3>3, <3>4 DEF TypeVenue
  <2>2. TypeBook'
    BY DEF TypeBook
  <2>3. TypeTracked'
    BY DEF TypeTracked
  <2>4. TypeReports'
    BY DEF TypeReports
  <2>5. TypeLoop'
    BY DEF TypeLoop, LoopPoints, Operations
  <2>6. TypeListener' /\ TypeHistory'
    BY DEF TypeListener, TypeHistory
  <2>7. ListenerHasOne' /\ PlacedOne'
    BY DEF ListenerHasOne, PlacedOne, TypeVenue, TypeTracked, Finish, Goto,
        localVars
  <2> QED BY <2>1, <2>2, <2>3, <2>4, <2>5, <2>6, <2>7
<1>2. ASSUME NEW o \in Ids, Expire(o)
      PROVE  TypeInv'
  <2> USE <1>2 DEF Expire
  <2>1. TypeVenue' /\ WorkingShort'
    BY StatusType DEF TypeVenue, WorkingShort
  <2>2. TypeBook'
    BY DEF TypeBook
  <2>3. TypeTracked'
    BY DEF TypeTracked
  <2>4. TypeReports'
    BY DEF TypeReports
  <2>5. TypeLoop'
    BY DEF TypeLoop, LoopPoints, Operations
  <2>6. TypeListener' /\ TypeHistory'
    BY DEF TypeListener, TypeHistory
  <2>7. ListenerHasOne' /\ PlacedOne'
    BY DEF ListenerHasOne, PlacedOne, TypeVenue, TypeTracked, Finish, Goto,
        localVars
  <2> QED BY <2>1, <2>2, <2>3, <2>4, <2>5, <2>6, <2>7
<1>3. ASSUME NEW o \in Ids, Age(o)
      PROVE  TypeInv'
  <2> USE <1>3 DEF Age
  <2>1. TypeVenue' /\ WorkingShort'
    BY DEF TypeVenue, WorkingShort
  <2>2. TypeBook'
    BY DEF TypeBook
  <2>3. TypeTracked'
    BY DEF TypeTracked
  <2>4. TypeReports'
    BY DEF TypeReports
  <2>5. TypeLoop'
    BY DEF TypeLoop, LoopPoints, Operations
  <2>6. TypeListener' /\ TypeHistory'
    BY DEF TypeListener, TypeHistory
  <2>7. ListenerHasOne' /\ PlacedOne'
    BY DEF ListenerHasOne, PlacedOne, TypeVenue, TypeTracked, Finish, Goto,
        localVars
  <2> QED BY <2>1, <2>2, <2>3, <2>4, <2>5, <2>6, <2>7
<1> QED BY <1>1, <1>2, <1>3 DEF Venue

\* A step that changes nothing keeps the types.
LEMMA TypeStutter ==
    ASSUME TypeInv, UNCHANGED vars
    PROVE  TypeInv'
<1> USE DEF vars, venueVars, bookVars, clockVars, reportVars, localVars,
        loopVars, listenerVars, historyVars
<1>1. TypeVenue' /\ TypeBook' /\ TypeTracked' /\ TypeReports'
  BY DEF TypeInv, TypeOK, TypeVenue, TypeBook, TypeTracked, TypeReports
<1>2. TypeLoop' /\ TypeListener' /\ TypeHistory'
  BY DEF TypeInv, TypeOK, TypeLoop, TypeListener, TypeHistory
<1>3. WorkingShort' /\ ListenerHasOne' /\ PlacedOne'
  BY DEF TypeInv, WorkingShort, ListenerHasOne, PlacedOne
<1> QED BY <1>1, <1>2, <1>3 DEF TypeInv, TypeOK

LEMMA TypeStep == TypeInv /\ [Next]_vars => TypeInv'
<1> SUFFICES ASSUME TypeInv, [Next]_vars
             PROVE  TypeInv'
  OBVIOUS
<1>1. CASE LoopStarts
  BY <1>1, TypeStarts
<1>2. CASE LoopSteps
  BY <1>2, TypePlacing, TypeAnswers, TypeEnds, TypeExits, TypeLeaving DEF LoopSteps
<1>3. CASE ListenerSteps \/ Events
  BY <1>3, TypeListens
<1>4. CASE Venue \/ \E o \in Ids : Age(o)
  BY <1>4, TypeWorld
<1>5. CASE Stopped \/ UNCHANGED vars
  BY <1>5, TypeStutter DEF Stopped
<1> QED BY <1>1, <1>2, <1>3, <1>4, <1>5 DEF Next

\* Type correctness: whatever the venue answers and however the two tasks
\* interleave, every count stays within the size placed (size_and_confirm's
\* min, the partial exit's max with zero) and every id names an order.
THEOREM TypeCorrect == Spec => []TypeOK
<1>1. TypeInv => TypeOK
  BY DEF TypeInv
<1> QED BY <1>1, TypeInit, TypeStep, PTL DEF Spec

-----------------------------------------------------------------------------
(***************************************************************************)
(* Spec => []QuoteGuardTracked, for every value of the constants: no       *)
(* unconfirmed guard is ever left without the order that would settle it.  *)
(*                                                                         *)
(* QuoteGuardTracked is not inductive: an order leaves tracking because of *)
(* something decided earlier (a settled mark in the pass under way, an     *)
(* event the listener already applied, a sale in progress), and the        *)
(* invariant has to say what that decision left behind.                    *)
(***************************************************************************)

-----------------------------------------------------------------------------
(* The inductive invariant.                                                *)

Recording == {"record", "confirm", "track"}

\* A guard stands on the key of the order that opened it.
OwnKey ==
    \A k \in Keys : guard[k] # 0 => guard[k] <= lastId /\ okey[guard[k]] = k

\* Orders tracked, copied, settled or held by the listener have been placed.
PlacedIds ==
    /\ tracked \cup todo \cup settled \subseteq 1..lastId
    /\ lpc \in {"size", "untrack"} => lid \in 1..lastId

\* Nobody knows the order being recorded yet.
FreshOrder ==
    /\ pc \in Recording => okey[lastId] = key
    /\ pc = "record" =>
         /\ lastId \notin tracked \cup todo \cup settled
         /\ lpc \in {"size", "untrack"} => lid # lastId
         /\ \A k \in Keys : guard[k] # lastId

\* Order o leaves no unconfirmed guard behind.
NoQuote(o) == guard[okey[o]] = o => o \in confirmed

\* An order the pass settled, or the listener has sized, can leave tracking.
DoneWith ==
    /\ \A o \in settled : NoQuote(o)
    /\ lpc = "untrack" => NoQuote(lid)

\* A sale is of a confirmed guard, which stays until the sale is booked.
Selling ==
    pc \in {"sell", "book", "forget"} => guard[key] # 0 /\ guard[key] \in confirmed

QuoteInv ==
    /\ OwnKey
    /\ PlacedIds
    /\ FreshOrder
    /\ DoneWith
    /\ Selling
    /\ QuoteGuardTracked

LEMMA QuoteInit == Init => QuoteInv
BY AnyKeyIsKey DEF Init, QuoteInv, OwnKey, PlacedIds, FreshOrder, DoneWith,
   Selling, QuoteGuardTracked, Recording

-----------------------------------------------------------------------------
(* What every step but the recording of an order amounts to.               *)

\* Guards may go, and a guard that stays confirmed or not stays confirmed.
Shrinks ==
    \A k \in Keys :
      /\ guard'[k] \in {0, guard[k]}
      /\ guard'[k] # 0 /\ guard[k] \in confirmed => guard[k] \in confirmed'

ListenerMoves ==
    lpc' \in {"size", "untrack"} =>
      \/ lpc' = lpc /\ lid' = lid
      \/ lpc' = "size" /\ lid' \in tracked
      \/ lpc = "size" /\ lpc' = "untrack" /\ lid' = lid /\ NoQuote(lid)'

\* No order is recorded: one under way waits, none begins.
Aside == (pc' = pc /\ key' = key) \/ {pc, pc'} \cap Recording = {}

QuoteStep ==
    /\ UNCHANGED <<okey, lastId>>
    /\ Shrinks
    /\ tracked' \cup todo' \cup settled' \subseteq tracked \cup todo \cup settled
    /\ \A o \in (tracked \ tracked') \cup (settled' \ settled) : NoQuote(o)'
    /\ ListenerMoves
    /\ Aside
    /\ Selling'

LEMMA QuoteStepKeeps ==
    ASSUME TypeInv, TypeInv', QuoteInv, QuoteStep
    PROVE  QuoteInv'
<1> USE DEF QuoteInv
<1>1. /\ okey' = okey /\ lastId' = lastId /\ lastId \in 0..MaxOrders
      /\ okey \in [Ids -> Keys]
      /\ guard \in [Keys -> 0..MaxOrders] /\ guard' \in [Keys -> 0..MaxOrders]
      /\ tracked \subseteq Ids /\ settled \subseteq Ids
  BY DEF QuoteStep, TypeInv, TypeOK, TypeVenue, TypeBook, TypeTracked, TypeLoop
<1>2. OwnKey'
  BY <1>1 DEF QuoteStep, OwnKey, Shrinks
<1>3. PlacedIds'
  BY <1>1 DEF QuoteStep, PlacedIds, ListenerMoves
<1>4. FreshOrder'
  <2>1. pc' \in Recording => pc' = pc /\ key' = key
    BY DEF QuoteStep, Aside
  <2>2. pc' \in Recording => okey'[lastId'] = key'
    BY <1>1, <2>1 DEF FreshOrder
  <2>3. ASSUME pc' = "record"
        PROVE  /\ lastId' \notin tracked' \cup todo' \cup settled'
               /\ lpc' \in {"size", "untrack"} => lid' # lastId'
               /\ \A k \in Keys : guard'[k] # lastId'
    <3>1. pc = "record"
      BY <2>1, <2>3 DEF Recording
    <3>2. lastId \in Ids
      BY <3>1 DEF TypeInv, PlacedOne
    <3>3. todo' \cup tracked' \cup settled' \subseteq Ids
      BY DEF TypeInv, TypeOK, TypeTracked, TypeLoop
    <3>4. \A k \in Keys : guard'[k] # lastId'
      BY <1>1, <3>1, <3>2 DEF FreshOrder, QuoteStep, Shrinks
    <3>5. lpc' \in {"size", "untrack"} => lid' # lastId'
      BY <1>1, <3>1 DEF FreshOrder, QuoteStep, ListenerMoves
    <3>6. lastId' \notin tracked' \cup todo' \cup settled'
      BY <1>1, <3>1 DEF FreshOrder, QuoteStep
    <3> QED BY <3>4, <3>5, <3>6
  <2> QED BY <2>2, <2>3 DEF FreshOrder
<1>5. ASSUME NEW o \in Ids, NoQuote(o)
      PROVE  NoQuote(o)'
  <2>1. okey[o] \in Keys
    BY <1>1
  <2> QED BY <1>1, <1>5, <2>1 DEF NoQuote, QuoteStep, Shrinks
<1>6. DoneWith'
  <2>1. ASSUME NEW o \in settled'
        PROVE  NoQuote(o)'
    <3>1. CASE o \in settled
      BY <1>1, <1>5, <2>1, <3>1 DEF DoneWith
    <3>2. CASE o \notin settled
      BY <2>1, <3>2 DEF QuoteStep
    <3> QED BY <3>1, <3>2
  <2>2. ASSUME lpc' = "untrack", lpc = "untrack", lid' = lid
        PROVE  NoQuote(lid)'
    <3>1. lid \in Ids /\ NoQuote(lid)
      BY <2>2 DEF DoneWith, TypeInv, ListenerHasOne
    <3> QED BY <1>5, <2>2, <3>1 DEF NoQuote
  <2>3. lpc' = "untrack" => NoQuote(lid)'
    BY <2>2 DEF QuoteStep, ListenerMoves
  <2> QED BY <2>1, <2>3 DEF DoneWith
<1>7. QuoteGuardTracked'
  <2> SUFFICES ASSUME NEW k \in Keys, NEW g \in Ids, g = guard'[k], g \notin confirmed'
               PROVE  g \in tracked' \/ Placing(g)'
    BY <1>1 DEF QuoteGuardTracked, Placing
  <2>1. guard[k] = g /\ g \notin confirmed
    BY DEF QuoteStep, Shrinks
  <2>2. g \in tracked \/ Placing(g)
    BY <2>1 DEF QuoteGuardTracked
  <2>3. CASE g \in tracked
    <3>1. okey'[g] = k
      BY <1>1, <2>1 DEF OwnKey
    <3>2. ~NoQuote(g)'
      BY <3>1 DEF NoQuote
    <3> QED BY <2>3, <3>2 DEF QuoteStep
  <2>4. CASE Placing(g)
    BY <1>1, <2>4 DEF Placing, QuoteStep, Aside, Recording
  <2> QED BY <2>2, <2>3, <2>4
<1> QED BY <1>2, <1>3, <1>4, <1>6, <1>7 DEF QuoteStep

-----------------------------------------------------------------------------
(* What the shared operators do to the guards.                             *)

\* The premises of every lemma below: the invariant before the step, and the
\* venue's record of whose order is whose unchanged by it.
Known == TypeVenue /\ TypeBook /\ OwnKey /\ UNCHANGED okey

\* Sizing removes no guard, and confirms the order's own.
LEMMA SizeQuote ==
    ASSUME Known, NEW o \in Ids, NEW n, SizeAndConfirm(o, n)
    PROVE  UNCHANGED guard /\ confirmed \subseteq confirmed' /\ NoQuote(o)'
<1> DEFINE g == guard[okey[o]]
<1>1. o # 0 /\ OwnsGuard(o, o)
  BY DEF OwnsGuard
<1>2. CASE g # 0 /\ OwnsGuard(o, g)
  BY <1>2 DEF SizeAndConfirm, Known, NoQuote
<1>3. CASE ~(g # 0 /\ OwnsGuard(o, g))
  <2>1. g # o
    BY <1>1, <1>3
  <2> QED BY <1>3, <2>1 DEF SizeAndConfirm, LeaveGuard, bookVars, Known, NoQuote
<1> QED BY <1>2, <1>3

\* Removing a guard takes no other guard's confirmation with it.
LEMMA RemoveQuote ==
    ASSUME Known, NEW k \in Keys, RemoveGuard(k)
    PROVE  Shrinks /\ guard'[k] = 0
<1>1. guard' = [guard EXCEPT ![k] = 0] /\ confirmed' = confirmed \ {guard[k]}
  BY DEF RemoveGuard
<1>2. guard \in [Keys -> 0..MaxOrders]
  BY DEF Known, TypeBook
<1>3. ASSUME NEW j \in Keys, guard'[j] # 0
      PROVE  guard'[j] = guard[j] /\ guard[j] # guard[k]
  <2>1. j # k /\ guard'[j] = guard[j]
    BY <1>1, <1>2, <1>3
  <2> QED BY <1>3, <2>1 DEF Known, OwnKey
<1> QED BY <1>1, <1>2, <1>3 DEF Shrinks

LEMMA LeaveQuote ==
    ASSUME LeaveGuard
    PROVE  Shrinks /\ UNCHANGED <<guard, confirmed>>
BY DEF LeaveGuard, bookVars, Shrinks

\* release_quote leaves the order's guard gone, confirmed or another's.
LEMMA ReleaseQuoteDone ==
    ASSUME Known, NEW o \in Ids, ReleaseQuote(o)
    PROVE  Shrinks /\ NoQuote(o)'
<1> DEFINE k == okey[o]
<1>1. k \in Keys /\ o # 0 /\ OwnsGuard(o, o)
  BY DEF Known, TypeVenue, OwnsGuard
<1>2. CASE RemoveGuard(k)
  BY <1>1, <1>2, RemoveQuote DEF NoQuote, Known
<1>3. CASE LeaveGuard /\ ~(guard[k] # 0 /\ OwnsGuard(o, guard[k]) /\ guard[k] \notin confirmed)
  BY <1>1, <1>3, LeaveQuote DEF NoQuote, Known
<1> QED BY <1>2, <1>3 DEF ReleaseQuote

LEMMA SizeShrinks ==
    ASSUME UNCHANGED guard, confirmed \subseteq confirmed'
    PROVE  Shrinks
BY DEF Shrinks

LEMMA SizeIfAnyQuote ==
    ASSUME Known, NEW o \in Ids, NEW n, SizeIfAny(o, n)
    PROVE  /\ Shrinks /\ UNCHANGED guard /\ confirmed \subseteq confirmed'
           /\ n > 0 => NoQuote(o)'
<1>1. CASE n > 0
  BY <1>1, SizeQuote, SizeShrinks DEF SizeIfAny
<1>2. CASE ~(n > 0)
  BY <1>2, LeaveQuote DEF SizeIfAny
<1> QED BY <1>1, <1>2

\* A cancel's answer that settles the order leaves no quote behind.
LEMMA CancelQuote ==
    ASSUME Known, NEW o \in Ids, NEW ok \in BOOLEAN, NEW s, NEW a \in OrderState(o, s),
           GuardEffect(o, ok, a)
    PROVE  /\ Shrinks
           /\ CancelOutcome(ok, a) = "settled" => NoQuote(o)'
<1>1. a.filled \in Unsaid..Q
  BY AnswerType DEF Known
<1>2. CASE Sizes(ok, a)
  BY <1>2, SizeQuote, SizeShrinks DEF GuardEffect
<1>3. CASE ~Sizes(ok, a) /\ Releases(ok, a)
  BY <1>3, ReleaseQuoteDone DEF GuardEffect
<1>4. CASE ~Sizes(ok, a) /\ ~Releases(ok, a)
  <2>1. CancelOutcome(ok, a) # "settled"
    BY <1>1, <1>4 DEF Sizes, Releases, CancelOutcome
  <2> QED BY <1>4, <2>1, LeaveQuote DEF GuardEffect
<1> QED BY <1>2, <1>3, <1>4

-----------------------------------------------------------------------------
(* Steps of the loop that change no guard.                                 *)

LEMMA BookStands ==
    ASSUME UNCHANGED <<guard, confirmed>>
    PROVE  Shrinks
BY DEF Shrinks

\* An exit that cancels nothing sells at once: with no order tracked on the
\* leg, its guard is confirmed.
LEMMA UntrackedIsConfirmed ==
    ASSUME TypeBook, QuoteInv, NEW k \in Keys, guard[k] # 0, ~RestingFor(k),
           pc \notin Recording
    PROVE  guard[k] \in confirmed
<1>1. guard[k] \notin tracked
  BY DEF QuoteInv, OwnKey, RestingFor, OnKey
<1>2. ~Placing(guard[k])
  BY DEF Placing, Recording
<1> QED BY <1>1, <1>2 DEF QuoteInv, QuoteGuardTracked

LEMMA QuoteOpens ==
    ASSUME TypeInv, QuoteInv,
           \/ \E k \in Keys : Pull(k) \/ Exit(k) \/ Flatten(k)
           \/ \E known \in BOOLEAN : BeginReconcile(known)
           \/ Rotate \/ Retire \/ Leave
    PROVE  QuoteStep
<1> USE DEF QuoteStep, Aside, Recording, ListenerMoves, Selling, venueVars, bookVars,
        clockVars, localVars, loopVars, listenerVars
<1>1. ASSUME NEW k \in Keys, Pull(k)
      PROVE  QuoteStep
  BY <1>1, BookStands DEF Pull, Start, OnKey
<1>2. ASSUME NEW k \in Keys, NEW name, BeginExit(name, k), pc \notin Recording
      PROVE  QuoteStep
  <2>1. Selling'
    BY <1>2, UntrackedIsConfirmed DEF BeginExit, TypeInv, TypeOK
  <2> QED BY <1>2, <2>1, BookStands DEF BeginExit, OnKey
<1>3. ASSUME NEW known \in BOOLEAN, BeginReconcile(known)
      PROVE  QuoteStep
  BY <1>3, BookStands DEF BeginReconcile, Start
<1>4. ASSUME NEW name, BeginCancelAll(name)
      PROVE  QuoteStep
  BY <1>4, BookStands DEF BeginCancelAll, Start
<1>5. ASSUME NEW k \in Keys, Exit(k) \/ Flatten(k)
      PROVE  QuoteStep
  BY <1>2, <1>5 DEF Exit, Flatten
<1> QED BY <1>1, <1>3, <1>4, <1>5 DEF Rotate, Retire, Leave

LEMMA QuoteStays ==
    ASSUME TypeInv, QuoteInv,
           \/ RecordEntry \/ ExitDecide
           \/ (\E m \in 0..Q : Sell(m)) \/ (\E m \in 1..Q : SellUnheard(m))
           \/ CheckHolds \/ CheckTracks \/ Retry \/ Depart
    PROVE  QuoteStep
<1> USE DEF QuoteStep, Aside, Recording, ListenerMoves, Selling, venueVars, bookVars,
        clockVars, localVars, loopVars, listenerVars, Goto, Finish, QuoteInv
<1>1. CASE RecordEntry
  BY <1>1, BookStands DEF RecordEntry
<1>2. CASE ExitDecide
  BY <1>2, BookStands DEF ExitDecide, MaySell
<1>3. ASSUME NEW m \in 0..Q, Sell(m)
      PROVE  QuoteStep
  BY <1>3, BookStands DEF Sell
<1>4. CASE CheckHolds
  BY <1>4, BookStands DEF CheckHolds
<1>5. CASE CheckTracks
  BY <1>5, BookStands DEF CheckTracks
<1>6. CASE Retry
  BY <1>6, BookStands DEF Retry
<1>7. CASE Depart
  BY <1>7, BookStands DEF Depart
<1>8. ASSUME NEW m \in 1..Q, SellUnheard(m)
      PROVE  QuoteStep
  BY <1>8, BookStands DEF SellUnheard
<1> QED BY <1>1, <1>2, <1>3, <1>4, <1>5, <1>6, <1>7, <1>8

-----------------------------------------------------------------------------
(* Steps that settle an order, or act on what was settled.                 *)

LEMMA QuotePulled ==
    ASSUME TypeInv, QuoteInv, NEW o \in Ids, PullOrder(o)
    PROVE  QuoteStep
<1>1. PICK r \in CancelReplies(o) :
        \E a \in OrderState(o, r.st) :
          /\ CancelAsk(o, r, a)
          /\ \/ CancelOutcome(r.ok, a) = "settled" /\ tracked' = tracked \ {o}
             \/ UNCHANGED tracked
  BY DEF PullOrder, SetTracked
<1>2. PICK a \in OrderState(o, r.st) :
        /\ CancelAsk(o, r, a)
        /\ \/ CancelOutcome(r.ok, a) = "settled" /\ tracked' = tracked \ {o}
           \/ UNCHANGED tracked
  BY <1>1
<1>3. Known /\ r.ok \in BOOLEAN
  BY <1>2, ReplyType DEF Known, CancelAsk, QuoteInv, TypeInv, TypeOK
<1>4. Shrinks /\ (CancelOutcome(r.ok, a) = "settled" => NoQuote(o)')
  BY <1>2, <1>3, CancelQuote DEF CancelAsk
<1>5. /\ UNCHANGED <<okey, lastId, pc, key, lpc, lid, settled>>
      /\ pc = "pull" /\ todo' = todo \ {o}
  BY <1>2 DEF PullOrder, CancelAsk, listenerVars
<1> QED BY <1>2, <1>4, <1>5 DEF QuoteStep, Aside, ListenerMoves, Selling

LEMMA QuoteCancelled ==
    ASSUME TypeInv, QuoteInv, NEW o \in Ids, CancelAllOrder(o)
    PROVE  QuoteStep
<1>1. PICK r \in CancelReplies(o) :
        \E a \in OrderState(o, r.st) :
          /\ CancelAsk(o, r, a)
          /\ \/ CancelOutcome(r.ok, a) = "settled" /\ SettleOrder(o)
             \/ UNCHANGED settled
  BY DEF CancelAllOrder
<1>2. PICK a \in OrderState(o, r.st) :
        /\ CancelAsk(o, r, a)
        /\ \/ CancelOutcome(r.ok, a) = "settled" /\ SettleOrder(o)
           \/ UNCHANGED settled
  BY <1>1
<1>3. Known /\ r.ok \in BOOLEAN
  BY <1>2, ReplyType DEF Known, CancelAsk, QuoteInv, TypeInv, TypeOK
<1>4. Shrinks /\ (CancelOutcome(r.ok, a) = "settled" => NoQuote(o)')
  BY <1>2, <1>3, CancelQuote DEF CancelAsk
<1>5. /\ UNCHANGED <<okey, lastId, pc, key, lpc, lid, tracked>>
      /\ pc = "cancelAll" /\ todo' = todo \ {o} /\ o \in todo
  BY <1>2 DEF CancelAllOrder, CancelAsk, listenerVars, First
<1> QED BY <1>2, <1>4, <1>5
        DEF QuoteStep, Aside, ListenerMoves, Selling, SettleOrder

\* What one order's answer does in a reconcile pass: a settled one leaves no
\* quote behind, whichever branch settled it.
AnswerSettles(o) ==
    /\ Shrinks
    /\ settled' = settled \/ (settled' = settled \cup {o} /\ NoQuote(o)')

LEMMA GraceSettles ==
    ASSUME Known, NEW o \in Ids, Grace(o)
    PROVE  AnswerSettles(o)
BY ReleaseQuoteDone, LeaveQuote DEF Grace, SettleOrder, AnswerSettles

LEMMA SeenSettles ==
    ASSUME Known, NEW o \in Ids, NEW part \in 0..Q, SeenWorking(o, part)
    PROVE  AnswerSettles(o)
<1>1. CASE KeepWorking(o, part)
  <2>1. part >= Q => part > 0
    OBVIOUS
  <2> QED BY <1>1, <2>1, SizeIfAnyQuote DEF KeepWorking, SettleOrder, AnswerSettles
<1>2. CASE CancelStale(o, part)
  <2>1. PICK a \in OrderState(o, "done") :
          /\ IF part = 0 /\ Releases(TRUE, a) THEN ReleaseQuote(o)
             ELSE SizeIfAny(o, Max2(part, a.filled))
          /\ IF CancelOutcome(TRUE, a) = "settled" THEN SettleOrder(o)
             ELSE UNCHANGED settled
    BY <1>2 DEF CancelStale
  <2>2. a.filled \in Unsaid..Q
    BY AnswerType DEF Known
  <2>3. CASE part = 0 /\ Releases(TRUE, a)
    BY <2>1, <2>3, ReleaseQuoteDone DEF SettleOrder, AnswerSettles
  <2>4. CASE ~(part = 0 /\ Releases(TRUE, a))
    <3>1. CancelOutcome(TRUE, a) = "settled" => Max2(part, a.filled) > 0
      BY <2>2, <2>4 DEF CancelOutcome, Releases, Max2
    <3> QED BY <2>1, <2>4, <3>1, SizeIfAnyQuote DEF SettleOrder, AnswerSettles
  <2> QED BY <2>3, <2>4
<1> QED BY <1>1, <1>2 DEF SeenWorking

LEMMA CountSettles ==
    ASSUME Known, NEW o \in Ids, NEW n, SettleOrder(o),
           IF n > 0 THEN SizeAndConfirm(o, n) ELSE ReleaseQuote(o)
    PROVE  AnswerSettles(o)
<1>1. Shrinks /\ NoQuote(o)'
  BY SizeQuote, SizeShrinks, ReleaseQuoteDone
<1> QED BY <1>1 DEF AnswerSettles, SettleOrder

LEMMA QuoteReconciled ==
    ASSUME TypeInv, QuoteInv, NEW o \in Ids, ReconcileOrder(o)
    PROVE  QuoteStep
<1>1. /\ AskCancelled(o) \/ WaitBlind(o) \/ Listed(o) \/ Vanished(o)
      /\ pc = "reconcile" /\ o \in todo /\ todo' = todo \ {o}
      /\ UNCHANGED <<okey, lastId, tracked, pc, key, lpc, lid>>
  BY DEF ReconcileOrder, First, listenerVars
<1>2. Known
  BY <1>1 DEF Known, QuoteInv, TypeInv, TypeOK
<1>3. AnswerSettles(o)
  <2>1. CASE AskCancelled(o)
    <3>1. PICK a \in OrderState(o, st[o]) :
            \/ Grace(o)
            \/ /\ IF a.filled > 0 THEN SizeAndConfirm(o, a.filled) ELSE ReleaseQuote(o)
               /\ SettleOrder(o)
      BY <2>1 DEF AskCancelled
    <3> QED BY <1>2, <3>1, GraceSettles, CountSettles
  <2>2. CASE WaitBlind(o)
    BY <2>2, LeaveQuote DEF WaitBlind, AnswerSettles
  <2>3. CASE Listed(o)
    <3>1. listing[o] \in 0..Q
      BY <2>3 DEF Listed, TypeInv, TypeOK, TypeLoop
    <3> QED BY <1>2, <2>3, <3>1, SeenSettles DEF Listed
  <2>4. CASE Vanished(o)
    <3>1. PICK a \in OrderState(o, st[o]) :
            \/ SeenWorking(o, Max2(a.filled, 0))
            \/ /\ IF a.filled > 0 THEN SizeAndConfirm(o, a.filled) ELSE ReleaseQuote(o)
               /\ SettleOrder(o)
            \/ Grace(o)
      BY <2>4 DEF Vanished
    <3>2. Max2(a.filled, 0) \in 0..Q
      BY <1>2, AnswerType DEF Max2, Known
    <3> QED BY <1>2, <3>1, <3>2, SeenSettles, CountSettles, GraceSettles
  <2> QED BY <1>1, <2>1, <2>2, <2>3, <2>4
<1> QED BY <1>1, <1>3 DEF QuoteStep, Aside, ListenerMoves, Selling, AnswerSettles

\* The orders a pass settled leave tracking; the account scan, a sale that
\* leaves nothing and a partial sale remove no quote that still works.
LEMMA QuoteEnds ==
    ASSUME TypeInv, QuoteInv, PullDone \/ EndReconcile \/ EndCancelAll \/ Book \/ Forget
    PROVE  QuoteStep
<1> USE DEF QuoteStep, Aside, Recording, ListenerMoves, Selling, venueVars, bookVars,
        clockVars, localVars, loopVars, listenerVars, Goto, Finish, QuoteInv
<1>1. key \in Keys
  BY DEF TypeInv, TypeOK, TypeLoop
<1>2. CASE PullDone
  <2>1. Known
    BY <1>2 DEF PullDone, Known, TypeInv, TypeOK
  <2>2. Shrinks
    BY <1>1, <1>2, <2>1, RemoveQuote, BookStands DEF PullDone
  <2> QED BY <1>2, <2>2 DEF PullDone
<1>3. CASE EndReconcile \/ EndCancelAll
  <2>1. /\ UNCHANGED <<okey, lastId, guard, confirmed, todo, lpc, lid>>
        /\ tracked' = tracked \ settled /\ settled' = {}
        /\ pc \in {"reconcile", "cancelAll"}
        /\ pc' \in {"idle", "flatten", "retry", "holds"}
    BY <1>3 DEF EndReconcile, EndCancelAll, MergeTracked, SetTracked
  <2>2. \A o \in settled : NoQuote(o)'
    BY <2>1 DEF DoneWith, NoQuote
  <2> QED BY <2>1, <2>2, BookStands
<1>4. CASE Book
  <2>1. Known
    BY <1>4 DEF Book, Known, TypeInv, TypeOK
  <2>2. /\ UNCHANGED <<okey, lastId, tracked, todo, lpc, lid>>
        /\ settled' \subseteq settled /\ pc = "book"
        /\ \/ UNCHANGED <<guard, confirmed, key>> /\ pc' = "forget"
           \/ RemoveGuard(key) /\ pc' \in {"idle", "flatten"}
    BY <1>4 DEF Book
  <2>3. Shrinks
    BY <1>1, <2>1, <2>2, RemoveQuote, BookStands
  <2> QED BY <2>2, <2>3
<1>5. CASE Forget
  <2>1. /\ UNCHANGED <<okey, lastId, guard, confirmed, todo, lpc, lid>>
        /\ tracked' = tracked \ (OnKey(key) \cap cancelled) /\ settled' = {}
        /\ pc = "forget" /\ pc' \in {"idle", "flatten"}
    BY <1>5 DEF Forget, ForgetCancelled, SetTracked
  <2>2. \A o \in OnKey(key) : NoQuote(o)'
    BY <2>1 DEF OnKey, NoQuote
  <2> QED BY <2>1, <2>2, BookStands DEF OnKey
<1> QED BY <1>2, <1>3, <1>4, <1>5

-----------------------------------------------------------------------------
(* The listener, the venue and the clock.                                  *)

LEMMA QuoteListens ==
    ASSUME TypeInv, QuoteInv, ListenerSteps \/ Events
    PROVE  QuoteStep
<1> USE DEF QuoteStep, Aside, ListenerMoves, Selling, venueVars, bookVars,
        clockVars, localVars, loopVars, listenerVars, QuoteInv
<1>1. CASE ConfirmUntracked
  <2>1. UNCHANGED guard /\ confirmed \subseteq confirmed'
    BY <1>1 DEF ConfirmUntracked
  <2> QED BY <1>1, <2>1, SizeShrinks DEF ConfirmUntracked, ListenerRests
<1>2. CASE SizeTracked
  <2>1. lid \in Ids /\ Known /\ UNCHANGED lid
    BY <1>2 DEF SizeTracked, Known, TypeInv, TypeOK, ListenerHasOne
  <2>2. UNCHANGED guard /\ confirmed \subseteq confirmed'
    BY <1>2, <2>1, SizeQuote DEF SizeTracked
  <2>3. NoQuote(lid)'
    <3>1. \A o \in Ids : o = lid => NoQuote(o)'
      BY <1>2, <2>1, SizeQuote DEF SizeTracked
    <3> QED BY <2>1, <3>1 DEF NoQuote
  <2> QED BY <1>2, <2>2, <2>3, SizeShrinks DEF SizeTracked
<1>3. CASE UntrackFilled
  <2>1. /\ UNCHANGED <<okey, lastId, guard, confirmed, pc, key, todo, settled>>
        /\ lpc = "untrack" /\ lpc' = "idle" /\ lid \in Ids
        /\ tracked' \subseteq tracked /\ tracked \ tracked' \subseteq {lid}
    BY <1>3 DEF UntrackFilled, ListenerRests, SetTracked, TypeInv, ListenerHasOne
  <2>2. \A o \in tracked \ tracked' : NoQuote(o)'
    BY <2>1 DEF DoneWith, NoQuote
  <2> QED BY <2>1, <2>2, BookStands
<1>4. ASSUME NEW o \in Ids, NEW n \in 1..Q, NEW done \in BOOLEAN, TrackedFill(o, n, done)
      PROVE  QuoteStep
  BY <1>4, BookStands DEF TrackedFill
<1>5. ASSUME NEW l \in Legs, UntrackedFill(l)
      PROVE  QuoteStep
  BY <1>5, BookStands DEF UntrackedFill
<1> QED BY <1>1, <1>2, <1>3, <1>4, <1>5 DEF ListenerSteps, Events

LEMMA QuoteWorld ==
    ASSUME TypeInv, QuoteInv, Venue \/ (\E o \in Ids : Age(o)) \/ Stopped \/ UNCHANGED vars
    PROVE  QuoteStep
<1> USE BookStands DEF QuoteStep, Aside, ListenerMoves, Selling, venueVars, bookVars,
        clockVars, localVars, loopVars, listenerVars, QuoteInv
<1>1. ASSUME NEW o \in Ids, Trade(o)
      PROVE  QuoteStep
  BY <1>1 DEF Trade
<1>2. ASSUME NEW o \in Ids, Expire(o)
      PROVE  QuoteStep
  BY <1>2 DEF Expire
<1>3. ASSUME NEW o \in Ids, Age(o)
      PROVE  QuoteStep
  BY <1>3 DEF Age
<1>4. CASE UNCHANGED vars
  BY <1>4 DEF vars
<1> QED BY <1>1, <1>2, <1>3, <1>4 DEF Venue, Stopped

-----------------------------------------------------------------------------
(* Placing an order and recording it.                                      *)

\* A new id: no guard, copy or event can name it yet.
LEMMA QuotePlaced ==
    ASSUME TypeInv, QuoteInv,
           NEW k \in Keys, NEW f \in 0..Q, NEW s, NewOrder(k, f, s), pc = "idle",
           UNCHANGED <<guard, confirmed, tracked, todo, settled, listenerVars>>,
           \/ UNCHANGED <<pc, key>>
           \/ pc' = "record" /\ key' = k,
           lastId < MaxOrders
    PROVE  QuoteInv'
<1> USE DEF QuoteInv, listenerVars
<1>1. /\ lastId' = lastId + 1 /\ okey' = [okey EXCEPT ![lastId + 1] = k]
      /\ lastId \in 0..MaxOrders /\ okey \in [Ids -> Keys]
      /\ guard \in [Keys -> 0..MaxOrders]
  BY DEF NewOrder, TypeInv, TypeOK, TypeVenue, TypeBook
<1>2. \A o \in 1..lastId : okey'[o] = okey[o]
  BY <1>1
<1>3. OwnKey'
  BY <1>1, <1>2 DEF OwnKey
<1>4. PlacedIds'
  BY <1>1 DEF PlacedIds
<1>5. FreshOrder'
  <2>1. lastId' \notin tracked' \cup todo' \cup settled'
    BY <1>1 DEF PlacedIds
  <2>2. lpc' \in {"size", "untrack"} => lid' # lastId'
    BY <1>1 DEF PlacedIds
  <2>3. \A j \in Keys : guard'[j] # lastId'
    BY <1>1 DEF OwnKey
  <2>4. okey'[lastId'] = k
    BY <1>1
  <2> QED BY <2>1, <2>2, <2>3, <2>4 DEF FreshOrder, Recording
<1>6. DoneWith'
  BY <1>1, <1>2 DEF DoneWith, NoQuote, PlacedIds
<1>7. Selling'
  BY DEF Selling
<1>8. QuoteGuardTracked'
  BY DEF QuoteGuardTracked, Placing
<1> QED BY <1>3, <1>4, <1>5, <1>6, <1>7, <1>8

LEMMA QuoteRecorded ==
    ASSUME TypeInv, TypeInv', QuoteInv, RecordGuard
    PROVE  QuoteInv'
<1> USE DEF QuoteInv
<1>1. /\ guard' = [guard EXCEPT ![key] = lastId]
      /\ UNCHANGED <<okey, lastId, confirmed, tracked, todo, settled, lpc, lid, key>>
      /\ pc = "record" /\ pc' \in {"confirm", "track"}
  BY DEF RecordGuard, Goto, localVars, venueVars, listenerVars
<1>2. /\ key \in Keys /\ lastId \in Ids /\ okey \in [Ids -> Keys]
      /\ guard \in [Keys -> 0..MaxOrders]
  BY <1>1 DEF TypeInv, TypeOK, TypeLoop, TypeBook, TypeVenue, PlacedOne
<1>3. okey[lastId] = key /\ lastId \notin tracked \cup settled
  BY <1>1 DEF FreshOrder, Recording
<1>4. OwnKey'
  BY <1>1, <1>2, <1>3 DEF OwnKey
<1>5. PlacedIds'
  BY <1>1 DEF PlacedIds
<1>6. FreshOrder'
  BY <1>1, <1>3 DEF FreshOrder
<1>7. ASSUME NEW o \in Ids, o # lastId, NoQuote(o)
      PROVE  NoQuote(o)'
  BY <1>1, <1>2, <1>7 DEF NoQuote
<1>8. DoneWith'
  <2>1. \A o \in settled' : NoQuote(o)'
    BY <1>1, <1>3, <1>7 DEF DoneWith, TypeInv, TypeOK, TypeLoop
  <2>2. ASSUME lpc = "untrack"
        PROVE  NoQuote(lid)'
    <3>1. lid \in Ids /\ lid # lastId /\ NoQuote(lid)
      BY <1>1, <2>2 DEF DoneWith, FreshOrder, TypeInv, ListenerHasOne
    <3> QED BY <1>1, <1>7, <3>1 DEF NoQuote
  <2> QED BY <1>1, <2>1, <2>2 DEF DoneWith
<1>9. Selling'
  BY <1>1 DEF Selling
<1>10. QuoteGuardTracked'
  <2> SUFFICES ASSUME NEW k \in Keys, NEW g \in 0..MaxOrders, g = guard'[k], g # 0,
                      g \notin confirmed'
               PROVE  g \in tracked' \/ Placing(g)'
    <3>1. guard' \in [Keys -> 0..MaxOrders]
      BY DEF TypeInv, TypeOK, TypeBook
    <3> QED BY <3>1 DEF QuoteGuardTracked, Placing
  <2>1. CASE k = key
    BY <1>1, <1>2, <2>1 DEF Placing
  <2>2. CASE k # key
    <3>1. g = guard[k]
      BY <1>1, <1>2, <2>2
    <3>2. ~Placing(g)
      BY <1>1, <3>1 DEF Placing, FreshOrder
    <3> QED BY <1>1, <3>1, <3>2 DEF QuoteGuardTracked
  <2> QED BY <2>1, <2>2
<1> QED BY <1>4, <1>5, <1>6, <1>8, <1>9, <1>10

LEMMA QuoteConfirmed ==
    ASSUME TypeInv, TypeInv', QuoteInv, ConfirmGuard \/ Track
    PROVE  QuoteInv'
<1> USE DEF QuoteInv
<1>1. /\ UNCHANGED <<okey, lastId, guard, todo, settled, lpc, lid, key>>
      /\ pc \in {"confirm", "track"} /\ pc' \in {"track", "row"}
      /\ confirmed \subseteq confirmed' /\ tracked \subseteq tracked'
      /\ tracked' \subseteq tracked \cup {lastId}
      /\ pc' = "row" => guard[key] \in confirmed' \cup {0} \/ lastId \in tracked'
  BY DEF ConfirmGuard, Track, Goto, localVars, venueVars, bookVars, listenerVars
<1>2. lastId \in Ids
  BY <1>1 DEF TypeInv, PlacedOne
<1>3. OwnKey'
  BY <1>1 DEF OwnKey
<1>4. PlacedIds'
  BY <1>1, <1>2 DEF PlacedIds
<1>5. FreshOrder'
  BY <1>1 DEF FreshOrder, Recording
<1>6. DoneWith'
  BY <1>1 DEF DoneWith, NoQuote
<1>7. Selling'
  BY <1>1 DEF Selling
<1>8. QuoteGuardTracked'
  <2> SUFFICES ASSUME NEW k \in Keys, NEW g \in 0..MaxOrders, g = guard'[k], g # 0,
                      g \notin confirmed'
               PROVE  g \in tracked' \/ Placing(g)'
    <3>1. guard' \in [Keys -> 0..MaxOrders]
      BY DEF TypeInv, TypeOK, TypeBook
    <3> QED BY <3>1 DEF QuoteGuardTracked, Placing
  <2>1. CASE g \in tracked
    BY <1>1, <2>1
  <2>2. CASE Placing(g)
    <3>1. g = lastId /\ k = key
      BY <1>1, <2>2 DEF Placing, OwnKey, FreshOrder, Recording
    <3> QED BY <1>1, <3>1 DEF Placing
  <2> QED BY <1>1, <2>1, <2>2 DEF QuoteGuardTracked
<1> QED BY <1>3, <1>4, <1>5, <1>6, <1>7, <1>8

-----------------------------------------------------------------------------
LEMMA QuoteKept == TypeInv /\ QuoteInv /\ [Next]_vars => QuoteInv'
<1> SUFFICES ASSUME TypeInv, QuoteInv, [Next]_vars
             PROVE  QuoteInv'
  OBVIOUS
<1>1. TypeInv'
  BY TypeStep
<1>2. CASE LoopStarts
  <2>1. ASSUME NEW k \in Keys, NEW gtc \in BOOLEAN, NEW f \in 0..Q, Place(k, gtc, f)
        PROVE  QuoteInv'
    BY <2>1, QuotePlaced DEF Place, MayPlace, Start, bookVars
  <2>2. ASSUME NEW k \in Keys, PlaceLost(k)
        PROVE  QuoteInv'
    BY <2>2, QuotePlaced DEF PlaceLost, MayPlace, bookVars, loopVars, localVars
  <2> QED BY <1>1, <1>2, <2>1, <2>2, QuoteOpens, QuoteStepKeeps DEF LoopStarts
<1>3. CASE LoopSteps
  BY <1>1, <1>3, QuoteRecorded, QuoteConfirmed, QuoteOpens, QuoteStays, QuotePulled,
     QuoteCancelled, QuoteReconciled, QuoteEnds, QuoteStepKeeps DEF LoopSteps
<1>4. CASE ListenerSteps \/ Events
  BY <1>1, <1>4, QuoteListens, QuoteStepKeeps
<1>5. CASE Venue \/ (\E o \in Ids : Age(o)) \/ Stopped \/ UNCHANGED vars
  BY <1>1, <1>5, QuoteWorld, QuoteStepKeeps
<1> QED BY <1>2, <1>3, <1>4, <1>5 DEF Next

\* An unconfirmed guard always has its order tracked, or being placed: the
\* settle, release, merge and partial-exit paths of the two tasks never orphan
\* a quote and lock its viper out of the leg.
THEOREM QuotesAreTracked == Spec => []QuoteGuardTracked
<1>1. Init => TypeInv /\ QuoteInv
  BY TypeInit, QuoteInit
<1>2. TypeInv /\ QuoteInv /\ [Next]_vars => TypeInv' /\ QuoteInv'
  BY TypeStep, QuoteKept
<1>3. QuoteInv => QuoteGuardTracked
  BY DEF QuoteInv
<1> QED BY <1>1, <1>2, <1>3, PTL DEF Spec

-----------------------------------------------------------------------------
(***************************************************************************)
(* Spec => KeepsPromise, for every value of the constants: the guards that *)
(* the market loop and the fill listener share implement PositionBook.     *)
(*                                                                         *)
(* Every step but the placing and the recording of an order is an Edit: it *)
(* fills entries, lets one quote go or moves the sale under way.  That an  *)
(* entry recorded is new needs BookInv: nothing stands on the key while    *)
(* its order is being recorded, and no confirmation outlives its guard.    *)
(***************************************************************************)

\* A key stays free while its order is being recorded.
KeyFree == pc = "record" => guard[key] = 0

\* A confirmation is of a guard in the map.
ConfirmedStand == \A g \in confirmed : guard[okey[g]] = g

BookInv == KeyFree /\ ConfirmedStand

Holdings == {k \in Keys : guard[k] \in confirmed}

-----------------------------------------------------------------------------
(* What a step does to the entries.                                        *)

Filled ==
    /\ UNCHANGED guard
    /\ confirmed \subseteq confirmed'
    /\ \A g \in confirmed' \ confirmed : g # 0 /\ \E k \in Keys : guard[k] = g

Without(k) ==
    /\ guard' = [guard EXCEPT ![k] = 0]
    /\ confirmed' = confirmed \ {guard[k]}

Dropped(k) == guard[k] # 0 /\ guard[k] \notin confirmed /\ Without(k)

Touched == Filled \/ \E k \in Keys : Dropped(k)

\* No sale begins or ends.
SameSale == (pc' = "book" <=> pc = "book") /\ (pc = "book" => key' = key)

SaleMoves ==
    \/ UNCHANGED <<guard, confirmed>> /\ pc = "book" /\ pc' # "book"
    \/ UNCHANGED <<guard, confirmed, key>> /\ pc = "sell" /\ pc' = "book"
    \/ Without(key) /\ pc = "book" /\ pc' # "book"

Edit ==
    /\ UNCHANGED <<okey, lastId>>
    /\ pc' = "record" => pc = "record" /\ key' = key
    /\ (SameSale /\ Touched) \/ SaleMoves

LEMMA Untouched ==
    ASSUME UNCHANGED <<guard, confirmed>>
    PROVE  Touched
BY DEF Touched, Filled

\* Only the key of the guard removed changes what it holds.
LEMMA WithoutOne ==
    ASSUME TypeInv, QuoteInv, NEW k \in Keys, Without(k)
    PROVE  /\ Holdings' = Holdings \ {k}
           /\ guard'[k] = 0
           /\ \A j \in Keys : guard'[j] # 0 => guard'[j] = guard[j] /\ j # k
<1>1. guard \in [Keys -> 0..MaxOrders] /\ confirmed \subseteq Ids
  BY DEF TypeInv, TypeOK, TypeBook
<1>2. \A j \in Keys \ {k} : guard'[j] = guard[j]
  BY <1>1 DEF Without
<1>3. guard'[k] = 0 /\ 0 \notin confirmed'
  BY <1>1 DEF Without
<1>4. ASSUME NEW j \in Keys \ {k}, guard[j] \in confirmed
      PROVE  guard[j] # guard[k]
  BY <1>1, <1>4 DEF QuoteInv, OwnKey
<1>5. \A j \in Keys : guard'[j] \in confirmed' <=> j # k /\ guard[j] \in confirmed
  BY <1>2, <1>3, <1>4 DEF Without
<1> QED BY <1>2, <1>3, <1>5 DEF Holdings

LEMMA EditKeeps ==
    ASSUME TypeInv, QuoteInv, BookInv, Edit
    PROVE  BookInv'
<1>1. /\ guard \in [Keys -> 0..MaxOrders] /\ confirmed \subseteq Ids
      /\ okey \in [Ids -> Keys] /\ key \in Keys /\ UNCHANGED okey
  BY DEF TypeInv, TypeOK, TypeBook, TypeVenue, TypeLoop, Edit
<1>2. ASSUME NEW k \in Keys, Without(k)
      PROVE  BookInv'
  <2>1. KeyFree'
    BY <1>1, <1>2 DEF Edit, BookInv, KeyFree, Without
  <2>2. ASSUME NEW g \in confirmed'
        PROVE  guard'[okey'[g]] = g
    <3>1. g \in confirmed /\ g # guard[k] /\ guard[okey[g]] = g
      BY <1>2, <2>2 DEF Without, BookInv, ConfirmedStand
    <3>2. okey[g] \in Keys /\ okey[g] # k
      BY <1>1, <3>1
    <3> QED BY <1>1, <1>2, <3>1, <3>2 DEF Without
  <2> QED BY <2>1, <2>2 DEF BookInv, ConfirmedStand
<1>3. CASE Filled
  <2>1. KeyFree'
    BY <1>3 DEF Edit, BookInv, KeyFree, Filled
  <2>2. ASSUME NEW g \in confirmed'
        PROVE  guard'[okey'[g]] = g
    <3>1. CASE g \in confirmed
      BY <1>1, <1>3, <3>1 DEF Filled, BookInv, ConfirmedStand
    <3>2. CASE g \notin confirmed
      <4>1. PICK k \in Keys : guard[k] = g /\ g # 0
        BY <1>3, <2>2, <3>2 DEF Filled
      <4>2. okey[g] = k
        BY <4>1 DEF QuoteInv, OwnKey
      <4> QED BY <1>1, <1>3, <4>1, <4>2 DEF Filled
    <3> QED BY <3>1, <3>2
  <2> QED BY <2>1, <2>2 DEF BookInv, ConfirmedStand
<1>4. Filled \/ \E k \in Keys : Without(k)
  BY <1>1 DEF Edit, Touched, Dropped, SaleMoves, Filled
<1> QED BY <1>2, <1>3, <1>4

-----------------------------------------------------------------------------
(* An edit is a step of PositionBook.                                      *)

LEMMA EditPromised ==
    ASSUME TypeInv, QuoteInv, Edit
    PROVE  [Promise!Next]_(Promise!vars)
<1> DEFINE sale == IF pc = "book" THEN {key} ELSE {}
<1> USE DEF Promise!vars, Promise!Entries
<1>1. /\ guard \in [Keys -> 0..MaxOrders] /\ confirmed \subseteq Ids /\ key \in Keys
      /\ UNCHANGED lastId
  BY DEF TypeInv, TypeOK, TypeBook, TypeLoop, Edit
<1>2. CASE SameSale /\ Filled
  <2>1. PICK more \in SUBSET Promise!Entries : Holdings' = Holdings \cup more
    <3>1. Holdings' \in SUBSET Promise!Entries /\ Holdings' = Holdings \cup Holdings'
      BY <1>1, <1>2 DEF Filled, Holdings
    <3> QED BY <3>1
  <2>2. sale' = sale /\ guard' = guard
    BY <1>2 DEF SameSale, Filled
  <2>3. Promise!Fill(more)
    BY <2>1, <2>2 DEF Promise!Fill, Holdings, Edit
  <2> QED BY <2>1, <2>3 DEF Promise!Next
<1>3. ASSUME SameSale, NEW k \in Keys, Dropped(k)
      PROVE  Promise!LetGo(k)
  <2>1. sale' = sale
    BY <1>3 DEF SameSale
  <2>2. Holdings' = Holdings \ {k} /\ k \notin Holdings
    BY <1>3, WithoutOne DEF Dropped, Holdings
  <2> QED BY <1>1, <1>3, <2>1, <2>2
          DEF Promise!LetGo, Promise!Remove, Dropped, Without, Holdings
<1>4. CASE UNCHANGED <<guard, confirmed>> /\ pc = "book" /\ pc' # "book"
  <2>1. Promise!SoldPart
    BY <1>1, <1>4 DEF Promise!SoldPart
  <2> QED BY <2>1 DEF Promise!Next
<1>5. ASSUME NEW k \in Keys, k = key,
             UNCHANGED <<guard, confirmed, key>>, pc = "sell", pc' = "book"
      PROVE  Promise!Sell(k)
  <2>1. k \in Holdings
    BY <1>1, <1>5 DEF QuoteInv, Selling, Holdings
  <2> QED BY <1>1, <1>5, <2>1 DEF Promise!Sell, Holdings
<1>6. ASSUME NEW k \in Keys, k = key, Without(k), pc = "book", pc' # "book"
      PROVE  Promise!SoldOut(k)
  <2>1. Holdings' = Holdings \ {k}
    BY <1>6, WithoutOne
  <2> QED BY <1>1, <1>6, <2>1 DEF Promise!SoldOut, Promise!Remove, Without, Holdings
<1>7. CASE Without(key) /\ pc = "book" /\ pc' # "book"
  <2>1. \E k \in Keys : Promise!SoldOut(k)
    BY <1>1, <1>6, <1>7 DEF Without
  <2> QED BY <2>1 DEF Promise!Next
<1>8. CASE UNCHANGED <<guard, confirmed, key>> /\ pc = "sell" /\ pc' = "book"
  <2>1. \E k \in Keys : Promise!Sell(k)
    BY <1>1, <1>5, <1>8
  <2> QED BY <2>1 DEF Promise!Next
<1> QED BY <1>2, <1>3, <1>4, <1>7, <1>8 DEF Edit, Touched, SaleMoves, Promise!Next

-----------------------------------------------------------------------------
(* What the shared operators do to the entries.                            *)

LEMMA SizeTouches ==
    ASSUME Known, NEW o \in Ids, NEW n, SizeAndConfirm(o, n)
    PROVE  Touched
<1>1. okey[o] \in Keys
  BY DEF Known, TypeVenue
<1>2. Filled
  BY <1>1 DEF SizeAndConfirm, LeaveGuard, bookVars, Filled
<1> QED BY <1>2 DEF Touched

LEMMA RemoveTouches ==
    ASSUME TypeBook, NEW k \in Keys, guard[k] # 0, guard[k] \notin confirmed, RemoveGuard(k)
    PROVE  Touched
BY DEF RemoveGuard, Touched, Dropped, Without

LEMMA LeaveTouches ==
    ASSUME LeaveGuard
    PROVE  Touched
BY Untouched DEF LeaveGuard, bookVars

LEMMA ReleaseTouches ==
    ASSUME Known, NEW o \in Ids, ReleaseQuote(o)
    PROVE  Touched
<1>1. okey[o] \in Keys
  BY DEF Known, TypeVenue
<1> QED BY <1>1, RemoveTouches, LeaveTouches DEF ReleaseQuote, Known

LEMMA EffectTouches ==
    ASSUME Known, NEW o \in Ids, NEW ok, NEW a, GuardEffect(o, ok, a)
    PROVE  Touched
BY SizeTouches, ReleaseTouches, LeaveTouches DEF GuardEffect

LEMMA GraceTouches ==
    ASSUME Known, NEW o \in Ids, Grace(o)
    PROVE  Touched
BY ReleaseTouches, LeaveTouches DEF Grace

LEMMA SizeIfAnyTouches ==
    ASSUME Known, NEW o \in Ids, NEW n, SizeIfAny(o, n)
    PROVE  Touched
BY SizeTouches, LeaveTouches DEF SizeIfAny

LEMMA SeenTouches ==
    ASSUME Known, NEW o \in Ids, NEW part, SeenWorking(o, part)
    PROVE  Touched
BY SizeIfAnyTouches, ReleaseTouches DEF SeenWorking, KeepWorking, CancelStale

LEMMA CountTouches ==
    ASSUME Known, NEW o \in Ids, NEW n,
           IF n > 0 THEN SizeAndConfirm(o, n) ELSE ReleaseQuote(o)
    PROVE  Touched
BY SizeTouches, ReleaseTouches

-----------------------------------------------------------------------------
(* Every step but the placing and the recording of an order is an edit.    *)

LEMMA OpensEdit ==
    ASSUME TypeInv, QuoteInv,
           \/ \E k \in Keys : Pull(k) \/ Exit(k) \/ Flatten(k)
           \/ \E known \in BOOLEAN : BeginReconcile(known)
           \/ Rotate \/ Retire \/ Leave
    PROVE  Edit
<1>1. /\ UNCHANGED <<okey, lastId, guard, confirmed>>
      /\ pc \in {"idle", "flatten"} /\ pc' \in {"pull", "sell", "reconcile", "cancelAll"}
  BY DEF Pull, Exit, Flatten, BeginExit, BeginReconcile, Rotate, Retire, Leave,
         BeginCancelAll, Start, venueVars, bookVars
<1> QED BY <1>1, Untouched DEF Edit, SameSale

LEMMA StaysEdit ==
    ASSUME TypeInv, QuoteInv,
           \/ RecordEntry \/ ExitDecide
           \/ (\E m \in 0..Q : Sell(m)) \/ (\E m \in 1..Q : SellUnheard(m))
           \/ CheckHolds \/ CheckTracks \/ Retry \/ Depart \/ Track
    PROVE  Edit
<1> USE Untouched DEF venueVars, bookVars, Edit, SameSale
<1>1. CASE RecordEntry \/ ExitDecide
  BY <1>1 DEF RecordEntry, ExitDecide, Goto, Finish
<1>2. ASSUME NEW m \in 0..Q, Sell(m)
      PROVE  Edit
  BY <1>2 DEF Sell, Finish, SaleMoves
<1>3. CASE CheckHolds \/ CheckTracks \/ Retry \/ Depart \/ Track
  BY <1>3 DEF CheckHolds, CheckTracks, Retry, Depart, Track, Goto, Finish
<1>4. ASSUME NEW m \in 1..Q, SellUnheard(m)
      PROVE  Edit
  BY <1>4 DEF SellUnheard, Finish
<1> QED BY <1>1, <1>2, <1>3, <1>4

LEMMA AsksEdit ==
    ASSUME TypeInv, QuoteInv, NEW o \in Ids, PullOrder(o) \/ CancelAllOrder(o)
    PROVE  Edit
<1>1. PICK r \in CancelReplies(o) : \E a \in OrderState(o, r.st) : CancelAsk(o, r, a)
  BY DEF PullOrder, CancelAllOrder
<1>2. PICK a \in OrderState(o, r.st) : CancelAsk(o, r, a)
  BY <1>1
<1>3. Known
  BY <1>2 DEF Known, CancelAsk, QuoteInv, TypeInv, TypeOK
<1>4. Touched
  BY <1>2, <1>3, EffectTouches DEF CancelAsk
<1> QED BY <1>2, <1>4 DEF CancelAsk, Edit, SameSale

LEMMA ReconciledEdit ==
    ASSUME TypeInv, QuoteInv, NEW o \in Ids, ReconcileOrder(o)
    PROVE  Edit
<1>1. /\ AskCancelled(o) \/ WaitBlind(o) \/ Listed(o) \/ Vanished(o)
      /\ UNCHANGED <<okey, lastId, pc, key>>
  BY DEF ReconcileOrder
<1>2. Known
  BY <1>1 DEF Known, QuoteInv, TypeInv, TypeOK
<1>3. CASE AskCancelled(o)
  <2>1. \E a \in OrderState(o, st[o]) :
           \/ Grace(o)
           \/ IF a.filled > 0 THEN SizeAndConfirm(o, a.filled) ELSE ReleaseQuote(o)
    BY <1>3 DEF AskCancelled
  <2> QED BY <1>1, <1>2, <2>1, GraceTouches, CountTouches DEF Edit, SameSale
<1>4. CASE WaitBlind(o) \/ Listed(o)
  BY <1>1, <1>2, <1>4, LeaveTouches, SeenTouches DEF WaitBlind, Listed, Edit, SameSale
<1>5. CASE Vanished(o)
  <2>1. \E a \in OrderState(o, st[o]) :
           \/ SeenWorking(o, Max2(a.filled, 0))
           \/ IF a.filled > 0 THEN SizeAndConfirm(o, a.filled) ELSE ReleaseQuote(o)
           \/ Grace(o)
    BY <1>5 DEF Vanished
  <2> QED BY <1>1, <1>2, <2>1, GraceTouches, SeenTouches, CountTouches DEF Edit, SameSale
<1> QED BY <1>1, <1>3, <1>4, <1>5

LEMMA EndsEdit ==
    ASSUME TypeInv, QuoteInv,
           PullDone \/ EndReconcile \/ EndCancelAll \/ Book \/ Forget \/ ConfirmGuard
    PROVE  Edit
<1>1. key \in Keys /\ TypeBook
  BY DEF TypeInv, TypeOK, TypeLoop
<1>2. CASE PullDone
  <2>1. Touched
    BY <1>1, <1>2, RemoveTouches, Untouched DEF PullDone, bookVars
  <2> QED BY <1>2, <2>1 DEF PullDone, Finish, Edit, SameSale
<1>3. CASE EndReconcile \/ EndCancelAll \/ Forget
  BY <1>3, Untouched DEF EndReconcile, EndCancelAll, Forget, Finish, Edit, SameSale,
     venueVars, bookVars
<1>4. CASE Book
  BY <1>4 DEF Book, RemoveGuard, Goto, Finish, Edit, SaleMoves, Without, venueVars
<1>5. CASE ConfirmGuard
  <2>1. Filled
    BY <1>1, <1>5 DEF ConfirmGuard, Filled
  <2> QED BY <1>5, <2>1 DEF ConfirmGuard, Goto, Edit, SameSale, Touched, venueVars
<1> QED BY <1>2, <1>3, <1>4, <1>5

LEMMA ListensEdit ==
    ASSUME TypeInv, QuoteInv, ListenerSteps \/ Events
    PROVE  Edit
<1>1. UNCHANGED <<okey, lastId, pc, key>>
  BY DEF ListenerSteps, Events, ConfirmUntracked, SizeTracked, UntrackFilled,
         TrackedFill, UntrackedFill, venueVars, loopVars
<1>2. CASE ConfirmUntracked
  <2>1. lkeys \subseteq Keys
    BY DEF TypeInv, TypeOK, TypeListener
  <2>2. Filled
    BY <1>2, <2>1 DEF ConfirmUntracked, Filled
  <2> QED BY <1>1, <2>2 DEF Edit, SameSale, Touched
<1>3. CASE SizeTracked
  <2>1. lid \in Ids /\ Known
    BY <1>1, <1>3 DEF SizeTracked, Known, QuoteInv, TypeInv, TypeOK, ListenerHasOne
  <2>2. Touched
    BY <1>3, <2>1, SizeTouches DEF SizeTracked
  <2> QED BY <1>1, <2>2 DEF Edit, SameSale
<1>4. CASE UntrackFilled \/ Events
  BY <1>1, <1>4, Untouched DEF UntrackFilled, Events, TrackedFill, UntrackedFill, bookVars,
     Edit, SameSale
<1> QED BY <1>2, <1>3, <1>4 DEF ListenerSteps

LEMMA WorldEdit ==
    ASSUME Venue \/ (\E o \in Ids : Age(o)) \/ Stopped \/ UNCHANGED vars
    PROVE  Edit
<1>1. UNCHANGED <<okey, lastId, pc, key, guard, confirmed>>
  BY DEF Venue, Trade, Expire, Age, Stopped, vars, venueVars, bookVars, loopVars
<1> QED BY <1>1, Untouched DEF Edit, SameSale

-----------------------------------------------------------------------------
(* An order is placed: the clock ticks; it is recorded: an entry opens.    *)

LEMMA PlaceTicks ==
    ASSUME TypeInv, QuoteInv, BookInv, NEW k \in Keys,
           PlaceLost(k) \/ \E gtc \in BOOLEAN, f \in 0..Q : Place(k, gtc, f)
    PROVE  Promise!Tick /\ BookInv'
<1>1. /\ UNCHANGED <<guard, confirmed>> /\ guard[k] = 0
      /\ lastId' = lastId + 1 /\ lastId \in 0..MaxOrders
      /\ okey' = [okey EXCEPT ![lastId + 1] = k]
      /\ pc = "idle" /\ pc' \in {"idle", "record"} /\ (pc' = "record" => key' = k)
  BY DEF PlaceLost, Place, MayPlace, NewOrder, Start, bookVars, loopVars, TypeInv, TypeOK,
         TypeVenue
<1>2. Promise!Tick
  BY <1>1 DEF Promise!Tick
<1>3. KeyFree'
  BY <1>1 DEF KeyFree
<1>4. ASSUME NEW g \in confirmed
      PROVE  guard'[okey'[g]] = g
  <2>1. g \in Ids /\ okey[g] \in Keys /\ guard[okey[g]] = g
    BY <1>4 DEF BookInv, ConfirmedStand, TypeInv, TypeOK, TypeBook, TypeVenue
  <2>2. g <= lastId
    BY <2>1 DEF QuoteInv, OwnKey
  <2> QED BY <1>1, <2>1, <2>2 DEF TypeInv, TypeOK, TypeVenue
<1> QED BY <1>1, <1>2, <1>3, <1>4 DEF BookInv, ConfirmedStand

LEMMA RecordOpens ==
    ASSUME TypeInv, QuoteInv, BookInv, RecordGuard
    PROVE  Promise!Next /\ BookInv'
<1>1. /\ guard' = [guard EXCEPT ![key] = lastId]
      /\ UNCHANGED <<okey, lastId, confirmed>>
      /\ pc = "record" /\ pc' \in {"confirm", "track"}
  BY DEF RecordGuard, Goto, venueVars
<1>2. /\ key \in Keys /\ lastId \in Ids /\ guard[key] = 0 /\ okey[lastId] = key
      /\ guard \in [Keys -> 0..MaxOrders] /\ confirmed \subseteq Ids
      /\ okey \in [Ids -> Keys]
  BY <1>1 DEF TypeInv, TypeOK, TypeLoop, TypeBook, TypeVenue, PlacedOne, BookInv, KeyFree,
     QuoteInv, FreshOrder, Recording
<1>3. lastId \notin confirmed
  BY <1>2 DEF BookInv, ConfirmedStand
<1>4. ASSUME NEW k \in Keys, k = key
      PROVE  Promise!Open(k)
  <2>1. \A j \in Keys : guard[j] # lastId
    BY <1>1 DEF QuoteInv, FreshOrder
  <2>2. Holdings' = Holdings
    BY <1>1, <1>2, <1>3 DEF Holdings
  <2> QED BY <1>1, <1>2, <1>4, <2>1, <2>2 DEF Promise!Open, Promise!Entries, Holdings
<1>5. BookInv'
  <2>1. ASSUME NEW g \in confirmed
        PROVE  guard'[okey'[g]] = g
    <3>1. okey[g] \in Keys /\ okey[g] # key
      BY <1>2, <2>1 DEF BookInv, ConfirmedStand
    <3> QED BY <1>1, <1>2, <2>1, <3>1 DEF BookInv, ConfirmedStand
  <2> QED BY <1>1, <2>1 DEF BookInv, KeyFree, ConfirmedStand
<1>6. \E k \in Keys : Promise!Open(k)
  BY <1>2, <1>4
<1> QED BY <1>5, <1>6 DEF Promise!Next

-----------------------------------------------------------------------------
LEMMA StepPromised ==
    ASSUME TypeInv, QuoteInv, BookInv, [Next]_vars
    PROVE  [Promise!Next]_(Promise!vars) /\ BookInv'
<1>1. CASE Edit
  BY <1>1, EditKeeps, EditPromised
<1>2. ASSUME NEW k \in Keys, PlaceLost(k) \/ \E gtc \in BOOLEAN, f \in 0..Q : Place(k, gtc, f)
      PROVE  Promise!Next /\ BookInv'
  BY <1>2, PlaceTicks DEF Promise!Next
<1>3. CASE LoopStarts
  BY <1>1, <1>2, <1>3, OpensEdit DEF LoopStarts
<1>4. CASE LoopSteps
  BY <1>1, <1>4, RecordOpens, OpensEdit, StaysEdit, AsksEdit, ReconciledEdit, EndsEdit
     DEF LoopSteps
<1>5. CASE ListenerSteps \/ Events
  BY <1>1, <1>5, ListensEdit
<1>6. CASE Venue \/ (\E o \in Ids : Age(o)) \/ Stopped \/ UNCHANGED vars
  BY <1>1, <1>6, WorldEdit
<1> QED BY <1>3, <1>4, <1>5, <1>6 DEF Next

LEMMA InitPromised == Init => Promise!Init /\ BookInv
BY DEF Init, Promise!Init, BookInv, KeyFree, ConfirmedStand

\* The position map keeps what PositionBook promises, over every interleaving of
\* the market loop, the fill listener and the venue: an entry opens on a free key
\* at an instant of its own, a fill is never taken back, and a holding leaves the
\* map only as the end of its own sale.
THEOREM PromiseKept == Spec => KeepsPromise
<1>1. Init => TypeInv /\ QuoteInv /\ BookInv /\ Promise!Init
  BY TypeInit, QuoteInit, InitPromised
<1>2. TypeInv /\ QuoteInv /\ BookInv /\ [Next]_vars
        => TypeInv' /\ QuoteInv' /\ BookInv' /\ [Promise!Next]_(Promise!vars)
  BY TypeStep, QuoteKept, StepPromised
<1> QED BY <1>1, <1>2, PTL DEF Spec, KeepsPromise, Promise!Spec

\* No entry that is a holding goes by an edit, but the one whose sale is booked.
LEMMA HoldingStays ==
    ASSUME TypeInv, QuoteInv, BookInv, [Next]_vars,
           NEW k \in Keys, guard[k] \in confirmed, pc = "book" => pc' = "book"
    PROVE  guard'[k] = guard[k]
<1>1. guard \in [Keys -> 0..MaxOrders] /\ confirmed \subseteq Ids
  BY DEF TypeInv, TypeOK, TypeBook
<1>2. CASE Edit
  <2>1. UNCHANGED guard \/ \E j \in Keys : Dropped(j)
    BY <1>2 DEF Edit, Touched, Filled, SaleMoves
  <2> QED BY <1>1, <2>1 DEF Dropped, Without
<1>3. CASE \E j \in Keys : PlaceLost(j) \/ \E gtc \in BOOLEAN, f \in 0..Q : Place(j, gtc, f)
  BY <1>3 DEF PlaceLost, Place, bookVars
<1>4. CASE RecordGuard
  <2>1. guard[key] = 0 /\ guard' = [guard EXCEPT ![key] = lastId]
    BY <1>4 DEF RecordGuard, BookInv, KeyFree
  <2> QED BY <1>1, <2>1
<1>5. CASE LoopStarts \/ LoopSteps
  BY <1>2, <1>3, <1>4, <1>5, OpensEdit, StaysEdit, AsksEdit, ReconciledEdit, EndsEdit
     DEF LoopStarts, LoopSteps
<1>6. CASE ListenerSteps \/ Events \/ Venue \/ (\E o \in Ids : Age(o)) \/ Stopped \/ UNCHANGED vars
  BY <1>2, <1>6, ListensEdit, WorldEdit
<1> QED BY <1>5, <1>6 DEF Next

-----------------------------------------------------------------------------
(***************************************************************************)
(* Counts and sales.  Three things have to be said besides the properties. *)
(* CountInv: every count on its way to a guard (an event, a listing, an    *)
(* acknowledgment) is one its order has reached, and reaches the guard of  *)
(* that order only.  CopyInv: what an operation works through.  SalesInv:  *)
(* an order sold out of is no longer asked about, so its guard is not      *)
(* sized up again.                                                         *)
(***************************************************************************)
(* The invariant.                                                          *)

Heard   == {"size", "untrack"}
Asking  == {"pull", "reconcile", "cancelAll"}
Exiting == {"sell", "book", "forget"}

\* A guard is of the last order recorded on its key.
NewestGuard == \A o \in 1..lastId : guard[okey[o]] = 0 \/ guard[okey[o]] >= o

\* Counts the loop and the listener carry are counts the order has reached.
ListedTrue == \A o \in Ids : listing[o] <= traded[o]
EventTrue  == lpc \in Heard => lcount <= traded[lid]
AckTrue    == pc \in {"record", "confirm"} => ack <= traded[lastId]

\* Nothing was read of, or sold out of, an order not yet placed or recorded.
Fresh ==
    /\ \A o \in Ids : o > lastId => listing[o] = Unsaid /\ sold[o] = 0
    /\ pc \in Recording => sold[lastId] = 0

CountInv == NewestGuard /\ ListedTrue /\ EventTrue /\ AckTrue /\ Fresh

\* The orders an operation has still to ask about, and those it asked; and where
\* the loop is once it stands down.
CopyInv ==
    /\ todo # {} => pc \in Asking
    /\ pc = "pull" => \A o \in todo : okey[o] = key
    /\ pc \in Exiting /\ op # "flatten" => OnKey(key) \subseteq cancelled
    /\ op = "flatten" =>
         /\ pc \in Exiting \cup {"flatten", "pull", "left"}
         /\ pc \in Exiting \cup {"pull"} => key \notin exits

\* Only confirmed guards are sold out of.
SoldConfirmed == \A k \in Keys : guard[k] # 0 /\ sold[guard[k]] > 0 => guard[k] \in confirmed

\* An order sold out of is still tracked while its sale is booked, or when the
\* loop is standing down and will not ask about it again.
SaleUnderWay(k) == pc \in {"book", "forget"} /\ key = k
NotAskedAgain(k) == op = "flatten" /\ k \notin exits /\ ~(pc = "pull" /\ key = k)
SoldAside ==
    \A k \in Keys : guard[k] \in tracked \cup todo /\ sold[guard[k]] > 0 =>
      SaleUnderWay(k) \/ NotAskedAgain(k)

\* A sale under way is of no more than the guard still shows.
SaleWithin ==
    /\ pc = "sell" => sig <= shares[guard[key]]
    /\ pc = "book" => held <= shares[guard[key]] /\ ack <= sold[guard[key]]

\* A guard recorded at its fill shows that fill.
RecordedTrue == pc = "confirm" => guard[key] = lastId /\ shares[lastId] <= traded[lastId]

\* What the exits' replies counted is within what the order bought.
SoldWithin == \A o \in Ids \ inflated : sold[o] <= traded[o]

SalesInv ==
    /\ SoldConfirmed
    /\ SoldAside
    /\ SaleWithin
    /\ RecordedTrue
    /\ GuardBacked
    /\ SoldWithin

LEMMA SalesInit == Init => CountInv /\ CopyInv /\ SalesInv
BY DEF Init, CountInv, NewestGuard, ListedTrue, EventTrue, AckTrue, Fresh, Recording,
   CopyInv, Asking, Exiting, SalesInv, SoldConfirmed, SoldAside, SaleWithin, RecordedTrue,
   GuardBacked, SoldWithin, Heard

-----------------------------------------------------------------------------
(* Counts.                                                                 *)

\* What every step but the placing and the recording of an order does to them.
CountStep ==
    /\ UNCHANGED <<okey, lastId>>
    /\ \A o \in Ids : traded[o] <= traded'[o]
    /\ \A o \in Ids : sold'[o] # sold[o] => pc = "sell" /\ o = guard[key]
    /\ \A k \in Keys : guard'[k] \in {0, guard[k]}
    /\ \A o \in Ids : \/ listing'[o] \in {Unsaid, listing[o]}
                      \/ o <= lastId /\ listing'[o] <= traded[o]
    /\ lpc' \in Heard => \/ lpc \in Heard /\ UNCHANGED <<lid, lcount>>
                         \/ lcount' <= traded'[lid']
    /\ pc' \in {"record", "confirm"} => pc' = pc /\ ack' = ack
    /\ pc' \in Recording => pc \in Recording

LEMMA CountStepKeeps ==
    ASSUME TypeInv, TypeInv', QuoteInv, CountInv, CountStep
    PROVE  CountInv'
<1> USE DEF CountInv, CountStep
<1>1. /\ traded \in [Ids -> 0..Q] /\ traded' \in [Ids -> 0..Q]
      /\ sold \in [Ids -> Nat] /\ sold' \in [Ids -> Nat]
      /\ okey \in [Ids -> Keys] /\ lastId \in 0..MaxOrders
      /\ guard \in [Keys -> 0..MaxOrders] /\ guard' \in [Keys -> 0..MaxOrders]
      /\ listing \in [Ids -> Unsaid..Q] /\ listing' \in [Ids -> Unsaid..Q]
      /\ key \in Keys /\ ack \in 0..Q /\ lcount \in 0..Q
  BY DEF TypeInv, TypeOK, TypeVenue, TypeBook, TypeLoop, TypeListener
<1>2. NewestGuard'
  BY <1>1 DEF NewestGuard
<1>3. ListedTrue'
  <2> SUFFICES ASSUME NEW o \in Ids PROVE listing'[o] <= traded'[o]
    BY DEF ListedTrue
  <2>1. listing[o] <= traded[o] /\ traded[o] <= traded'[o]
    BY DEF ListedTrue
  <2>2. listing'[o] = Unsaid \/ listing'[o] <= traded[o]
    BY <2>1
  <2>3. {listing'[o], traded[o], traded'[o]} \subseteq Int /\ traded'[o] >= 0
    BY <1>1
  <2> QED BY <2>1, <2>2, <2>3
<1>4. EventTrue'
  <2> SUFFICES ASSUME lpc \in Heard, UNCHANGED <<lid, lcount>>
               PROVE  lcount <= traded'[lid]
    BY DEF EventTrue
  <2>1. lid \in Ids
    BY DEF TypeInv, ListenerHasOne, Heard
  <2> QED BY <1>1, <2>1 DEF EventTrue
<1>5. AckTrue'
  <2> SUFFICES ASSUME pc \in {"record", "confirm"}, ack' = ack
               PROVE  ack <= traded'[lastId]
    BY DEF AckTrue
  <2>1. lastId \in Ids
    BY DEF TypeInv, PlacedOne
  <2> QED BY <1>1, <2>1 DEF AckTrue
<1>6. Fresh'
  <2>1. ASSUME NEW o \in Ids, o > lastId
        PROVE  listing'[o] = Unsaid /\ sold'[o] = 0
    <3>1. guard[key] = 0 \/ guard[key] <= lastId
      BY <1>1 DEF QuoteInv, OwnKey
    <3>2. sold'[o] = sold[o]
      <4>1. o \in Int /\ lastId \in Int /\ guard[key] \in Int /\ o # 0
        BY <1>1
      <4>2. o # guard[key]
        BY <2>1, <3>1, <4>1
      <4> QED BY <4>2
    <3>3. listing'[o] \in {Unsaid, listing[o]}
      BY <1>1, <2>1
    <3> QED BY <2>1, <3>2, <3>3 DEF Fresh
  <2>2. pc' \in Recording => sold'[lastId'] = 0
    <3>1. pc \in Recording => lastId \in Ids /\ pc # "sell"
      BY DEF Recording, TypeInv, PlacedOne
    <3> QED BY <3>1 DEF Fresh
  <2> QED BY <2>1, <2>2 DEF Fresh
<1> QED BY <1>2, <1>3, <1>4, <1>5, <1>6

\* What a listing says is forgotten, kept, or a count just read.
ListingRead(o) ==
    \/ listing'[o] \in {Unsaid, listing[o]}
    \/ o <= lastId /\ listing'[o] <= traded[o]

\* Only the venue, the placing of orders and sales change what it counts.
LEMMA QuoteCounts ==
    ASSUME TypeInv, QuoteStep, UNCHANGED <<traded, sold>>,
           \A o \in Ids : ListingRead(o),
           lpc' \in Heard => lpc \in Heard /\ UNCHANGED <<lid, lcount>>,
           pc' \in Recording => UNCHANGED ack
    PROVE  CountStep
<1>1. \A o \in Ids : traded[o] <= traded[o]
  BY DEF TypeInv, TypeOK, TypeVenue
<1>2. pc' \in Recording => pc' = pc /\ pc \in Recording
  BY DEF QuoteStep, Aside
<1> QED BY <1>1, <1>2 DEF QuoteStep, Shrinks, CountStep, Recording, ListingRead

LEMMA ListingStays ==
    ASSUME listing' \in {listing, [o \in Ids |-> Unsaid]}
    PROVE  \A o \in Ids : ListingRead(o)
BY DEF ListingRead

LEMMA OpensCount ==
    ASSUME TypeInv, QuoteInv,
           \/ \E k \in Keys : Pull(k) \/ Exit(k) \/ Flatten(k)
           \/ \E known \in BOOLEAN : BeginReconcile(known)
           \/ Rotate \/ Retire \/ Leave
    PROVE  CountStep
<1>1. QuoteStep
  BY QuoteOpens
<1>2. UNCHANGED <<traded, sold, lid, lcount, lpc>> /\ pc' \notin Recording
  BY DEF Pull, Exit, Flatten, BeginExit, BeginReconcile, Rotate, Retire, Leave, BeginCancelAll,
     Start, venueVars, listenerVars, Recording
<1>3. ASSUME NEW known \in BOOLEAN, BeginReconcile(known), NEW o \in Ids
      PROVE  ListingRead(o)
  <2>1. tracked \subseteq 1..lastId /\ traded[o] \in 0..Q /\ lastId \in 0..MaxOrders
    BY DEF QuoteInv, PlacedIds, TypeInv, TypeOK, TypeVenue
  <2> QED BY <1>3, <2>1 DEF BeginReconcile, ListingRead
<1>4. UNCHANGED listing \/ \E known \in BOOLEAN : BeginReconcile(known)
  BY DEF Pull, Exit, Flatten, BeginExit, Rotate, Retire, Leave, BeginCancelAll, localVars
<1>5. \A o \in Ids : ListingRead(o)
  BY <1>3, <1>4, ListingStays
<1> QED BY <1>1, <1>2, <1>5, QuoteCounts

LEMMA StaysCount ==
    ASSUME TypeInv, QuoteInv,
           \/ RecordEntry \/ ExitDecide \/ CheckHolds \/ CheckTracks \/ Retry \/ Depart
           \/ \E m \in 1..Q : SellUnheard(m)
    PROVE  CountStep
<1>1. QuoteStep
  BY QuoteStays
<1>2. /\ UNCHANGED <<traded, sold, lid, lcount, lpc>> /\ pc' \notin Recording
      /\ listing' \in {listing, [o \in Ids |-> Unsaid]}
  BY DEF RecordEntry, ExitDecide, CheckHolds, CheckTracks, Retry, Depart, SellUnheard, Goto,
     Finish, localVars, venueVars, listenerVars, Recording
<1> QED BY <1>1, <1>2, ListingStays, QuoteCounts

LEMMA SellCounts ==
    ASSUME TypeInv, QuoteInv, NEW m \in 0..Q, Sell(m)
    PROVE  CountStep
<1>1. QuoteStep
  BY QuoteStays
<1>2. /\ pc = "sell" /\ sold' = [sold EXCEPT ![guard[key]] = @ + m]
      /\ UNCHANGED <<traded, lid, lcount, lpc>> /\ pc' \notin Recording
      /\ listing' \in {listing, [o \in Ids |-> Unsaid]}
  BY DEF Sell, Finish, listenerVars, Recording
<1>3. \A o \in Ids : sold'[o] # sold[o] => o = guard[key]
  BY <1>2 DEF TypeInv, TypeOK, TypeVenue
<1>4. \A o \in Ids : traded[o] <= traded'[o]
  BY <1>2 DEF TypeInv, TypeOK, TypeVenue
<1> QED BY <1>1, <1>2, <1>3, <1>4, ListingStays
        DEF QuoteStep, Shrinks, CountStep, ListingRead, Recording

LEMMA ConfirmCounts ==
    ASSUME TypeInv, ConfirmGuard \/ Track
    PROVE  CountStep
<1>1. /\ UNCHANGED <<okey, lastId, traded, sold, guard, listing, lpc, lid, lcount, ack>>
      /\ pc \in Recording /\ pc' \notin {"record", "confirm"}
  BY DEF ConfirmGuard, Track, Goto, venueVars, bookVars, localVars, listenerVars, Recording
<1>2. \A o \in Ids : traded[o] <= traded[o]
  BY DEF TypeInv, TypeOK, TypeVenue
<1> QED BY <1>1, <1>2 DEF CountStep

LEMMA AsksCount ==
    ASSUME TypeInv, QuoteInv, NEW o \in Ids,
           PullOrder(o) \/ CancelAllOrder(o) \/ ReconcileOrder(o)
    PROVE  CountStep
<1>1. QuoteStep
  BY QuotePulled, QuoteCancelled, QuoteReconciled
<1>2. UNCHANGED <<traded, sold, listing, lid, lcount, lpc, ack>>
  BY DEF PullOrder, CancelAllOrder, ReconcileOrder, CancelAsk, listenerVars
<1> QED BY <1>1, <1>2, ListingStays, QuoteCounts

LEMMA EndsCount ==
    ASSUME TypeInv, QuoteInv, PullDone \/ EndReconcile \/ EndCancelAll \/ Book \/ Forget
    PROVE  CountStep
<1>1. QuoteStep
  BY QuoteEnds
<1>2. /\ UNCHANGED <<traded, sold, lid, lcount, lpc>> /\ pc' \notin Recording
      /\ listing' \in {listing, [o \in Ids |-> Unsaid]}
  BY DEF PullDone, EndReconcile, EndCancelAll, Book, Forget, Finish, Goto, localVars,
     venueVars, listenerVars, Recording
<1> QED BY <1>1, <1>2, ListingStays, QuoteCounts

LEMMA ListensCount ==
    ASSUME TypeInv, QuoteInv, ListenerSteps \/ Events
    PROVE  CountStep
<1>1. QuoteStep
  BY QuoteListens
<1>2. UNCHANGED <<traded, sold, listing, ack>>
  BY DEF ListenerSteps, ConfirmUntracked, SizeTracked, UntrackFilled, Events, TrackedFill,
     UntrackedFill, venueVars, loopVars, localVars
<1>3. CASE \E o \in Ids, n \in 1..Q, done \in BOOLEAN : TrackedFill(o, n, done)
  <2>1. lcount' <= traded'[lid'] /\ UNCHANGED <<pc, okey, lastId, guard>>
    BY <1>3 DEF TrackedFill, venueVars, bookVars, loopVars
  <2>2. \A o \in Ids : traded[o] <= traded[o]
    BY DEF TypeInv, TypeOK, TypeVenue
  <2> QED BY <1>2, <2>1, <2>2 DEF CountStep, Recording
<1>4. CASE ListenerSteps \/ \E l \in Legs : UntrackedFill(l)
  <2>1. lpc' \in Heard => lpc \in Heard /\ UNCHANGED <<lid, lcount>>
    BY <1>4 DEF ListenerSteps, ConfirmUntracked, SizeTracked, UntrackFilled, UntrackedFill,
       ListenerRests, Heard
  <2> QED BY <1>1, <1>2, <2>1, ListingStays, QuoteCounts
<1> QED BY <1>3, <1>4 DEF Events

LEMMA WorldCount ==
    ASSUME TypeInv, Venue \/ (\E o \in Ids : Age(o)) \/ Stopped \/ UNCHANGED vars
    PROVE  CountStep
<1>1. /\ UNCHANGED <<okey, lastId, sold, guard, listing, lpc, lid, lcount, pc, ack>>
      /\ UNCHANGED traded \/ \E o \in Ids : traded' = [traded EXCEPT ![o] = @ + 1]
  BY DEF Venue, Trade, Expire, Age, Stopped, vars, venueVars, bookVars, loopVars, localVars,
     listenerVars
<1>2. \A o \in Ids : traded[o] <= traded'[o]
  <2>1. traded \in [Ids -> 0..Q]
    BY DEF TypeInv, TypeOK, TypeVenue
  <2>2. ASSUME NEW o \in Ids, traded' = [traded EXCEPT ![o] = @ + 1]
        PROVE  \A p \in Ids : traded[p] <= traded'[p]
    BY <2>1, <2>2
  <2> QED BY <1>1, <2>1, <2>2
<1> QED BY <1>1, <1>2 DEF CountStep, Recording

\* An order that is placed is fresh.
LEMMA PlaceCounts ==
    ASSUME TypeInv, TypeInv', QuoteInv, CountInv, NEW k \in Keys,
           PlaceLost(k) \/ \E gtc \in BOOLEAN, f \in 0..Q : Place(k, gtc, f)
    PROVE  CountInv'
<1> USE DEF CountInv
<1>1. PICK f \in 0..Q :
        /\ guard[k] = 0 /\ lastId < MaxOrders /\ lastId' = lastId + 1
        /\ okey' = [okey EXCEPT ![lastId + 1] = k]
        /\ traded' = [traded EXCEPT ![lastId + 1] = f]
        /\ UNCHANGED <<sold, guard, listing, lpc, lid, lcount>>
        /\ pc = "idle" /\ pc' \in {"idle", "record"} /\ (pc' = "record" => ack' = f)
  BY DEF PlaceLost, Place, MayPlace, NewOrder, Start, bookVars, loopVars, localVars,
     listenerVars
<1>2. /\ traded \in [Ids -> 0..Q] /\ okey \in [Ids -> Keys] /\ lastId \in 0..MaxOrders
      /\ guard \in [Keys -> 0..MaxOrders] /\ listing \in [Ids -> Unsaid..Q]
  BY DEF TypeInv, TypeOK, TypeVenue, TypeBook, TypeLoop
<1>3. NewestGuard'
  BY <1>1, <1>2 DEF NewestGuard
<1>4. ListedTrue'
  BY <1>1, <1>2 DEF ListedTrue, Fresh
<1>5. EventTrue'
  BY <1>1, <1>2 DEF EventTrue, Heard, QuoteInv, PlacedIds
<1>6. AckTrue'
  BY <1>1, <1>2 DEF AckTrue
<1>7. Fresh'
  BY <1>1, <1>2 DEF Fresh, Recording
<1> QED BY <1>3, <1>4, <1>5, <1>6, <1>7

LEMMA RecordCounts ==
    ASSUME TypeInv, QuoteInv, CountInv, RecordGuard
    PROVE  CountInv'
<1> USE DEF CountInv
<1>1. /\ guard' = [guard EXCEPT ![key] = lastId]
      /\ UNCHANGED <<okey, lastId, traded, sold, listing, lpc, lid, lcount, ack>>
      /\ pc = "record" /\ pc' \in {"confirm", "track"}
  BY DEF RecordGuard, Goto, venueVars, localVars, listenerVars
<1>2. guard \in [Keys -> 0..MaxOrders] /\ okey \in [Ids -> Keys] /\ lastId \in 0..MaxOrders
  BY DEF TypeInv, TypeOK, TypeBook, TypeVenue
<1>3. NewestGuard'
  BY <1>1, <1>2 DEF NewestGuard
<1> QED BY <1>1, <1>3 DEF ListedTrue, EventTrue, AckTrue, Fresh, Recording

LEMMA CountKept ==
    ASSUME TypeInv, QuoteInv, CountInv, [Next]_vars
    PROVE  CountInv'
<1>1. TypeInv'
  BY TypeStep
<1>2. CASE LoopStarts
  BY <1>1, <1>2, PlaceCounts, OpensCount, CountStepKeeps DEF LoopStarts
<1>3. CASE LoopSteps
  BY <1>1, <1>3, RecordCounts, ConfirmCounts, OpensCount, StaysCount, SellCounts, AsksCount,
     EndsCount, CountStepKeeps DEF LoopSteps
<1>4. CASE ListenerSteps \/ Events
  BY <1>1, <1>4, ListensCount, CountStepKeeps
<1>5. CASE Venue \/ (\E o \in Ids : Age(o)) \/ Stopped \/ UNCHANGED vars
  BY <1>1, <1>5, WorldCount, CountStepKeeps
<1> QED BY <1>2, <1>3, <1>4, <1>5 DEF Next

-----------------------------------------------------------------------------
(* What an operation works through.                                        *)

LEMMA CopyOpens ==
    ASSUME TypeInv, CopyInv, LoopStarts \/ \E k \in Keys : Flatten(k)
    PROVE  CopyInv'
<1> USE DEF CopyInv, Asking, Exiting, Start, localVars
<1>1. ASSUME NEW k \in Keys, NEW gtc \in BOOLEAN, NEW f \in 0..Q, Place(k, gtc, f)
      PROVE  CopyInv'
  BY <1>1 DEF Place
<1>2. ASSUME NEW k \in Keys, PlaceLost(k)
      PROVE  CopyInv'
  BY <1>2 DEF PlaceLost, loopVars
<1>3. ASSUME NEW k \in Keys, Pull(k)
      PROVE  CopyInv'
  BY <1>3 DEF Pull, OnKey, venueVars
<1>4. ASSUME NEW k \in Keys, Exit(k) \/ Flatten(k)
      PROVE  CopyInv'
  BY <1>4 DEF Exit, Flatten, BeginExit, OnKey, RestingFor, venueVars, clockVars
<1>5. ASSUME NEW known \in BOOLEAN, BeginReconcile(known)
      PROVE  CopyInv'
  BY <1>5 DEF BeginReconcile
<1>6. ASSUME NEW name \in {"rotate", "retire", "leave"}, BeginCancelAll(name)
      PROVE  CopyInv'
  BY <1>6 DEF BeginCancelAll
<1> QED BY <1>1, <1>2, <1>3, <1>4, <1>5, <1>6
        DEF LoopStarts, Rotate, Retire, Leave

LEMMA CopyPlacing ==
    ASSUME TypeInv, CopyInv, RecordGuard \/ ConfirmGuard \/ Track \/ RecordEntry
    PROVE  CopyInv'
BY DEF CopyInv, Asking, Exiting, RecordGuard, ConfirmGuard, Track, RecordEntry, Goto, Finish,
   localVars

LEMMA CopyAsks ==
    ASSUME TypeInv, CopyInv, NEW o \in Ids,
           PullOrder(o) \/ CancelAllOrder(o) \/ ReconcileOrder(o)
    PROVE  CopyInv'
<1>1. todo' \subseteq todo /\ pc \in Asking /\ UNCHANGED <<okey, pc, op, key, exits>>
  BY DEF PullOrder, CancelAllOrder, ReconcileOrder, CancelAsk, Asking
<1> QED BY <1>1 DEF CopyInv, Asking, Exiting

LEMMA CopyExits ==
    ASSUME TypeInv, CopyInv,
           \/ PullDone \/ ExitDecide \/ (\E m \in 0..Q : Sell(m)) \/ Book \/ Forget
           \/ \E m \in 1..Q : SellUnheard(m)
    PROVE  CopyInv'
<1> USE DEF CopyInv, Asking, Exiting, Goto, Finish, localVars
<1>1. CASE PullDone
  BY <1>1 DEF PullDone
<1>2. CASE ExitDecide
  BY <1>2 DEF ExitDecide, MaySell, WorkingFor, OnKey, clockVars, venueVars
<1>3. ASSUME NEW m \in 0..Q, Sell(m)
      PROVE  CopyInv'
  BY <1>3 DEF Sell, OnKey, clockVars
<1>4. CASE Book
  BY <1>4 DEF Book, OnKey, clockVars, venueVars
<1>5. CASE Forget
  BY <1>5 DEF Forget
<1>6. ASSUME NEW m \in 1..Q, SellUnheard(m)
      PROVE  CopyInv'
  BY <1>6 DEF SellUnheard
<1> QED BY <1>1, <1>2, <1>3, <1>4, <1>5, <1>6

LEMMA CopyEnds ==
    ASSUME TypeInv, CopyInv,
           EndReconcile \/ EndCancelAll \/ CheckHolds \/ CheckTracks \/ Retry \/ Depart
    PROVE  CopyInv'
<1> USE DEF CopyInv, Asking, Exiting, Goto, Finish, localVars
<1>1. CASE EndReconcile
  BY <1>1 DEF EndReconcile
<1>2. CASE EndCancelAll
  BY <1>2 DEF EndCancelAll
<1>3. CASE CheckHolds \/ CheckTracks
  BY <1>3 DEF CheckHolds, CheckTracks
<1>4. CASE Retry
  BY <1>4 DEF Retry
<1>5. CASE Depart
  BY <1>5 DEF Depart
<1> QED BY <1>1, <1>2, <1>3, <1>4, <1>5

LEMMA CopyBeside ==
    ASSUME TypeInv, CopyInv,
           \/ ListenerSteps \/ Events
           \/ Venue \/ (\E o \in Ids : Age(o)) \/ Stopped \/ UNCHANGED vars
    PROVE  CopyInv'
<1>1. UNCHANGED <<okey, todo, pc, op, key, exits>>
  BY DEF ListenerSteps, Events, ConfirmUntracked, SizeTracked, UntrackFilled, TrackedFill,
     UntrackedFill, Venue, Trade, Expire, Age, Stopped, vars, venueVars, loopVars
<1>2. tracked' \subseteq tracked /\ cancelled \cap tracked' \subseteq cancelled'
  <2>1. CASE UntrackFilled
    BY <2>1 DEF UntrackFilled, SetTracked, clockVars
  <2>2. CASE ~UntrackFilled
    BY <2>2 DEF ListenerSteps, Events, ConfirmUntracked, SizeTracked, TrackedFill,
       UntrackedFill, Venue, Trade, Expire, Age, Stopped, vars, clockVars
  <2> QED BY <2>1, <2>2
<1> QED BY <1>1, <1>2 DEF CopyInv, OnKey

LEMMA CopyKept ==
    ASSUME TypeInv, CopyInv, [Next]_vars
    PROVE  CopyInv'
BY CopyOpens, CopyPlacing, CopyAsks, CopyExits, CopyEnds, CopyBeside DEF Next, LoopSteps

-----------------------------------------------------------------------------
(* What a step that sells nothing does to the guards it leaves.            *)

\* A guard keeps what it shows and stays as confirmed as it was, or is confirmed
\* as it stands, or is sized to a count of its own order: one nothing was sold
\* out of, but for the sale being booked, unless it is marked.
Stands(g) ==
    /\ shares'[g] = shares[g]
    /\ g \in confirmed' \ inflated' => g \in confirmed \/ shares[g] <= traded[g]
Sized(g) ==
    /\ shares'[g] <= traded[g]
    /\ sold[g] <= InFlight(g) \/ g \in inflated'
Grows(g) ==
    /\ g \in confirmed => g \in confirmed' /\ shares[g] <= shares'[g]
    /\ Stands(g) \/ Sized(g)

AllGrow == \A k \in Keys : guard'[k] \in {0, guard[k]} /\ (guard'[k] # 0 => Grows(guard[k]))

\* Order o may be sized: nothing but the sale being booked was sold out of it.
MaySize(o) == guard[okey[o]] = o => sold[o] <= InFlight(o) \/ o \in inflated'

LEMMA StandsGrows ==
    ASSUME TypeInv, NEW g \in Ids, g \in confirmed <=> g \in confirmed', shares'[g] = shares[g]
    PROVE  Grows(g)
<1>1. shares[g] <= shares[g]
  BY DEF TypeInv, TypeOK, TypeBook
<1> QED BY <1>1 DEF Grows, Stands

LEMMA KeepsGrow ==
    ASSUME TypeInv, UNCHANGED <<guard, shares, confirmed>>
    PROVE  AllGrow
<1> SUFFICES ASSUME NEW k \in Keys, guard[k] # 0 PROVE Grows(guard[k])
  BY DEF AllGrow
<1>1. guard[k] \in Ids
  BY DEF TypeInv, TypeOK, TypeBook
<1> QED BY <1>1, StandsGrows

LEMMA LeaveGrows ==
    ASSUME TypeInv, LeaveGuard
    PROVE  AllGrow
BY KeepsGrow DEF LeaveGuard, bookVars

LEMMA RemoveGrows ==
    ASSUME TypeInv, QuoteInv, NEW k \in Keys, RemoveGuard(k)
    PROVE  AllGrow
<1>1. /\ guard \in [Keys -> 0..MaxOrders] /\ shares \in [Ids -> 0..Q]
      /\ guard' = [guard EXCEPT ![k] = 0] /\ confirmed' = confirmed \ {guard[k]}
      /\ shares' = [o \in Ids |-> IF o = guard[k] THEN 0 ELSE shares[o]]
  BY DEF TypeInv, TypeOK, TypeBook, RemoveGuard
<1>2. ASSUME NEW j \in Keys, guard'[j] # 0
      PROVE  Grows(guard[j])
  <2>1. j # k /\ guard'[j] = guard[j] /\ guard[j] \in Ids
    BY <1>1, <1>2
  <2>2. guard[j] # guard[k]
    BY <2>1, <1>2 DEF QuoteInv, OwnKey
  <2> QED BY <1>1, <2>1, <2>2, StandsGrows
<1>3. \A j \in Keys : guard'[j] \in {0, guard[j]}
  BY <1>1
<1> QED BY <1>2, <1>3 DEF AllGrow

LEMMA ReleaseGrows ==
    ASSUME TypeInv, QuoteInv, NEW o \in Ids, ReleaseQuote(o)
    PROVE  AllGrow
<1>1. okey[o] \in Keys
  BY DEF TypeInv, TypeOK, TypeVenue
<1> QED BY <1>1, RemoveGrows, LeaveGrows DEF ReleaseQuote

\* size_and_confirm grows no guard but the order's own (NewestGuard: an older
\* guard is never on the key of a newer order), and to a count it has reached.
LEMMA SizeGrows ==
    ASSUME TypeInv, QuoteInv, CountInv, NEW o \in 1..lastId, NEW n \in Nat, n <= traded[o],
           SizeAndConfirm(o, n), MaySize(o)
    PROVE  AllGrow
<1> DEFINE g == guard[okey[o]]
<1>1. /\ guard \in [Keys -> 0..MaxOrders] /\ shares \in [Ids -> 0..Q]
      /\ traded \in [Ids -> 0..Q] /\ lastId \in 0..MaxOrders
      /\ o \in Ids /\ okey[o] \in Keys
  BY SMTT(30) DEF TypeInv, TypeOK, TypeBook, TypeVenue
<1>2. CASE g # 0 /\ OwnsGuard(o, g)
  <2>1. g = o
    <3>1. g >= o /\ g <= o /\ g \in Int /\ o \in Int
      BY <1>1, <1>2 DEF CountInv, NewestGuard, OwnsGuard
    <3> QED BY <3>1
  <2>2. /\ guard' = guard /\ confirmed' = confirmed \cup {o}
        /\ shares' = [shares EXCEPT ![o] = SizedTo(o, n)]
    BY <1>2, <2>1 DEF SizeAndConfirm
  <2>3. Grows(o)
    <3>1. shares[o] \in 0..Q /\ traded[o] \in 0..Q /\ shares'[o] = SizedTo(o, n)
      BY <1>1, <2>2
    <3>2. CASE o \in confirmed
      <4>1. \/ SizedTo(o, n) = shares[o]
            \/ SizedTo(o, n) = n /\ shares[o] <= n
        BY <3>1, <3>2 DEF SizedTo, Min2, Max2
      <4>2. shares[o] <= shares'[o] /\ (shares'[o] = shares[o] \/ shares'[o] <= traded[o])
        BY <3>1, <4>1
      <4> QED BY <2>1, <2>2, <3>2, <4>2 DEF Grows, Stands, Sized, MaySize
    <3>3. CASE o \notin confirmed
      <4>1. SizedTo(o, n) <= traded[o]
        BY <3>1, <3>3 DEF SizedTo, Min2
      <4> QED BY <2>1, <2>2, <3>1, <3>3, <4>1 DEF Grows, Sized, MaySize
    <3> QED BY <3>2, <3>3
  <2>4. ASSUME NEW k \in Keys, guard[k] # 0
        PROVE  Grows(guard[k])
    <3>1. CASE guard[k] = o
      BY <2>3, <3>1
    <3>2. CASE guard[k] # o
      <4>1. guard[k] \in Ids
        BY <1>1, <2>4
      <4> QED BY <1>1, <2>2, <3>2, <4>1, StandsGrows
    <3> QED BY <3>1, <3>2
  <2> QED BY <2>2, <2>4 DEF AllGrow
<1>3. CASE ~(g # 0 /\ OwnsGuard(o, g))
  BY <1>3, LeaveGrows DEF SizeAndConfirm
<1> QED BY <1>2, <1>3

LEMMA SizeIfAnyGrows ==
    ASSUME TypeInv, QuoteInv, CountInv, NEW o \in 1..lastId, NEW n \in Unsaid..Q, n <= traded[o],
           SizeIfAny(o, n), MaySize(o)
    PROVE  AllGrow
BY SizeGrows, LeaveGrows DEF SizeIfAny

\* An order an operation asks about was not sold out of, so the answer may size
\* its guard.
LEMMA AskedUnsold ==
    ASSUME TypeInv, QuoteInv, CopyInv, SoldAside, NEW o \in todo
    PROVE  MaySize(o) /\ o \in 1..lastId
<1>1. /\ sold \in [Ids -> Nat] /\ ack \in 0..Q /\ o \in Ids /\ okey[o] \in Keys
      /\ o \in 1..lastId
  BY DEF TypeInv, TypeOK, TypeVenue, TypeLoop, QuoteInv, PlacedIds
<1>2. pc \in Asking /\ (pc = "pull" => okey[o] = key) /\ (op = "flatten" => pc = "pull")
  BY DEF CopyInv, Asking, Exiting
<1>3. ~SaleUnderWay(okey[o]) /\ ~NotAskedAgain(okey[o])
  BY <1>2 DEF SaleUnderWay, NotAskedAgain, Asking
<1>4. guard[okey[o]] = o => ~(sold[o] > 0)
  BY <1>1, <1>3 DEF SoldAside
<1> QED BY <1>1, <1>4 DEF MaySize, InFlight

LEMMA EffectGrows ==
    ASSUME TypeInv, QuoteInv, CountInv, NEW o \in 1..lastId, MaySize(o),
           NEW ok, NEW s, NEW a \in OrderState(o, s), GuardEffect(o, ok, a)
    PROVE  AllGrow
<1>1. o \in Ids /\ traded \in [Ids -> 0..Q]
  BY DEF TypeInv, TypeOK, TypeVenue
<1>2. a.filled \in {Unsaid, traded[o]}
  BY <1>1, AnswerType DEF TypeInv, TypeOK
<1>3. CASE Sizes(ok, a)
  <2>1. a.filled \in Nat /\ a.filled <= traded[o]
    BY <1>1, <1>2, <1>3 DEF Sizes
  <2> QED BY <1>3, <2>1, SizeGrows DEF GuardEffect
<1> QED BY <1>1, <1>3, ReleaseGrows, LeaveGrows DEF GuardEffect

LEMMA CountGrows ==
    ASSUME TypeInv, QuoteInv, CountInv, NEW o \in 1..lastId, MaySize(o),
           NEW s, NEW a \in OrderState(o, s),
           IF a.filled > 0 THEN SizeAndConfirm(o, a.filled) ELSE ReleaseQuote(o)
    PROVE  AllGrow
<1>1. o \in Ids /\ traded \in [Ids -> 0..Q]
  BY DEF TypeInv, TypeOK, TypeVenue
<1>2. a.filled \in {Unsaid, traded[o]}
  BY <1>1, AnswerType DEF TypeInv, TypeOK
<1>3. a.filled > 0 => a.filled \in Nat /\ a.filled <= traded[o]
  BY <1>1, <1>2
<1> QED BY <1>1, <1>3, SizeGrows, ReleaseGrows

LEMMA GraceGrows ==
    ASSUME TypeInv, QuoteInv, NEW o \in Ids, Grace(o)
    PROVE  AllGrow
BY ReleaseGrows, LeaveGrows DEF Grace

LEMMA SeenGrows ==
    ASSUME TypeInv, QuoteInv, CountInv, NEW o \in 1..lastId, MaySize(o),
           NEW part \in 0..Q, part <= traded[o], SeenWorking(o, part)
    PROVE  AllGrow
<1>1. o \in Ids /\ traded \in [Ids -> 0..Q]
  BY DEF TypeInv, TypeOK, TypeVenue
<1>2. CASE KeepWorking(o, part)
  BY <1>2, SizeIfAnyGrows DEF KeepWorking
<1>3. CASE CancelStale(o, part)
  <2>1. PICK a \in OrderState(o, "done") :
          IF part = 0 /\ Releases(TRUE, a) THEN ReleaseQuote(o)
          ELSE SizeIfAny(o, Max2(part, a.filled))
    BY <1>3 DEF CancelStale
  <2>2. a.filled \in {Unsaid, traded[o]}
    BY <1>1, AnswerType DEF TypeInv, TypeOK
  <2>3. Max2(part, a.filled) \in 0..Q /\ Max2(part, a.filled) <= traded[o]
    BY <1>1, <2>2 DEF Max2
  <2>4. Max2(part, a.filled) \in Unsaid..Q
    BY <2>3
  <2>5. CASE SizeIfAny(o, Max2(part, a.filled))
    BY <2>3, <2>4, <2>5, SizeIfAnyGrows
  <2> QED BY <1>1, <2>1, <2>5, ReleaseGrows
<1> QED BY <1>2, <1>3 DEF SeenWorking

-----------------------------------------------------------------------------
(* A step that sells nothing keeps the books.                              *)

SalesStep ==
    /\ UNCHANGED sold
    /\ inflated \subseteq inflated'
    /\ \A o \in Ids : o <= lastId => traded[o] <= traded'[o]
    /\ AllGrow
    /\ pc' = "book" <=> pc = "book"
    /\ pc' \in {"book", "confirm"} => pc' = pc /\ UNCHANGED <<key, ack, held>>
    /\ pc' = "confirm" => UNCHANGED <<guard, lastId>>
    /\ pc' = "sell" => (pc = "sell" /\ UNCHANGED <<key, sig>>) \/ sig' <= shares'[guard'[key']]

\* The orders an operation may still ask about grow fewer.
AsideStep ==
    /\ UNCHANGED sold
    /\ \A k \in Keys : guard'[k] \in {0, guard[k]}
    /\ tracked' \cup todo' \subseteq tracked \cup todo
    /\ op = "flatten" =>
         /\ op' = op /\ exits' \subseteq exits
         /\ pc' = "pull" => (pc = "pull" /\ key' = key) \/ key' \in exits
    /\ pc \in {"book", "forget"} => pc' \in {"book", "forget"} /\ key' = key

LEMMA AsideStepKeeps ==
    ASSUME TypeInv, SoldAside, AsideStep
    PROVE  SoldAside'
<1> SUFFICES ASSUME NEW k \in Keys, guard'[k] \in tracked' \cup todo', sold'[guard'[k]] > 0
             PROVE  SaleUnderWay(k)' \/ NotAskedAgain(k)'
  BY DEF SoldAside
<1>1. 0 \notin tracked' \cup todo'
  BY DEF AsideStep, TypeInv, TypeOK, TypeTracked, TypeLoop
<1>2. guard'[k] = guard[k] /\ guard[k] \in tracked \cup todo /\ sold[guard[k]] > 0
  BY <1>1 DEF AsideStep
<1>3. SaleUnderWay(k) \/ NotAskedAgain(k)
  BY <1>2 DEF SoldAside
<1> QED BY <1>3 DEF AsideStep, SaleUnderWay, NotAskedAgain

LEMMA SalesStepKeeps ==
    ASSUME TypeInv, TypeInv', QuoteInv, QuoteInv', CountInv, SalesInv, SalesStep, SoldAside'
    PROVE  SalesInv'
<1> USE DEF SalesInv
<1>1. /\ guard \in [Keys -> 0..MaxOrders] /\ guard' \in [Keys -> 0..MaxOrders]
      /\ shares \in [Ids -> 0..Q] /\ shares' \in [Ids -> 0..Q]
      /\ traded \in [Ids -> 0..Q] /\ traded' \in [Ids -> 0..Q]
      /\ sold \in [Ids -> Nat] /\ key \in Keys /\ key' \in Keys
      /\ ack \in 0..Q /\ held \in 0..Q /\ sig \in 0..Q
      /\ confirmed \subseteq Ids /\ confirmed' \subseteq Ids
  BY DEF TypeInv, TypeOK, TypeBook, TypeVenue, TypeLoop
<1>2. sold' = sold /\ inflated \subseteq inflated'
  BY DEF SalesStep
<1>3. ASSUME NEW k \in Keys, guard'[k] # 0
      PROVE  /\ guard'[k] = guard[k] /\ guard[k] \in Ids /\ Grows(guard[k])
             /\ traded[guard[k]] <= traded'[guard[k]]
             /\ InFlight(guard[k])' = InFlight(guard[k])
  <2>1. /\ guard'[k] = guard[k] /\ guard[k] \in Ids /\ Grows(guard[k])
        /\ guard[k] <= lastId
    BY <1>1, <1>3 DEF SalesStep, AllGrow, QuoteInv, OwnKey
  <2>2. pc' = "book" => /\ pc = "book" /\ key' = key /\ ack' = ack
                        /\ guard'[key] = guard[key]
    BY <1>1 DEF SalesStep, AllGrow, QuoteInv, Selling
  <2> QED BY <2>1, <2>2 DEF SalesStep, InFlight
<1>4. SoldConfirmed'
  BY <1>1, <1>2, <1>3 DEF SoldConfirmed, Grows
<1>5. GuardBacked'
  <2> SUFFICES ASSUME NEW k \in Keys, guard'[k] \in confirmed' \ inflated'
               PROVE  Backed(guard[k])'
    BY <1>1, <1>3 DEF GuardBacked
  <2> DEFINE g == guard[k]
             w == InFlight(g)
  <2>1. /\ guard'[k] = g /\ g \in Ids /\ Grows(g) /\ traded[g] <= traded'[g]
        /\ InFlight(g)' = w /\ g \notin inflated
    <3>1. guard'[k] # 0
      BY <1>1
    <3>2. guard'[k] \notin inflated
      BY <1>2
    <3> QED BY <1>3, <3>1, <3>2
  <2>2. /\ w \in Nat /\ shares[g] \in Nat /\ shares'[g] \in Nat /\ sold[g] \in Nat
        /\ traded[g] \in Nat /\ traded'[g] \in Nat
    BY <1>1, <2>1 DEF InFlight
  <2>3. CASE Sized(g)
    BY <1>2, <2>1, <2>2, <2>3 DEF Sized, Backed
  <2>4. CASE Stands(g) /\ g \in confirmed
    <3>1. shares[g] + sold[g] - w <= traded[g]
      BY <2>1, <2>4 DEF GuardBacked, Backed
    <3> QED BY <1>2, <2>1, <2>2, <2>4, <3>1 DEF Stands, Backed
  <2>5. CASE Stands(g) /\ g \notin confirmed
    <3>1. shares'[g] <= traded[g]
      BY <2>1, <2>5 DEF Stands
    <3>2. sold[g] = 0
      BY <2>1, <2>2, <2>5 DEF SoldConfirmed
    <3> QED BY <1>2, <2>1, <2>2, <3>1, <3>2 DEF Backed
  <2> QED BY <2>1, <2>3, <2>4, <2>5 DEF Grows
<1>6. SoldWithin'
  <2> SUFFICES ASSUME NEW o \in Ids \ inflated'
               PROVE  sold'[o] <= traded'[o]
    BY DEF SoldWithin
  <2>1. /\ sold[o] <= traded[o] /\ sold'[o] = sold[o]
        /\ o <= lastId => traded[o] <= traded'[o]
        /\ o > lastId => sold[o] = 0
    BY <1>2 DEF SoldWithin, SalesStep, CountInv, Fresh
  <2>2. sold[o] \in Int /\ traded[o] \in Int /\ traded'[o] \in Nat /\ lastId \in Nat
    BY <1>1 DEF TypeInv, TypeOK, TypeVenue
  <2> QED BY <2>1, <2>2
<1>7. SaleWithin'
  <2>1. ASSUME pc' = "book"
        PROVE  held' <= shares'[guard'[key']] /\ ack' <= sold'[guard'[key']]
    <3>1. pc = "book" /\ key' = key /\ ack' = ack /\ held' = held
      BY <2>1 DEF SalesStep
    <3>2. guard'[key] # 0 /\ guard[key] \in confirmed
      BY <2>1, <3>1 DEF QuoteInv, Selling
    <3>3. guard'[key] = guard[key] /\ guard[key] \in Ids /\ shares[guard[key]] <= shares'[guard[key]]
      BY <1>1, <1>3, <3>2 DEF Grows
    <3>4. held <= shares[guard[key]] /\ ack <= sold[guard[key]]
      BY <3>1 DEF SaleWithin
    <3> QED BY SMTT(30), <1>1, <1>2, <3>1, <3>3, <3>4
  <2>2. ASSUME pc' = "sell", pc = "sell", UNCHANGED <<key, sig>>
        PROVE  sig' <= shares'[guard'[key']]
    <3>1. guard'[key] # 0 /\ guard[key] \in confirmed
      BY <2>2 DEF QuoteInv, Selling
    <3>2. guard'[key] = guard[key] /\ guard[key] \in Ids /\ shares[guard[key]] <= shares'[guard[key]]
      BY <1>1, <1>3, <3>1 DEF Grows
    <3>3. sig <= shares[guard[key]]
      BY <2>2 DEF SaleWithin
    <3> QED BY SMTT(30), <1>1, <2>2, <3>2, <3>3
  <2> QED BY <2>1, <2>2 DEF SaleWithin, SalesStep
<1>8. RecordedTrue'
  <2> SUFFICES ASSUME pc' = "confirm", lastId' = lastId
               PROVE  guard'[key'] = lastId /\ shares'[lastId] <= traded'[lastId]
    BY DEF RecordedTrue, SalesStep
  <2>1. pc = "confirm" /\ key' = key /\ guard[key] = lastId /\ shares[lastId] <= traded[lastId]
    BY DEF SalesStep, RecordedTrue
  <2>2. guard'[key] = guard[key] /\ lastId \in Ids
    BY <2>1 DEF SalesStep, TypeInv, PlacedOne
  <2>3. shares'[lastId] = shares[lastId] \/ shares'[lastId] <= traded[lastId]
    <3>1. guard'[key] # 0 /\ guard[key] = lastId
      BY <2>1, <2>2
    <3> QED BY <1>1, <1>3, <3>1 DEF Grows, Stands, Sized
  <2>4. traded[lastId] <= traded'[lastId]
    <3>1. lastId <= lastId
      BY <2>2
    <3> QED BY <2>2, <3>1 DEF SalesStep
  <2> QED BY SMTT(30), <1>1, <2>1, <2>2, <2>3, <2>4
<1> QED BY <1>4, <1>5, <1>6, <1>7, <1>8

-----------------------------------------------------------------------------
(* Steps that change no guard.                                             *)

Quiet == UNCHANGED <<guard, shares, confirmed, sold, inflated>>

\* Nothing is being recorded or booked, and what is about to be sold is shown.
NoSale ==
    /\ {pc, pc'} \cap {"book", "confirm"} = {}
    /\ pc' = "sell" => sig' <= shares'[guard'[key']]

LEMMA QuietSales ==
    ASSUME TypeInv, CountStep, Quiet, NoSale
    PROVE  SalesStep
BY KeepsGrow DEF SalesStep, NoSale, CountStep, Quiet

LEMMA SalesOpen ==
    ASSUME TypeInv, QuoteInv, CopyInv,
           \/ \E k \in Keys : Pull(k) \/ Exit(k) \/ Flatten(k)
           \/ \E known \in BOOLEAN : BeginReconcile(known)
           \/ Rotate \/ Retire \/ Leave
    PROVE  SalesStep /\ AsideStep
<1> USE DEF Quiet, NoSale, AsideStep, Start, venueVars, bookVars, historyVars, localVars
<1>1. CountStep
  BY OpensCount
<1>2. pc = "idle" => op # "flatten"
  BY DEF CopyInv, Exiting
<1>3. ASSUME NEW k \in Keys, Pull(k)
      PROVE  Quiet /\ NoSale /\ AsideStep
  BY <1>2, <1>3 DEF Pull, OnKey
<1>4. ASSUME NEW k \in Keys, Exit(k) \/ Flatten(k)
      PROVE  Quiet /\ NoSale /\ AsideStep
  <2>1. /\ pc \in {"idle", "flatten"} /\ pc' \in {"pull", "sell"} /\ key' = k
        /\ sig' = shares[guard[k]] /\ todo' \subseteq tracked
        /\ UNCHANGED <<sold, guard, shares, confirmed, inflated, tracked>>
        /\ pc = "flatten" => op' = "flatten" /\ k \in exits /\ exits' \subseteq exits
    BY <1>4 DEF Exit, Flatten, BeginExit, OnKey
  <2>2. shares[guard[k]] <= shares[guard[k]]
    <3>1. guard[k] \in Ids
      BY <1>4 DEF Exit, Flatten, BeginExit, TypeInv, TypeOK, TypeBook
    <3> QED BY <3>1 DEF TypeInv, TypeOK, TypeBook
  <2> QED BY <1>2, <2>1, <2>2
<1>5. ASSUME NEW known \in BOOLEAN, BeginReconcile(known)
      PROVE  Quiet /\ NoSale /\ AsideStep
  BY <1>2, <1>5 DEF BeginReconcile
<1>6. ASSUME NEW name, BeginCancelAll(name)
      PROVE  Quiet /\ NoSale /\ AsideStep
  BY <1>2, <1>6 DEF BeginCancelAll
<1>7. Quiet /\ NoSale /\ AsideStep
  BY <1>3, <1>4, <1>5, <1>6 DEF Rotate, Retire, Leave
<1> QED BY <1>1, <1>7, QuietSales

LEMMA SalesStay ==
    ASSUME TypeInv, QuoteInv, CopyInv,
           \/ RecordEntry \/ ExitDecide \/ CheckHolds \/ CheckTracks \/ Retry \/ Depart
           \/ \E m \in 1..Q : SellUnheard(m)
    PROVE  SalesStep /\ AsideStep
<1> USE DEF Quiet, NoSale, AsideStep, Goto, Finish, venueVars, bookVars, historyVars, localVars
<1>1. CountStep
  BY StaysCount
<1>2. Quiet /\ NoSale /\ AsideStep
  <2>1. CASE RecordEntry
    BY <2>1 DEF RecordEntry
  <2>2. CASE ExitDecide
    <3>1. MaySell => sig <= shares[guard[key]]
      <4>1. MaySell => guard[key] \in Ids /\ shares[guard[key]] = sig
        BY DEF MaySell, TypeInv, TypeOK, TypeBook
      <4> QED BY <4>1 DEF TypeInv, TypeOK, TypeLoop
    <3> QED BY <2>2, <3>1 DEF ExitDecide
  <2>3. CASE CheckHolds \/ CheckTracks
    BY <2>3 DEF CheckHolds, CheckTracks
  <2>4. CASE Retry
    BY <2>4 DEF Retry, CopyInv, Exiting
  <2>5. CASE Depart
    BY <2>5 DEF Depart
  <2>6. ASSUME NEW m \in 1..Q, SellUnheard(m)
        PROVE  Quiet /\ NoSale /\ AsideStep
    BY <2>6 DEF SellUnheard
  <2> QED BY <2>1, <2>2, <2>3, <2>4, <2>5, <2>6
<1> QED BY <1>1, <1>2, QuietSales

LEMMA SalesEnd ==
    ASSUME TypeInv, QuoteInv, CopyInv, EndReconcile \/ EndCancelAll
    PROVE  SalesStep /\ AsideStep
<1>1. CountStep
  BY EndsCount
<1>2. /\ Quiet /\ NoSale
      /\ pc \in {"reconcile", "cancelAll"} /\ UNCHANGED todo /\ tracked' \subseteq tracked
  BY DEF EndReconcile, EndCancelAll, MergeTracked, SetTracked, Quiet, NoSale, Finish, venueVars,
     bookVars, historyVars
<1>3. AsideStep
  BY <1>2 DEF AsideStep, Quiet, CopyInv, Exiting
<1> QED BY <1>1, <1>2, <1>3, QuietSales

\* What the venue and the clock do; what the listener hears or forgets.
LEMMA SalesBeside ==
    ASSUME TypeInv, QuoteInv,
           Venue \/ (\E o \in Ids : Age(o)) \/ Stopped \/ UNCHANGED vars \/ UntrackFilled \/ Events
    PROVE  SalesStep /\ AsideStep
<1>1. CountStep
  BY WorldCount, ListensCount DEF ListenerSteps
<1>2. /\ Quiet
      /\ UNCHANGED <<pc, op, key, ack, held, sig, exits, todo>> /\ tracked' \subseteq tracked
  BY DEF Venue, Trade, Expire, Age, Stopped, vars, UntrackFilled, Events, TrackedFill,
     UntrackedFill, SetTracked, Quiet, venueVars, bookVars, historyVars, loopVars, localVars
<1>3. SalesStep
  BY <1>1, <1>2, KeepsGrow DEF SalesStep, CountStep, Quiet
<1>4. AsideStep
  BY <1>2 DEF AsideStep, Quiet
<1> QED BY <1>3, <1>4

-----------------------------------------------------------------------------
(* Steps that size, release, confirm and remove guards.                    *)

LEMMA SalesAsk ==
    ASSUME TypeInv, QuoteInv, CountInv, CopyInv, SalesInv, NEW o \in Ids,
           PullOrder(o) \/ CancelAllOrder(o) \/ ReconcileOrder(o)
    PROVE  SalesStep /\ AsideStep
<1>1. CountStep
  BY AsksCount
<1>2. /\ o \in todo /\ pc \in Asking /\ UNCHANGED <<sold, inflated, pc, op, key, exits>>
      /\ tracked' \subseteq tracked /\ todo' \subseteq todo
  BY DEF PullOrder, CancelAllOrder, ReconcileOrder, CancelAsk, SetTracked, First, Asking
<1>3. MaySize(o) /\ o \in 1..lastId
  BY <1>2, AskedUnsold DEF SalesInv
<1>4. AllGrow
  <2>1. CASE PullOrder(o) \/ CancelAllOrder(o)
    <3>1. PICK r \in CancelReplies(o) : \E a \in OrderState(o, r.st) : GuardEffect(o, r.ok, a)
      BY <2>1 DEF PullOrder, CancelAllOrder, CancelAsk
    <3> QED BY <1>3, <3>1, EffectGrows
  <2>2. CASE ReconcileOrder(o)
    <3>1. CASE AskCancelled(o)
      <4>1. PICK a \in OrderState(o, st[o]) :
              \/ Grace(o)
              \/ IF a.filled > 0 THEN SizeAndConfirm(o, a.filled) ELSE ReleaseQuote(o)
        BY <3>1 DEF AskCancelled
      <4> QED BY <1>3, <4>1, GraceGrows, CountGrows
    <3>2. CASE WaitBlind(o)
      BY <3>2, LeaveGrows DEF WaitBlind
    <3>3. CASE Listed(o)
      <4>1. listing[o] \in 0..Q /\ listing[o] <= traded[o]
        BY <3>3 DEF Listed, TypeInv, TypeOK, TypeLoop, CountInv, ListedTrue
      <4> QED BY <1>3, <3>3, <4>1, SeenGrows DEF Listed
    <3>4. CASE Vanished(o)
      <4>1. PICK a \in OrderState(o, st[o]) :
              \/ SeenWorking(o, Max2(a.filled, 0))
              \/ IF a.filled > 0 THEN SizeAndConfirm(o, a.filled) ELSE ReleaseQuote(o)
              \/ Grace(o)
        BY <3>4 DEF Vanished
      <4>2. Max2(a.filled, 0) \in 0..Q /\ Max2(a.filled, 0) <= traded[o]
        <5>1. a.filled \in {Unsaid, traded[o]} /\ traded[o] \in 0..Q
          BY AnswerType DEF TypeInv, TypeOK, TypeVenue
        <5> QED BY <5>1 DEF Max2
      <4> QED BY <1>3, <4>1, <4>2, SeenGrows, CountGrows, GraceGrows
    <3> QED BY <2>2, <3>1, <3>2, <3>3, <3>4 DEF ReconcileOrder
  <2> QED BY <2>1, <2>2
<1>5. SalesStep
  BY <1>1, <1>2, <1>4 DEF SalesStep, CountStep, Asking
<1>6. AsideStep
  BY <1>1, <1>2 DEF AsideStep, CountStep, Asking
<1> QED BY <1>5, <1>6

\* The quote left on a pulled leg goes with its guard.
LEMMA SalesPulled ==
    ASSUME TypeInv, QuoteInv, CopyInv, PullDone
    PROVE  SalesStep /\ AsideStep
<1>1. CountStep
  BY EndsCount
<1>2. /\ pc = "pull" /\ op # "flatten" /\ pc' \in {"idle", "flatten"}
      /\ UNCHANGED <<sold, inflated, tracked, todo>>
      /\ RemoveGuard(key) \/ UNCHANGED <<guard, shares, confirmed>>
  BY DEF PullDone, Finish, bookVars, historyVars
<1>3. key \in Keys
  BY DEF TypeInv, TypeOK, TypeLoop
<1>4. AllGrow
  BY <1>2, <1>3, RemoveGrows, KeepsGrow
<1>5. SalesStep
  BY <1>1, <1>2, <1>4 DEF SalesStep, CountStep
<1>6. AsideStep
  BY <1>1, <1>2 DEF AsideStep, CountStep
<1> QED BY <1>5, <1>6

LEMMA SalesSized ==
    ASSUME TypeInv, QuoteInv, CountInv, SizeTracked
    PROVE  SalesStep /\ AsideStep
<1>1. CountStep
  BY ListensCount DEF ListenerSteps
<1>2. /\ lid \in 1..lastId /\ lcount \in Nat /\ lcount <= traded[lid]
      /\ sold \in [Ids -> Nat] /\ ack \in 0..Q /\ lid \in Ids
  BY SMTT(30) DEF SizeTracked, QuoteInv, PlacedIds, TypeInv, TypeOK, TypeListener, TypeVenue, TypeLoop,
     ListenerHasOne, CountInv, EventTrue, Heard
<1>3. MaySize(lid)
  <2> SUFFICES ASSUME guard[okey[lid]] = lid
               PROVE  sold[lid] <= InFlight(lid) \/ lid \in inflated'
    BY DEF MaySize
  <2>1. lid # 0 /\ OwnsGuard(lid, lid)
    BY <1>2 DEF OwnsGuard
  <2>2. sold[lid] > InFlight(lid) => lid \in inflated'
    BY <2>1 DEF SizeTracked
  <2>3. sold[lid] \in Nat /\ InFlight(lid) \in Nat
    BY <1>2 DEF InFlight
  <2> QED BY <2>2, <2>3
<1>4. AllGrow
  BY <1>2, <1>3, SizeGrows DEF SizeTracked
<1>5. /\ inflated \subseteq inflated'
      /\ UNCHANGED <<sold, lastId, guard, tracked, todo, op, exits, pc, key, ack, held, sig>>
  BY DEF SizeTracked, SizeAndConfirm, LeaveGuard, bookVars, venueVars, loopVars, localVars
<1>6. SalesStep
  BY <1>1, <1>4, <1>5 DEF SalesStep, CountStep
<1> QED BY <1>1, <1>5, <1>6 DEF AsideStep, CountStep

\* A guard confirmed as it stands: marked when it shows more than has traded.
LEMMA SalesConfirmed ==
    ASSUME TypeInv, QuoteInv, CountInv, CopyInv, SalesInv, ConfirmUntracked \/ ConfirmGuard
    PROVE  SalesStep /\ AsideStep
<1>1. CountStep
  BY ListensCount, ConfirmCounts DEF ListenerSteps
<1>2. /\ confirmed \subseteq confirmed' /\ inflated \subseteq inflated'
      /\ UNCHANGED <<sold, guard, shares, tracked, todo, lastId>>
      /\ \A g \in confirmed' \ inflated' : g \in confirmed \/ shares[g] <= traded[g]
  <2>1. CASE ConfirmUntracked
    <3>1. \A g \in Ids : shares[g] <= traded[g] \/ shares[g] > traded[g]
      BY DEF TypeInv, TypeOK, TypeBook, TypeVenue
    <3>2. \A g \in confirmed' : g \in Ids
      <4>1. confirmed' \subseteq confirmed \cup ({guard[k] : k \in lkeys} \ {0})
        BY <2>1 DEF ConfirmUntracked
      <4>2. \A k \in lkeys : guard[k] \in 0..MaxOrders
        BY DEF TypeInv, TypeOK, TypeBook, TypeListener
      <4>3. confirmed \subseteq Ids /\ \A n \in (0..MaxOrders) \ {0} : n \in Ids
        BY DEF TypeInv, TypeOK, TypeBook
      <4> QED BY <4>1, <4>2, <4>3
    <3>3. \A g \in confirmed' : g \in confirmed \/ g \in inflated' \/ ~(shares[g] > traded[g])
      BY <2>1 DEF ConfirmUntracked
    <3> QED BY <2>1, <3>1, <3>2, <3>3 DEF ConfirmUntracked, venueVars, loopVars
  <2>2. CASE ConfirmGuard
    BY <2>2 DEF ConfirmGuard, venueVars, historyVars, SalesInv, RecordedTrue, Goto
  <2> QED BY <2>1, <2>2
<1>3. ASSUME NEW k \in Keys, guard[k] # 0
      PROVE  Grows(guard[k])
  <2>1. guard[k] \in Ids
    BY <1>3 DEF TypeInv, TypeOK, TypeBook
  <2>2. shares[guard[k]] <= shares[guard[k]]
    BY <2>1 DEF TypeInv, TypeOK, TypeBook
  <2> QED BY <1>2, <2>2 DEF Grows, Stands
<1>4. AllGrow
  BY <1>2, <1>3 DEF AllGrow
<1>5. \/ UNCHANGED <<pc, op, key, ack, held, sig, exits>>
      \/ pc = "confirm" /\ pc' \in {"track", "row"} /\ UNCHANGED <<op, key>>
  BY DEF ConfirmUntracked, ConfirmGuard, Goto, loopVars, localVars
<1>6. SalesStep
  BY <1>1, <1>2, <1>4, <1>5 DEF SalesStep, CountStep
<1>7. AsideStep
  BY <1>1, <1>2, <1>5 DEF AsideStep, CountStep, CopyInv, Exiting
<1> QED BY <1>6, <1>7

-----------------------------------------------------------------------------
(* Steps that place, track, sell, book and forget.                         *)

LEMMA SalesPlaced ==
    ASSUME TypeInv, QuoteInv, CountInv, CopyInv, SalesInv, NEW k \in Keys,
           PlaceLost(k) \/ \E gtc \in BOOLEAN, f \in 0..Q : Place(k, gtc, f)
    PROVE  SalesStep /\ SoldAside'
<1>1. /\ Quiet /\ pc = "idle" /\ pc' \in {"idle", "record"} /\ lastId < MaxOrders
      /\ UNCHANGED <<tracked, todo>>
      /\ \E f \in 0..Q : traded' = [traded EXCEPT ![lastId + 1] = f]
  BY DEF PlaceLost, Place, MayPlace, NewOrder, Start, Quiet, bookVars, loopVars, historyVars
<1>2. \A o \in Ids : o <= lastId => traded[o] <= traded'[o]
  BY <1>1 DEF TypeInv, TypeOK, TypeVenue
<1>3. SalesStep
  BY <1>1, <1>2, KeepsGrow DEF SalesStep, Quiet
<1>4. op # "flatten"
  BY <1>1 DEF CopyInv, Exiting
<1>5. SoldAside'
  BY <1>1, <1>4 DEF SalesInv, SoldAside, SaleUnderWay, NotAskedAgain, Quiet
<1> QED BY <1>3, <1>5

\* Nothing was sold out of the order that joins the tracked ones.
LEMMA SalesTracked ==
    ASSUME TypeInv, QuoteInv, CountInv, CopyInv, SalesInv, Track
    PROVE  SalesStep /\ SoldAside'
<1>1. /\ Quiet /\ NoSale /\ pc = "track" /\ tracked' = tracked \cup {lastId} /\ UNCHANGED todo
  BY DEF Track, Goto, Quiet, NoSale, venueVars, bookVars, historyVars
<1>2. SalesStep
  BY <1>1, ConfirmCounts, QuietSales
<1>3. sold[lastId] = 0 /\ op # "flatten"
  BY <1>1 DEF CountInv, Fresh, Recording, CopyInv, Exiting
<1>4. SoldAside'
  BY <1>1, <1>3 DEF SalesInv, SoldAside, SaleUnderWay, NotAskedAgain, Quiet
<1> QED BY <1>2, <1>4

\* What an exit cancelled leaves tracking with the sale booked; standing down,
\* the leg is not looked at again.
LEMMA SalesForgotten ==
    ASSUME TypeInv, QuoteInv, CountInv, CopyInv, SalesInv, Forget
    PROVE  SalesStep /\ SoldAside'
<1>1. /\ Quiet /\ NoSale /\ pc = "forget" /\ tracked' = tracked \ (OnKey(key) \cap cancelled)
      /\ UNCHANGED <<todo, exits>> /\ pc' \in {"idle", "flatten"}
      /\ op = "flatten" => op' = "flatten"
  BY DEF Forget, ForgetCancelled, SetTracked, Finish, Quiet, NoSale, venueVars, bookVars,
     historyVars
<1>2. SalesStep
  BY <1>1, EndsCount, QuietSales
<1>3. ASSUME NEW k \in Keys, guard[k] \in tracked' \cup todo', sold[guard[k]] > 0
      PROVE  NotAskedAgain(k)'
  <2>1. todo = {} /\ guard[k] \in tracked
    BY <1>1, <1>3 DEF CopyInv, Asking
  <2>2. CASE k = key
    <3>1. okey[guard[k]] = k
      BY <2>1 DEF QuoteInv, OwnKey, TypeInv, TypeOK, TypeTracked
    <3>2. op = "flatten" /\ key \notin exits
      BY <1>1, <1>3, <2>1, <2>2, <3>1 DEF CopyInv, Exiting, OnKey
    <3> QED BY <1>1, <2>2, <3>2 DEF NotAskedAgain
  <2>3. CASE k # key
    <3>1. NotAskedAgain(k)
      BY <1>3, <2>1, <2>3 DEF SalesInv, SoldAside, SaleUnderWay
    <3> QED BY <1>1, <3>1 DEF NotAskedAgain
  <2> QED BY <2>2, <2>3
<1>4. SoldAside'
  BY <1>1, <1>3 DEF SoldAside, Quiet
<1> QED BY <1>2, <1>4

\* The order recorded was not sold out of, and shows what its response says.
LEMMA SalesRecorded ==
    ASSUME TypeInv, TypeInv', QuoteInv, BookInv, CountInv, CopyInv, SalesInv, RecordGuard
    PROVE  SalesInv'
<1> USE DEF SalesInv
<1>1. /\ guard' = [guard EXCEPT ![key] = lastId]
      /\ shares' = [shares EXCEPT ![lastId] = IF ack = 0 THEN Q ELSE ack]
      /\ UNCHANGED <<sold, traded, lastId, confirmed, tracked, todo, inflated, key>>
      /\ pc = "record" /\ pc' = IF ack = 0 THEN "track" ELSE "confirm"
  BY DEF RecordGuard, Goto, venueVars, historyVars
<1>2. /\ guard \in [Keys -> 0..MaxOrders] /\ shares \in [Ids -> 0..Q]
      /\ sold \in [Ids -> Nat] /\ traded \in [Ids -> 0..Q]
      /\ key \in Keys /\ lastId \in Ids /\ ack \in 0..Q /\ confirmed \subseteq Ids
  BY <1>1 DEF TypeInv, TypeOK, TypeBook, TypeVenue, TypeLoop, PlacedOne
<1>3. sold[lastId] = 0 /\ ack <= traded[lastId] /\ op # "flatten"
  BY <1>1 DEF CountInv, Fresh, Recording, AckTrue, CopyInv, Exiting
<1>4. lastId \notin confirmed /\ \A k \in Keys : guard[k] # lastId
  BY <1>1, <1>2 DEF QuoteInv, FreshOrder, BookInv, ConfirmedStand, TypeInv, TypeOK, TypeVenue
<1>5. \A k \in Keys : guard'[k] = lastId \/ (guard'[k] = guard[k] /\ guard[k] # lastId)
  BY <1>1, <1>2, <1>4
<1>6. SoldConfirmed'
  BY <1>1, <1>3, <1>5 DEF SoldConfirmed
<1>7. SoldAside'
  BY <1>1, <1>3, <1>5 DEF SoldAside, SaleUnderWay, NotAskedAgain
<1>8. SaleWithin' /\ RecordedTrue' /\ SoldWithin'
  BY <1>1, <1>2, <1>3 DEF SaleWithin, RecordedTrue, SoldWithin
<1>9. GuardBacked'
  <2> SUFFICES ASSUME NEW k \in Keys, guard'[k] \in confirmed \ inflated
               PROVE  Backed(guard[k])'
    BY <1>1 DEF GuardBacked
  <2>1. guard'[k] = guard[k] /\ guard[k] # lastId
    BY <1>4, <1>5
  <2>2. Backed(guard[k]) /\ InFlight(guard[k]) = 0
    BY <1>1, <2>1 DEF GuardBacked, InFlight
  <2>3. shares'[guard[k]] = shares[guard[k]] /\ InFlight(guard[k])' = 0
    BY <1>1, <1>2, <2>1 DEF InFlight
  <2> QED BY <1>1, <2>1, <2>2, <2>3 DEF Backed
<1> QED BY <1>6, <1>7, <1>8, <1>9

\* A sale is of a size its guard shows, and its guard is backed: the order it
\* sells out of has bought it all.
LEMMA SalesSold ==
    ASSUME TypeInv, TypeInv', QuoteInv, CountInv, CopyInv, SalesInv, NEW m \in 0..Q, Sell(m)
    PROVE  SalesInv'
<1> USE DEF SalesInv
<1> DEFINE g == guard[key]
<1>1. /\ pc = "sell" /\ m <= sig /\ g # 0
      /\ sold' = [sold EXCEPT ![g] = @ + m]
      /\ UNCHANGED <<guard, shares, confirmed, traded, tracked, todo, inflated, exits>>
      /\ \/ m = 0 /\ pc' \in {"idle", "flatten"} /\ (op = "flatten" => op' = op)
         \/ m # 0 /\ pc' = "book" /\ ack' = m /\ held' = shares[g] /\ UNCHANGED <<op, key>>
  BY DEF Sell, Finish, bookVars, historyVars
<1>2. /\ guard \in [Keys -> 0..MaxOrders] /\ shares \in [Ids -> 0..Q]
      /\ sold \in [Ids -> Nat] /\ traded \in [Ids -> 0..Q]
      /\ key \in Keys /\ sig \in 0..Q /\ confirmed \subseteq Ids /\ g \in Ids
  <2>1. /\ guard \in [Keys -> 0..MaxOrders] /\ shares \in [Ids -> 0..Q]
        /\ sold \in [Ids -> Nat] /\ traded \in [Ids -> 0..Q]
        /\ key \in Keys /\ sig \in 0..Q /\ confirmed \subseteq Ids
    BY DEF TypeInv, TypeOK, TypeBook, TypeVenue, TypeLoop
  <2> QED BY SMTT(30), <1>1, <2>1
<1>3. g \in confirmed /\ sig <= shares[g]
  BY <1>1 DEF QuoteInv, Selling, SaleWithin
<1>4. \A k \in Keys : guard[k] # 0 /\ k # key => guard[k] # g
  BY <1>2 DEF QuoteInv, OwnKey
<1>5. sold'[g] = sold[g] + m /\ \A o \in Ids \ {g} : sold'[o] = sold[o]
  BY <1>1, <1>2
<1>6. SoldConfirmed'
  BY SMTT(30), <1>1, <1>2, <1>3, <1>5 DEF SoldConfirmed
<1>7. SoldAside'
  <2> SUFFICES ASSUME NEW k \in Keys, guard[k] \in tracked \cup todo, sold'[guard[k]] > 0
               PROVE  SaleUnderWay(k)' \/ NotAskedAgain(k)'
    BY <1>1 DEF SoldAside
  <2>1. guard[k] \in Ids
    BY DEF TypeInv, TypeOK, TypeTracked, TypeLoop
  <2>2. CASE k = key /\ m # 0
    BY <1>1, <2>2 DEF SaleUnderWay
  <2>3. CASE k # key \/ m = 0
    <3>1. sold[guard[k]] > 0
      <4>1. CASE guard[k] = g
        <5>1. m = 0 /\ sold'[g] = sold[g] + 0 /\ sold[g] \in Nat
          BY <1>2, <1>4, <1>5, <2>1, <2>3, <4>1
        <5> QED BY <4>1, <5>1
      <4>2. CASE guard[k] # g
        BY <1>5, <2>1, <4>2
      <4> QED BY <4>1, <4>2
    <3>2. NotAskedAgain(k)
      BY <1>1, <3>1 DEF SoldAside, SaleUnderWay
    <3> QED BY <1>1, <3>2 DEF NotAskedAgain
  <2> QED BY <2>2, <2>3
<1>8. m <= shares[g] /\ {m, shares[g], sold[g], traded[g]} \subseteq Nat
  BY <1>1, <1>2, <1>3
<1>9. SaleWithin' /\ RecordedTrue'
  BY SMTT(30), <1>1, <1>2, <1>5, <1>8 DEF SaleWithin, RecordedTrue
<1>10. g \notin inflated => shares[g] + sold[g] <= traded[g]
  <2>1. InFlight(g) = 0
    BY <1>1 DEF InFlight
  <2> QED BY <1>2, <1>3, <1>8, <2>1 DEF GuardBacked, Backed
<1>11. GuardBacked'
  <2> SUFFICES ASSUME NEW k \in Keys, guard[k] \in confirmed \ inflated
               PROVE  Backed(guard[k])'
    BY <1>1 DEF GuardBacked
  <2>1. guard[k] \in Ids /\ guard[k] # 0
    BY SMTT(30), <1>2
  <2>2. CASE k = key
    <3>1. InFlight(guard[k])' = m
      BY <1>1, <2>2 DEF InFlight
    <3>2. shares[g] + (sold[g] + m) - m <= traded[g]
      BY <1>8, <1>10, <2>2
    <3> QED BY <1>1, <1>5, <2>2, <3>1, <3>2 DEF Backed
  <2>3. CASE k # key
    <3>1. guard[k] # g
      BY <1>4, <2>1, <2>3
    <3>2. InFlight(guard[k])' = 0 /\ InFlight(guard[k]) = 0
      BY <1>1, <3>1 DEF InFlight
    <3> QED BY <1>1, <1>5, <2>1, <3>1, <3>2 DEF GuardBacked, Backed
  <2> QED BY <2>2, <2>3
<1>12. SoldWithin'
  <2> SUFFICES ASSUME NEW o \in Ids \ inflated
               PROVE  sold'[o] <= traded[o]
    BY <1>1 DEF SoldWithin
  <2>1. CASE o = g
    <3>1. sold[g] + m <= traded[g]
      BY <1>8, <1>10, <2>1
    <3> QED BY <1>5, <2>1, <3>1
  <2>2. CASE o # g
    BY <1>5, <2>2 DEF SoldWithin
  <2> QED BY <2>1, <2>2
<1> QED BY <1>6, <1>7, <1>9, <1>11, <1>12

\* The sale is taken off the live guard, or takes the guard with it.
LEMMA SalesBooked ==
    ASSUME TypeInv, TypeInv', QuoteInv, CountInv, CopyInv, SalesInv, Book
    PROVE  SalesInv'
<1> USE DEF SalesInv
<1> DEFINE g == guard[key]
<1>2. /\ guard \in [Keys -> 0..MaxOrders] /\ shares \in [Ids -> 0..Q]
      /\ sold \in [Ids -> Nat] /\ traded \in [Ids -> 0..Q]
      /\ key \in Keys /\ ack \in 0..Q /\ held \in 0..Q /\ confirmed \subseteq Ids
  BY DEF TypeInv, TypeOK, TypeBook, TypeVenue, TypeLoop
<1>3. /\ pc = "book" /\ UNCHANGED <<sold, traded, tracked, todo, inflated, exits>>
      /\ \/ /\ held > Min2(ack, held)
            /\ shares' = [shares EXCEPT ![g] = Max2(@ - Min2(ack, held), 0)]
            /\ pc' = "forget" /\ UNCHANGED <<guard, confirmed, op, key>>
         \/ /\ RemoveGuard(key) /\ pc' \in {"idle", "flatten"}
            /\ op = "flatten" => op' = op
  BY DEF Book, Finish, Goto, venueVars, historyVars
<1>4. g \in Ids /\ g \in confirmed /\ held <= shares[g]
  BY <1>2, <1>3 DEF QuoteInv, Selling, SaleWithin
<1>5. \A k \in Keys : guard[k] # 0 /\ k # key => guard[k] # g
  BY <1>2 DEF QuoteInv, OwnKey
<1>6. \A k \in Keys : guard'[k] # 0 => /\ guard'[k] = guard[k] /\ guard[k] \in Ids
                                       /\ guard[k] \in confirmed' <=> guard[k] \in confirmed
  BY <1>2, <1>3, <1>5 DEF RemoveGuard
<1>7. \A k \in Keys : guard'[k] # 0 /\ k # key => shares'[guard[k]] = shares[guard[k]]
  BY <1>2, <1>3, <1>5 DEF RemoveGuard
<1>8. pc' = "forget" \/ guard'[key] = 0
  BY <1>2, <1>3 DEF RemoveGuard
<1>9. SoldConfirmed'
  BY <1>3, <1>6 DEF SoldConfirmed
<1>10. SoldAside'
  <2> SUFFICES ASSUME NEW k \in Keys, guard'[k] \in tracked \cup todo, sold[guard'[k]] > 0
               PROVE  SaleUnderWay(k)' \/ NotAskedAgain(k)'
    BY <1>3 DEF SoldAside
  <2>1. guard'[k] # 0 /\ guard'[k] = guard[k]
    BY <1>6 DEF TypeInv, TypeOK, TypeTracked, TypeLoop
  <2>2. SaleUnderWay(k) \/ NotAskedAgain(k)
    BY <2>1 DEF SoldAside
  <2> QED BY <1>3, <1>8, <2>1, <2>2 DEF SaleUnderWay, NotAskedAgain
<1>11. SaleWithin' /\ RecordedTrue' /\ SoldWithin'
  BY <1>3 DEF SaleWithin, RecordedTrue, SoldWithin
<1>12. GuardBacked'
  <2> SUFFICES ASSUME NEW k \in Keys, guard'[k] \in confirmed' \ inflated
               PROVE  Backed(guard[k])'
    BY <1>3 DEF GuardBacked
  <2>1. /\ guard'[k] = guard[k] /\ guard[k] \in Ids /\ guard[k] \in confirmed \ inflated
        /\ InFlight(guard[k])' = 0
    BY <1>3, <1>6 DEF InFlight, TypeInv, TypeOK, TypeBook
  <2>2. CASE k = key
    <3>1. /\ held > Min2(ack, held) /\ shares'[g] = Max2(shares[g] - Min2(ack, held), 0)
      BY <1>2, <1>3, <1>4, <1>8, <2>1, <2>2
    <3>2. shares'[g] = shares[g] - ack
      BY <1>2, <1>4, <3>1 DEF Min2, Max2
    <3>3. InFlight(g) = ack
      BY <1>3 DEF InFlight
    <3>4. shares[g] + sold[g] - ack <= traded[g]
      BY <2>1, <2>2, <3>3 DEF GuardBacked, Backed
    <3>5. {ack, shares[g], sold[g], traded[g]} \subseteq Int
      BY <1>2, <1>4
    <3>6. (shares[g] - ack) + sold[g] - 0 <= traded[g]
      BY <3>4, <3>5
    <3> QED BY <1>3, <2>1, <2>2, <3>2, <3>6 DEF Backed
  <2>3. CASE k # key
    <3>1. guard[k] # g /\ InFlight(guard[k]) = 0
      BY <1>5, <2>1, <2>3 DEF InFlight
    <3>2. shares'[guard[k]] = shares[guard[k]]
      BY <1>7, <2>1, <2>3
    <3> QED BY <1>3, <2>1, <3>1, <3>2 DEF GuardBacked, Backed
  <2> QED BY <2>2, <2>3
<1> QED BY <1>9, <1>10, <1>11, <1>12

-----------------------------------------------------------------------------
(* Every step keeps the books.                                             *)

LEMMA SalesSteps ==
    ASSUME TypeInv, QuoteInv, CountInv, CopyInv, SalesInv, [Next]_vars
    PROVE  \/ SalesStep /\ SoldAside'
           \/ RecordGuard \/ Book \/ \E m \in 0..Q : Sell(m)
<1> USE DEF SalesInv
<1>1. CASE LoopStarts
  BY <1>1, SalesPlaced, SalesOpen, AsideStepKeeps DEF LoopStarts
<1>2. CASE LoopSteps
  BY <1>2, SalesTracked, SalesForgotten, SalesConfirmed, SalesOpen, SalesStay, SalesEnd,
     SalesAsk, SalesPulled, AsideStepKeeps DEF LoopSteps
<1>3. CASE ListenerSteps \/ Events
  BY <1>3, SalesConfirmed, SalesSized, SalesBeside, AsideStepKeeps DEF ListenerSteps
<1>4. CASE Venue \/ (\E o \in Ids : Age(o)) \/ Stopped \/ UNCHANGED vars
  BY <1>4, SalesBeside, AsideStepKeeps
<1> QED BY <1>1, <1>2, <1>3, <1>4 DEF Next

BookedInv == TypeInv /\ QuoteInv /\ BookInv /\ CountInv /\ CopyInv /\ SalesInv

LEMMA BookedInit == Init => BookedInv
BY TypeInit, QuoteInit, InitPromised, SalesInit DEF BookedInv

LEMMA BookedKept == BookedInv /\ [Next]_vars => BookedInv'
<1> SUFFICES ASSUME BookedInv, [Next]_vars
             PROVE  BookedInv'
  OBVIOUS
<1> USE DEF BookedInv
<1>1. TypeInv' /\ QuoteInv' /\ BookInv' /\ CountInv' /\ CopyInv'
  BY TypeStep, QuoteKept, StepPromised, CountKept, CopyKept
<1>2. CASE SalesStep /\ SoldAside'
  BY <1>1, <1>2, SalesStepKeeps
<1>3. CASE RecordGuard \/ Book \/ \E m \in 0..Q : Sell(m)
  BY <1>1, <1>3, SalesRecorded, SalesBooked, SalesSold
<1> QED BY <1>1, <1>2, <1>3, SalesSteps

LEMMA BookedAlways == Spec => []BookedInv
BY BookedInit, BookedKept, PTL DEF Spec

\* A confirmed guard shows no more than its order has traded less what the exits'
\* replies counted as sold out of it: size_and_confirm, confirm_guard and split_partial_exit keep
\* Position.shares within the venue's count, whatever the two tasks interleave.
THEOREM GuardsAreBacked == Spec => []GuardBacked
<1>1. BookedInv => GuardBacked
  BY DEF BookedInv, SalesInv
<1> QED BY <1>1, BookedAlways, PTL

\* The FAK exits of dispatch_signal, over any sequence of partial exits, cancels,
\* late reads and events, sell no more than the order bought and what exits sold
\* without the engine hearing of it.
THEOREM NeverOversold == Spec => []NoOversell
<1>1. ASSUME BookedInv, NEW o \in Ids \ inflated
      PROVE  SoldInAll(o) <= traded[o] + unheard[o]
  <2>1. sold[o] \in Nat /\ traded[o] \in 0..Q /\ unheard[o] \in 0..MaxUnheard
    BY <1>1 DEF BookedInv, TypeInv, TypeOK, TypeVenue, TypeHistory
  <2>2. sold[o] <= traded[o]
    BY <1>1 DEF BookedInv, SalesInv, SoldWithin
  <2> QED BY <2>1, <2>2 DEF SoldInAll
<1>2. BookedInv => NoOversell
  BY <1>1 DEF NoOversell
<1> QED BY <1>2, BookedAlways, PTL

-----------------------------------------------------------------------------
(* A holding is kept, and shrinks by its sales only.                       *)

\* What ConfirmedKept says of one key.
KeepsHolding(k) ==
    LET g == guard[k]
        sells == pc = "book" /\ key = k
    IN g \in confirmed =>
         \/ /\ guard'[k] = g
            /\ g \in confirmed'
            /\ shares'[g] >= shares[g] - (IF sells THEN ack ELSE 0)
         \/ guard'[k] = 0 /\ sells /\ ack >= held

\* A step that sells and records nothing leaves a holding, or grows it.
LEMMA GrowthKeeps ==
    ASSUME BookedInv, [Next]_vars, SalesStep, NEW k \in Keys
    PROVE  KeepsHolding(k)
<1> USE DEF BookedInv
<1> SUFFICES ASSUME guard[k] \in confirmed
             PROVE  KeepsHolding(k)
  BY DEF KeepsHolding
<1>1. guard'[k] = guard[k] /\ guard[k] # 0
  BY HoldingStays DEF SalesStep, TypeInv, TypeOK, TypeBook
<1>2. Grows(guard[k])
  BY <1>1 DEF SalesStep, AllGrow
<1>3. guard[k] \in confirmed' /\ shares[guard[k]] <= shares'[guard[k]]
  BY <1>2 DEF Grows
<1>4. shares[guard[k]] \in Int /\ ack \in Nat /\ shares'[guard[k]] \in Int
  <2>1. /\ shares \in [Ids -> 0..Q] /\ guard \in [Keys -> 0..MaxOrders] /\ ack \in 0..Q
        /\ confirmed \subseteq Ids
    BY DEF TypeInv, TypeOK, TypeBook, TypeLoop
  <2>2. TypeInv'
    BY TypeStep
  <2>3. shares' \in [Ids -> 0..Q]
    BY <2>2 DEF TypeInv, TypeOK, TypeBook
  <2> QED BY <2>1, <2>3
<1>5. shares'[guard[k]] >= shares[guard[k]] - (IF pc = "book" /\ key = k THEN ack ELSE 0)
  BY <1>3, <1>4
<1> QED BY <1>1, <1>3, <1>5 DEF KeepsHolding

\* Recording a guard touches no other.
LEMMA RecordKeeps ==
    ASSUME BookedInv, RecordGuard, NEW k \in Keys
    PROVE  KeepsHolding(k)
<1> USE DEF BookedInv
<1> SUFFICES ASSUME guard[k] \in confirmed
             PROVE  KeepsHolding(k)
  BY DEF KeepsHolding
<1>1. /\ guard' = [guard EXCEPT ![key] = lastId] /\ guard[key] = 0
      /\ shares' = [shares EXCEPT ![lastId] = IF ack = 0 THEN Q ELSE ack]
      /\ UNCHANGED confirmed /\ pc = "record"
  BY DEF RecordGuard, BookInv, KeyFree
<1>2. /\ guard \in [Keys -> 0..MaxOrders] /\ shares \in [Ids -> 0..Q]
      /\ lastId \in Ids /\ confirmed \subseteq Ids /\ key \in Keys
  BY <1>1 DEF TypeInv, TypeOK, TypeBook, TypeLoop, PlacedOne
<1>3. lastId \notin confirmed
  BY <1>1, <1>2 DEF QuoteInv, FreshOrder, BookInv, ConfirmedStand, TypeInv, TypeOK, TypeVenue
<1>4. guard'[k] = guard[k] /\ shares'[guard[k]] = shares[guard[k]]
  BY <1>1, <1>2, <1>3
<1>5. shares[guard[k]] \in Int
  BY <1>2
<1>6. shares'[guard[k]] >= shares[guard[k]] - 0
  BY <1>4, <1>5
<1> QED BY <1>1, <1>4, <1>6 DEF KeepsHolding

\* A sale takes nothing before it is booked.
LEMMA SaleKeeps ==
    ASSUME BookedInv, NEW m \in 0..Q, Sell(m), NEW k \in Keys
    PROVE  KeepsHolding(k)
<1> USE DEF BookedInv
<1>1. UNCHANGED <<guard, shares, confirmed>> /\ pc = "sell"
  BY DEF Sell, bookVars
<1>2. guard[k] \in confirmed => shares[guard[k]] \in Int
  BY DEF TypeInv, TypeOK, TypeBook
<1>3. guard[k] \in confirmed => shares'[guard[k]] >= shares[guard[k]] - 0
  BY <1>1, <1>2
<1> QED BY <1>1, <1>3 DEF KeepsHolding

\* What is booked comes off the live guard; the guard goes when it was all of what
\* it held as the sale was sent.
LEMMA BookKeeps ==
    ASSUME BookedInv, Book, NEW k \in Keys
    PROVE  KeepsHolding(k)
<1> USE DEF BookedInv
<1> DEFINE g == guard[key]
<1> SUFFICES ASSUME guard[k] \in confirmed
             PROVE  KeepsHolding(k)
  BY DEF KeepsHolding
<1>1. /\ guard \in [Keys -> 0..MaxOrders] /\ shares \in [Ids -> 0..Q]
      /\ key \in Keys /\ ack \in 0..Q /\ held \in 0..Q /\ confirmed \subseteq Ids
  BY DEF TypeInv, TypeOK, TypeBook, TypeLoop
<1>2. /\ pc = "book"
      /\ \/ /\ held > Min2(ack, held)
            /\ shares' = [shares EXCEPT ![g] = Max2(@ - Min2(ack, held), 0)]
            /\ UNCHANGED <<guard, confirmed>>
         \/ ~(held > Min2(ack, held)) /\ RemoveGuard(key)
  BY DEF Book
<1>3. g \in Ids /\ g \in confirmed
  BY <1>1, <1>2 DEF QuoteInv, Selling
<1>4. k # key => guard[k] # g
  BY <1>1 DEF QuoteInv, OwnKey
<1>5. CASE k # key
  <2>1. guard'[k] = guard[k] /\ guard[k] \in confirmed' /\ shares'[guard[k]] = shares[guard[k]]
    BY <1>1, <1>2, <1>3, <1>4, <1>5 DEF RemoveGuard
  <2>2. shares[guard[k]] \in Int
    BY <1>1
  <2>3. shares'[guard[k]] >= shares[guard[k]] - 0
    BY <2>1, <2>2
  <2> QED BY <1>5, <2>1, <2>3 DEF KeepsHolding
<1>6. CASE k = key /\ held > Min2(ack, held)
  <2>1. /\ UNCHANGED <<guard, confirmed>>
        /\ shares'[g] = Max2(shares[g] - Min2(ack, held), 0)
    BY <1>1, <1>2, <1>3, <1>6
  <2>2. Min2(ack, held) = ack
    BY <1>1, <1>6 DEF Min2
  <2>3. shares'[g] >= shares[g] - ack
    <3>1. shares[g] \in Int /\ ack \in Int
      BY <1>1, <1>3
    <3> QED BY <2>1, <2>2, <3>1 DEF Max2
  <2> QED BY <1>2, <1>6, <2>1, <2>3 DEF KeepsHolding
<1>7. CASE k = key /\ ~(held > Min2(ack, held))
  <2>1. guard'[k] = 0
    BY <1>1, <1>2, <1>7 DEF RemoveGuard
  <2>2. ack >= held
    BY <1>1, <1>7 DEF Min2
  <2> QED BY <1>2, <1>7, <2>1, <2>2 DEF KeepsHolding
<1> QED BY <1>5, <1>6, <1>7

\* A confirmed guard is a position: no cancel, refused cancel, late or smaller
\* count, listing or grace clock shrinks it, unconfirms it or lets it go; it
\* shrinks by booked sales, and goes when all it held as one was sent was sold.
THEOREM HoldingsKept == Spec => ConfirmedKept
<1>1. ASSUME BookedInv, [Next]_vars, NEW k \in Keys
      PROVE  KeepsHolding(k)
  <2>1. CASE SalesStep
    BY <1>1, <2>1, GrowthKeeps
  <2>2. CASE RecordGuard \/ Book \/ \E m \in 0..Q : Sell(m)
    BY <1>1, <2>2, RecordKeeps, BookKeeps, SaleKeeps
  <2> QED BY <1>1, <2>1, <2>2, SalesSteps DEF BookedInv
<1>2. BookedInv /\ [Next]_vars => [\A k \in Keys : KeepsHolding(k)]_vars
  BY <1>1
<1>3. Spec => [][\A k \in Keys : KeepsHolding(k)]_vars
  BY <1>2, BookedAlways, PTL DEF Spec
<1> QED BY <1>3 DEF ConfirmedKept, KeepsHolding

-----------------------------------------------------------------------------
(* One order's answer never settles another order's guard.                 *)

\* A quote that goes is of an order that traded nothing, or was not read.
LetGo ==
    \A k \in Keys :
      guard[k] \notin confirmed \cup {0, guard'[k]} => traded[guard[k]] = 0 \/ guard[k] \in unread'

LEMMA ReleaseLetsGo ==
    ASSUME TypeInv, QuoteInv, CountInv, NEW o \in 1..lastId, ReleaseQuote(o),
           traded[o] = 0 \/ o \in unread'
    PROVE  LetGo
<1>1. /\ guard \in [Keys -> 0..MaxOrders] /\ lastId \in 0..MaxOrders /\ o \in Ids
      /\ okey[o] \in Keys
  BY DEF TypeInv, TypeOK, TypeBook, TypeVenue
<1>2. ASSUME NEW k \in Keys, guard[k] # guard'[k]
      PROVE  guard[k] = o
  <2>1. k = okey[o] /\ guard[k] # 0 /\ OwnsGuard(o, guard[k])
    BY <1>1, <1>2 DEF ReleaseQuote, RemoveGuard, LeaveGuard, bookVars
  <2>2. guard[k] >= o /\ guard[k] <= o /\ guard[k] \in Int /\ o \in Int
    BY <1>1, <2>1 DEF CountInv, NewestGuard, OwnsGuard
  <2> QED BY <2>2
<1> QED BY <1>2 DEF LetGo

LEMMA StillLetsGo ==
    ASSUME UNCHANGED guard
    PROVE  LetGo
BY DEF LetGo

\* A release follows a count of zero, or an answer that says nothing.
LEMMA EffectLetsGo ==
    ASSUME TypeInv, QuoteInv, CountInv, NEW o \in 1..lastId,
           NEW ok \in BOOLEAN, NEW s, NEW a \in OrderState(o, s), GuardEffect(o, ok, a),
           ok /\ a.said = "none" => o \in unread'
    PROVE  LetGo
<1>1. o \in Ids /\ traded[o] \in 0..Q
  BY DEF TypeInv, TypeOK, TypeVenue
<1>2. a.filled \in {Unsaid, traded[o]}
  BY <1>1, AnswerType DEF TypeInv, TypeOK
<1>3. Releases(ok, a) => traded[o] = 0 \/ o \in unread'
  BY <1>1, <1>2 DEF Releases
<1> QED BY <1>3, ReleaseLetsGo, StillLetsGo
        DEF GuardEffect, SizeAndConfirm, LeaveGuard, bookVars

LEMMA CountLetsGo ==
    ASSUME TypeInv, QuoteInv, CountInv, NEW o \in 1..lastId,
           NEW s, NEW a \in OrderState(o, s), a.filled # Unsaid,
           IF a.filled > 0 THEN SizeAndConfirm(o, a.filled) ELSE ReleaseQuote(o)
    PROVE  LetGo
<1>1. o \in Ids /\ traded[o] \in 0..Q
  BY DEF TypeInv, TypeOK, TypeVenue
<1>2. a.filled = traded[o]
  BY <1>1, AnswerType DEF TypeInv, TypeOK
<1>3. a.filled > 0 \/ traded[o] = 0
  BY <1>1, <1>2
<1> QED BY <1>3, ReleaseLetsGo, StillLetsGo DEF SizeAndConfirm, LeaveGuard, bookVars

LEMMA GraceLetsGo ==
    ASSUME TypeInv, QuoteInv, CountInv, NEW o \in 1..lastId, Grace(o)
    PROVE  LetGo
BY ReleaseLetsGo, StillLetsGo DEF Grace, LeaveGuard, bookVars

LEMMA SeenLetsGo ==
    ASSUME TypeInv, QuoteInv, CountInv, NEW o \in 1..lastId, NEW part, SeenWorking(o, part)
    PROVE  LetGo
<1>1. \A n : SizeIfAny(o, n) => UNCHANGED guard
  BY DEF SizeIfAny, SizeAndConfirm, LeaveGuard, bookVars
<1>2. CASE KeepWorking(o, part)
  BY <1>1, <1>2, StillLetsGo DEF KeepWorking
<1>3. CASE CancelStale(o, part)
  <2>1. PICK a \in OrderState(o, "done") :
          /\ IF part = 0 /\ Releases(TRUE, a) THEN ReleaseQuote(o)
             ELSE SizeIfAny(o, Max2(part, a.filled))
          /\ unread' = IF a.said = "none" THEN unread \cup {o} ELSE unread
    BY <1>3 DEF CancelStale
  <2>2. o \in Ids /\ traded[o] \in 0..Q
    BY DEF TypeInv, TypeOK, TypeVenue
  <2>3. a.filled \in {Unsaid, traded[o]}
    BY <2>2, AnswerType DEF TypeInv, TypeOK
  <2>4. Releases(TRUE, a) => traded[o] = 0 \/ o \in unread'
    BY <2>1, <2>2, <2>3 DEF Releases
  <2> QED BY <1>1, <2>1, <2>4, ReleaseLetsGo, StillLetsGo
<1> QED BY <1>2, <1>3 DEF SeenWorking

LEMMA AsksLetGo ==
    ASSUME TypeInv, QuoteInv, CountInv, NEW o \in Ids,
           PullOrder(o) \/ CancelAllOrder(o) \/ ReconcileOrder(o)
    PROVE  LetGo
<1>1. o \in 1..lastId
  BY DEF PullOrder, CancelAllOrder, ReconcileOrder, First, QuoteInv, PlacedIds
<1>2. CASE PullOrder(o) \/ CancelAllOrder(o)
  <2>1. PICK r \in CancelReplies(o) : \E a \in OrderState(o, r.st) :
          /\ GuardEffect(o, r.ok, a)
          /\ unread' = IF r.ok /\ a.said = "none" THEN unread \cup {o} ELSE unread
    BY <1>2 DEF PullOrder, CancelAllOrder, CancelAsk
  <2>2. r.ok \in BOOLEAN
    BY ReplyType DEF TypeInv, TypeOK
  <2> QED BY <1>1, <2>1, <2>2, EffectLetsGo
<1>3. CASE AskCancelled(o)
  <2>1. PICK a \in OrderState(o, st[o]) :
          \/ Grace(o)
          \/ /\ a.filled # Unsaid
             /\ IF a.filled > 0 THEN SizeAndConfirm(o, a.filled) ELSE ReleaseQuote(o)
    BY <1>3 DEF AskCancelled
  <2> QED BY <1>1, <2>1, GraceLetsGo, CountLetsGo
<1>4. CASE WaitBlind(o)
  BY <1>4, StillLetsGo DEF WaitBlind, LeaveGuard, bookVars
<1>5. CASE Listed(o)
  BY <1>1, <1>5, SeenLetsGo DEF Listed
<1>6. CASE Vanished(o)
  <2>1. PICK a \in OrderState(o, st[o]) :
          \/ SeenWorking(o, Max2(a.filled, 0))
          \/ /\ a.filled > 0 \/ a.filled = 0
             /\ IF a.filled > 0 THEN SizeAndConfirm(o, a.filled) ELSE ReleaseQuote(o)
          \/ Grace(o)
    BY <1>6 DEF Vanished
  <2>2. a.filled > 0 \/ a.filled = 0 => a.filled # Unsaid
    OBVIOUS
  <2> QED BY <1>1, <2>1, <2>2, SeenLetsGo, CountLetsGo, GraceLetsGo
<1> QED BY <1>2, <1>3, <1>4, <1>5, <1>6 DEF ReconcileOrder

\* Only an answer lets a quote go: the pull of a leg with nothing tracked finds
\* none left, a sale removes a holding, and nothing else removes a guard.
LEMMA StepLetsGo ==
    ASSUME TypeInv, QuoteInv, BookInv, CountInv, [Next]_vars
    PROVE  LetGo
<1>1. CASE PullDone
  <2>1. ~RestingFor(key) /\ guard[key] # 0 => guard[key] \in confirmed
    BY <1>1, UntrackedIsConfirmed DEF PullDone, Recording, TypeInv, TypeOK, TypeLoop
  <2> QED BY <1>1, <2>1, StillLetsGo DEF PullDone, bookVars
<1>2. CASE Book
  <2>1. guard[key] \in confirmed /\ guard \in [Keys -> 0..MaxOrders]
    BY <1>2 DEF Book, QuoteInv, Selling, TypeInv, TypeOK, TypeBook
  <2>2. \A k \in Keys : guard'[k] # guard[k] => k = key
    BY <1>2, <2>1 DEF Book, RemoveGuard
  <2> QED BY <2>1, <2>2 DEF LetGo
<1>3. CASE RecordGuard
  <2>1. guard[key] = 0 /\ guard \in [Keys -> 0..MaxOrders]
    BY <1>3 DEF RecordGuard, BookInv, KeyFree, TypeInv, TypeOK, TypeBook
  <2>2. \A k \in Keys : guard'[k] # guard[k] => k = key
    BY <1>3, <2>1 DEF RecordGuard
  <2> QED BY <2>1, <2>2 DEF LetGo
<1>4. CASE \E o \in Ids : PullOrder(o) \/ CancelAllOrder(o) \/ ReconcileOrder(o)
  BY <1>4, AsksLetGo
<1>5. CASE LoopStarts \/ \E k \in Keys : Flatten(k)
  <2>1. UNCHANGED guard
    BY <1>5 DEF LoopStarts, Place, PlaceLost, Pull, Exit, Flatten, BeginExit, BeginReconcile,
       Rotate, Retire, Leave, BeginCancelAll, bookVars
  <2> QED BY <2>1, StillLetsGo
<1>6. CASE \/ ConfirmGuard \/ Track \/ RecordEntry \/ ExitDecide \/ (\E m \in 0..Q : Sell(m))
           \/ Forget \/ EndReconcile \/ EndCancelAll \/ CheckHolds \/ CheckTracks \/ Retry
           \/ Depart \/ (\E m \in 1..Q : SellUnheard(m))
  <2>1. UNCHANGED guard
    BY <1>6 DEF ConfirmGuard, Track, RecordEntry, ExitDecide, Sell, SellUnheard, Forget,
       EndReconcile, EndCancelAll, CheckHolds, CheckTracks, Retry, Depart, bookVars
  <2> QED BY <2>1, StillLetsGo
<1>7. CASE \/ ListenerSteps \/ Events \/ Venue \/ (\E o \in Ids : Age(o)) \/ Stopped
           \/ UNCHANGED vars
  <2>1. UNCHANGED guard
    BY <1>7 DEF ListenerSteps, Events, ConfirmUntracked, SizeTracked, SizeAndConfirm, LeaveGuard,
       UntrackFilled, TrackedFill, UntrackedFill, Venue, Trade, Expire, Age, Stopped, vars,
       bookVars
  <2> QED BY <2>1, StillLetsGo
<1> QED BY <1>1, <1>2, <1>3, <1>4, <1>5, <1>6, <1>7 DEF Next, LoopSteps

\* A guard newly confirmed shows no more than its own order traded.
LEMMA StepConfirms ==
    ASSUME BookedInv, BookedInv', [Next]_vars
    PROVE  \A g \in confirmed' \ confirmed : g \in inflated' \/ shares'[g] <= traded'[g]
<1> USE DEF BookedInv
<1>1. CASE SalesStep
  <2> SUFFICES ASSUME NEW g \in confirmed' \ confirmed, g \notin inflated'
               PROVE  shares'[g] <= traded'[g]
    OBVIOUS
  <2>1. /\ g \in Ids /\ okey' \in [Ids -> Keys] /\ guard'[okey'[g]] = g
        /\ traded \in [Ids -> 0..Q] /\ traded' \in [Ids -> 0..Q] /\ shares' \in [Ids -> 0..Q]
    BY DEF TypeInv, TypeOK, TypeBook, TypeVenue, BookInv, ConfirmedStand
  <2>2. PICK k \in Keys : guard'[k] = g /\ g # 0
    BY <2>1
  <2>3. guard[k] = g /\ Grows(g) /\ g <= lastId
    BY <1>1, <2>2 DEF SalesStep, AllGrow, QuoteInv, OwnKey
  <2>4. shares'[g] <= traded[g] /\ traded[g] <= traded'[g]
    BY <1>1, <2>1, <2>3 DEF SalesStep, Grows, Stands, Sized
  <2> QED BY <2>1, <2>4
<1>2. CASE RecordGuard \/ Book \/ \E m \in 0..Q : Sell(m)
  <2>1. confirmed' \subseteq confirmed
    BY <1>2 DEF RecordGuard, Book, RemoveGuard, Sell, bookVars
  <2> QED BY <2>1
<1> QED BY <1>1, <1>2, SalesSteps

\* owns_guard: what the venue says about one order never confirms or releases
\* the guard of another.
THEOREM OwnGuardOnly == Spec => OwnOrderOnly
<1> DEFINE A == /\ \A g \in confirmed' \ confirmed :
                     g \in inflated' \/ shares'[g] <= traded'[g]
                /\ \A k \in Keys :
                     guard[k] \notin confirmed \cup {0, guard'[k]} =>
                       traded[guard[k]] = 0 \/ guard[k] \in unread'
<1>1. BookedInv /\ BookedInv' /\ [Next]_vars => A
  BY StepLetsGo, StepConfirms DEF BookedInv, LetGo
<1>2. BookedInv /\ BookedInv' /\ [Next]_vars => [A]_vars
  BY <1>1
<1> QED BY <1>2, BookedAlways, PTL DEF Spec, OwnOrderOnly

-----------------------------------------------------------------------------
(***************************************************************************)
(* Spec => []NothingForgotten, Spec => []OneWorkingQuote,                  *)
(* Spec => []FillNotLost, Spec => []LeavesNothingBehind and                *)
(* Spec => []RowsFollowGuards, for every value of the constants: no order  *)
(* that works at the venue leaves tracking, none is placed beside another, *)
(* what traded keeps its guard, a market is left only when nothing works   *)
(* on it, and rows follow guards.                                          *)
(*                                                                         *)
(* None of the five is inductive.  An order leaves tracking, and its guard *)
(* the map, steps after the answer that decided it; DoneInv says that what *)
(* was decided (a mark of the pass, a cancel, a complete event) was of an  *)
(* order that no longer works or that the venue never answered about, and  *)
(* HeldInv that a guard which went was of an order done, empty or sold.    *)
(* RowsInv says the same of what is queued and released on the way to the  *)
(* rows.                                                                   *)
(***************************************************************************)

-----------------------------------------------------------------------------
(* The invariant.                                                          *)

\* Cancels are of placed orders and confirmed by the venue.
CancelledDone == \A o \in cancelled : o \in 1..lastId /\ st[o] # "working"

\* A pass settles orders that are done, or that the venue never answered about.
SettledDone == \A o \in settled \ unread : st[o] # "working"

\* An event says complete only of an order that is; an immediate order is done
\* when its acknowledgment returns.
EventDone == lpc \in Heard /\ ldone => st[lid] # "working"
TakeDone  == pc \in {"record", "confirm"} => op = "quote" \/ st[lastId] # "working"

DoneInv == CancelledDone /\ SettledDone /\ EventDone /\ TakeDone /\ NothingForgotten

LEMMA DoneInit == Init => DoneInv
BY DEF Init, DoneInv, CancelledDone, SettledDone, EventDone, TakeDone, NothingForgotten, Heard

\* No order comes back to work, and none leaves without a reason.
Decays == UNCHANGED lastId /\ unread \subseteq unread' /\ \A o \in Ids : st'[o] = "working" => st[o] = "working"
Gone(o) == st'[o] # "working" \/ o \in unread'

DoneStep ==
    /\ Decays
    /\ \A o \in cancelled' \ cancelled : o \in 1..lastId /\ st'[o] # "working"
    /\ \A o \in (settled' \ settled) \cup (tracked \ tracked') : Gone(o)
    /\ lpc' \in Heard /\ ldone' => \/ lpc \in Heard /\ ldone /\ lid' = lid
                                   \/ st'[lid'] # "working"
    /\ pc' \in {"record", "confirm"} => pc \in {"record", "confirm"} /\ UNCHANGED op
    /\ pc \in Recording => pc' \in Recording \/ lastId \in tracked' \/ Gone(lastId)

LEMMA DoneStepKeeps ==
    ASSUME TypeInv, QuoteInv, DoneInv, DoneStep
    PROVE  DoneInv'
<1> USE DEF DoneInv, DoneStep, Decays, Gone
<1>1. /\ cancelled \subseteq Ids /\ settled \subseteq Ids /\ tracked \subseteq Ids
      /\ lastId \in 0..MaxOrders
  BY DEF TypeInv, TypeOK, TypeTracked, TypeLoop, TypeVenue
<1>2. CancelledDone'
  BY <1>1 DEF CancelledDone
<1>3. SettledDone'
  BY <1>1 DEF SettledDone
<1>4. EventDone'
  <2>1. lpc \in Heard => lid \in Ids
    BY DEF TypeInv, ListenerHasOne, Heard
  <2> QED BY <2>1 DEF EventDone
<1>5. TakeDone'
  <2>1. pc \in {"record", "confirm"} => lastId \in Ids
    BY DEF TypeInv, PlacedOne
  <2> QED BY <2>1 DEF TakeDone
<1>6. NothingForgotten'
  <2> SUFFICES ASSUME NEW o \in Ids, st'[o] = "working", o \notin unread'
               PROVE  o \in tracked' \/ Placing(o)'
    BY DEF NothingForgotten
  <2>1. o \in tracked \/ Placing(o)
    BY DEF NothingForgotten
  <2> QED BY <2>1 DEF Placing, Recording
<1> QED BY <1>2, <1>3, <1>4, <1>5, <1>6

-----------------------------------------------------------------------------
(* Steps that settle nothing.                                              *)

LEMMA DoneRests ==
    ASSUME UNCHANGED <<lastId, st, unread, tracked>>, cancelled' \subseteq cancelled,
           settled' \subseteq settled,
           lpc' \in Heard => lpc \in Heard /\ UNCHANGED <<lid, ldone>>,
           {pc, pc'} \cap Recording = {} \/ UNCHANGED <<pc, op>>
    PROVE  DoneStep
<1>1. /\ pc' \in {"record", "confirm"} => pc \in {"record", "confirm"} /\ UNCHANGED op
      /\ pc \in Recording => pc' \in Recording
  BY DEF Recording
<1>2. Decays /\ tracked \ tracked' = {} /\ settled' \ settled = {} /\ cancelled' \ cancelled = {}
  BY DEF Decays
<1>3. lpc' \in Heard /\ ldone' => lpc \in Heard /\ ldone /\ lid' = lid
  OBVIOUS
<1> QED BY <1>1, <1>2, <1>3 DEF DoneStep

LEMMA DoneOpens ==
    ASSUME \/ \E k \in Keys : Pull(k) \/ Exit(k) \/ Flatten(k)
           \/ \E known \in BOOLEAN : BeginReconcile(known)
           \/ Rotate \/ Retire \/ Leave
    PROVE  DoneStep
<1>1. /\ UNCHANGED <<lastId, st, unread, tracked, cancelled, settled, lpc, lid, ldone>>
      /\ {pc, pc'} \cap Recording = {}
  BY DEF Pull, Exit, Flatten, BeginExit, BeginReconcile, Rotate, Retire, Leave, BeginCancelAll,
     Start, venueVars, clockVars, localVars, listenerVars, historyVars, Recording
<1> QED BY <1>1, DoneRests

LEMMA DoneStays ==
    ASSUME \/ RecordEntry \/ ExitDecide \/ CheckHolds \/ CheckTracks \/ Retry \/ Depart
           \/ Book \/ (\E m \in 0..Q : Sell(m)) \/ \E m \in 1..Q : SellUnheard(m)
    PROVE  DoneStep
<1>1. /\ UNCHANGED <<lastId, st, unread, tracked, cancelled, lpc, lid, ldone>>
      /\ settled' \subseteq settled
      /\ {pc, pc'} \cap Recording = {}
  BY DEF RecordEntry, ExitDecide, CheckHolds, CheckTracks, Retry, Depart, Book, Sell,
     SellUnheard, Goto, Finish, venueVars, clockVars, localVars, listenerVars, historyVars, Recording
<1> QED BY <1>1, DoneRests

\* An order that goes from its placement is tracked, or was done at once: an
\* acknowledgment of all of it leaves nothing to work.
LEMMA DonePlacing ==
    ASSUME TypeInv, CountInv, DoneInv, RecordGuard \/ ConfirmGuard \/ Track
    PROVE  DoneStep
<1>1. /\ UNCHANGED <<lastId, st, unread, cancelled, settled, lpc, lid, ldone, op>>
      /\ tracked \subseteq tracked'
      /\ pc \in Recording
      /\ \/ pc = "record" /\ pc' \in {"confirm", "track"}
         \/ pc = "confirm" /\ pc' = IF op = "quote" /\ ack < Q THEN "track" ELSE "row"
         \/ pc = "track" /\ pc' = "row" /\ lastId \in tracked'
  BY DEF RecordGuard, ConfirmGuard, Track, Goto, venueVars, clockVars, localVars, listenerVars,
     historyVars, Recording
<1>2. pc = "confirm" /\ pc' = "row" => st[lastId] # "working"
  <2> SUFFICES ASSUME pc = "confirm", op = "quote", ~(ack < Q)
               PROVE  st[lastId] # "working"
    BY <1>1 DEF DoneInv, TakeDone
  <2>1. ack <= traded[lastId] /\ lastId \in Ids
    BY DEF CountInv, AckTrue, TypeInv, PlacedOne
  <2>2. traded[lastId] \in Nat /\ ack \in Nat /\ Q \in Nat
    BY <2>1 DEF TypeInv, TypeOK, TypeVenue, TypeLoop
  <2>3. ~(traded[lastId] < Q)
    BY <2>1, <2>2
  <2> QED BY <2>1, <2>3 DEF TypeInv, WorkingShort
<1> QED BY <1>1, <1>2 DEF DoneStep, Decays, Gone, Recording

LEMMA DoneForgets ==
    ASSUME TypeInv, DoneInv, EndReconcile \/ EndCancelAll \/ Forget
    PROVE  DoneStep
<1>1. /\ UNCHANGED <<lastId, st, unread, lpc, lid, ldone>>
      /\ cancelled' \subseteq cancelled /\ settled' = {}
      /\ {pc, pc'} \cap Recording = {}
      /\ tracked \ tracked' \subseteq settled \cup cancelled
  BY DEF EndReconcile, EndCancelAll, Forget, ForgetCancelled, MergeTracked, SetTracked, Finish,
     venueVars, listenerVars, historyVars, Recording
<1>2. \A o \in settled \cup cancelled : Gone(o)
  BY <1>1 DEF DoneInv, SettledDone, CancelledDone, Gone
<1> QED BY <1>1, <1>2 DEF DoneStep, Decays, Recording

\* The account scan cancels orders; nothing else changes.
LEMMA DonePulled ==
    ASSUME TypeInv, PullDone
    PROVE  DoneStep
<1>1. /\ UNCHANGED <<lastId, unread, tracked, cancelled, lpc, lid, ldone>> /\ settled' = {}
      /\ {pc, pc'} \cap Recording = {}
      /\ \E scan : st' = [o \in Ids |-> IF o \in scan THEN "done" ELSE st[o]]
  BY DEF PullDone, Finish, clockVars, listenerVars, historyVars, Recording
<1> QED BY <1>1 DEF DoneStep, Decays, Recording

-----------------------------------------------------------------------------
(* Answers about one order.                                                *)

\* What an answer about order o changes is said of o, and only when o is done
\* or the venue did not say.
AnswerDone(o) ==
    /\ Decays
    /\ \A p \in cancelled' \ cancelled : p = o /\ st'[o] # "working"
    /\ \A p \in settled' \ settled : p = o /\ Gone(o)

LEMMA StatusDecays ==
    ASSUME TypeInv, NEW o \in Ids, NEW s, SetStatus(o, s), s = "working" => st[o] = "working",
           UNCHANGED lastId, unread \subseteq unread'
    PROVE  Decays /\ st'[o] = s
BY DEF SetStatus, Decays, TypeInv, TypeOK, TypeVenue

\* A cancel the outcome does not keep was of an order that no longer works.
LEMMA CancelDone ==
    ASSUME TypeInv, NEW o \in Ids, NEW r \in CancelReplies(o), NEW a \in OrderState(o, r.st),
           CancelAsk(o, r, a)
    PROVE  Decays /\ (CancelOutcome(r.ok, a) # "kept" => st'[o] # "working")
<1>1. /\ r.ok \in BOOLEAN
      /\ r.st = "working" => st[o] = "working"
      /\ r.ok => r.st = "done"
  BY ReplyType DEF TypeInv, TypeOK
<1>2. a.resting = "no" => r.st # "working"
  BY AnswerType DEF TypeInv, TypeOK
<1>3. Decays /\ st'[o] = r.st
  <2>1. SetStatus(o, r.st) /\ UNCHANGED lastId /\ unread \subseteq unread'
    BY DEF CancelAsk
  <2> QED BY <1>1, <2>1, StatusDecays
<1>4. CancelOutcome(r.ok, a) # "kept" => r.st # "working"
  BY <1>1, <1>2 DEF CancelOutcome
<1> QED BY <1>3, <1>4

LEMMA GraceDone ==
    ASSUME NEW o \in Ids, Grace(o), UNCHANGED <<st, cancelled, lastId>>
    PROVE  AnswerDone(o)
<1>1. \/ settled' = settled \cup {o} /\ unread' = unread \cup {o}
      \/ UNCHANGED <<settled, unread>>
  BY DEF Grace, SettleOrder
<1> QED BY <1>1 DEF AnswerDone, Decays, Gone

LEMMA SeenDone ==
    ASSUME TypeInv, NEW o \in Ids, NEW part \in 0..Q, part <= traded[o], SeenWorking(o, part),
           UNCHANGED lastId
    PROVE  AnswerDone(o)
<1>1. CASE KeepWorking(o, part)
  <2>1. PICK r \in CancelReplies(o) \cup {[ok |-> FALSE, st |-> st[o]]} : SetStatus(o, r.st)
    BY <1>1 DEF KeepWorking
  <2>2. r.st = "working" => st[o] = "working"
    BY ReplyType DEF TypeInv, TypeOK
  <2>3. /\ UNCHANGED <<cancelled, unread>>
        /\ IF part >= Q THEN settled' = settled \cup {o} ELSE UNCHANGED settled
    BY <1>1, Zenon DEF KeepWorking, SettleOrder
  <2>4. Decays /\ st'[o] = r.st
    BY <2>1, <2>2, <2>3, StatusDecays
  <2>5. part >= Q => st[o] # "working"
    <3>1. part \in Int /\ traded[o] \in Int /\ Q \in Int
      BY DEF TypeInv, TypeOK, TypeVenue
    <3> QED BY <3>1 DEF TypeInv, WorkingShort
  <2> QED BY <2>2, <2>3, <2>4, <2>5 DEF AnswerDone, Gone
<1>2. CASE CancelStale(o, part)
  <2>1. /\ SetStatus(o, "done") /\ unread \subseteq unread'
        /\ settled' \subseteq settled \cup {o} /\ cancelled' \subseteq cancelled \cup {o}
    BY <1>2 DEF CancelStale, SettleOrder
  <2>2. Decays /\ st'[o] = "done"
    BY <2>1, StatusDecays
  <2> QED BY <2>1, <2>2 DEF AnswerDone, Gone
<1> QED BY <1>1, <1>2 DEF SeenWorking

LEMMA VanishedDone ==
    ASSUME TypeInv, NEW o \in Ids, Vanished(o), UNCHANGED lastId
    PROVE  AnswerDone(o)
<1>1. PICK a \in OrderState(o, st[o]) :
        \/ a.resting = "yes" /\ SeenWorking(o, Max2(a.filled, 0))
        \/ /\ a.resting # "yes" /\ SettleOrder(o)
           /\ unread' = IF a.resting = "unknown" THEN unread \cup {o} ELSE unread
           /\ UNCHANGED <<st, cancelled>>
        \/ Grace(o) /\ UNCHANGED <<st, cancelled>>
  BY DEF Vanished
<1>2. /\ a.filled \in {Unsaid, traded[o]} /\ traded[o] \in 0..Q
      /\ a.resting = "no" => st[o] # "working"
      /\ a.resting \in {"yes", "no", "unknown"}
  BY SMTT(30), AnswerType DEF TypeInv, TypeOK, TypeVenue, OrderState, Resting
<1>3. CASE a.resting = "yes" /\ SeenWorking(o, Max2(a.filled, 0))
  <2>1. Max2(a.filled, 0) \in 0..Q /\ Max2(a.filled, 0) <= traded[o]
    BY <1>2 DEF Max2
  <2> QED BY <1>3, <2>1, SeenDone
<1>4. CASE /\ a.resting # "yes" /\ SettleOrder(o)
           /\ unread' = IF a.resting = "unknown" THEN unread \cup {o} ELSE unread
           /\ UNCHANGED <<st, cancelled>>
  BY <1>2, <1>4 DEF AnswerDone, Decays, Gone, SettleOrder
<1>5. CASE Grace(o) /\ UNCHANGED <<st, cancelled>>
  BY <1>5, GraceDone
<1> QED BY <1>1, <1>3, <1>4, <1>5

LEMMA ReconcileDone ==
    ASSUME TypeInv, CountInv, DoneInv, NEW o \in Ids, ReconcileOrder(o)
    PROVE  AnswerDone(o)
<1>1. UNCHANGED lastId
  BY DEF ReconcileOrder
<1>2. CASE AskCancelled(o)
  <2>1. o \in cancelled /\ UNCHANGED <<st, cancelled>>
    BY <1>2 DEF AskCancelled
  <2>2. Grace(o) \/ (SettleOrder(o) /\ UNCHANGED unread)
    BY <1>2, Zenon DEF AskCancelled
  <2>3. st[o] # "working"
    BY <2>1 DEF DoneInv, CancelledDone
  <2> QED BY <1>1, <2>1, <2>2, <2>3, GraceDone DEF AnswerDone, Decays, Gone, SettleOrder
<1>3. CASE WaitBlind(o)
  BY <1>1, <1>3 DEF WaitBlind, AnswerDone, Decays
<1>4. CASE Listed(o)
  <2>1. listing[o] \in 0..Q /\ listing[o] <= traded[o] /\ SeenWorking(o, listing[o])
    BY <1>4 DEF Listed, TypeInv, TypeOK, TypeLoop, CountInv, ListedTrue
  <2> QED BY <1>1, <2>1, SeenDone
<1>5. CASE Vanished(o)
  BY <1>1, <1>5, VanishedDone
<1> QED BY <1>2, <1>3, <1>4, <1>5 DEF ReconcileOrder

LEMMA DoneAsks ==
    ASSUME TypeInv, QuoteInv, CountInv, DoneInv, NEW o \in Ids,
           PullOrder(o) \/ CancelAllOrder(o) \/ ReconcileOrder(o)
    PROVE  DoneStep
<1>1. /\ o \in todo /\ {pc, pc'} \cap Recording = {}
      /\ UNCHANGED <<lpc, lid, ldone>>
  BY DEF PullOrder, CancelAllOrder, ReconcileOrder, CancelAsk, First, listenerVars, Recording
<1>2. o \in 1..lastId
  BY <1>1 DEF QuoteInv, PlacedIds
<1>3. CASE PullOrder(o)
  <2>1. PICK r \in CancelReplies(o) : \E a \in OrderState(o, r.st) :
          /\ CancelAsk(o, r, a)
          /\ \/ /\ CancelOutcome(r.ok, a) # "kept"
                /\ tracked' \in {tracked, tracked \ {o}} /\ cancelled' \subseteq cancelled \cup {o}
             \/ UNCHANGED <<tracked, cancelled>>
    BY <1>3 DEF PullOrder, SetTracked, MarkCancelled, clockVars
  <2>2. PICK a \in OrderState(o, r.st) :
          /\ CancelAsk(o, r, a)
          /\ \/ /\ CancelOutcome(r.ok, a) # "kept"
                /\ tracked' \in {tracked, tracked \ {o}} /\ cancelled' \subseteq cancelled \cup {o}
             \/ UNCHANGED <<tracked, cancelled>>
    BY <2>1
  <2>3. Decays /\ (CancelOutcome(r.ok, a) # "kept" => st'[o] # "working") /\ UNCHANGED settled
    BY <1>3, <2>2, CancelDone DEF PullOrder
  <2> QED BY <1>1, <1>2, <2>2, <2>3 DEF DoneStep, Gone, Recording
<1>4. CASE CancelAllOrder(o)
  <2>1. PICK r \in CancelReplies(o) : \E a \in OrderState(o, r.st) :
          /\ CancelAsk(o, r, a)
          /\ \/ /\ CancelOutcome(r.ok, a) # "kept"
                /\ settled' \subseteq settled \cup {o} /\ cancelled' \subseteq cancelled \cup {o}
             \/ UNCHANGED <<settled, cancelled>>
    BY <1>4 DEF CancelAllOrder, SettleOrder, MarkCancelled, clockVars
  <2>2. PICK a \in OrderState(o, r.st) :
          /\ CancelAsk(o, r, a)
          /\ \/ /\ CancelOutcome(r.ok, a) # "kept"
                /\ settled' \subseteq settled \cup {o} /\ cancelled' \subseteq cancelled \cup {o}
             \/ UNCHANGED <<settled, cancelled>>
    BY <2>1
  <2>3. Decays /\ (CancelOutcome(r.ok, a) # "kept" => st'[o] # "working") /\ UNCHANGED tracked
    BY <1>4, <2>2, CancelDone DEF CancelAllOrder
  <2> QED BY <1>1, <1>2, <2>2, <2>3 DEF DoneStep, Gone, Recording
<1>5. CASE ReconcileOrder(o)
  <2>1. UNCHANGED tracked
    BY <1>5 DEF ReconcileOrder
  <2> QED BY <1>1, <1>2, <1>5, <2>1, ReconcileDone DEF DoneStep, AnswerDone, Gone, Recording
<1> QED BY <1>3, <1>4, <1>5

-----------------------------------------------------------------------------
(* The listener and the venue.                                             *)

LEMMA DoneListens ==
    ASSUME TypeInv, CountInv, DoneInv, ListenerSteps \/ Events
    PROVE  DoneStep
<1> USE DEF venueVars, loopVars, localVars, historyVars
<1>1. UNCHANGED <<lastId, st, unread, settled, pc, op>>
  BY DEF ListenerSteps, ConfirmUntracked, SizeTracked, UntrackFilled, Events, TrackedFill,
     UntrackedFill
<1>2. CASE UntrackFilled
  <2>1. /\ pc # "left" /\ lpc = "untrack" /\ lpc' = "idle" /\ cancelled' \subseteq cancelled
        /\ IF lcount >= Q \/ ldone THEN tracked' = tracked \ {lid} ELSE UNCHANGED tracked
    <3>1. cancelled' \subseteq cancelled
      BY <1>2 DEF UntrackFilled, SetTracked, clockVars
    <3> QED BY <1>2, <3>1, Zenon DEF UntrackFilled, SetTracked, ListenerRests
  <2>2. lid \in Ids /\ lcount <= traded[lid]
    BY <2>1 DEF TypeInv, ListenerHasOne, CountInv, EventTrue, Heard
  <2>3. lcount >= Q => st[lid] # "working"
    <3>1. lcount \in Int /\ traded[lid] \in Int /\ Q \in Int
      BY <2>2 DEF TypeInv, TypeOK, TypeVenue, TypeListener
    <3> QED BY <2>2, <3>1 DEF TypeInv, WorkingShort
  <2>4. ldone => st[lid] # "working"
    BY <2>1 DEF DoneInv, EventDone, Heard
  <2> QED BY <1>1, <2>1, <2>2, <2>3, <2>4 DEF DoneStep, Decays, Gone, Recording, Heard
<1>3. CASE ConfirmUntracked \/ SizeTracked \/ \E l \in Legs : UntrackedFill(l)
  <2>1. /\ UNCHANGED <<tracked, cancelled>>
        /\ lpc' \in Heard => lpc \in Heard /\ UNCHANGED <<lid, ldone>>
    BY <1>3 DEF ConfirmUntracked, SizeTracked, UntrackedFill, ListenerRests, clockVars, Heard
  <2> QED BY <1>1, <2>1, DoneRests
<1>4. CASE \E o \in Ids, n \in 1..Q, done \in BOOLEAN : TrackedFill(o, n, done)
  <2>1. UNCHANGED <<tracked, cancelled>> /\ (ldone' => st[lid'] = "done")
    BY <1>4 DEF TrackedFill, clockVars
  <2> QED BY <1>1, <2>1 DEF DoneStep, Decays, Recording
<1> QED BY <1>2, <1>3, <1>4 DEF ListenerSteps, Events

LEMMA DoneWorld ==
    ASSUME TypeInv, Venue \/ (\E o \in Ids : Age(o)) \/ Stopped \/ UNCHANGED vars
    PROVE  DoneStep
<1>1. /\ UNCHANGED <<lastId, unread, tracked, cancelled, settled, lpc, lid, ldone, pc, op>>
      /\ UNCHANGED st \/ \E o \in Ids, s \in Statuses : st[o] = "working" /\ SetStatus(o, s)
  BY DEF Venue, Trade, Expire, Age, Stopped, vars, venueVars, clockVars, loopVars, localVars,
     listenerVars, historyVars
<1>2. Decays
  BY <1>1, StatusDecays DEF Decays
<1> QED BY <1>1, <1>2 DEF DoneStep

\* Placing is the one step that adds an order.
Places == \E k \in Keys : PlaceLost(k) \/ \E gtc \in BOOLEAN, f \in 0..Q : Place(k, gtc, f)

LEMMA DoneSteps ==
    ASSUME BookedInv, DoneInv, [Next]_vars
    PROVE  DoneStep \/ Places
<1> USE DEF BookedInv
<1>1. CASE LoopStarts
  BY <1>1, DoneOpens DEF LoopStarts, Places
<1>2. CASE LoopSteps
  BY <1>2, DonePlacing, DoneStays, DoneAsks, DoneForgets, DonePulled, DoneOpens DEF LoopSteps
<1>3. CASE ListenerSteps \/ Events
  BY <1>3, DoneListens
<1>4. CASE Venue \/ (\E o \in Ids : Age(o)) \/ Stopped \/ UNCHANGED vars
  BY <1>4, DoneWorld
<1> QED BY <1>1, <1>2, <1>3, <1>4 DEF Next

\* What placing order n on key k comes to.
Placed(k, n, s) ==
    /\ n = lastId + 1 /\ n \in Ids /\ lastId' = n
    /\ pc = "idle" /\ guard[k] = 0
    /\ st' = [st EXCEPT ![n] = s]
    /\ \E f : traded' = [traded EXCEPT ![n] = f]
    /\ \/ s = "done" /\ pc' = "record"
       \/ pc' = "record" /\ op' = "quote" /\ ~WorkingFor(k)
       \/ UNCHANGED pc /\ n \in unread'
    /\ okey' = [okey EXCEPT ![n] = k]
    /\ unread \subseteq unread'
    /\ UNCHANGED <<guard, sold, tracked, cancelled, settled, lpc, lid, ldone>>

LEMMA PlacesOne ==
    ASSUME TypeInv, Places
    PROVE  \E k \in Keys, n \in Ids, s \in Statuses : Placed(k, n, s)
<1>1. lastId \in 0..MaxOrders
  BY DEF TypeInv, TypeOK, TypeVenue
<1>2. ASSUME NEW k \in Keys, PlaceLost(k)
      PROVE  lastId + 1 \in Ids /\ Placed(k, lastId + 1, "working")
  <2>1. /\ lastId < MaxOrders /\ guard[k] = 0 /\ NewOrder(k, 0, "working")
        /\ UNCHANGED <<pc, guard, tracked, cancelled, settled, lpc, lid, ldone>>
        /\ pc = "idle" /\ unread' = unread \cup {lastId + 1}
    BY <1>2 DEF PlaceLost, MayPlace, bookVars, clockVars, loopVars, localVars, listenerVars
  <2>2. lastId + 1 \in Ids
    BY <1>1, <2>1
  <2>3. traded' = [traded EXCEPT ![lastId + 1] = 0]
    BY <2>1 DEF NewOrder
  <2> QED BY <2>1, <2>2, <2>3 DEF NewOrder, Placed
<1>3. ASSUME NEW k \in Keys, NEW gtc \in BOOLEAN, NEW f \in 0..Q, Place(k, gtc, f)
      PROVE  /\ lastId + 1 \in Ids
             /\ Placed(k, lastId + 1, IF gtc /\ f < Q THEN "working" ELSE "done")
  <2>1. /\ lastId < MaxOrders /\ guard[k] = 0 /\ (gtc => ~WorkingFor(k))
        /\ pc = "idle" /\ pc' = "record" /\ op' = IF gtc THEN "quote" ELSE "take"
        /\ NewOrder(k, f, IF gtc /\ f < Q THEN "working" ELSE "done")
        /\ UNCHANGED <<guard, tracked, cancelled, settled, lpc, lid, ldone, unread>>
    BY <1>3 DEF Place, MayPlace, Start, bookVars, clockVars, listenerVars, historyVars
  <2>2. lastId + 1 \in Ids
    BY <1>1, <2>1
  <2>3. traded' = [traded EXCEPT ![lastId + 1] = f]
    BY <2>1 DEF NewOrder
  <2> QED BY <2>1, <2>2, <2>3 DEF NewOrder, Placed
<1> QED BY <1>2, <1>3 DEF Places

LEMMA DonePlaced ==
    ASSUME TypeInv, TypeInv', QuoteInv, DoneInv, NEW k \in Keys, NEW n \in Ids, NEW s \in Statuses,
           Placed(k, n, s)
    PROVE  DoneInv'
<1> USE DEF DoneInv
<1>1. /\ lastId \in 0..MaxOrders /\ st \in [Ids -> Statuses] /\ tracked \cup settled \subseteq 1..lastId
      /\ lpc \in Heard => lid \in 1..lastId
  BY DEF TypeInv, TypeOK, TypeVenue, QuoteInv, PlacedIds, Heard
<1>2. /\ n = lastId + 1 /\ lastId' = n /\ pc = "idle" /\ unread \subseteq unread'
      /\ UNCHANGED <<tracked, cancelled, settled, lpc, lid, ldone>>
      /\ \A o \in Ids : o # n => st'[o] = st[o]
      /\ \/ st'[n] # "working" /\ pc' = "record"
         \/ pc' = "record" /\ op' = "quote"
         \/ pc' = "idle" /\ n \in unread'
  BY <1>1 DEF Placed
<1>3. \A o \in 1..lastId : o \in Ids /\ o # n
  BY <1>1, <1>2
<1>4. CancelledDone'
  BY <1>1, <1>2, <1>3 DEF CancelledDone
<1>5. SettledDone'
  BY <1>1, <1>2, <1>3 DEF SettledDone
<1>6. EventDone'
  BY <1>1, <1>2, <1>3 DEF EventDone
<1>7. TakeDone'
  BY <1>2 DEF TakeDone
<1>8. NothingForgotten'
  BY <1>2 DEF NothingForgotten, Placing
<1> QED BY <1>4, <1>5, <1>6, <1>7, <1>8

-----------------------------------------------------------------------------
(* One working quote per viper per leg.                                    *)

\* Orders stay on their keys.
LEMMA KeysStay ==
    ASSUME [Next]_vars, ~Places
    PROVE  UNCHANGED <<okey, lastId>>
<1> USE DEF venueVars
<1>1. CASE LoopStarts \/ \E k \in Keys : Flatten(k)
  BY <1>1 DEF LoopStarts, Places, Pull, Exit, Flatten, BeginExit, BeginReconcile, Rotate, Retire,
     Leave, BeginCancelAll
<1>2. CASE \E o \in Ids : PullOrder(o) \/ CancelAllOrder(o) \/ ReconcileOrder(o)
  BY <1>2 DEF PullOrder, CancelAllOrder, ReconcileOrder, CancelAsk
<1>3. CASE \/ RecordGuard \/ ConfirmGuard \/ Track \/ RecordEntry \/ ExitDecide
           \/ (\E m \in 0..Q : Sell(m)) \/ Book \/ PullDone
  BY <1>3 DEF RecordGuard, ConfirmGuard, Track, RecordEntry, ExitDecide, Sell, Book, PullDone
<1>4. CASE \/ Forget \/ EndReconcile \/ EndCancelAll \/ CheckHolds \/ CheckTracks \/ Retry
           \/ Depart \/ (\E m \in 1..Q : SellUnheard(m))
  BY <1>4 DEF SellUnheard, Forget, EndReconcile, EndCancelAll, CheckHolds, CheckTracks, Retry, Depart
<1>5. CASE \/ ListenerSteps \/ Events \/ Venue \/ (\E o \in Ids : Age(o)) \/ Stopped
           \/ UNCHANGED vars
  BY <1>5 DEF ListenerSteps, Events, ConfirmUntracked, SizeTracked, UntrackFilled, TrackedFill,
     UntrackedFill, Venue, Trade, Expire, Age, Stopped, vars
<1> QED BY <1>1, <1>2, <1>3, <1>4, <1>5 DEF Next, LoopSteps

LEMMA OneStays ==
    ASSUME OneWorkingQuote, DoneStep, UNCHANGED okey
    PROVE  OneWorkingQuote'
BY DEF OneWorkingQuote, DoneStep, Decays

\* A second quote is placed only when nothing tracked on the leg still works,
\* and what works is tracked.
LEMMA OnePlaced ==
    ASSUME TypeInv, DoneInv, OneWorkingQuote, NEW k \in Keys, NEW n \in Ids, NEW s \in Statuses,
           Placed(k, n, s)
    PROVE  OneWorkingQuote'
<1>1. /\ pc = "idle" /\ unread \subseteq unread'
      /\ \A o \in Ids : o # n => st'[o] = st[o] /\ okey'[o] = okey[o]
      /\ okey'[n] = k
      /\ st'[n] # "working" \/ n \in unread' \/ ~WorkingFor(k)
  BY DEF Placed, TypeInv, TypeOK, TypeVenue
<1>2. ASSUME NEW o \in Ids \ unread, o # n, st[o] = "working", okey[o] = k
      PROVE  WorkingFor(k)
  <2>1. o \in tracked
    BY <1>1, <1>2 DEF DoneInv, NothingForgotten, Placing
  <2>2. o \notin cancelled
    BY <1>2 DEF DoneInv, CancelledDone
  <2> QED BY <1>2, <2>1, <2>2 DEF WorkingFor, OnKey
<1> QED BY <1>1, <1>2 DEF OneWorkingQuote

-----------------------------------------------------------------------------
(* What an order traded is not lost.                                       *)

\* A placed order the venue answers about still has its guard, or had it sold
\* out of, or is about to get it; or it is done and traded nothing.
GuardHeld ==
    \A o \in 1..lastId \ unread :
      \/ guard[okey[o]] = o \/ sold[o] > 0
      \/ pc = "record" /\ o = lastId
      \/ traded[o] = 0 /\ st[o] # "working"

\* What was not placed has not traded, and a sale to book is of something.
Unplaced   == \A o \in Ids : o > lastId => traded[o] = 0 /\ st[o] # "working"
BookedSome == pc = "book" => ack > 0

HeldInv == GuardHeld /\ Unplaced /\ BookedSome

LEMMA HeldInit == Init => HeldInv
BY DEF Init, HeldInv, GuardHeld, Unplaced, BookedSome

\* The guard of o goes only with a sale, or when o is done and traded nothing.
Releasable(o) == o \in unread' \/ (traded'[o] = 0 /\ st'[o] # "working")
HeldStep ==
    /\ UNCHANGED okey
    /\ Decays
    /\ \A o \in Ids : traded'[o] = traded[o] \/ st[o] = "working"
    /\ \A o \in Ids : sold[o] > 0 => sold'[o] > 0
    /\ \A o \in Ids : guard[okey[o]] = o =>
         guard'[okey[o]] = o \/ sold'[o] > 0 \/ Releasable(o)
    /\ pc = "record" => pc' = "record" \/ guard'[okey[lastId]] = lastId
    /\ pc' = "book" => ack' > 0 \/ (pc = "book" /\ UNCHANGED ack)

LEMMA HeldStepKeeps ==
    ASSUME TypeInv, HeldInv, HeldStep
    PROVE  HeldInv'
<1> USE DEF HeldInv, HeldStep, Decays
<1>1. lastId \in 0..MaxOrders /\ 1..lastId \subseteq Ids
  BY DEF TypeInv, TypeOK, TypeVenue
<1>2. GuardHeld'
  <2> SUFFICES ASSUME NEW o \in 1..lastId \ unread'
               PROVE  \/ guard'[okey[o]] = o \/ sold'[o] > 0
                      \/ pc' = "record" /\ o = lastId
                      \/ traded'[o] = 0 /\ st'[o] # "working"
    BY DEF GuardHeld
  <2>1. o \in Ids /\ o \in 1..lastId \ unread
    BY <1>1
  <2> QED BY <2>1 DEF GuardHeld, Releasable
<1>3. Unplaced'
  BY <1>1 DEF Unplaced
<1>4. BookedSome'
  BY DEF BookedSome
<1> QED BY <1>2, <1>3, <1>4

\* A step that touches no guard, fill or sale.
LEMMA HeldQuiet ==
    ASSUME Decays, UNCHANGED <<okey, guard, traded, sold>>,
           pc = "record" => pc' = "record",
           pc' = "book" => pc = "book" /\ UNCHANGED ack
    PROVE  HeldStep
BY DEF HeldStep

LEMMA HeldOpens ==
    ASSUME Decays, UNCHANGED okey,
           \/ \E k \in Keys : Pull(k) \/ Exit(k) \/ Flatten(k)
           \/ \E known \in BOOLEAN : BeginReconcile(known)
           \/ Rotate \/ Retire \/ Leave
    PROVE  HeldStep
<1>1. UNCHANGED <<guard, traded, sold>> /\ pc # "record" /\ pc' # "book"
  BY DEF Pull, Exit, Flatten, BeginExit, BeginReconcile, Rotate, Retire, Leave, BeginCancelAll,
     Start, bookVars, venueVars
<1> QED BY <1>1, HeldQuiet

LEMMA HeldStays ==
    ASSUME Decays, UNCHANGED okey,
           \/ ConfirmGuard \/ Track \/ RecordEntry \/ ExitDecide \/ Forget \/ EndReconcile
           \/ EndCancelAll \/ CheckHolds \/ CheckTracks \/ Retry \/ Depart
           \/ \E m \in 1..Q : SellUnheard(m)
    PROVE  HeldStep
<1>1. UNCHANGED <<guard, traded, sold>> /\ pc # "record" /\ pc' # "book"
  BY DEF ConfirmGuard, Track, RecordEntry, ExitDecide, Forget, EndReconcile, EndCancelAll,
     CheckHolds, CheckTracks, Retry, Depart, SellUnheard, Goto, Finish, bookVars, venueVars
<1> QED BY <1>1, HeldQuiet

LEMMA HeldBeside ==
    ASSUME TypeInv, Decays, UNCHANGED okey,
           \/ ListenerSteps \/ Events
           \/ Venue \/ (\E o \in Ids : Age(o)) \/ Stopped \/ UNCHANGED vars
    PROVE  HeldStep
<1>1. UNCHANGED <<guard, sold, pc, ack>>
  BY DEF ListenerSteps, Events, ConfirmUntracked, SizeTracked, SizeAndConfirm, LeaveGuard,
     UntrackFilled, TrackedFill, UntrackedFill, Venue, Trade, Expire, Age, Stopped, vars,
     venueVars, bookVars, loopVars, localVars
<1>2. UNCHANGED traded \/ \E o \in Ids : Trade(o)
  BY DEF ListenerSteps, Events, ConfirmUntracked, SizeTracked, UntrackFilled, TrackedFill,
     UntrackedFill, Venue, Expire, Age, Stopped, vars, venueVars
<1>3. \A o \in Ids : traded'[o] = traded[o] \/ st[o] = "working"
  BY <1>2 DEF Trade, TypeInv, TypeOK, TypeVenue
<1> QED BY <1>1, <1>3 DEF HeldStep

\* A sale counts before it is booked, and only a booked sale takes the guard.
LEMMA HeldSells ==
    ASSUME BookedInv, BookedSome, Decays, UNCHANGED okey, Book \/ \E m \in 0..Q : Sell(m)
    PROVE  HeldStep
<1> USE DEF BookedInv
<1>1. /\ guard \in [Keys -> 0..MaxOrders] /\ sold \in [Ids -> Nat] /\ okey \in [Ids -> Keys]
      /\ key \in Keys /\ ack \in 0..Q /\ UNCHANGED traded
  BY DEF TypeInv, TypeOK, TypeBook, TypeVenue, TypeLoop, Book, Sell, venueVars
<1>2. CASE Book
  <2>1. UNCHANGED sold /\ pc = "book" /\ pc' # "book"
        /\ (UNCHANGED guard \/ guard' = [guard EXCEPT ![key] = 0])
    BY <1>2 DEF Book, RemoveGuard, Goto, Finish, venueVars
  <2>2. ack > 0 /\ ack <= sold[guard[key]] /\ guard[key] # 0
    BY <2>1 DEF BookedSome, SalesInv, SaleWithin, QuoteInv, Selling
  <2>3. sold[guard[key]] > 0
    <3>1. sold[guard[key]] \in Int /\ ack \in Int
      BY <1>1, <2>2
    <3> QED BY <2>2, <3>1
  <2>4. \A o \in Ids : guard[okey[o]] = o => guard'[okey[o]] = o \/ sold'[o] > 0
    BY <1>1, <2>1, <2>3
  <2> QED BY <1>1, <2>1, <2>4 DEF HeldStep
<1>3. ASSUME NEW m \in 0..Q, Sell(m)
      PROVE  HeldStep
  <2>1. /\ UNCHANGED guard /\ pc = "sell" /\ sold' = [sold EXCEPT ![guard[key]] = @ + m]
        /\ pc' = "book" => m # 0 /\ ack' = m
    BY <1>3 DEF Sell, Finish, bookVars
  <2>2. \A o \in Ids : sold[o] > 0 => sold'[o] > 0
    BY <1>1, <2>1
  <2>3. pc' = "book" => ack' > 0
    BY <2>1
  <2>4. UNCHANGED <<guard, traded>> /\ pc # "record"
    BY <1>1, <2>1
  <2> QED BY <2>2, <2>3, <2>4 DEF HeldStep
<1> QED BY <1>2, <1>3

LEMMA HeldRecords ==
    ASSUME BookedInv, Decays, UNCHANGED okey, RecordGuard
    PROVE  HeldStep
<1>1. /\ guard \in [Keys -> 0..MaxOrders] /\ okey \in [Ids -> Keys] /\ key \in Keys
      /\ lastId \in Ids
  BY DEF BookedInv, TypeInv, TypeOK, TypeBook, TypeVenue, TypeLoop, PlacedOne, RecordGuard
<1>2. /\ guard' = [guard EXCEPT ![key] = lastId] /\ UNCHANGED <<traded, sold>>
      /\ guard[key] = 0 /\ okey[lastId] = key /\ pc' # "book"
  BY DEF RecordGuard, Goto, venueVars, BookedInv, BookInv, KeyFree, QuoteInv, FreshOrder, Recording
<1>3. \A o \in Ids : guard[okey[o]] = o => guard'[okey[o]] = o
  BY <1>1, <1>2
<1> QED BY <1>1, <1>2, <1>3 DEF HeldStep

\* An answer lets go of no guard, or of the order's own, once the order is done
\* or was not read.
AskReleases(o) == UNCHANGED guard \/ (ReleaseQuote(o) /\ Gone(o))

LEMMA SizingKeepsGuard ==
    ASSUME NEW o, NEW n, SizeAndConfirm(o, n) \/ SizeIfAny(o, n) \/ LeaveGuard
    PROVE  UNCHANGED guard
BY DEF SizeIfAny, SizeAndConfirm, LeaveGuard, bookVars

LEMMA CancelReleases ==
    ASSUME TypeInv, NEW o \in Ids, NEW r \in CancelReplies(o), NEW a \in OrderState(o, r.st),
           CancelAsk(o, r, a)
    PROVE  AskReleases(o)
<1>1. /\ r.ok \in BOOLEAN
      /\ r.ok => r.st = "done"
      /\ a.resting = "no" => r.st # "working"
  BY ReplyType, AnswerType DEF TypeInv, TypeOK
<1>2. st'[o] = r.st
  BY DEF CancelAsk, SetStatus, TypeInv, TypeOK, TypeVenue
<1>3. Releases(r.ok, a) => Gone(o)
  BY <1>1, <1>2 DEF Releases, Gone
<1>4. GuardEffect(o, r.ok, a)
  BY DEF CancelAsk
<1> QED BY <1>3, <1>4, SizingKeepsGuard DEF GuardEffect, AskReleases

LEMMA GraceReleases ==
    ASSUME NEW o \in Ids, Grace(o)
    PROVE  AskReleases(o)
BY SizingKeepsGuard DEF Grace, AskReleases, Gone

LEMMA SeenReleases ==
    ASSUME TypeInv, NEW o \in Ids, NEW part, SeenWorking(o, part)
    PROVE  AskReleases(o)
<1>1. CASE KeepWorking(o, part)
  BY <1>1, SizingKeepsGuard DEF KeepWorking, AskReleases
<1>2. CASE CancelStale(o, part)
  <2>1. SetStatus(o, "done")
    BY <1>2 DEF CancelStale
  <2>2. Gone(o)
    BY <2>1 DEF SetStatus, Gone, TypeInv, TypeOK, TypeVenue
  <2>3. PICK a \in OrderState(o, "done") :
          IF part = 0 /\ Releases(TRUE, a) THEN ReleaseQuote(o)
          ELSE SizeIfAny(o, Max2(part, a.filled))
    BY <1>2 DEF CancelStale
  <2> QED BY <2>2, <2>3, SizingKeepsGuard DEF AskReleases
<1> QED BY <1>1, <1>2 DEF SeenWorking

LEMMA VanishedReleases ==
    ASSUME TypeInv, NEW o \in Ids, Vanished(o)
    PROVE  AskReleases(o)
<1>1. PICK a \in OrderState(o, st[o]) :
        \/ SeenWorking(o, Max2(a.filled, 0))
        \/ /\ a.filled > 0 \/ (a.filled = 0 /\ a.resting = "no")
           /\ IF a.filled > 0 THEN SizeAndConfirm(o, a.filled) ELSE ReleaseQuote(o)
           /\ UNCHANGED st
        \/ Grace(o)
  BY DEF Vanished
<1>2. a.resting = "no" => st[o] # "working"
  BY AnswerType DEF TypeInv, TypeOK
<1> QED BY <1>1, <1>2, SeenReleases, GraceReleases, SizingKeepsGuard DEF AskReleases, Gone

LEMMA AsksRelease ==
    ASSUME TypeInv, DoneInv, NEW o \in Ids,
           PullOrder(o) \/ CancelAllOrder(o) \/ ReconcileOrder(o)
    PROVE  AskReleases(o)
<1>1. CASE PullOrder(o) \/ CancelAllOrder(o)
  <2>1. \E r \in CancelReplies(o) : \E a \in OrderState(o, r.st) : CancelAsk(o, r, a)
    BY <1>1 DEF PullOrder, CancelAllOrder
  <2> QED BY <2>1, CancelReleases
<1>2. CASE AskCancelled(o)
  <2>1. st'[o] # "working"
    BY <1>2 DEF AskCancelled, DoneInv, CancelledDone
  <2>2. PICK a : \/ Grace(o) \/ SizeAndConfirm(o, a.filled)
                 \/ ReleaseQuote(o)
    BY <1>2 DEF AskCancelled
  <2> QED BY <2>1, <2>2, GraceReleases, SizingKeepsGuard DEF AskReleases, Gone
<1>3. CASE WaitBlind(o)
  BY <1>3, SizingKeepsGuard DEF WaitBlind, AskReleases
<1>4. CASE Listed(o)
  BY <1>4, SeenReleases DEF Listed
<1>5. CASE Vanished(o)
  BY <1>5, VanishedReleases
<1> QED BY <1>1, <1>2, <1>3, <1>4, <1>5 DEF ReconcileOrder

LEMMA HeldAsks ==
    ASSUME BookedInv, DoneInv, Decays, UNCHANGED okey, NEW o \in Ids,
           PullOrder(o) \/ CancelAllOrder(o) \/ ReconcileOrder(o), [Next]_vars
    PROVE  HeldStep
<1> USE DEF BookedInv
<1>1. /\ UNCHANGED <<traded, sold>> /\ pc # "record" /\ pc' # "book"
      /\ guard \in [Keys -> 0..MaxOrders] /\ okey \in [Ids -> Keys]
  BY DEF PullOrder, CancelAllOrder, ReconcileOrder, CancelAsk, TypeInv, TypeOK, TypeVenue, TypeBook
<1>2. UNCHANGED guard \/ (ReleaseQuote(o) /\ Gone(o))
  BY AsksRelease DEF AskReleases
<1>3. ASSUME NEW p \in Ids, guard[okey[p]] = p, guard'[okey[p]] # p
      PROVE  Releasable(p)
  <2>1. ReleaseQuote(o) /\ Gone(o) /\ o \in 1..lastId
    BY <1>2, <1>3 DEF PullOrder, CancelAllOrder, ReconcileOrder, First, QuoteInv, PlacedIds
  <2>2. okey[p] = okey[o] /\ p \notin confirmed /\ OwnsGuard(o, p) /\ o \in Ids
    BY <1>1, <1>3, <2>1 DEF ReleaseQuote, RemoveGuard, LeaveGuard, bookVars
  <2>3. p = o
    <3>1. guard[okey[o]] = p /\ (guard[okey[o]] = 0 \/ guard[okey[o]] >= o)
      BY <1>3, <2>1, <2>2 DEF CountInv, NewestGuard
    <3>2. p \in Int /\ o \in Int /\ p # 0
      OBVIOUS
    <3> QED BY <2>2, <3>1, <3>2 DEF OwnsGuard
  <2>4. p \notin confirmed \cup {0, guard'[okey[p]]} /\ okey[p] \in Keys
    BY <1>1, <1>3, <2>2
  <2>5. traded[p] = 0 \/ p \in unread'
    BY <1>3, <2>4, StepLetsGo DEF LetGo
  <2> QED BY <1>1, <2>1, <2>3, <2>5 DEF Releasable, Gone
<1> QED BY <1>1, <1>3 DEF HeldStep

LEMMA HeldPulls ==
    ASSUME BookedInv, Decays, UNCHANGED okey, PullDone
    PROVE  HeldStep
<1> USE DEF BookedInv
<1>1. ~RestingFor(key) /\ guard[key] # 0 => guard[key] \in confirmed
  BY UntrackedIsConfirmed DEF PullDone, Recording, TypeInv, TypeOK, TypeLoop
<1>2. UNCHANGED <<guard, traded, sold>> /\ pc # "record" /\ pc' # "book"
  BY <1>1 DEF PullDone, Finish, bookVars
<1> QED BY <1>2, HeldQuiet

LEMMA HeldPlaced ==
    ASSUME BookedInv, HeldInv, NEW k \in Keys, NEW n \in Ids, NEW s \in Statuses,
           Placed(k, n, s)
    PROVE  HeldInv'
<1> USE DEF HeldInv
<1>1. /\ okey \in [Ids -> Keys] /\ st \in [Ids -> Statuses] /\ traded \in [Ids -> 0..Q]
      /\ lastId \in 0..MaxOrders
  BY DEF BookedInv, TypeInv, TypeOK, TypeVenue
<1>2. /\ n = lastId + 1 /\ lastId' = n /\ pc = "idle" /\ UNCHANGED <<guard, sold>>
      /\ unread \subseteq unread' /\ (pc' = "record" \/ (pc' = "idle" /\ n \in unread'))
      /\ \A o \in Ids : o # n => st'[o] = st[o] /\ okey'[o] = okey[o] /\ traded'[o] = traded[o]
  BY <1>1 DEF Placed
<1>3. GuardHeld'
  <2> SUFFICES ASSUME NEW o \in 1..n \ unread'
               PROVE  \/ guard[okey'[o]] = o \/ sold[o] > 0
                      \/ pc' = "record" /\ o = n
                      \/ traded'[o] = 0 /\ st'[o] # "working"
    BY <1>2 DEF GuardHeld
  <2>1. CASE o = n
    BY <1>2, <2>1
  <2>2. CASE o # n
    <3>1. o \in Ids /\ o \in 1..lastId \ unread
      BY <1>1, <1>2, <2>2
    <3> QED BY <1>2, <2>2, <3>1 DEF GuardHeld
  <2> QED BY <2>1, <2>2
<1>4. Unplaced'
  <2> SUFFICES ASSUME NEW o \in Ids, o > n
               PROVE  traded'[o] = 0 /\ st'[o] # "working"
    BY <1>2 DEF Unplaced
  <2>1. o # n /\ o > lastId
    BY <1>1, <1>2
  <2> QED BY <1>2, <2>1 DEF Unplaced
<1>5. BookedSome'
  BY <1>2 DEF BookedSome
<1> QED BY <1>3, <1>4, <1>5

LEMMA HeldSteps ==
    ASSUME BookedInv, DoneInv, HeldInv, DoneStep, UNCHANGED okey, [Next]_vars, ~Places
    PROVE  HeldStep
<1> USE DEF BookedInv, HeldInv
<1>1. Decays
  BY DEF DoneStep
<1>2. CASE LoopStarts
  BY <1>1, <1>2, HeldOpens DEF LoopStarts, Places
<1>3. CASE LoopSteps
  BY <1>1, <1>3, HeldOpens, HeldStays, HeldSells, HeldRecords, HeldAsks, HeldPulls DEF LoopSteps
<1>4. CASE \/ ListenerSteps \/ Events \/ Venue \/ (\E o \in Ids : Age(o)) \/ Stopped
           \/ UNCHANGED vars
  BY <1>1, <1>4, HeldBeside
<1> QED BY <1>2, <1>3, <1>4 DEF Next

-----------------------------------------------------------------------------
(* Leaving the market.                                                     *)

\* Past the second look of a rotation or a retirement, what it saw still holds:
\* the loop records and tracks nothing while it leaves.
LeaveInv ==
    /\ op = "retire" /\ pc \in {"tracks", "retry"} => \A k \in Keys : guard[k] = 0
    /\ (pc = "left" /\ op = "rotate") \/ (pc = "retry" /\ op = "retire") => tracked = {}
    /\ pc = "flatten" => op = "flatten"

LEMMA LeaveInit == Init => LeaveInv
BY DEF Init, LeaveInv

LEMMA LeaveKept ==
    ASSUME TypeInv, QuoteInv, LeaveInv, [Next]_vars
    PROVE  LeaveInv'
<1> USE DEF LeaveInv
<1>1. CASE LoopStarts \/ \E k \in Keys : Flatten(k)
  <2>1. op' = "retire" => pc' \notin {"tracks", "retry"}
    BY <1>1 DEF LoopStarts, Place, PlaceLost, MayPlace, Pull, Exit, Flatten, BeginExit,
       BeginReconcile, Rotate, Retire, Leave, BeginCancelAll, Start, loopVars
  <2>2. pc' \notin {"left", "retry", "flatten"}
    BY <1>1 DEF LoopStarts, Place, PlaceLost, MayPlace, Pull, Exit, Flatten, BeginExit,
       BeginReconcile, Rotate, Retire, Leave, BeginCancelAll, Start, loopVars
  <2> QED BY <2>1, <2>2
<1>2. CASE \E o \in Ids : PullOrder(o) \/ CancelAllOrder(o) \/ ReconcileOrder(o)
  <2>1. pc' \in Asking
    BY <1>2 DEF PullOrder, CancelAllOrder, ReconcileOrder, CancelAsk, Asking
  <2> QED BY <2>1 DEF Asking
<1>3. CASE \/ RecordGuard \/ ConfirmGuard \/ Track \/ RecordEntry \/ PullDone \/ ExitDecide
           \/ (\E m \in 0..Q : Sell(m)) \/ Book \/ Forget \/ EndReconcile
           \/ (\E m \in 1..Q : SellUnheard(m))
  <2>1. /\ pc' \notin {"tracks", "retry", "left"}
        /\ pc' = "flatten" => op' = "flatten"
    BY <1>3 DEF RecordGuard, ConfirmGuard, Track, RecordEntry, PullDone, ExitDecide, Sell,
       SellUnheard, Book, Forget, EndReconcile, Goto, Finish
  <2> QED BY <2>1
<1>4. CASE EndCancelAll
  <2>1. pc' = IF op = "leave" THEN "retry" ELSE "holds"
    BY <1>4 DEF EndCancelAll
  <2>2. op' = op
    BY <1>4 DEF EndCancelAll
  <2> QED BY <2>1, <2>2
<1>5. CASE CheckHolds \/ CheckTracks
  <2>1. UNCHANGED <<guard, tracked>>
    BY <1>5 DEF CheckHolds, CheckTracks, bookVars
  <2>2. CASE CheckHolds
    <3>1. \/ pc' = "idle" \/ (pc' = "flatten" /\ op' = "flatten")
          \/ pc' = "tracks" /\ op' = op /\ (op = "rotate" \/ \A k \in Keys : guard[k] = 0)
      BY <2>2 DEF CheckHolds, Goto, Finish
    <3> QED BY <2>1, <3>1
  <2>3. CASE CheckTracks
    <3>1. \/ pc' = "idle" \/ (pc' = "flatten" /\ op' = "flatten")
          \/ pc = "tracks" /\ pc' \in {"left", "retry"} /\ op' = op /\ tracked = {}
      BY <2>3 DEF CheckTracks, TracksAnything, Goto, Finish
    <3> QED BY <2>1, <3>1
  <2> QED BY <1>5, <2>2, <2>3
<1>6. CASE Retry \/ Depart
  <2>1. \/ pc' = "cancelAll" \/ (pc' = "flatten" /\ op' = "flatten")
        \/ pc = "flatten" /\ pc' = "left" /\ op' = op
    BY <1>6 DEF Retry, Depart, Goto
  <2> QED BY <2>1
<1>7. CASE \/ ListenerSteps \/ Events \/ Venue \/ (\E o \in Ids : Age(o)) \/ Stopped
           \/ UNCHANGED vars
  <2>1. UNCHANGED <<guard, pc, op>> /\ tracked' \subseteq tracked
    BY <1>7 DEF ListenerSteps, Events, ConfirmUntracked, SizeTracked, SizeAndConfirm, LeaveGuard,
       UntrackFilled, SetTracked, TrackedFill, UntrackedFill, Venue, Trade, Expire, Age, Stopped,
       vars, bookVars, loopVars
  <2> QED BY <2>1
<1> QED BY <1>1, <1>2, <1>3, <1>4, <1>5, <1>6, <1>7 DEF Next, LoopSteps

-----------------------------------------------------------------------------
(* The theorems.                                                           *)

OrdersInv == BookedInv /\ DoneInv /\ OneWorkingQuote /\ HeldInv /\ LeaveInv

LEMMA OrdersInit == Init => OrdersInv
<1>1. Init => OneWorkingQuote
  BY DEF Init, OneWorkingQuote
<1> QED BY <1>1, BookedInit, DoneInit, HeldInit, LeaveInit DEF OrdersInv

LEMMA OrdersKept == OrdersInv /\ [Next]_vars => OrdersInv'
<1> SUFFICES ASSUME OrdersInv, [Next]_vars
             PROVE  OrdersInv'
  OBVIOUS
<1> USE DEF OrdersInv
<1>1. BookedInv'
  BY BookedKept
<1>2. TypeInv /\ TypeInv' /\ QuoteInv
  BY <1>1 DEF BookedInv
<1>3. LeaveInv'
  BY <1>2, LeaveKept
<1>4. CASE Places
  <2>1. PICK k \in Keys, n \in Ids, s \in Statuses : Placed(k, n, s)
    BY <1>2, <1>4, PlacesOne
  <2> QED BY <1>1, <1>2, <1>3, <2>1, DonePlaced, OnePlaced, HeldPlaced
<1>5. CASE ~Places
  <2>1. DoneStep /\ UNCHANGED okey
    BY <1>5, DoneSteps, KeysStay
  <2>2. HeldStep
    BY <1>5, <2>1, HeldSteps
  <2> QED BY <1>1, <1>2, <1>3, <2>1, <2>2, DoneStepKeeps, OneStays, HeldStepKeeps
<1> QED BY <1>4, <1>5

LEMMA OrdersAlways == Spec => []OrdersInv
BY OrdersInit, OrdersKept, PTL DEF Spec

\* An order that still works at the venue is tracked or being placed, unless the
\* venue never answered about it: reconcile's merge, a cancel, a refusal, the
\* listener and forget_cancelled_for drop no live order from tracking.
THEOREM LiveOrdersAreTracked == Spec => []NothingForgotten
<1>1. OrdersInv => NothingForgotten
  BY DEF OrdersInv, DoneInv
<1> QED BY <1>1, OrdersAlways, PTL

\* dispatch_single places no second quote of a viper on a leg while one of its
\* orders there still works at the venue [B74].
THEOREM QuotesAreSingle == Spec => []OneWorkingQuote
<1>1. OrdersInv => OneWorkingQuote
  BY DEF OrdersInv
<1> QED BY <1>1, OrdersAlways, PTL

\* An order that bought something nobody sold keeps its guard: release_quote and
\* the pull's own removal let go only of orders that are done and empty.
THEOREM FillsAreKept == Spec => []FillNotLost
<1>1. OrdersInv => FillNotLost
  <2> SUFFICES ASSUME OrdersInv, NEW o \in Ids \ unread, traded[o] > 0, sold[o] = 0
               PROVE  guard[okey[o]] = o \/ Placing(o)
    BY DEF FillNotLost
  <2> USE DEF OrdersInv, HeldInv
  <2>1. lastId \in 0..MaxOrders
    BY DEF BookedInv, TypeInv, TypeOK, TypeVenue
  <2>2. o \in 1..lastId
    BY <2>1 DEF Unplaced
  <2> QED BY <2>2 DEF GuardHeld, Placing
<1> QED BY <1>1, OrdersAlways, PTL

\* The rescan and retire arms leave a market with no order tracked and none that
\* the venue answered for still working, and a retirement leaves it flat.
THEOREM LeavesClean == Spec => []LeavesNothingBehind
<1>1. OrdersInv => LeavesNothingBehind
  BY DEF OrdersInv, DoneInv, NothingForgotten, Placing, LeaveInv, LeavesNothingBehind
<1> QED BY <1>1, OrdersAlways, PTL

-----------------------------------------------------------------------------
(* Rows follow guards.                                                     *)

\* Key k has an entry whose row is still to be written.
Entering(k) == pc \in {"confirm", "track", "row"} /\ key = k

\* Beside what RowsFollowGuards says between operations: a figure queued for the
\* guard that stands, or for the row that is written, is of a confirmed guard, so
\* it is not the figure of an order released meanwhile.
RowMatches(k) ==
    /\ ~Entering(k) =>
         IF guard[k] # 0 THEN rows[k].order = guard[k]
         ELSE rows[k].order = 0 \/ rows[k].by \notin {0, rows[k].order} \/ k \in released
    /\ queued[k] # 0 /\ queued[k] = guard[k] => guard[k] \in confirmed
    /\ queued[k] # 0 /\ queued[k] = rows[k].order => guard[k] = queued[k]
    /\ rows[k].order # 0 /\ rows[k].by = rows[k].order =>
         guard[k] = rows[k].order /\ guard[k] \in confirmed
    /\ k \in released => guard[k] = 0 /\ pc \in Asking

RowsInv ==
    /\ \A k \in Keys : RowMatches(k)
    /\ \A k \in Keys : Entering(k) => guard[k] = lastId
    /\ \A k \in Keys : queued[k] <= lastId
    /\ pc = "record" => queued[key] # lastId

LEMMA RowsInit == Init => RowsInv
BY AnyKeyIsKey DEF Init, RowsInv, RowMatches, Entering, NoRow, Asking

\* What a step does on one key: nothing but confirm its guard, queue a figure for
\* it, release it, settle its reports, or book the sale of all of it.
KeepsRow(k)   == /\ UNCHANGED <<guard[k], rows[k], queued[k]>>
                 /\ guard[k] \in confirmed => guard[k] \in confirmed'
                 /\ k \in released' <=> k \in released
QueuesRow(k)  == /\ UNCHANGED <<guard[k], rows[k]>>
                 /\ guard[k] # 0 /\ guard[k] \in confirmed'
                 /\ guard[k] <= queued'[k] /\ queued'[k] <= lastId
                 /\ k \notin released'
ReleasesRow(k) == /\ UNCHANGED <<rows[k], queued[k]>>
                  /\ guard[k] \notin confirmed /\ guard'[k] = 0
                  /\ k \in released'
SettlesRow(k) == /\ UNCHANGED guard[k]
                 /\ guard[k] \in confirmed => guard[k] \in confirmed'
                 /\ rows'[k] = Reported(k) /\ queued'[k] = 0 /\ k \notin released'
BooksRow(k)   == /\ guard'[k] = 0 /\ rows'[k] = NoRow /\ UNCHANGED queued[k]
                 /\ k \notin released'

RowStep ==
    /\ UNCHANGED lastId
    /\ \A k \in Keys :
         /\ Entering(k)' <=> Entering(k)
         /\ \/ KeepsRow(k) \/ QueuesRow(k) \/ SettlesRow(k)
            \/ ~Entering(k) /\ (ReleasesRow(k) \/ BooksRow(k))
    /\ released' # {} => pc' \in Asking
    /\ pc' = "record" => pc = "record" /\ UNCHANGED key

LEMMA RowStepKeeps ==
    ASSUME TypeInv, TypeInv', BookInv, RowsInv, RowStep
    PROVE  RowsInv'
<1> USE DEF RowsInv
<1>1. /\ guard \in [Keys -> 0..MaxOrders] /\ lastId \in 0..MaxOrders
      /\ queued \in [Keys -> 0..MaxOrders] /\ queued' \in [Keys -> 0..MaxOrders]
      /\ rows \in [Keys -> [order : 0..MaxOrders, by : 0..MaxOrders]]
      /\ key \in Keys
  BY DEF TypeInv, TypeOK, TypeBook, TypeVenue, TypeReports, TypeLoop
<1>2. ASSUME NEW k \in Keys
      PROVE  /\ RowMatches(k)'
             /\ Entering(k)' => guard'[k] = lastId
             /\ queued'[k] <= lastId
             /\ pc' = "record" /\ k = key => queued'[k] # lastId
  <2>1. /\ Entering(k)' <=> Entering(k)
        /\ RowMatches(k) /\ (Entering(k) => guard[k] = lastId) /\ queued[k] <= lastId
        /\ k \in released' => pc' \in Asking
        /\ pc' = "record" => pc = "record" /\ key' = key
        /\ pc = "record" => queued[key] # lastId /\ guard[key] = 0 /\ lastId # 0
    BY DEF RowStep, BookInv, KeyFree, TypeInv, PlacedOne
  <2>2. /\ guard[k] \in Int /\ queued[k] \in Int /\ queued'[k] \in Int /\ lastId \in Int
        /\ lastId >= 0
        /\ rows[k].order \in Int /\ rows[k].by \in Int
    BY <1>1
  <2>3. CASE KeepsRow(k)
    BY <2>1, <2>2, <2>3 DEF KeepsRow, RowMatches
  <2>4. CASE QueuesRow(k)
    BY <2>1, <2>2, <2>4 DEF QueuesRow, RowMatches
  <2>5. CASE ~Entering(k) /\ ReleasesRow(k)
    BY <2>1, <2>2, <2>5 DEF ReleasesRow, RowMatches
  <2>6. CASE SettlesRow(k)
    <3>1. rows[k] = [order |-> rows[k].order, by |-> rows[k].by]
      BY <1>1
    <3>2. /\ Reported(k).order \in {0, rows[k].order}
          /\ Reported(k).order = 0 /\ rows[k].order # 0 => k \in released
          /\ Reported(k).order # 0 =>
               /\ Reported(k).order = rows[k].order
               /\ Reported(k).by = IF queued[k] # 0 THEN queued[k] ELSE rows[k].by
               /\ k \in released => rows[k].by # 0
      BY <3>1 DEF Reported, NoRow
    <3> DEFINE r == Reported(k)
    <3> HIDE DEF r
    <3>3. /\ guard'[k] = guard[k] /\ (guard[k] \in confirmed => guard[k] \in confirmed')
          /\ rows'[k] = r /\ queued'[k] = 0 /\ k \notin released'
      BY <2>6 DEF SettlesRow, r
    <3>4. /\ r.order \in {0, rows[k].order}
          /\ r.order = 0 /\ rows[k].order # 0 => k \in released
          /\ r.order # 0 => /\ r.by = IF queued[k] # 0 THEN queued[k] ELSE rows[k].by
                            /\ k \in released => rows[k].by # 0
      BY <3>2 DEF r
    <3>5. ~Entering(k) => IF guard[k] # 0 THEN r.order = guard[k]
                          ELSE r.order = 0 \/ r.by \notin {0, r.order}
      BY <2>1, <2>2, <3>4 DEF RowMatches
    <3>6. r.order # 0 /\ r.by = r.order => guard[k] = r.order /\ guard[k] \in confirmed
      BY <2>1, <2>2, <3>4 DEF RowMatches
    <3>7. RowMatches(k)'
      BY <2>1, <3>3, <3>5, <3>6 DEF RowMatches
    <3> QED BY <2>1, <2>2, <3>3, <3>7
  <2>7. CASE ~Entering(k) /\ BooksRow(k)
    BY <2>1, <2>2, <2>7 DEF BooksRow, RowMatches, NoRow
  <2> QED BY <2>3, <2>4, <2>5, <2>6, <2>7 DEF RowStep
<1>3. UNCHANGED lastId /\ (pc' = "record" => UNCHANGED key)
  BY DEF RowStep
<1> QED BY <1>1, <1>2, <1>3

\* Outside the loops that ask the venue no release waits to be reported.
LEMMA NoneReleased ==
    ASSUME TypeInv, RowsInv, pc \notin Asking
    PROVE  released = {}
BY DEF TypeInv, TypeOK, TypeReports, RowsInv, RowMatches

LEMMA ConfirmedHasId ==
    ASSUME TypeInv, QuoteInv, NEW j \in Keys, NEW k \in Keys, j # k, guard[k] \in confirmed
    PROVE  guard[k] # guard[j]
<1>1. guard[k] # 0
  BY DEF TypeInv, TypeOK, TypeBook
<1> QED BY <1>1 DEF QuoteInv, OwnKey

\* A step that leaves the rows, the guards and the reports alone.
LEMMA RowsQuiet ==
    ASSUME TypeInv, UNCHANGED <<lastId, guard, rows, queued, released>>,
           confirmed \subseteq confirmed', released # {} => pc' \in Asking,
           \/ UNCHANGED <<pc, key>>
           \/ {pc, pc'} \cap {"record", "confirm", "track", "row"} = {}
           \/ (UNCHANGED key /\ {pc, pc'} \subseteq {"confirm", "track", "row"})
    PROVE  RowStep
<1>1. \A k \in Keys : Entering(k)' <=> Entering(k)
  BY DEF Entering
<1>2. pc' = "record" => pc = "record" /\ UNCHANGED key
  OBVIOUS
<1> QED BY <1>1, <1>2 DEF RowStep, KeepsRow

LEMMA RowsOpen ==
    ASSUME TypeInv, RowsInv,
           \/ \E k \in Keys : Pull(k) \/ Exit(k) \/ Flatten(k)
           \/ \E known \in BOOLEAN : BeginReconcile(known)
           \/ Rotate \/ Retire \/ Leave
    PROVE  RowStep
<1>1. /\ UNCHANGED <<lastId, guard, rows, queued, released, confirmed>>
      /\ pc \in {"idle", "flatten"} /\ pc' \in {"pull", "sell", "reconcile", "cancelAll"}
  BY DEF Pull, Exit, Flatten, BeginExit, BeginReconcile, Rotate, Retire, Leave, BeginCancelAll,
     Start, bookVars, venueVars, reportVars
<1>2. released = {}
  BY <1>1, NoneReleased DEF Asking
<1> QED BY <1>1, <1>2, RowsQuiet

LEMMA RowsStay ==
    ASSUME TypeInv, RowsInv,
           \/ ConfirmGuard \/ Track \/ Forget \/ CheckHolds \/ CheckTracks \/ Retry \/ Depart
           \/ (\E m \in 0..Q : Sell(m)) \/ \E m \in 1..Q : SellUnheard(m)
    PROVE  RowStep
<1>1. /\ UNCHANGED <<lastId, guard, rows, queued, released>> /\ confirmed \subseteq confirmed'
      /\ pc \notin {"pull", "reconcile", "cancelAll", "record", "row"}
      /\ \/ UNCHANGED key /\ {pc, pc'} \subseteq {"confirm", "track", "row"}
         \/ {pc, pc'} \cap {"record", "confirm", "track", "row"} = {}
  BY DEF ConfirmGuard, Track, Forget, CheckHolds, CheckTracks, Retry, Depart, Sell, SellUnheard,
     Goto, Finish, bookVars, venueVars, reportVars
<1>2. released = {}
  BY <1>1, NoneReleased DEF Asking
<1> QED BY <1>1, <1>2, RowsQuiet

\* What an answer about a placed order does to the rows.
LEMMA EffectOnRows ==
    ASSUME TypeInv, QuoteInv, RowsInv, NEW o \in 1..lastId, NEW n,
           LeaveGuard \/ SizeAndConfirm(o, n) \/ (ReleaseQuote(o) /\ pc \in Asking),
           UNCHANGED <<lastId, rows, pc, key>>
    PROVE  RowStep
<1>1. /\ guard \in [Keys -> 0..MaxOrders] /\ queued \in [Keys -> 0..MaxOrders]
      /\ released \subseteq Keys /\ lastId \in 0..MaxOrders /\ okey \in [Ids -> Keys]
      /\ o \in Ids /\ o <= lastId
  <2>1. lastId \in 0..MaxOrders
    BY DEF TypeInv, TypeOK, TypeVenue
  <2>2. o \in Ids /\ o <= lastId
    BY <2>1
  <2> QED BY <2>1, <2>2 DEF TypeInv, TypeOK, TypeBook, TypeVenue, TypeReports
<1>2. okey[o] \in Keys /\ (\A k \in Keys : Entering(k)' <=> Entering(k))
  BY <1>1 DEF Entering
<1>3. released # {} => pc \in Asking
  BY NoneReleased
<1>4. CASE LeaveGuard
  BY <1>3, <1>4, RowsQuiet DEF LeaveGuard, bookVars
<1>5. CASE SizeAndConfirm(o, n) /\ ~LeaveGuard
  <2> PICK j \in Keys : j = okey[o]
    BY <1>2
  <2>1. /\ guard[j] # 0 /\ guard[j] <= o
        /\ confirmed' = confirmed \cup {guard[j]} /\ queued' = [queued EXCEPT ![j] = o]
        /\ UNCHANGED <<guard, released>>
    BY <1>5 DEF SizeAndConfirm, OwnsGuard
  <2>2. j \notin released
    BY <1>2, <2>1 DEF RowsInv, RowMatches
  <2>3. QueuesRow(j)
    BY <1>1, <1>2, <2>1, <2>2 DEF QueuesRow
  <2>4. \A k \in Keys \ {j} : KeepsRow(k)
    BY <1>1, <2>1 DEF KeepsRow
  <2> QED BY <1>2, <1>3, <2>1, <2>3, <2>4 DEF RowStep
<1>6. CASE ReleaseQuote(o) /\ pc \in Asking /\ ~LeaveGuard
  <2> PICK j \in Keys : j = okey[o]
    BY <1>2
  <2>1. /\ guard[j] # 0 /\ guard[j] \notin confirmed
        /\ guard' = [guard EXCEPT ![j] = 0] /\ confirmed' = confirmed \ {guard[j]}
        /\ released' = released \cup {j} /\ UNCHANGED queued
    BY <1>6 DEF ReleaseQuote, RemoveGuard
  <2>2. ReleasesRow(j) /\ ~Entering(j)
    BY <1>1, <1>2, <1>6, <2>1 DEF ReleasesRow, Entering, Asking
  <2>3. \A k \in Keys \ {j} : KeepsRow(k)
    BY <1>1, <2>1 DEF KeepsRow
  <2> QED BY <1>2, <1>6, <2>2, <2>3 DEF RowStep, Asking
<1> QED BY <1>4, <1>5, <1>6

LEMMA RowsAsk ==
    ASSUME TypeInv, QuoteInv, RowsInv, NEW o \in Ids,
           PullOrder(o) \/ CancelAllOrder(o) \/ ReconcileOrder(o)
    PROVE  RowStep
<1>1. /\ o \in 1..lastId /\ pc \in Asking /\ UNCHANGED <<lastId, rows, pc, key>>
  BY DEF PullOrder, CancelAllOrder, ReconcileOrder, CancelAsk, First, Asking, QuoteInv, PlacedIds
<1>2. \E n : LeaveGuard \/ SizeAndConfirm(o, n) \/ ReleaseQuote(o)
  <2>1. ASSUME NEW n, SizeIfAny(o, n)
        PROVE  LeaveGuard \/ SizeAndConfirm(o, n)
    BY <2>1 DEF SizeIfAny
  <2>2. Grace(o) => LeaveGuard \/ ReleaseQuote(o)
    BY DEF Grace
  <2>3. ASSUME NEW part, SeenWorking(o, part)
        PROVE  \E n : LeaveGuard \/ SizeAndConfirm(o, n) \/ ReleaseQuote(o)
    <3>1. (\E n : SizeIfAny(o, n)) \/ ReleaseQuote(o)
      BY <2>3 DEF SeenWorking, KeepWorking, CancelStale
    <3> QED BY <2>1, <3>1
  <2>4. CASE PullOrder(o) \/ CancelAllOrder(o)
    <3>1. \E ok, a : GuardEffect(o, ok, a)
      BY <2>4 DEF PullOrder, CancelAllOrder, CancelAsk
    <3> QED BY <3>1 DEF GuardEffect
  <2>5. CASE AskCancelled(o) \/ WaitBlind(o)
    BY <2>2, <2>5 DEF AskCancelled, WaitBlind
  <2>6. CASE Listed(o)
    BY <2>3, <2>6 DEF Listed
  <2>7. CASE Vanished(o)
    <3>1. \/ \E part : SeenWorking(o, part)
          \/ (\E n : SizeAndConfirm(o, n)) \/ ReleaseQuote(o) \/ Grace(o)
      BY <2>7 DEF Vanished
    <3> QED BY <2>2, <2>3, <3>1
  <2> QED BY <2>4, <2>5, <2>6, <2>7 DEF ReconcileOrder
<1> QED BY <1>1, <1>2, EffectOnRows

LEMMA RowsEnd ==
    ASSUME TypeInv, QuoteInv, RowsInv, PullDone \/ ExitDecide \/ EndReconcile \/ EndCancelAll
    PROVE  RowStep
<1>1. /\ SettleReports /\ pc \in Asking /\ UNCHANGED lastId
      /\ pc' \notin {"record", "confirm", "track", "row"}
  BY DEF PullDone, ExitDecide, EndReconcile, EndCancelAll, Asking, Goto, Finish, venueVars
<1>2. UNCHANGED <<guard, confirmed>>
  <2>1. CASE PullDone
    <3>1. ~RestingFor(key) /\ guard[key] # 0 => guard[key] \in confirmed
      BY <2>1, UntrackedIsConfirmed DEF PullDone, Recording, TypeInv, TypeOK, TypeLoop
    <3> QED BY <2>1, <3>1 DEF PullDone, bookVars
  <2>2. CASE ExitDecide \/ EndReconcile \/ EndCancelAll
    BY <2>2 DEF ExitDecide, EndReconcile, EndCancelAll, bookVars
  <2> QED BY <2>1, <2>2
<1>3. \A k \in Keys : (Entering(k)' <=> Entering(k)) /\ SettlesRow(k)
  BY <1>1, <1>2 DEF Entering, Asking, SettleReports, SettlesRow
<1> QED BY <1>1, <1>3 DEF RowStep, SettleReports

LEMMA RowsBook ==
    ASSUME TypeInv, QuoteInv, RowsInv, Book
    PROVE  RowStep
<1>1. /\ pc = "book" /\ pc' \in {"forget", "flatten", "idle"}
      /\ UNCHANGED <<lastId, queued, released>>
  BY DEF Book, Goto, Finish, venueVars
<1>2. released = {}
  BY <1>1, NoneReleased DEF Asking
<1>3. CASE UNCHANGED <<guard, confirmed, rows>>
  BY <1>1, <1>2, <1>3, RowsQuiet
<1>4. CASE RemoveGuard(key) /\ rows' = [rows EXCEPT ![key] = NoRow]
  <2>1. /\ guard \in [Keys -> 0..MaxOrders] /\ key \in Keys
        /\ rows \in [Keys -> [order : 0..MaxOrders, by : 0..MaxOrders]]
    BY DEF TypeInv, TypeOK, TypeBook, TypeLoop, TypeReports
  <2>2. ASSUME NEW k \in Keys, k = key
        PROVE  BooksRow(k)
    BY <1>1, <1>2, <1>4, <2>1, <2>2 DEF BooksRow, RemoveGuard
  <2>3. ASSUME NEW k \in Keys \ {key}
        PROVE  KeepsRow(k)
    <3>1. guard[k] \in confirmed => guard[k] # guard[key]
      BY <2>1, <2>3, ConfirmedHasId
    <3> QED BY <1>1, <1>4, <2>1, <3>1 DEF KeepsRow, RemoveGuard
  <2>4. \A k \in Keys : ~Entering(k)' /\ ~Entering(k)
    BY <1>1 DEF Entering
  <2> QED BY <1>1, <1>2, <2>2, <2>3, <2>4 DEF RowStep
<1> QED BY <1>3, <1>4 DEF Book

LEMMA RowsBeside ==
    ASSUME TypeInv, QuoteInv, RowsInv,
           \/ ListenerSteps \/ Events
           \/ Venue \/ (\E o \in Ids : Age(o)) \/ Stopped \/ UNCHANGED vars
    PROVE  RowStep
<1>1. UNCHANGED <<lastId, rows, pc, key>>
  BY DEF ListenerSteps, Events, ConfirmUntracked, SizeTracked, UntrackFilled, TrackedFill,
     UntrackedFill, Venue, Trade, Expire, Age, Stopped, vars, venueVars, loopVars, reportVars
<1>2. released # {} => pc \in Asking
  BY NoneReleased
<1>3. CASE SizeTracked
  <2>1. SizeAndConfirm(lid, lcount) /\ lid \in 1..lastId
    BY <1>3 DEF SizeTracked, QuoteInv, PlacedIds
  <2> QED BY <1>1, <2>1, EffectOnRows
<1>4. CASE ~SizeTracked
  <2>1. UNCHANGED <<guard, queued, released>> /\ confirmed \subseteq confirmed'
    BY <1>4 DEF ListenerSteps, Events, ConfirmUntracked, UntrackFilled, TrackedFill, UntrackedFill,
       Venue, Trade, Expire, Age, Stopped, vars, bookVars, reportVars
  <2> QED BY <1>1, <1>2, <2>1, RowsQuiet
<1> QED BY <1>3, <1>4

LEMMA RowsRecorded ==
    ASSUME TypeInv, BookInv, RowsInv, RecordGuard
    PROVE  RowsInv'
<1> USE DEF RowsInv
<1>1. /\ guard \in [Keys -> 0..MaxOrders] /\ key \in Keys /\ lastId \in Ids
      /\ rows \in [Keys -> [order : 0..MaxOrders, by : 0..MaxOrders]]
  BY DEF TypeInv, TypeOK, TypeBook, TypeLoop, TypeReports, PlacedOne, RecordGuard
<1>2. /\ guard' = [guard EXCEPT ![key] = lastId] /\ guard[key] = 0
      /\ UNCHANGED <<lastId, rows, queued, released, confirmed, key>>
      /\ pc = "record" /\ pc' \in {"confirm", "track"} /\ queued[key] # lastId
  BY DEF RecordGuard, Goto, venueVars, reportVars, BookInv, KeyFree
<1>3. released = {}
  BY <1>2, NoneReleased DEF Asking
<1>4. ASSUME NEW k \in Keys
      PROVE  RowMatches(k)' /\ (Entering(k)' => guard'[k] = lastId)
  <2>1. RowMatches(k) /\ ~Entering(k)
    BY <1>2 DEF Entering
  <2>2. CASE k = key
    BY <1>1, <1>2, <1>3, <2>1, <2>2 DEF RowMatches, Entering
  <2>3. CASE k # key
    BY <1>1, <1>2, <1>3, <2>1, <2>3 DEF RowMatches, Entering
  <2> QED BY <2>2, <2>3
<1> QED BY <1>2, <1>4

LEMMA RowsEntered ==
    ASSUME TypeInv, RowsInv, RecordEntry
    PROVE  RowsInv'
<1> USE DEF RowsInv
<1>1. /\ key \in Keys /\ lastId \in Ids
      /\ rows \in [Keys -> [order : 0..MaxOrders, by : 0..MaxOrders]]
  BY DEF TypeInv, TypeOK, TypeLoop, TypeReports, PlacedOne, RecordEntry
<1>2. /\ rows' = [rows EXCEPT ![key] = [order |-> lastId, by |-> 0]]
      /\ UNCHANGED <<lastId, guard, queued, released, confirmed>>
      /\ pc = "row" /\ pc' \in {"idle", "flatten"} /\ guard[key] = lastId
  BY <1>1 DEF RecordEntry, Finish, venueVars, bookVars, Entering
<1>3. released = {}
  BY <1>2, NoneReleased DEF Asking
<1>4. ASSUME NEW k \in Keys
      PROVE  RowMatches(k)' /\ ~Entering(k)'
  <2>1. RowMatches(k) /\ (k # key => ~Entering(k))
    BY DEF Entering
  <2>2. CASE k = key
    BY <1>1, <1>2, <1>3, <2>1, <2>2 DEF RowMatches, Entering
  <2>3. CASE k # key
    BY <1>1, <1>2, <1>3, <2>1, <2>3 DEF RowMatches, Entering
  <2> QED BY <2>2, <2>3
<1> QED BY <1>2, <1>4

LEMMA RowsPlaced ==
    ASSUME TypeInv, RowsInv, Places
    PROVE  RowsInv'
<1> USE DEF RowsInv
<1>1. /\ UNCHANGED <<guard, rows, queued, released, confirmed>>
      /\ pc = "idle" /\ pc' \in {"idle", "record"} /\ lastId' = lastId + 1
  BY DEF Places, PlaceLost, Place, MayPlace, NewOrder, Start, bookVars, reportVars, loopVars
<1>2. released = {}
  BY <1>1, NoneReleased DEF Asking
<1>3. ASSUME NEW k \in Keys
      PROVE  /\ RowMatches(k)' /\ ~Entering(k)'
             /\ queued'[k] <= lastId' /\ queued'[k] # lastId'
  <2>1. queued[k] \in Int /\ lastId \in Int /\ queued[k] <= lastId
    BY DEF TypeInv, TypeOK, TypeVenue, TypeReports
  <2>2. RowMatches(k) /\ ~Entering(k) /\ ~Entering(k)'
    BY <1>1 DEF Entering
  <2>3. RowMatches(k)'
    BY <1>1, <1>2, <2>2 DEF RowMatches
  <2> QED BY <1>1, <2>1, <2>2, <2>3
<1>4. key' \in Keys
  BY DEF Places, Place, PlaceLost, Start, loopVars, TypeInv, TypeOK, TypeLoop
<1> QED BY <1>1, <1>3, <1>4

LEMMA RowsKept ==
    ASSUME BookedInv, BookedInv', RowsInv, [Next]_vars
    PROVE  RowsInv'
<1> USE DEF BookedInv
<1>1. CASE LoopStarts
  BY <1>1, RowsPlaced, RowsOpen, RowStepKeeps DEF LoopStarts, Places
<1>2. CASE LoopSteps
  BY <1>2, RowsRecorded, RowsEntered, RowsOpen, RowsStay, RowsAsk, RowsEnd, RowsBook,
     RowStepKeeps DEF LoopSteps
<1>3. CASE \/ ListenerSteps \/ Events \/ Venue \/ (\E o \in Ids : Age(o)) \/ Stopped
           \/ UNCHANGED vars
  BY <1>3, RowsBeside, RowStepKeeps
<1> QED BY <1>1, <1>2, <1>3 DEF Next

\* Between operations a guard has the row its own placement wrote, and a row
\* without a guard is one that another order's late figure confirmed: no
\* interleaving of record_entry, the queued figures and the releases orphans a row.
THEOREM RowsAreGuarded == Spec => []RowsFollowGuards
<1>1. RowsInv /\ BookedInv => RowsFollowGuards
  BY NoneReleased DEF BookedInv, RowsInv, RowMatches, Entering, Asking, RowsFollowGuards
<1>2. BookedInv /\ BookedInv' /\ RowsInv /\ [Next]_vars => RowsInv'
  BY RowsKept
<1> QED BY <1>1, <1>2, RowsInit, BookedAlways, PTL DEF Spec

=============================================================================
