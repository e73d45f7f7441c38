-------------------------- MODULE Squadrons_proofs --------------------------
(***************************************************************************)
(* The deployment queue and the registry agree with the tasks that trade,  *)
(* for every number of rows, markets, names and requests, and over any     *)
(* number of restarts.                                                     *)
(***************************************************************************)
EXTENDS Squadrons, FiniteSetTheorems, TLAPS

USE IdsAssumption, BoundsAssumption

-----------------------------------------------------------------------------
(* Tasks *)

\* A task is a row's.
LEMMA TaskOfRow ==
    /\ \A t \in Tasks : t[1] \in Rows
    /\ \A r \in Rows, n \in 1 .. MaxTasks : <<r, n>> \in Tasks /\ <<r, n>>[1] = r
  BY DEF Tasks

-----------------------------------------------------------------------------
(* Types *)

LEMMA TypeInit == Init => TypeOK
<1> SUFFICES ASSUME Init PROVE TypeOK
  OBVIOUS
<1>1. rows \in [Rows -> Row] /\ task \in [Tasks -> Task]
  BY DEF Init, NewRow, Row, Status, NoTask, Task
<1>2. hist \in Histories
  BY DEF Init, Histories
<1>3. registry \in [Ids -> Entry \cup {NoEntry}]
  BY DEF Init
<1>4. requests \in 0 .. MaxRequests /\ restarts \in 0 .. MaxRestarts
  BY DEF Init
<1> QED BY <1>1, <1>2, <1>3, <1>4 DEF Init, TypeOK

LEMMA MarkedType ==
    ASSUME TypeOK, NEW r \in Rows, NEW s \in Status
    PROVE  Marked(r, s) \in [Rows -> Row]
<1>1. rows \in [Rows -> Row]
  BY DEF TypeOK
<1>2. [rows[r] EXCEPT !.status = s] \in Row
  BY <1>1 DEF Row
<1> QED BY <1>1, <1>2 DEF Marked

\* A mark changes one row's status and nothing else of any row.
LEMMA MarkedRow ==
    ASSUME TypeOK, NEW r \in Rows, NEW s \in Status, rows' = Marked(r, s)
    PROVE  /\ rows'[r].status = s
           /\ \A q \in Rows : rows'[q].id = rows[q].id /\ rows'[q].seeded = rows[q].seeded
           /\ \A q \in Rows \ {r} : rows'[q] = rows[q]
<1>1. rows \in [Rows -> Row] /\ rows[r] \in Row
  BY DEF TypeOK
<1>2. /\ rows'[r] = [rows[r] EXCEPT !.status = s]
      /\ \A q \in Rows \ {r} : rows'[q] = rows[q]
  BY <1>1 DEF Marked
<1>3. rows'[r].status = s /\ rows'[r].id = rows[r].id /\ rows'[r].seeded = rows[r].seeded
  BY <1>1, <1>2 DEF Row
<1> QED BY <1>2, <1>3

LEMMA CancelledType ==
    ASSUME TypeOK, NEW R
    PROVE  Cancelled(R) \in [Tasks -> Task]
<1>1. ASSUME NEW t \in Tasks
      PROVE  task[t] \in Task /\ [task[t] EXCEPT !.cancelled = TRUE] \in Task
  <2>1. task[t] \in Task
    BY DEF TypeOK
  <2> QED BY <2>1 DEF Task
<1> QED BY <1>1 DEF Cancelled

\* A cancelled task stands where it stood.
LEMMA CancelledKeeps ==
    ASSUME TypeOK, NEW R, NEW t \in Tasks
    PROVE  /\ Cancelled(R)[t].pc = task[t].pc
           /\ Cancelled(R)[t].cancelled = (task[t].cancelled \/ t \in R)
<1>1. task[t] \in Task
  BY DEF TypeOK
<1> QED BY <1>1 DEF Cancelled, Task

\* A task moves on: it keeps its token, and no other task moves.
LEMMA GoesType ==
    ASSUME TypeOK, NEW t \in Tasks,
           NEW pc \in {"none", "resolving", "recording", "flying", "done", "tail"}, Goes(t, pc)
    PROVE  /\ task' \in [Tasks -> Task]
           /\ task'[t] = [pc |-> pc, cancelled |-> task[t].cancelled]
           /\ \A u \in Tasks \ {t} : task'[u] = task[u]
<1>1. task \in [Tasks -> Task] /\ task[t] \in Task
  BY DEF TypeOK
<1>2. /\ [task[t] EXCEPT !.pc = pc] = [pc |-> pc, cancelled |-> task[t].cancelled]
      /\ [task[t] EXCEPT !.pc = pc] \in Task
  BY <1>1 DEF Task
<1> QED BY <1>1, <1>2 DEF Goes

\* A task is replaced by another state of its own.
LEMMA TaskSet ==
    ASSUME TypeOK, NEW t \in Tasks, NEW s \in Task, task' = [task EXCEPT ![t] = s]
    PROVE  task' \in [Tasks -> Task] /\ task'[t] = s /\ \A u \in Tasks \ {t} : task'[u] = task[u]
  BY DEF TypeOK

LEMMA EntryType ==
    ASSUME TypeOK, NEW id \in Ids
    PROVE  /\ registry[id] \in Entry \cup {NoEntry}
           /\ Registered(id) => registry[id] \in Entry /\ registry[id].task \in Tasks
           /\ \A s \in {"live", "down"} : Stated(id, s) \in [Ids -> Entry \cup {NoEntry}]
           /\ RetiredEntry(id) \in [Ids -> Entry \cup {NoEntry}]
<1>1. registry \in [Ids -> Entry \cup {NoEntry}] /\ registry[id] \in Entry \cup {NoEntry}
  BY DEF TypeOK
<1>2. Registered(id) => registry[id] \in Entry /\ registry[id].task \in Tasks
  BY <1>1 DEF Registered, Entry
<1>3. ASSUME NEW s \in {"live", "down"}, NEW b \in BOOLEAN, Registered(id)
      PROVE  [registry EXCEPT ![id].state = s, ![id].stamped = b] \in [Ids -> Entry \cup {NoEntry}]
  <2>1. [registry[id] EXCEPT !.state = s, !.stamped = b] \in Entry
    BY <1>2, <1>3 DEF Entry
  <2> QED BY <1>1, <2>1
<1>4. ASSUME NEW s \in {"live", "down"}
      PROVE  Stated(id, s) \in [Ids -> Entry \cup {NoEntry}]
  <2>1. Registered(id) => (registry[id].stamped /\ s = "down") \in BOOLEAN
    OBVIOUS
  <2>2. Registered(id) => Stated(id, s) =
          [registry EXCEPT ![id].state = s, ![id].stamped = (registry[id].stamped /\ s = "down")]
    BY DEF Stated
  <2> QED BY <1>1, <1>3, <2>1, <2>2 DEF Stated
<1>5. RetiredEntry(id) \in [Ids -> Entry \cup {NoEntry}]
  <2>1. TRUE \in BOOLEAN
    OBVIOUS
  <2> QED BY <1>1, <1>3, <2>1 DEF RetiredEntry
<1> QED BY <1>1, <1>2, <1>4, <1>5

LEMMA HistoryType ==
    ASSUME TypeOK, NEW b \in BOOLEAN
    PROVE  /\ [hist EXCEPT !.down = b] \in Histories
           /\ [hist EXCEPT !.twice = b] \in Histories
           /\ [hist EXCEPT !.shared = {}, !.overtaken = {}, !.forced = {}] \in Histories
           /\ \A R, Q \in SUBSET Rows :
                [hist EXCEPT !.retried = @ \cup R, !.forced = @ \cup Q] \in Histories
           /\ \A Q \in SUBSET Rows : [hist EXCEPT !.forced = @ \cup Q] \in Histories
           /\ \A I, J \in SUBSET Ids :
                [hist EXCEPT !.shared = @ \cup I, !.overtaken = @ \cup J] \in Histories
           /\ \A r \in Rows : Forgotten(r) \in Histories
  BY DEF TypeOK, Histories, Forgotten

\* A start takes a task of the row that nothing uses.
LEMMA StartDoes ==
    ASSUME TypeOK, Start
    PROVE  /\ proc = "drain" /\ cur \in Rows /\ cur' = None
           /\ rows' = Marked(cur, "active")
           /\ hist' = [hist EXCEPT !.twice = @ \/ (Manned(cur) /\ cur \notin hist.forced)]
           /\ \E t \in Tasks : /\ t[1] = cur /\ Unused(t)
                               /\ task' = [task EXCEPT ![t] = [pc |-> "resolving", cancelled |-> FALSE]]
           /\ UNCHANGED <<switch, retired, registry, proc, cand, empty, batch, sd, rm, prep, requests, restarts>>
<1>1. cur \in Rows
  BY DEF Start, TypeOK
<1>2. PICK n \in 1 .. MaxTasks :
        Unused(<<cur, n>>) /\ task' = [task EXCEPT ![<<cur, n>>] = [pc |-> "resolving", cancelled |-> FALSE]]
  BY DEF Start
<1>3. <<cur, n>> \in Tasks /\ <<cur, n>>[1] = cur
  BY <1>1, TaskOfRow
<1> QED BY <1>1, <1>2, <1>3 DEF Start

\* A failed task leaves its row marked, off the queue.
LEMMA FailsDoes ==
    ASSUME TypeOK, NEW t \in Tasks, Fails(t)
    PROVE  /\ task[t].pc = "resolving" /\ task' = [task EXCEPT ![t] = NoTask]
           /\ \E s \in {"failed", "completed"} : rows' = Marked(t[1], s)
           /\ UNCHANGED <<switch, retired, registry, reader, sd, rm, prep, requests, restarts, hist>>
  BY DEF Fails, At

LEMMA TypeStep == TypeOK /\ [Next]_vars => TypeOK'
<1> SUFFICES ASSUME TypeOK, [Next]_vars PROVE TypeOK'
  OBVIOUS
<1> USE DEF TypeOK, NoEntry
<1>1. ASSUME NEW r \in Rows, NEW m \in Markets, NEW id \in Ids, Deploy(r, m, id)
      PROVE  TypeOK'
  <2>1. [status |-> "pending", market |-> m, id |-> id, seeded |-> FALSE] \in Row
    BY DEF Row, Status, Unfinished
  <2>2. rows' \in [Rows -> Row]
    BY <1>1, <2>1 DEF Deploy, Inserted
  <2>3. hist' \in Histories
    BY <1>1, HistoryType DEF Deploy
  <2>4. requests' \in 0 .. MaxRequests
    BY <1>1 DEF Deploy, Asks
  <2> QED BY <1>1, <2>2, <2>3, <2>4 DEF Deploy, reader
<1>2. ASSUME NEW id \in Ids, StandDown(id)
      PROVE  TypeOK'
  <2>1. (hist.down \/ Downs(id)) \in BOOLEAN /\ (switch /\ id \notin ClassIds) \in BOOLEAN
    BY DEF Histories, Downs
  <2>2. hist' = [hist EXCEPT !.down = (hist.down \/ Downs(id))]
    BY <1>2 DEF StandDown
  <2>3. hist' \in Histories
    BY <2>1, <2>2, HistoryType
  <2>4. requests' \in 0 .. MaxRequests
    BY <1>2 DEF StandDown, Asks
  <2> QED BY <1>2, <2>1, <2>3, <2>4 DEF StandDown, reader
<1>3. CASE StandDownCancels
  <2>1. sd' = None /\ rm' \in Ids \cup {None}
        /\ UNCHANGED <<queue, registry, reader, prep, requests, restarts, hist>>
    BY <1>3 DEF StandDownCancels
  <2>2. task' \in [Tasks -> Task]
    <3>1. task' = task \/ \E R : task' = Cancelled(R)
      BY <1>3 DEF StandDownCancels
    <3> QED BY <3>1, CancelledType
  <2> QED BY <2>1, <2>2 DEF queue, reader
<1>4. CASE StandDownRemoves
  <2>1. registry' \in [Ids -> Entry \cup {NoEntry}]
    BY <1>4 DEF StandDownRemoves
  <2> QED BY <1>4, <2>1 DEF StandDownRemoves, queue, reader
<1>5. CASE SwitchOn
  <2>1. hist' \in Histories
    BY <1>5, HistoryType DEF SwitchOn
  <2>2. requests' \in 0 .. MaxRequests
    BY <1>5 DEF SwitchOn, Asks
  <2> QED BY <1>5, <2>1, <2>2 DEF SwitchOn, reader
<1>6. ASSUME NEW r \in Rows, Retry(r)
      PROVE  TypeOK'
  <2>1. rows' \in [Rows -> Row]
    BY <1>6, MarkedType DEF Retry, Status, Unfinished
  <2>2. {q \in {r} : rows[q].seeded} \in SUBSET Rows /\ {q \in {r} : Manned(q)} \in SUBSET Rows
    OBVIOUS
  <2>3. hist' \in Histories
    BY <1>6, <2>2, HistoryType DEF Retry
  <2>4. requests' \in 0 .. MaxRequests
    BY <1>6 DEF Retry, Asks
  <2> QED BY <1>6, <2>1, <2>3, <2>4 DEF Retry, reader
<1>7. ASSUME NEW r \in Rows, Dismiss(r)
      PROVE  TypeOK'
  <2>1. rows' \in [Rows -> Row]
    BY <1>7, MarkedType DEF Dismiss, Status
  <2>2. {q \in {r} : Held(q)} \in SUBSET Rows
    OBVIOUS
  <2>3. hist' \in Histories
    BY <1>7, <2>2, HistoryType DEF Dismiss
  <2>4. requests' \in 0 .. MaxRequests
    BY <1>7 DEF Dismiss, Asks
  <2> QED BY <1>7, <2>1, <2>3, <2>4 DEF Dismiss, reader
<1>8. CASE Requeue
  <2>1. ASSUME NEW r \in Rows
        PROVE  [rows[r] EXCEPT !.status = "pending"] \in Row
    <3>1. rows[r] \in Row
      OBVIOUS
    <3> QED BY <3>1 DEF Row, Status, Unfinished
  <2>2. rows' \in [Rows -> Row]
    BY <1>8, <2>1 DEF Requeue
  <2> QED BY <1>8, <2>2 DEF Requeue
<1>9. CASE Tick
  BY <1>9 DEF Tick, queue, reader
<1>10. CASE ListLive
  <2>1. registry' \in [Ids -> Entry \cup {NoEntry}]
    BY <1>10 DEF ListLive
  <2> QED BY <1>10, <2>1 DEF ListLive, queue
<1>11. CASE ReadQueue
  BY <1>11 DEF ReadQueue, queue, reader
<1>12. ASSUME NEW r \in Rows, NEW m \in Markets, Select(r, m)
      PROVE  TypeOK'
  <2>1. [status |-> "pending", market |-> m, id |-> SeedId, seeded |-> TRUE] \in Row
    BY DEF Row, Status, Unfinished
  <2>2. rows' \in [Rows -> Row]
    BY <1>12, <2>1 DEF Select, Inserted
  <2>3. hist' \in Histories
    BY <1>12, HistoryType DEF Select
  <2> QED BY <1>12, <2>2, <2>3 DEF Select
<1>13. CASE SelectNothing
  BY <1>13 DEF SelectNothing, queue, reader
<1>14. CASE Fetch
  BY <1>14 DEF Fetch, queue, reader
<1>15. ASSUME NEW r \in Rows, Claim(r)
      PROVE  TypeOK'
  <2>1. rows' \in [Rows -> Row]
    BY <1>15, MarkedType DEF Claim, Claimed, Status, Unfinished
  <2> QED BY <1>15, <2>1 DEF Claim
<1>16. CASE Start
  <2>1. rows' \in [Rows -> Row]
    BY <1>16, StartDoes, MarkedType DEF Status, Unfinished
  <2>2. (hist.twice \/ (Manned(cur) /\ cur \notin hist.forced)) \in BOOLEAN
    BY DEF Manned
  <2>3. hist' = [hist EXCEPT !.twice = (hist.twice \/ (Manned(cur) /\ cur \notin hist.forced))]
    BY <1>16 DEF Start
  <2>4. hist' \in Histories
    BY <2>2, <2>3, HistoryType
  <2>5. [pc |-> "resolving", cancelled |-> FALSE] \in Task
    BY DEF Task
  <2>6. task' \in [Tasks -> Task]
    BY <1>16, <2>5, StartDoes, TaskSet
  <2> QED BY <1>16, <2>1, <2>4, <2>6, StartDoes
<1>17. CASE Drained
  BY <1>17 DEF Drained, queue, reader
<1>18. ASSUME NEW t \in Tasks, Fails(t)
      PROVE  TypeOK'
  <2>1. rows' \in [Rows -> Row]
    BY <1>18, FailsDoes, MarkedType, TaskOfRow DEF Status
  <2>2. NoTask \in Task
    BY DEF NoTask, Task
  <2>3. task' \in [Tasks -> Task]
    BY <1>18, <2>2, FailsDoes, TaskSet
  <2> QED BY <1>18, <2>1, <2>3, FailsDoes DEF reader
<1>19. ASSUME NEW t \in Tasks, Register(t)
      PROVE  TypeOK'
  <2>1. RowOf(t).id \in Ids
    BY TaskOfRow DEF Row, RowOf
  <2>2. task' \in [Tasks -> Task]
    BY <1>19, GoesType DEF Register
  <2>3. registry' \in [Ids -> Entry \cup {NoEntry}]
    <3>1. [task |-> t, state |-> "live", stamped |-> FALSE] \in Entry
      BY DEF Entry
    <3> QED BY <1>19, <2>1, <3>1 DEF Register
  <2>4. hist' \in Histories
    <3> DEFINE I == {i \in {RowOf(t).id} : \E u \in Tasks \ {t} : Past(u) /\ RowOf(u).id = i}
               J == {i \in {RowOf(t).id} : i = rm}
    <3>1. I \in SUBSET Ids /\ J \in SUBSET Ids
      BY <2>1
    <3>2. hist' = [hist EXCEPT !.shared = @ \cup I, !.overtaken = @ \cup J]
      BY <1>19 DEF Register
    <3> HIDE DEF I, J
    <3> QED BY <3>1, <3>2, HistoryType
  <2> QED BY <1>19, <2>2, <2>3, <2>4 DEF Register, queue, reader
<1>20. ASSUME NEW t \in Tasks, Record(t)
      PROVE  TypeOK'
  <2>1. RowOf(t).id \in Ids
    BY TaskOfRow DEF Row, RowOf
  <2>2. registry' \in [Ids -> Entry \cup {NoEntry}]
    BY <1>20, <2>1, EntryType DEF Record
  <2>3. task' \in [Tasks -> Task]
    BY <1>20, GoesType DEF Record
  <2> QED BY <1>20, <2>2, <2>3 DEF Record, queue, reader
<1>21. ASSUME NEW t \in Tasks, Close(t) \/ Leave(t)
      PROVE  TypeOK'
  <2>1. RowOf(t).id \in Ids
    BY TaskOfRow DEF Row, RowOf
  <2>2. registry' \in [Ids -> Entry \cup {NoEntry}]
    BY <1>21, <2>1, EntryType DEF Close, Leave, Ends
  <2>3. task' \in [Tasks -> Task]
    BY <1>21, GoesType DEF Close, Leave, Ends
  <2> QED BY <1>21, <2>2, <2>3 DEF Close, Leave, Ends, queue, reader
<1>22. ASSUME NEW t \in Tasks, Complete(t)
      PROVE  TypeOK'
  <2>1. rows' \in [Rows -> Row]
    BY <1>22, MarkedType, TaskOfRow DEF Complete, Status
  <2>2. [pc |-> "tail", cancelled |-> FALSE] \in Task
    BY DEF Task
  <2>3. task' \in [Tasks -> Task]
    BY <1>22, <2>2, TaskSet DEF Complete
  <2> QED BY <1>22, <2>1, <2>3 DEF Complete, reader
<1>23. ASSUME NEW t \in Tasks, Tail(t)
      PROVE  TypeOK'
  <2>1. RowOf(t).id \in Ids
    BY TaskOfRow DEF Row, RowOf
  <2>2. registry' \in [Ids -> Entry \cup {NoEntry}]
    BY <1>23, <2>1, EntryType DEF Tail, TailRegistry
  <2>3. NoTask \in Task
    BY DEF NoTask, Task
  <2>4. task' \in [Tasks -> Task]
    BY <1>23, <2>3, TaskSet DEF Tail
  <2> QED BY <1>23, <2>2, <2>4 DEF Tail, queue, reader
<1>24. CASE Retire
  <2>1. requests' \in 0 .. MaxRequests
    BY <1>24 DEF Retire, Asks
  <2> QED BY <1>24, <2>1 DEF Retire, reader
<1>25. CASE StandDownSquadrons
  <2>1. task' \in [Tasks -> Task]
    BY <1>25, CancelledType DEF StandDownSquadrons
  <2>2. prep' = FALSE /\ UNCHANGED <<queue, registry, reader, sd, rm, requests, restarts, hist>>
    BY <1>25 DEF StandDownSquadrons
  <2> QED BY <2>1, <2>2 DEF queue, reader
<1>26. CASE Resume
  <2>1. requests' \in 0 .. MaxRequests
    BY <1>26 DEF Resume, Asks
  <2> QED BY <1>26, <2>1 DEF Resume, reader
<1>27. CASE Restart
  <2>1. hist' \in Histories
    BY <1>27, HistoryType DEF Restart
  <2>2. restarts' \in 0 .. MaxRestarts
    BY <1>27 DEF Restart
  <2>3. task' \in [Tasks -> Task] /\ registry' \in [Ids -> Entry \cup {NoEntry}]
    BY <1>27 DEF Restart, NoTask, Task
  <2> QED BY <1>27, <2>1, <2>2, <2>3 DEF Restart, queue
<1>28. CASE UNCHANGED vars
  BY <1>28 DEF vars
<1> QED BY <1>1, <1>2, <1>3, <1>4, <1>5, <1>6, <1>7, <1>8, <1>9, <1>10, <1>11, <1>12, <1>13, <1>14, <1>15, <1>16, <1>17, <1>18, <1>19, <1>20, <1>21, <1>22, <1>23, <1>24, <1>25, <1>26, <1>27, <1>28
        DEF Next, Operator, Processor, Flight

\* The queue, the registry and the tasks keep their types.
THEOREM TypeCorrect == Spec => []TypeOK
  BY TypeInit, TypeStep, PTL DEF Spec

-----------------------------------------------------------------------------
(* The claim *)

\* Only the consumer's own marks tell a row it may start from one that flies: a
\* fetched row is pending, the claimed one is marked, and a task's row is active
\* until the task completes it.  A row forced keeps none of this.
ClaimInv ==
  /\ ~hist.twice
  /\ proc # "drain" => batch = {} /\ cur = None
  /\ proc = "boot" => \A t \in Tasks : ~Alive(t)
  /\ cur \notin batch
  /\ \A r \in Rows \ hist.forced : r \in batch \/ r = cur => rows[r].status \in {"pending", "processing"}
  /\ \A t \in Tasks : Alive(t) /\ t[1] \notin hist.forced =>
       RowOf(t).status = IF At(t, "tail") THEN "completed" ELSE "active"
  /\ \A t, u \in Tasks : Alive(t) /\ Alive(u) /\ t[1] = u[1] /\ t[1] \notin hist.forced => t = u

\* It is kept by what starts, ends, marks and fetches nothing.
LEMMA ClaimKept ==
    ASSUME ClaimInv, UNCHANGED <<rows, batch, cur>>,
           hist'.twice = hist.twice, hist'.forced = hist.forced,
           \A t \in Tasks : (Alive(t)' <=> Alive(t)) /\ (At(t, "tail")' <=> At(t, "tail")),
           proc' = "drain" \/ (batch = {} /\ cur = None), proc' # "boot" \/ proc = "boot"
    PROVE  ClaimInv'
  BY DEF ClaimInv, RowOf

\* Where only tokens are cancelled, no task moves.
LEMMA TokensOnly ==
    ASSUME TypeOK, StandDownCancels \/ StandDownSquadrons
    PROVE  /\ UNCHANGED <<queue, registry, reader, requests, restarts, hist>>
           /\ \A t \in Tasks : task'[t].pc = task[t].pc /\ (~task'[t].cancelled => ~task[t].cancelled)
<1>1. UNCHANGED <<queue, registry, reader, requests, restarts, hist>>
  BY DEF StandDownCancels, StandDownSquadrons
<1>2. task' = task \/ \E R : task' = Cancelled(R)
  BY DEF StandDownCancels, StandDownSquadrons
<1>3. ASSUME NEW R, task' = Cancelled(R), NEW t \in Tasks
      PROVE  task'[t].pc = task[t].pc /\ (~task'[t].cancelled => ~task[t].cancelled)
  BY <1>3, CancelledKeeps
<1> QED BY <1>1, <1>2, <1>3

\* A task that moves on within its flight.
LEMMA FlightMoves ==
    ASSUME TypeOK, NEW t \in Tasks, Register(t) \/ Record(t) \/ Close(t) \/ Leave(t)
    PROVE  /\ UNCHANGED <<queue, reader, rm>> /\ hist'.twice = hist.twice /\ hist'.forced = hist.forced
           /\ hist'.down = hist.down /\ hist'.retried = hist.retried
           /\ task[t].pc \in {"resolving", "recording", "flying"}
           /\ task'[t].pc \in {"recording", "flying", "done"} /\ task'[t].cancelled = task[t].cancelled
           /\ \A u \in Tasks \ {t} : task'[u] = task[u]
<1>1. CASE Register(t)
  <2>1. task'[t] = [pc |-> "recording", cancelled |-> task[t].cancelled] /\ \A u \in Tasks \ {t} : task'[u] = task[u]
    BY <1>1, GoesType DEF Register
  <2>2. UNCHANGED <<queue, reader, rm>> /\ task[t].pc = "resolving"
    BY <1>1 DEF Register, At
  <2>3. hist \in Histories
    BY DEF TypeOK
  <2>4. /\ hist'.twice = hist.twice /\ hist'.forced = hist.forced
        /\ hist'.down = hist.down /\ hist'.retried = hist.retried
    BY <1>1, <2>3 DEF Register, Histories
  <2> QED BY <2>1, <2>2, <2>4
<1>2. CASE Record(t)
  <2>1. task'[t] = [pc |-> "flying", cancelled |-> task[t].cancelled] /\ \A u \in Tasks \ {t} : task'[u] = task[u]
    BY <1>2, GoesType DEF Record
  <2>2. UNCHANGED <<queue, reader, rm, hist>> /\ task[t].pc = "recording"
    BY <1>2 DEF Record, At
  <2> QED BY <2>1, <2>2
<1>3. CASE Close(t) \/ Leave(t)
  <2>1. task'[t] = [pc |-> "done", cancelled |-> task[t].cancelled] /\ \A u \in Tasks \ {t} : task'[u] = task[u]
    BY <1>3, GoesType DEF Close, Leave, Ends
  <2>2. UNCHANGED <<queue, reader, rm, hist>> /\ task[t].pc = "flying"
    BY <1>3 DEF Close, Leave, Ends, At
  <2> QED BY <2>1, <2>2
<1> QED BY <1>1, <1>2, <1>3

\* A row that is inserted has nothing that acts on it.
LEMMA InsertDoes ==
    ASSUME TypeOK, NEW r \in Rows, NEW m \in Markets, NEW id \in Ids, NEW b \in BOOLEAN,
           Spare(r), rows' = Inserted(r, m, id, b), hist' = Forgotten(r)
    PROVE  /\ rows'[r].status = "pending" /\ rows'[r].id = id /\ rows'[r].seeded = b
           /\ \A q \in Rows \ {r} : rows'[q] = rows[q]
           /\ ~InFlight(r) /\ r \notin batch /\ r # cur
           /\ \A t \in Tasks : t[1] = r => ~Alive(t) /\ \A i \in Ids : registry[i].task # t
           /\ hist'.forced = hist.forced \ {r} /\ hist'.retried = hist.retried \ {r}
           /\ hist'.shared = hist.shared /\ hist'.overtaken = hist.overtaken
           /\ hist'.down = hist.down /\ hist'.twice = hist.twice
<1>1. hist \in Histories /\ rows \in [Rows -> Row]
  BY DEF TypeOK
<1>2. /\ hist'.forced = hist.forced \ {r} /\ hist'.retried = hist.retried \ {r}
      /\ hist'.shared = hist.shared /\ hist'.overtaken = hist.overtaken
      /\ hist'.down = hist.down /\ hist'.twice = hist.twice
  BY <1>1 DEF Forgotten, Histories
<1>3. /\ rows'[r].status = "pending" /\ rows'[r].id = id /\ rows'[r].seeded = b
      /\ \A q \in Rows \ {r} : rows'[q] = rows[q]
  BY <1>1 DEF Inserted
<1> QED BY <1>2, <1>3 DEF Spare, Held, Manned

\* What the operator puts back or dismisses, and what that forces.
LEMMA PutBackDoes ==
    ASSUME TypeOK, NEW r \in Rows, Retry(r) \/ Dismiss(r)
    PROVE  /\ \/ /\ rows' = Marked(r, "pending") /\ (Manned(r) => r \in hist'.forced)
                 /\ (rows[r].seeded => r \in hist'.retried)
              \/ rows' = Marked(r, "completed") /\ (Held(r) => r \in hist'.forced)
           /\ hist.forced \subseteq hist'.forced /\ hist.retried \subseteq hist'.retried
           /\ hist'.forced \subseteq hist.forced \cup {r}
           /\ hist'.shared = hist.shared /\ hist'.overtaken = hist.overtaken
           /\ hist'.down = hist.down /\ hist'.twice = hist.twice
           /\ UNCHANGED <<switch, retired, task, registry, reader, sd, rm, prep, restarts>>
<1>1. hist \in Histories
  BY DEF TypeOK
<1>2. CASE Retry(r)
  <2> DEFINE S == {q \in {r} : rows[q].seeded}
             F == {q \in {r} : Manned(q)}
  <2>1. hist' = [hist EXCEPT !.retried = @ \cup S, !.forced = @ \cup F]
    BY <1>2 DEF Retry
  <2>2. (rows[r].seeded => r \in S) /\ (Manned(r) => r \in F) /\ F \subseteq {r}
    OBVIOUS
  <2> HIDE DEF S, F
  <2>3. /\ hist'.retried = hist.retried \cup S /\ hist'.forced = hist.forced \cup F
        /\ hist'.shared = hist.shared /\ hist'.overtaken = hist.overtaken
        /\ hist'.down = hist.down /\ hist'.twice = hist.twice
    BY <1>1, <2>1 DEF Histories
  <2> QED BY <1>2, <2>2, <2>3 DEF Retry
<1>3. CASE Dismiss(r)
  <2> DEFINE F == {q \in {r} : Held(q)}
  <2>1. hist' = [hist EXCEPT !.forced = @ \cup F]
    BY <1>3 DEF Dismiss
  <2>2. (Held(r) => r \in F) /\ F \subseteq {r}
    OBVIOUS
  <2> HIDE DEF F
  <2>3. /\ hist'.retried = hist.retried /\ hist'.forced = hist.forced \cup F
        /\ hist'.shared = hist.shared /\ hist'.overtaken = hist.overtaken
        /\ hist'.down = hist.down /\ hist'.twice = hist.twice
    BY <1>1, <2>1 DEF Histories
  <2> QED BY <1>3, <2>2, <2>3 DEF Dismiss
<1> QED BY <1>2, <1>3

LEMMA ClaimStep ==
    ASSUME TypeOK, TypeOK', ClaimInv, [Next]_vars
    PROVE  ClaimInv'
<1>1. ASSUME NEW r \in Rows, NEW m \in Markets, NEW id \in Ids, Deploy(r, m, id)
      PROVE  ClaimInv'
  <2>1. /\ rows'[r].status = "pending" /\ \A q \in Rows \ {r} : rows'[q] = rows[q]
        /\ r \notin batch /\ r # cur /\ \A t \in Tasks : t[1] = r => ~Alive(t)
        /\ hist'.forced = hist.forced \ {r} /\ hist'.twice = hist.twice
    BY <1>1, InsertDoes DEF Deploy
  <2>2. UNCHANGED <<task, batch, cur>> /\ proc' = proc
    BY <1>1 DEF Deploy, reader, ClaimInv
  <2>3. \A t \in Tasks : Alive(t) => t[1] \in Rows \ {r}
    BY <2>1, TaskOfRow
  <2> QED BY <2>1, <2>2, <2>3 DEF ClaimInv, RowOf, Alive, At
<1>2. ASSUME NEW id \in Ids, StandDown(id)
      PROVE  ClaimInv'
  BY <1>2, ClaimKept DEF StandDown, reader, TypeOK, Histories, ClaimInv, Alive, At
<1>3. CASE StandDownCancels
  BY <1>3, ClaimKept, TokensOnly DEF queue, reader, ClaimInv, Alive, At
<1>4. CASE StandDownRemoves
  BY <1>4, ClaimKept DEF StandDownRemoves, queue, reader, ClaimInv, Alive, At
<1>5. CASE SwitchOn
  BY <1>5, ClaimKept DEF SwitchOn, reader, TypeOK, Histories, ClaimInv, Alive, At
<1>6. ASSUME NEW r \in Rows, Retry(r)
      PROVE  ClaimInv'
  <2>1. UNCHANGED <<task, batch, cur, proc>>
    BY <1>6, PutBackDoes DEF reader
  <2>2. /\ hist.forced \subseteq hist'.forced /\ hist'.twice = hist.twice
        /\ \A q \in Rows \ {r} : rows'[q] = rows[q]
        /\ \/ Held(r) /\ r \in hist'.forced
           \/ ~Held(r)
           \/ ~Manned(r) /\ rows'[r].status = "pending"
    BY <1>6, PutBackDoes, MarkedRow DEF Status, Unfinished, Held
  <2>3. ASSUME NEW q \in Rows, q \notin hist'.forced, q \in batch \/ q = cur
        PROVE  rows'[q].status \in {"pending", "processing"}
    BY <2>2, <2>3 DEF ClaimInv, Held
  <2>4. ASSUME NEW t \in Tasks, Alive(t), t[1] \notin hist'.forced
        PROVE  rows'[t[1]].status = IF At(t, "tail") THEN "completed" ELSE "active"
    BY <2>2, <2>4, TaskOfRow DEF ClaimInv, Held, Manned, RowOf
  <2> QED BY <2>1, <2>2, <2>3, <2>4 DEF ClaimInv, RowOf, Alive, At
<1>7. ASSUME NEW r \in Rows, Dismiss(r)
      PROVE  ClaimInv'
  <2>1. UNCHANGED <<task, batch, cur, proc>>
    BY <1>7, PutBackDoes DEF reader
  <2>2. /\ hist.forced \subseteq hist'.forced /\ hist'.twice = hist.twice
        /\ \A q \in Rows \ {r} : rows'[q] = rows[q]
        /\ \/ Held(r) /\ r \in hist'.forced
           \/ ~Held(r)
           \/ ~Manned(r) /\ rows'[r].status = "pending"
    BY <1>7, PutBackDoes, MarkedRow DEF Status, Unfinished, Held
  <2>3. ASSUME NEW q \in Rows, q \notin hist'.forced, q \in batch \/ q = cur
        PROVE  rows'[q].status \in {"pending", "processing"}
    BY <2>2, <2>3 DEF ClaimInv, Held
  <2>4. ASSUME NEW t \in Tasks, Alive(t), t[1] \notin hist'.forced
        PROVE  rows'[t[1]].status = IF At(t, "tail") THEN "completed" ELSE "active"
    BY <2>2, <2>4, TaskOfRow DEF ClaimInv, Held, Manned, RowOf
  <2> QED BY <2>1, <2>2, <2>3, <2>4 DEF ClaimInv, RowOf, Alive, At
<1>8. CASE Requeue
  <2>1. UNCHANGED <<task, batch, cur, hist>> /\ proc = "boot" /\ proc' = "tick"
    BY <1>8 DEF Requeue
  <2> QED BY <2>1 DEF ClaimInv, Alive, RowOf, At
<1>9. CASE Tick
  BY <1>9, ClaimKept DEF Tick, queue, ClaimInv, Alive, At
<1>10. CASE ListLive
  BY <1>10, ClaimKept DEF ListLive, queue, ClaimInv, Alive, At
<1>11. CASE ReadQueue
  BY <1>11, ClaimKept DEF ReadQueue, queue, ClaimInv, Alive, At
<1>12. ASSUME NEW r \in Rows, NEW m \in Markets, Select(r, m)
      PROVE  ClaimInv'
  <2>1. /\ rows'[r].status = "pending" /\ \A q \in Rows \ {r} : rows'[q] = rows[q]
        /\ r \notin batch /\ r # cur /\ \A t \in Tasks : t[1] = r => ~Alive(t)
        /\ hist'.forced = hist.forced \ {r} /\ hist'.twice = hist.twice
    BY <1>12, InsertDoes DEF Select
  <2>2. UNCHANGED <<task, batch, cur>> /\ proc' # "boot" /\ (proc' = proc \/ (batch = {} /\ cur = None))
    BY <1>12 DEF Select, reader, ClaimInv
  <2>3. \A t \in Tasks : Alive(t) => t[1] \in Rows \ {r}
    BY <2>1, TaskOfRow
  <2> QED BY <2>1, <2>2, <2>3 DEF ClaimInv, RowOf, Alive, At
<1>13. CASE SelectNothing
  BY <1>13, ClaimKept DEF SelectNothing, queue, ClaimInv, Alive, At
<1>14. CASE Fetch
  <2>1. UNCHANGED <<rows, task, cur, hist>> /\ proc' = "drain" /\ proc = "fetch"
        /\ batch' = {r \in Rows : rows[r].status = "pending"}
    BY <1>14 DEF Fetch, queue
  <2> QED BY <2>1 DEF ClaimInv, Alive, RowOf, At
<1>15. ASSUME NEW r \in Rows, Claim(r)
      PROVE  ClaimInv'
  <2>1. /\ UNCHANGED <<task, hist, proc>> /\ proc = "drain" /\ cur = None
        /\ r \in batch /\ batch' = batch \ {r} /\ cur' = r
    BY <1>15 DEF Claim
  <2>2. rows'[r].status = "processing" /\ \A q \in Rows \ {r} : rows'[q] = rows[q]
    BY <1>15, MarkedRow DEF Claim, Claimed, Status, Unfinished
  <2>3. ASSUME NEW t \in Tasks, Alive(t), t[1] \notin hist.forced
        PROVE  t[1] \in Rows \ {r}
    BY <2>1, <2>3, TaskOfRow DEF ClaimInv, RowOf
  <2> QED BY <2>1, <2>2, <2>3 DEF ClaimInv, Alive, RowOf, At
<1>16. CASE Start
  <2>1. /\ UNCHANGED <<proc, batch>> /\ proc = "drain" /\ cur \in Rows /\ cur' = None
        /\ hist' = [hist EXCEPT !.twice = @ \/ (Manned(cur) /\ cur \notin hist.forced)]
    BY <1>16, StartDoes
  <2>2. rows'[cur].status = "active" /\ \A q \in Rows \ {cur} : rows'[q] = rows[q]
    BY <1>16, <2>1, StartDoes, MarkedRow DEF Status, Unfinished
  <2>3. PICK t \in Tasks : /\ t[1] = cur /\ Unused(t)
                           /\ task' = [task EXCEPT ![t] = [pc |-> "resolving", cancelled |-> FALSE]]
    BY <1>16, StartDoes
  <2>4. task'[t].pc = "resolving" /\ \A u \in Tasks \ {t} : task'[u] = task[u]
    BY <2>3 DEF TypeOK
  <2>5. cur \notin hist.forced => ~Manned(cur)
    BY <2>1, TaskOfRow DEF ClaimInv, Manned, RowOf
  <2>6. hist'.forced = hist.forced /\ ~hist'.twice
    <3>1. hist \in Histories
      BY DEF TypeOK
    <3> QED BY <2>1, <2>5, <3>1 DEF ClaimInv, Histories
  <2>7. cur \notin batch
    BY DEF ClaimInv
  <2>8. ASSUME NEW u \in Tasks, Alive(u)', u[1] \notin hist.forced
        PROVE  (u = t \/ (Alive(u) /\ u[1] \in Rows \ {cur} /\ task'[u] = task[u]))
    BY <2>4, <2>5, <2>8, TaskOfRow DEF Manned, Alive
  <2>9. \A u \in Tasks : Alive(u)' /\ u[1] \notin hist.forced =>
           rows'[u[1]].status = IF At(u, "tail")' THEN "completed" ELSE "active"
    BY <2>2, <2>3, <2>4, <2>8 DEF ClaimInv, RowOf, At
  <2>10. \A u, v \in Tasks : Alive(u)' /\ Alive(v)' /\ u[1] = v[1] /\ u[1] \notin hist.forced => u = v
    BY <2>3, <2>8 DEF ClaimInv
  <2>11. \A r \in Rows \ hist.forced : r \in batch => rows'[r].status \in {"pending", "processing"}
    BY <2>2, <2>7 DEF ClaimInv
  <2>12. None \notin Rows
    OBVIOUS
  <2>13. None \notin batch
    BY <2>12 DEF TypeOK
  <2> QED BY <2>1, <2>6, <2>9, <2>10, <2>11, <2>12, <2>13 DEF ClaimInv, RowOf
<1>17. CASE Drained
  BY <1>17, ClaimKept DEF Drained, queue, ClaimInv, Alive, At
<1>18. ASSUME NEW t \in Tasks, Fails(t)
      PROVE  ClaimInv'
  <2>1. UNCHANGED <<proc, batch, cur, hist>>
    BY <1>18, FailsDoes DEF reader
  <2>2. task'[t] = NoTask /\ \A u \in Tasks \ {t} : task'[u] = task[u]
    BY <1>18, FailsDoes DEF TypeOK
  <2>3. Alive(t) /\ task[t].pc \in {"resolving"}
    BY <1>18, FailsDoes DEF Alive
  <2>4. \A q \in Rows \ {t[1]} : rows'[q] = rows[q]
    BY <1>18, FailsDoes, TaskOfRow, MarkedRow DEF Status
  <2>5. t[1] \in Rows /\ (t[1] \notin hist.forced => RowOf(t).status = "active" /\ \A u \in Tasks \ {t} : Alive(u) => u[1] # t[1])
    BY <2>3, TaskOfRow DEF ClaimInv, At
  <2>6. ASSUME NEW u \in Tasks, Alive(u)', u[1] \notin hist.forced
        PROVE  Alive(u) /\ rows'[u[1]].status = IF At(u, "tail")' THEN "completed" ELSE "active"
    BY <2>2, <2>3, <2>4, <2>5, <2>6, TaskOfRow DEF ClaimInv, Alive, At, RowOf, NoTask
  <2>7. ASSUME NEW q \in Rows, q \notin hist.forced, q \in batch \/ q = cur
        PROVE  rows'[q].status \in {"pending", "processing"}
    BY <2>4, <2>5, <2>7 DEF ClaimInv, RowOf
  <2>8. proc # "boot"
    BY <2>3 DEF ClaimInv
  <2> QED BY <2>1, <2>6, <2>7, <2>8 DEF ClaimInv, RowOf
<1>19. ASSUME NEW t \in Tasks, Register(t)
      PROVE  ClaimInv'
  BY <1>19, ClaimKept, FlightMoves DEF queue, reader, ClaimInv, Alive, At
<1>20. ASSUME NEW t \in Tasks, Record(t)
      PROVE  ClaimInv'
  BY <1>20, ClaimKept, FlightMoves DEF queue, reader, ClaimInv, Alive, At
<1>21. ASSUME NEW t \in Tasks, Close(t) \/ Leave(t)
      PROVE  ClaimInv'
  BY <1>21, ClaimKept, FlightMoves DEF queue, reader, ClaimInv, Alive, At
<1>22. ASSUME NEW t \in Tasks, Complete(t)
      PROVE  ClaimInv'
  <2>1. UNCHANGED <<proc, batch, cur, hist>>
    BY <1>22 DEF Complete, reader
  <2>2. task'[t].pc = "tail" /\ \A u \in Tasks \ {t} : task'[u] = task[u]
    BY <1>22 DEF Complete, TypeOK
  <2>3. Alive(t) /\ task[t].pc \in {"done"}
    BY <1>22 DEF Complete, At, Alive
  <2>4. rows'[t[1]].status = "completed" /\ \A q \in Rows \ {t[1]} : rows'[q] = rows[q]
    BY <1>22, TaskOfRow, MarkedRow DEF Complete, Status
  <2>5. t[1] \in Rows /\ (t[1] \notin hist.forced => RowOf(t).status = "active" /\ \A u \in Tasks \ {t} : Alive(u) => u[1] # t[1])
    BY <2>3, TaskOfRow DEF ClaimInv, At
  <2>6. ASSUME NEW u \in Tasks, Alive(u)', u[1] \notin hist.forced
        PROVE  Alive(u) /\ rows'[u[1]].status = IF At(u, "tail")' THEN "completed" ELSE "active"
    BY <2>2, <2>3, <2>4, <2>5, <2>6, TaskOfRow DEF ClaimInv, Alive, At, RowOf, NoTask
  <2>7. ASSUME NEW q \in Rows, q \notin hist.forced, q \in batch \/ q = cur
        PROVE  rows'[q].status \in {"pending", "processing"}
    BY <2>4, <2>5, <2>7 DEF ClaimInv, RowOf
  <2>8. proc # "boot"
    BY <2>3 DEF ClaimInv
  <2> QED BY <2>1, <2>6, <2>7, <2>8 DEF ClaimInv, RowOf
<1>23. ASSUME NEW t \in Tasks, Tail(t)
      PROVE  ClaimInv'
  <2>1. UNCHANGED <<proc, batch, cur, hist>>
    BY <1>23 DEF Tail, reader
  <2>2. task'[t] = NoTask /\ \A u \in Tasks \ {t} : task'[u] = task[u]
    BY <1>23 DEF Tail, TypeOK
  <2>3. Alive(t) /\ task[t].pc \in {"tail"}
    BY <1>23 DEF Tail, At, Alive
  <2>4. \A q \in Rows \ {t[1]} : rows'[q] = rows[q]
    BY <1>23, TaskOfRow, MarkedRow DEF Tail, queue, Status
  <2>5. t[1] \in Rows /\ (t[1] \notin hist.forced => RowOf(t).status = "completed" /\ \A u \in Tasks \ {t} : Alive(u) => u[1] # t[1])
    BY <2>3, TaskOfRow DEF ClaimInv, At
  <2>6. ASSUME NEW u \in Tasks, Alive(u)', u[1] \notin hist.forced
        PROVE  Alive(u) /\ rows'[u[1]].status = IF At(u, "tail")' THEN "completed" ELSE "active"
    BY <2>2, <2>3, <2>4, <2>5, <2>6, TaskOfRow DEF ClaimInv, Alive, At, RowOf, NoTask
  <2>7. ASSUME NEW q \in Rows, q \notin hist.forced, q \in batch \/ q = cur
        PROVE  rows'[q].status \in {"pending", "processing"}
    BY <2>4, <2>5, <2>7 DEF ClaimInv, RowOf
  <2>8. proc # "boot"
    BY <2>3 DEF ClaimInv
  <2> QED BY <2>1, <2>6, <2>7, <2>8 DEF ClaimInv, RowOf
<1>24. CASE Retire
  BY <1>24, ClaimKept DEF Retire, reader, ClaimInv, Alive, At
<1>25. CASE StandDownSquadrons
  BY <1>25, ClaimKept, TokensOnly DEF queue, reader, ClaimInv, Alive, At
<1>26. CASE Resume
  BY <1>26, ClaimKept DEF Resume, reader, ClaimInv, Alive, At
<1>27. CASE Restart
  <2>1. /\ \A t \in Tasks : ~Alive(t)'
        /\ UNCHANGED rows /\ batch' = {} /\ cur' = None
    BY <1>27 DEF Restart, queue, NoTask, Alive
  <2>2. ~hist'.twice
    BY <1>27 DEF Restart, ClaimInv, TypeOK, Histories
  <2>3. None \notin Rows
    OBVIOUS
  <2> QED BY <2>1, <2>2, <2>3 DEF ClaimInv
<1>28. CASE UNCHANGED vars
  BY <1>28, ClaimKept DEF vars, ClaimInv, Alive, At
<1> QED BY <1>1, <1>2, <1>3, <1>4, <1>5, <1>6, <1>7, <1>8, <1>9, <1>10, <1>11, <1>12, <1>13, <1>14, <1>15, <1>16, <1>17, <1>18, <1>19, <1>20, <1>21, <1>22, <1>23, <1>24, <1>25, <1>26, <1>27, <1>28
        DEF Next, Operator, Processor, Flight

-----------------------------------------------------------------------------
(* The registry *)

\* What an entry's task may be: one of the id that registered, flying or over.
EntryInv ==
  \A id \in Ids : Registered(id) =>
    RowOf(registry[id].task).id = id /\ ~At(registry[id].task, "resolving")

Entered(t) == \E id \in Ids : Registered(id) /\ registry[id].task = t

\* It does so across a step that registers nothing, when no task in the registry
\* starts and no row of one is another squadron's.
LEMMA EntryKept ==
    ASSUME TypeOK, EntryInv,
           \A id \in Ids : Registered(id)' => Registered(id) /\ registry'[id].task = registry[id].task,
           \A t \in Tasks : Entered(t) => /\ rows'[t[1]].id = rows[t[1]].id
                                          /\ (task'[t].pc = "resolving" => task[t].pc = "resolving")
    PROVE  EntryInv'
<1>1. ASSUME NEW id \in Ids, Registered(id)'
      PROVE  rows'[registry'[id].task[1]].id = id /\ task'[registry'[id].task].pc # "resolving"
  <2> DEFINE t == registry[id].task
  <2>1. Registered(id) /\ registry'[id].task = t
    BY <1>1
  <2>2. t \in Tasks /\ Entered(t)
    BY <2>1, EntryType DEF Entered
  <2>3. rows[t[1]].id = id /\ task[t].pc # "resolving"
    BY <2>1 DEF EntryInv, RowOf, At
  <2> HIDE DEF t
  <2> QED BY <2>1, <2>2, <2>3
<1> QED BY <1>1 DEF EntryInv, RowOf, At

\* A change of state and a retirement register nothing, and touch one entry.
LEMMA StatedRegisters ==
    ASSUME TypeOK, NEW i \in Ids, NEW s \in {"live", "down"},
           registry' = Stated(i, s) \/ registry' = RetiredEntry(i), NEW id \in Ids
    PROVE  /\ Registered(id)' => Registered(id) /\ registry'[id].task = registry[id].task
           /\ id # i => registry'[id] = registry[id]
<1>1. registry \in [Ids -> Entry \cup {NoEntry}]
  BY DEF TypeOK
<1>2. CASE registry' = registry
  BY <1>2 DEF Registered
<1>3. CASE Registered(i) /\ \E x, b : registry' = [registry EXCEPT ![i].state = x, ![i].stamped = b]
  <2>1. PICK x, b : registry' = [registry EXCEPT ![i].state = x, ![i].stamped = b]
    BY <1>3
  <2>2. CASE id = i
    <3>1. registry[i] \in Entry
      BY <1>3, EntryType
    <3>2. registry'[i] = [registry[i] EXCEPT !.state = x, !.stamped = b]
      BY <1>1, <1>3, <2>1
    <3> QED BY <1>3, <2>2, <3>1, <3>2 DEF Entry
  <2>3. CASE id # i
    BY <1>1, <2>1, <2>3 DEF Registered
  <2> QED BY <2>2, <2>3
<1> QED BY <1>2, <1>3 DEF Stated, RetiredEntry

\* A step that leaves the ids of the rows and the registry's tasks alone.
LEMMA RowsMarked ==
    ASSUME TypeOK,
           \/ \E r \in Rows : Retry(r) \/ Dismiss(r) \/ Claim(r)
           \/ Requeue \/ Start \/ \E t \in Tasks : Fails(t) \/ Complete(t)
    PROVE  /\ \A q \in Rows : rows'[q].id = rows[q].id /\ rows'[q].seeded = rows[q].seeded
           /\ UNCHANGED <<registry, rm>>
           /\ hist'.shared = hist.shared /\ hist'.overtaken = hist.overtaken /\ hist'.down = hist.down
<1>1. ASSUME NEW r \in Rows, Retry(r) \/ Dismiss(r)
      PROVE  /\ \A q \in Rows : rows'[q].id = rows[q].id /\ rows'[q].seeded = rows[q].seeded
             /\ UNCHANGED <<registry, rm>>
             /\ hist'.shared = hist.shared /\ hist'.overtaken = hist.overtaken /\ hist'.down = hist.down
  BY <1>1, PutBackDoes, MarkedRow DEF Status, Unfinished
<1>2. ASSUME NEW r \in Rows, Claim(r)
      PROVE  /\ \A q \in Rows : rows'[q].id = rows[q].id /\ rows'[q].seeded = rows[q].seeded
             /\ UNCHANGED <<registry, rm, hist>>
  BY <1>2, MarkedRow DEF Claim, Claimed, Status, Unfinished
<1>3. CASE Requeue
  <2>1. ASSUME NEW q \in Rows
        PROVE  rows'[q].id = rows[q].id /\ rows'[q].seeded = rows[q].seeded
    <3>1. rows[q] \in Row
      BY DEF TypeOK
    <3>2. rows'[q] = rows[q] \/ rows'[q] = [rows[q] EXCEPT !.status = "pending"]
      BY <1>3 DEF Requeue
    <3> QED BY <3>1, <3>2 DEF Row
  <2> QED BY <1>3, <2>1 DEF Requeue
<1>4. CASE Start
  <2>1. hist \in Histories
    BY DEF TypeOK
  <2>2. hist'.shared = hist.shared /\ hist'.overtaken = hist.overtaken /\ hist'.down = hist.down
    BY <1>4, <2>1, StartDoes DEF Histories
  <2> QED BY <1>4, <2>2, StartDoes, MarkedRow DEF Status, Unfinished
<1>5. ASSUME NEW t \in Tasks, Fails(t)
      PROVE  /\ \A q \in Rows : rows'[q].id = rows[q].id /\ rows'[q].seeded = rows[q].seeded
             /\ UNCHANGED <<registry, rm, hist>>
  BY <1>5, FailsDoes, MarkedRow, TaskOfRow DEF Status
<1>6. ASSUME NEW t \in Tasks, Complete(t)
      PROVE  /\ \A q \in Rows : rows'[q].id = rows[q].id /\ rows'[q].seeded = rows[q].seeded
             /\ UNCHANGED <<registry, rm, hist>>
  BY <1>6, MarkedRow, TaskOfRow DEF Complete, Status
<1> QED BY <1>1, <1>2, <1>3, <1>4, <1>5, <1>6

\* How tasks move when rows are marked.
LEMMA TasksMarked ==
    ASSUME TypeOK,
           \/ \E r \in Rows : Retry(r) \/ Dismiss(r) \/ Claim(r)
           \/ Requeue \/ Start \/ \E t \in Tasks : Fails(t) \/ Complete(t),
           NEW u \in Tasks
    PROVE  \/ task'[u] = task[u]
           \/ task[u].pc = "none" /\ task'[u].pc = "resolving" /\ \A id \in Ids : registry[id].task # u
           \/ task[u].pc = "resolving" /\ task'[u].pc = "none"
           \/ task[u].pc = "done" /\ task'[u].pc = "tail"
<1>1. ASSUME NEW r \in Rows, Retry(r) \/ Dismiss(r) \/ Claim(r)
      PROVE  UNCHANGED task
  BY <1>1, PutBackDoes DEF Claim
<1>2. CASE Requeue
  BY <1>2 DEF Requeue
<1>3. CASE Start
  <2>1. PICK t \in Tasks : Unused(t) /\ task' = [task EXCEPT ![t] = [pc |-> "resolving", cancelled |-> FALSE]]
    BY <1>3, StartDoes
  <2> QED BY <2>1 DEF Unused, Alive, TypeOK
<1>4. ASSUME NEW t \in Tasks, Fails(t)
      PROVE  task[t].pc = "resolving" /\ task'[t].pc = "none" /\ \A v \in Tasks \ {t} : task'[v] = task[v]
  BY <1>4, FailsDoes DEF TypeOK, NoTask
<1>5. ASSUME NEW t \in Tasks, Complete(t)
      PROVE  task[t].pc = "done" /\ task'[t].pc = "tail" /\ \A v \in Tasks \ {t} : task'[v] = task[v]
  BY <1>5 DEF Complete, At, TypeOK
<1> QED BY <1>1, <1>2, <1>3, <1>4, <1>5

LEMMA EntryStep ==
    ASSUME TypeOK, TypeOK', EntryInv, [Next]_vars
    PROVE  EntryInv'
<1>1. ASSUME NEW r \in Rows, NEW m \in Markets, NEW id \in Ids, Deploy(r, m, id)
      PROVE  EntryInv'
  <2>1. /\ \A q \in Rows \ {r} : rows'[q] = rows[q]
        /\ \A t \in Tasks : t[1] = r => \A i \in Ids : registry[i].task # t
    BY <1>1, InsertDoes DEF Deploy
  <2>2. UNCHANGED <<task, registry>>
    BY <1>1 DEF Deploy
  <2>3. \A t \in Tasks : Entered(t) => t[1] \in Rows \ {r}
    BY <2>1, TaskOfRow DEF Entered
  <2> QED BY <2>1, <2>2, <2>3, EntryKept DEF Registered
<1>2. ASSUME NEW id \in Ids, StandDown(id)
      PROVE  EntryInv'
  BY <1>2, EntryKept DEF StandDown, reader, Registered
<1>3. CASE StandDownCancels
  BY <1>3, EntryKept, TokensOnly DEF queue, reader, Registered
<1>4. CASE StandDownRemoves
  BY <1>4, EntryKept DEF StandDownRemoves, queue, Registered, TypeOK
<1>5. CASE SwitchOn
  BY <1>5, EntryKept DEF SwitchOn, reader, Registered
<1>6. ASSUME NEW r \in Rows, Retry(r)
      PROVE  EntryInv'
  BY <1>6, EntryKept, RowsMarked, TasksMarked, TaskOfRow DEF Registered, Entered
<1>7. ASSUME NEW r \in Rows, Dismiss(r)
      PROVE  EntryInv'
  BY <1>7, EntryKept, RowsMarked, TasksMarked, TaskOfRow DEF Registered, Entered
<1>8. CASE Requeue
  BY <1>8, EntryKept, RowsMarked, TasksMarked, TaskOfRow DEF Registered, Entered
<1>9. CASE Tick
  BY <1>9, EntryKept DEF Tick, queue, Registered
<1>10. CASE ListLive
  BY <1>10, EntryKept DEF ListLive, queue, Registered
<1>11. CASE ReadQueue
  BY <1>11, EntryKept DEF ReadQueue, queue, Registered
<1>12. ASSUME NEW r \in Rows, NEW m \in Markets, Select(r, m)
      PROVE  EntryInv'
  <2>1. /\ \A q \in Rows \ {r} : rows'[q] = rows[q]
        /\ \A t \in Tasks : t[1] = r => \A i \in Ids : registry[i].task # t
    BY <1>12, InsertDoes DEF Select
  <2>2. UNCHANGED <<task, registry>>
    BY <1>12 DEF Select
  <2>3. \A t \in Tasks : Entered(t) => t[1] \in Rows \ {r}
    BY <2>1, TaskOfRow DEF Entered
  <2> QED BY <2>1, <2>2, <2>3, EntryKept DEF Registered
<1>13. CASE SelectNothing
  BY <1>13, EntryKept DEF SelectNothing, queue, Registered
<1>14. CASE Fetch
  BY <1>14, EntryKept DEF Fetch, queue, Registered
<1>15. ASSUME NEW r \in Rows, Claim(r)
      PROVE  EntryInv'
  BY <1>15, EntryKept, RowsMarked, TasksMarked, TaskOfRow DEF Registered, Entered
<1>16. CASE Start
  BY <1>16, EntryKept, RowsMarked, TasksMarked, TaskOfRow DEF Registered, Entered
<1>17. CASE Drained
  BY <1>17, EntryKept DEF Drained, queue, Registered
<1>18. ASSUME NEW t \in Tasks, Fails(t)
      PROVE  EntryInv'
  BY <1>18, EntryKept, RowsMarked, TasksMarked, TaskOfRow DEF Registered, Entered
<1>19. ASSUME NEW t \in Tasks, Register(t)
      PROVE  EntryInv'
  <2>0. task'[t] = [pc |-> "recording", cancelled |-> task[t].cancelled] /\ \A u \in Tasks \ {t} : task'[u] = task[u]
    BY <1>19, GoesType DEF Register
  <2>1. /\ UNCHANGED rows /\ task'[t].pc = "recording" /\ \A u \in Tasks \ {t} : task'[u] = task[u]
        /\ registry' = [registry EXCEPT ![RowOf(t).id] = [task |-> t, state |-> "live", stamped |-> FALSE]]
    BY <1>19, <2>0 DEF Register, queue
  <2>2. RowOf(t).id \in Ids
    BY TaskOfRow DEF TypeOK, Row, RowOf
  <2>3. ASSUME NEW id \in Ids, Registered(id)', id # RowOf(t).id
        PROVE  registry'[id].task \in Tasks /\ rows[registry'[id].task[1]].id = id /\ task[registry'[id].task].pc # "resolving"
    <3>1. registry'[id] = registry[id] /\ Registered(id)
      BY <2>1, <2>3 DEF Registered, TypeOK
    <3> QED BY <3>1, EntryType DEF EntryInv, RowOf, At
  <2>4. ASSUME NEW id \in Ids, Registered(id)', id = RowOf(t).id
        PROVE  registry'[id].task = t /\ rows[t[1]].id = id
    BY <2>1, <2>2, <2>4 DEF TypeOK, RowOf
  <2>5. ASSUME NEW id \in Ids, Registered(id)'
        PROVE  rows'[registry'[id].task[1]].id = id /\ task'[registry'[id].task].pc # "resolving"
    BY <2>1, <2>3, <2>4, <2>5
  <2> QED BY <2>5 DEF EntryInv, RowOf, At
<1>20. ASSUME NEW t \in Tasks, Record(t)
      PROVE  EntryInv'
  <2>1. RowOf(t).id \in Ids
    BY TaskOfRow DEF TypeOK, Row, RowOf
  <2>2. \A id \in Ids : Registered(id)' => Registered(id) /\ registry'[id].task = registry[id].task
    BY <1>20, <2>1, StatedRegisters DEF Record
  <2> QED BY <1>20, <2>2, EntryKept, FlightMoves DEF queue
<1>21. ASSUME NEW t \in Tasks, Close(t) \/ Leave(t)
      PROVE  EntryInv'
  <2>1. RowOf(t).id \in Ids
    BY TaskOfRow DEF TypeOK, Row, RowOf
  <2>2. \A id \in Ids : Registered(id)' => Registered(id) /\ registry'[id].task = registry[id].task
    BY <1>21, <2>1, StatedRegisters DEF Close, Leave, Ends
  <2> QED BY <1>21, <2>2, EntryKept, FlightMoves DEF queue
<1>22. ASSUME NEW t \in Tasks, Complete(t)
      PROVE  EntryInv'
  BY <1>22, EntryKept, RowsMarked, TasksMarked, TaskOfRow DEF Registered, Entered
<1>23. ASSUME NEW t \in Tasks, Tail(t)
      PROVE  EntryInv'
  <2>1. RowOf(t).id \in Ids
    BY TaskOfRow DEF TypeOK, Row, RowOf
  <2>2. \A id \in Ids : Registered(id)' => Registered(id) /\ registry'[id].task = registry[id].task
    BY <1>23, <2>1, StatedRegisters DEF Tail, TailRegistry
  <2> QED BY <1>23, <2>2, EntryKept, TaskSet DEF Tail, queue, NoTask, Task
<1>24. CASE Retire
  BY <1>24, EntryKept DEF Retire, reader, Registered
<1>25. CASE StandDownSquadrons
  BY <1>25, EntryKept, TokensOnly DEF queue, reader, Registered
<1>26. CASE Resume
  BY <1>26, EntryKept DEF Resume, reader, Registered
<1>27. CASE Restart
  BY <1>27 DEF Restart, EntryInv, Registered
<1>28. CASE UNCHANGED vars
  BY <1>28, EntryKept DEF vars, Registered
<1> QED BY <1>1, <1>2, <1>3, <1>4, <1>5, <1>6, <1>7, <1>8, <1>9, <1>10, <1>11, <1>12, <1>13, <1>14, <1>15, <1>16, <1>17, <1>18, <1>19, <1>20, <1>21, <1>22, <1>23, <1>24, <1>25, <1>26, <1>27, <1>28
        DEF Next, Operator, Processor, Flight

\* A task that was told to stop, or is over.
Told(s) == s.cancelled \/ s.pc \in {"tail", "none"}

\* A task's own id tells its entry, unless another task of the same id was there or
\* a stand-down was between its two steps; the entry a stand-down is about to remove
\* is of a task it cancelled, or of one that is over.
ListInv ==
  /\ \A t, u \in Tasks : Past(t) /\ Past(u) /\ t # u /\ RowOf(t).id = RowOf(u).id => RowOf(t).id \in hist.shared
  /\ \A t \in Tasks :
       Flying(t) /\ ~task[t].cancelled /\ RowOf(t).id \notin hist.shared \cup hist.overtaken
         => registry[RowOf(t).id] = [task |-> t, state |-> "live", stamped |-> FALSE]
  /\ rm # None /\ rm \notin hist.overtaken /\ Registered(rm)
       => Told(task[registry[rm].task])

\* It is kept when no entry changes, and no task flies that did not or is untold.
LEMMA ListKept ==
    ASSUME TypeOK, ListInv, UNCHANGED <<registry, rm>>,
           hist'.shared = hist.shared, hist'.overtaken = hist.overtaken,
           \A t \in Tasks : Past(t)' => Past(t) /\ rows'[t[1]].id = rows[t[1]].id,
           \A t \in Tasks : Flying(t)' /\ ~task'[t].cancelled => Flying(t) /\ ~task[t].cancelled,
           \A t \in Tasks : Told(task[t]) /\ Entered(t) => Told(task'[t])
    PROVE  ListInv'
<1>1. \A t, u \in Tasks : Past(t)' /\ Past(u)' /\ t # u /\ RowOf(t)'.id = RowOf(u)'.id => RowOf(t)'.id \in hist'.shared
  BY DEF ListInv, RowOf
<1>2. \A t \in Tasks : Flying(t)' => Past(t)'
  BY DEF Flying, Past, At
<1>3. ASSUME NEW t \in Tasks, Flying(t)', ~task'[t].cancelled, RowOf(t)'.id \notin hist'.shared \cup hist'.overtaken
      PROVE  registry'[RowOf(t)'.id] = [task |-> t, state |-> "live", stamped |-> FALSE]
  BY <1>2, <1>3 DEF ListInv, RowOf
<1>4. ASSUME rm' # None, rm' \notin hist'.overtaken, Registered(rm)'
      PROVE  Told(task'[registry'[rm'].task])
  <2>1. rm \in Ids /\ Registered(rm) /\ Told(task[registry[rm].task])
    BY <1>4 DEF ListInv, Registered, TypeOK, Told
  <2>2. registry[rm].task \in Tasks /\ Entered(registry[rm].task)
    BY <2>1, EntryType DEF Entered
  <2> QED BY <2>1, <2>2
<1> QED BY <1>1, <1>3, <1>4 DEF ListInv, Told

\* What is listed as live stays so when it is stated live again.
LEMMA LiveAgain ==
    ASSUME TypeOK, NEW i \in Ids, NEW t \in Tasks, registry' = Stated(i, "live"),
           registry[i] = [task |-> t, state |-> "live", stamped |-> FALSE]
    PROVE  registry'[i] = registry[i]
<1>1. registry[i] \in Entry /\ registry \in [Ids -> Entry \cup {NoEntry}]
  <2>1. [task |-> t, state |-> "live", stamped |-> FALSE] \in Entry
    BY DEF Entry
  <2> QED BY <2>1 DEF TypeOK
<1>2. CASE Registered(i)
  <2>1. registry' = [registry EXCEPT ![i].state = "live", ![i].stamped = (registry[i].stamped /\ "live" = "down")]
    BY <1>2 DEF Stated
  <2>2. (registry[i].stamped /\ "live" = "down") = FALSE
    OBVIOUS
  <2>3. registry'[i] = [registry[i] EXCEPT !.state = "live", !.stamped = FALSE]
    BY <1>1, <2>1, <2>2
  <2>4. [[task |-> t, state |-> "live", stamped |-> FALSE] EXCEPT !.state = "live", !.stamped = FALSE]
          = [task |-> t, state |-> "live", stamped |-> FALSE]
    <3> DEFINE e == [task |-> t, state |-> "live", stamped |-> FALSE]
               f == [e EXCEPT !.state = "live", !.stamped = FALSE]
    <3>1. e \in Entry /\ f \in Entry
      BY DEF Entry
    <3>2. f.task = e.task /\ f.state = e.state /\ f.stamped = e.stamped
      OBVIOUS
    <3> HIDE DEF e, f
    <3>3. f = e
      BY <3>1, <3>2 DEF Entry
    <3> QED BY <3>3 DEF e, f
  <2> QED BY <2>3, <2>4
<1>3. CASE ~Registered(i)
  BY <1>3 DEF Stated
<1> QED BY <1>2, <1>3

LEMMA ListStep ==
    ASSUME TypeOK, TypeOK', EntryInv, ListInv, [Next]_vars
    PROVE  ListInv'
<1>1. ASSUME NEW r \in Rows, NEW m \in Markets, NEW id \in Ids, Deploy(r, m, id)
      PROVE  ListInv'
  <2>1. /\ \A q \in Rows \ {r} : rows'[q] = rows[q]
        /\ \A t \in Tasks : t[1] = r => ~Alive(t)
        /\ hist'.shared = hist.shared /\ hist'.overtaken = hist.overtaken
    BY <1>1, InsertDoes DEF Deploy
  <2>2. UNCHANGED <<task, registry, rm>>
    BY <1>1 DEF Deploy
  <2>3. \A t \in Tasks : Past(t) => t[1] \in Rows \ {r}
    BY <2>1, TaskOfRow DEF Past, At, Alive
  <2> QED BY <2>1, <2>2, <2>3, ListKept DEF Past, Flying, At, Told
<1>2. ASSUME NEW id \in Ids, StandDown(id)
      PROVE  ListInv'
  BY <1>2, ListKept DEF StandDown, reader, TypeOK, Histories, Past, Flying, At, Told, Entered
<1>3. CASE StandDownCancels
  <2>1. /\ UNCHANGED <<rows, registry, hist>>
        /\ \A t \in Tasks : task'[t].pc = task[t].pc /\ (~task'[t].cancelled => ~task[t].cancelled)
    BY <1>3, TokensOnly DEF queue
  <2>2. ASSUME rm' # None, Registered(rm')
        PROVE  task'[registry[rm'].task].cancelled
    <3>1. rm' = sd /\ sd \in Ids /\ task' = Cancelled({registry[sd].task})
      BY <1>3, <2>2 DEF StandDownCancels, TypeOK
    <3>2. registry[sd].task \in Tasks
      BY <2>2, <3>1, EntryType
    <3>3. Cancelled({registry[sd].task})[registry[sd].task].cancelled
            = (task[registry[sd].task].cancelled \/ registry[sd].task \in {registry[sd].task})
      BY <3>2, CancelledKeeps
    <3> QED BY <3>1, <3>3
  <2>3. /\ \A t \in Tasks : (Flying(t)' <=> Flying(t)) /\ (Past(t)' <=> Past(t)) /\ RowOf(t)' = RowOf(t)
        /\ Registered(rm)' => Registered(rm')
    BY <2>1 DEF Flying, Past, At, RowOf, Registered
  <2>4. rm' # None /\ Registered(rm)' => Told(task'[registry'[rm'].task])
    BY <2>1, <2>2, <2>3 DEF Told
  <2> QED BY <2>1, <2>3, <2>4 DEF ListInv
<1>4. CASE StandDownRemoves
  <2>1. /\ UNCHANGED <<rows, task, hist>> /\ rm' = None /\ rm # None
        /\ registry' = [registry EXCEPT ![rm] = NoEntry]
    BY <1>4 DEF StandDownRemoves, queue
  <2>2. ASSUME NEW t \in Tasks, Flying(t), ~task[t].cancelled, RowOf(t).id \notin hist.shared \cup hist.overtaken
        PROVE  registry'[RowOf(t).id] = [task |-> t, state |-> "live", stamped |-> FALSE]
    <3>1. registry[RowOf(t).id] = [task |-> t, state |-> "live", stamped |-> FALSE]
      BY <2>2 DEF ListInv
    <3>2. RowOf(t).id # rm
      <4> SUFFICES ASSUME RowOf(t).id = rm PROVE FALSE
        OBVIOUS
      <4>1. registry[rm].task = t /\ Registered(rm)
        BY <3>1 DEF Registered, NoEntry
      <4>2. Told(task[t])
        BY <2>1, <2>2, <4>1 DEF ListInv
      <4> QED BY <2>2, <4>2 DEF Told, Flying
    <3> QED BY <2>1, <3>1, <3>2 DEF TypeOK
  <2> QED BY <2>1, <2>2 DEF ListInv, RowOf, Past, Flying, At
<1>5. CASE SwitchOn
  BY <1>5, ListKept DEF SwitchOn, reader, TypeOK, Histories, Past, Flying, At, Told, Entered
<1>6. ASSUME NEW r \in Rows, Retry(r)
      PROVE  ListInv'
  BY <1>6, ListKept, RowsMarked, TasksMarked, TaskOfRow DEF Past, Flying, At, Told, Entered
<1>7. ASSUME NEW r \in Rows, Dismiss(r)
      PROVE  ListInv'
  BY <1>7, ListKept, RowsMarked, TasksMarked, TaskOfRow DEF Past, Flying, At, Told, Entered
<1>8. CASE Requeue
  BY <1>8, ListKept, RowsMarked, TasksMarked, TaskOfRow DEF Past, Flying, At, Told, Entered
<1>9. CASE Tick
  BY <1>9, ListKept DEF Tick, queue, Past, Flying, At, Told, Entered
<1>10. CASE ListLive
  <2>1. UNCHANGED <<rows, task, hist, rm>>
    BY <1>10 DEF ListLive, queue
  <2>2. ASSUME NEW id \in Ids, NEW t \in Tasks,
               registry[id] = [task |-> t, state |-> "live", stamped |-> FALSE]
        PROVE  registry'[id] = registry[id]
    <3>1. registry[id].state = "live"
      BY <2>2
    <3>2. id \notin Reaped
      BY <3>1 DEF Reaped, Due
    <3> QED BY <1>10, <3>2 DEF ListLive
  <2>3. \A t \in Tasks : RowOf(t).id \in Ids
    BY TaskOfRow DEF RowOf, TypeOK, Row
  <2>4. \A id \in Ids : Registered(id)' => registry'[id] = registry[id]
    BY <1>10 DEF ListLive, Registered
  <2>5. rm # None => rm \in Ids
    BY DEF TypeOK
  <2> QED BY <2>1, <2>2, <2>3, <2>4, <2>5 DEF ListInv, Past, Flying, At, RowOf, Registered
<1>11. CASE ReadQueue
  BY <1>11, ListKept DEF ReadQueue, queue, Past, Flying, At, Told, Entered
<1>12. ASSUME NEW r \in Rows, NEW m \in Markets, Select(r, m)
      PROVE  ListInv'
  <2>1. /\ \A q \in Rows \ {r} : rows'[q] = rows[q]
        /\ \A t \in Tasks : t[1] = r => ~Alive(t)
        /\ hist'.shared = hist.shared /\ hist'.overtaken = hist.overtaken
    BY <1>12, InsertDoes DEF Select
  <2>2. UNCHANGED <<task, registry, rm>>
    BY <1>12 DEF Select
  <2>3. \A t \in Tasks : Past(t) => t[1] \in Rows \ {r}
    BY <2>1, TaskOfRow DEF Past, At, Alive
  <2> QED BY <2>1, <2>2, <2>3, ListKept DEF Past, Flying, At, Told
<1>13. CASE SelectNothing
  BY <1>13, ListKept DEF SelectNothing, queue, Past, Flying, At, Told, Entered
<1>14. CASE Fetch
  BY <1>14, ListKept DEF Fetch, queue, Past, Flying, At, Told, Entered
<1>15. ASSUME NEW r \in Rows, Claim(r)
      PROVE  ListInv'
  BY <1>15, ListKept, RowsMarked, TasksMarked, TaskOfRow DEF Past, Flying, At, Told, Entered
<1>16. CASE Start
  BY <1>16, ListKept, RowsMarked, TasksMarked, TaskOfRow DEF Past, Flying, At, Told, Entered
<1>17. CASE Drained
  BY <1>17, ListKept DEF Drained, queue, Past, Flying, At, Told, Entered
<1>18. ASSUME NEW t \in Tasks, Fails(t)
      PROVE  ListInv'
  BY <1>18, ListKept, RowsMarked, TasksMarked, TaskOfRow DEF Past, Flying, At, Told, Entered
<1>19. ASSUME NEW t \in Tasks, Register(t)
      PROVE  ListInv'
  <2>0. task'[t] = [pc |-> "recording", cancelled |-> task[t].cancelled] /\ \A u \in Tasks \ {t} : task'[u] = task[u]
    BY <1>19, GoesType DEF Register
  <2>1. /\ UNCHANGED <<rows, rm>> /\ task[t].pc = "resolving" /\ task'[t].pc = "recording"
        /\ registry' = [registry EXCEPT ![RowOf(t).id] = [task |-> t, state |-> "live", stamped |-> FALSE]]
    BY <1>19, <2>0 DEF Register, queue, At
  <2>2. RowOf(t).id \in Ids /\ RowOf(t).id = rows[t[1]].id
    BY TaskOfRow DEF TypeOK, Row, RowOf
  <2> DEFINE I == {i \in {RowOf(t).id} : \E u \in Tasks \ {t} : Past(u) /\ RowOf(u).id = i}
             J == {i \in {RowOf(t).id} : i = rm}
             met == \E u \in Tasks \ {t} : Past(u) /\ RowOf(u).id = RowOf(t).id
  <2>3. hist' = [hist EXCEPT !.shared = @ \cup I, !.overtaken = @ \cup J]
    BY <1>19 DEF Register
  <2>4. (met => RowOf(t).id \in I) /\ (rm = RowOf(t).id => rm \in J)
    OBVIOUS
  <2> HIDE DEF I, J
  <2>5. /\ hist.shared \subseteq hist'.shared /\ (met => RowOf(t).id \in hist'.shared)
        /\ hist.overtaken \subseteq hist'.overtaken /\ (rm = RowOf(t).id => rm \in hist'.overtaken)
    <3>1. hist \in Histories
      BY DEF TypeOK
    <3>2. hist'.shared = hist.shared \cup I /\ hist'.overtaken = hist.overtaken \cup J
      BY <2>3, <3>1 DEF Histories
    <3> QED BY <2>4, <3>2
  <2> HIDE DEF met
  <2>6. \A u \in Tasks \ {t} : (Past(u)' <=> Past(u)) /\ (Flying(u)' <=> Flying(u))
    BY <2>0 DEF Past, Flying, At
  <2>7. ASSUME NEW u \in Tasks, NEW v \in Tasks, u # v, Past(u)', Past(v)', rows[u[1]].id = rows[v[1]].id
        PROVE  rows[u[1]].id \in hist'.shared
    <3>1. CASE u # t /\ v # t
      BY <2>5, <2>6, <2>7, <3>1 DEF ListInv, RowOf
    <3>2. CASE u = t \/ v = t
      <4>1. met
        BY <2>6, <2>7, <3>2 DEF met, RowOf
      <4> QED BY <2>5, <2>7, <3>2, <4>1 DEF RowOf
    <3> QED BY <3>1, <3>2
  <2>8. ASSUME NEW u \in Tasks, Flying(u)', ~task'[u].cancelled,
               rows[u[1]].id \notin hist'.shared \cup hist'.overtaken
        PROVE  registry'[rows[u[1]].id] = [task |-> u, state |-> "live", stamped |-> FALSE]
    <3>1. CASE u = t
      BY <2>1, <2>2, <3>1 DEF TypeOK
    <3>2. CASE u # t
      <4>1. Past(u)
        BY <2>6, <2>8, <3>2 DEF Flying, Past, At
      <4>2. rows[u[1]].id # RowOf(t).id
        BY <2>5, <2>8, <3>2, <4>1 DEF met, RowOf
      <4>3. registry[rows[u[1]].id] = [task |-> u, state |-> "live", stamped |-> FALSE]
        BY <2>0, <2>5, <2>6, <2>8, <3>2 DEF ListInv, RowOf
      <4> QED BY <2>1, <4>2, <4>3 DEF TypeOK
    <3> QED BY <3>1, <3>2
  <2>9. ASSUME rm # None, rm \notin hist'.overtaken, registry'[rm] # NoEntry
        PROVE  Told(task'[registry'[rm].task])
    <3>1. rm \in Ids /\ rm # RowOf(t).id /\ registry'[rm] = registry[rm]
      BY <2>1, <2>5, <2>9 DEF TypeOK
    <3>2. Told(task[registry[rm].task]) /\ Registered(rm)
      BY <2>5, <2>9, <3>1 DEF ListInv, Registered, Told
    <3>3. registry[rm].task \in Tasks /\ registry[rm].task # t
      BY <2>1, <3>1, <3>2, EntryType DEF EntryInv, At
    <3> QED BY <2>0, <3>1, <3>2, <3>3 DEF Told
  <2> QED BY <2>1, <2>7, <2>8, <2>9 DEF ListInv, RowOf, Registered, Told
<1>20. ASSUME NEW t \in Tasks, Record(t)
      PROVE  ListInv'
  <2>1. /\ UNCHANGED <<rows, rm>> /\ hist' = hist /\ Past(t)
        /\ \A u \in Tasks \ {t} : task'[u] = task[u]
    BY <1>20, FlightMoves DEF Record, queue, At, Past
  <2>2. RowOf(t).id \in Ids
    BY TaskOfRow DEF TypeOK, Row, RowOf
  <2>3. \A id \in Ids : /\ Registered(id)' => Registered(id) /\ registry'[id].task = registry[id].task
                        /\ id # RowOf(t).id => registry'[id] = registry[id]
    BY <1>20, <2>2, StatedRegisters DEF Record
  <2>4. \A u \in Tasks : Past(u)' => Past(u)
    BY <2>1 DEF Past, At
  <2>7. task'[t].pc = "flying" /\ task[t].pc = "recording" /\ task'[t].cancelled = task[t].cancelled
    <3>1. task'[t] = [pc |-> "flying", cancelled |-> task[t].cancelled]
      BY <1>20, GoesType DEF Record
    <3> QED BY <1>20, <3>1 DEF Record, At
  <2>5. ASSUME NEW u \in Tasks, Flying(u)', ~task'[u].cancelled, RowOf(u).id \notin hist.shared \cup hist.overtaken
        PROVE  registry'[RowOf(u).id] = [task |-> u, state |-> "live", stamped |-> FALSE]
    <3>1. Flying(u) /\ ~task[u].cancelled /\ RowOf(u).id \in Ids
      BY <2>1, <2>5, <2>7, TaskOfRow DEF Flying, TypeOK, Row, RowOf
    <3>2. registry[RowOf(u).id] = [task |-> u, state |-> "live", stamped |-> FALSE]
      BY <2>5, <3>1 DEF ListInv
    <3>3. registry' = Stated(RowOf(t).id, "live")
      BY <1>20 DEF Record
    <3> QED BY <2>2, <2>3, <3>1, <3>2, <3>3, LiveAgain
  <2>6. ASSUME rm # None, rm \notin hist.overtaken, registry'[rm] # NoEntry
        PROVE  Told(task'[registry'[rm].task])
    <3>1. rm \in Ids /\ Registered(rm) /\ registry'[rm].task = registry[rm].task
      BY <2>3, <2>6 DEF TypeOK, Registered
    <3>2. registry[rm].task \in Tasks /\ Told(task[registry[rm].task])
      BY <2>6, <3>1, EntryType DEF ListInv, Told
    <3> QED BY <2>1, <2>7, <3>1, <3>2 DEF Told
  <2> QED BY <2>1, <2>4, <2>5, <2>6 DEF ListInv, RowOf, Told, Registered
<1>21. ASSUME NEW t \in Tasks, Close(t) \/ Leave(t)
      PROVE  ListInv'
  <2>1. /\ UNCHANGED <<rows, rm>> /\ hist' = hist /\ Past(t)
        /\ \A u \in Tasks \ {t} : task'[u] = task[u]
    BY <1>21, FlightMoves DEF Close, Leave, Ends, queue, At, Past
  <2>2. RowOf(t).id \in Ids
    BY TaskOfRow DEF TypeOK, Row, RowOf
  <2>3. \A id \in Ids : /\ Registered(id)' => Registered(id) /\ registry'[id].task = registry[id].task
                        /\ id # RowOf(t).id => registry'[id] = registry[id]
    BY <1>21, <2>2, StatedRegisters DEF Close, Leave, Ends
  <2>4. \A u \in Tasks : Past(u)' => Past(u)
    BY <2>1 DEF Past, At
  <2>7. task'[t].pc = "done" /\ task[t].pc = "flying" /\ task'[t].cancelled = task[t].cancelled
    <3>1. task'[t] = [pc |-> "done", cancelled |-> task[t].cancelled]
      BY <1>21, GoesType DEF Close, Leave, Ends
    <3> QED BY <1>21, <3>1 DEF Close, Leave, Ends, At
  <2>5. ASSUME NEW u \in Tasks, Flying(u)', ~task'[u].cancelled, RowOf(u).id \notin hist.shared \cup hist.overtaken
        PROVE  registry'[RowOf(u).id] = [task |-> u, state |-> "live", stamped |-> FALSE]
    <3>1. u # t /\ task'[u] = task[u]
      BY <2>1, <2>5, <2>7 DEF Flying
    <3>2. Flying(u) /\ Past(u) /\ RowOf(u).id \in Ids
      BY <2>5, <3>1, TaskOfRow DEF Flying, Past, At, TypeOK, Row, RowOf
    <3>3. RowOf(u).id # RowOf(t).id
      BY <2>1, <2>5, <3>1, <3>2 DEF ListInv
    <3> QED BY <2>3, <2>5, <3>1, <3>2, <3>3 DEF ListInv
  <2>6. ASSUME rm # None, rm \notin hist.overtaken, registry'[rm] # NoEntry
        PROVE  Told(task'[registry'[rm].task])
    <3>1. rm \in Ids /\ Registered(rm) /\ registry'[rm].task = registry[rm].task
      BY <2>3, <2>6 DEF TypeOK, Registered
    <3>2. registry[rm].task \in Tasks /\ Told(task[registry[rm].task])
      BY <2>6, <3>1, EntryType DEF ListInv, Told
    <3> QED BY <2>1, <2>7, <3>1, <3>2 DEF Told
  <2> QED BY <2>1, <2>4, <2>5, <2>6 DEF ListInv, RowOf, Told, Registered
<1>22. ASSUME NEW t \in Tasks, Complete(t)
      PROVE  ListInv'
  BY <1>22, ListKept, RowsMarked, TasksMarked, TaskOfRow DEF Past, Flying, At, Told, Entered
<1>23. ASSUME NEW t \in Tasks, Tail(t)
      PROVE  ListInv'
  <2>1. /\ UNCHANGED <<rows, rm>> /\ hist' = hist /\ Past(t)
        /\ \A u \in Tasks \ {t} : task'[u] = task[u]
    BY <1>23 DEF Tail, queue, At, Past, TypeOK
  <2>2. RowOf(t).id \in Ids
    BY TaskOfRow DEF TypeOK, Row, RowOf
  <2>3. \A id \in Ids : /\ Registered(id)' => Registered(id) /\ registry'[id].task = registry[id].task
                        /\ id # RowOf(t).id => registry'[id] = registry[id]
    BY <1>23, <2>2, StatedRegisters DEF Tail, TailRegistry
  <2>4. \A u \in Tasks : Past(u)' => Past(u)
    BY <2>1 DEF Past, At
  <2>7. task'[t].pc = "none"
    BY <1>23 DEF Tail, NoTask, TypeOK
  <2>5. ASSUME NEW u \in Tasks, Flying(u)', ~task'[u].cancelled, RowOf(u).id \notin hist.shared \cup hist.overtaken
        PROVE  registry'[RowOf(u).id] = [task |-> u, state |-> "live", stamped |-> FALSE]
    <3>1. u # t /\ task'[u] = task[u]
      BY <2>1, <2>5, <2>7 DEF Flying
    <3>2. Flying(u) /\ Past(u) /\ RowOf(u).id \in Ids
      BY <2>5, <3>1, TaskOfRow DEF Flying, Past, At, TypeOK, Row, RowOf
    <3>3. RowOf(u).id # RowOf(t).id
      BY <2>1, <2>5, <3>1, <3>2 DEF ListInv
    <3> QED BY <2>3, <2>5, <3>1, <3>2, <3>3 DEF ListInv
  <2>6. ASSUME rm # None, rm \notin hist.overtaken, registry'[rm] # NoEntry
        PROVE  Told(task'[registry'[rm].task])
    <3>1. rm \in Ids /\ Registered(rm) /\ registry'[rm].task = registry[rm].task
      BY <2>3, <2>6 DEF TypeOK, Registered
    <3>2. registry[rm].task \in Tasks /\ Told(task[registry[rm].task])
      BY <2>6, <3>1, EntryType DEF ListInv, Told
    <3> QED BY <2>1, <2>7, <3>1, <3>2 DEF Told
  <2> QED BY <2>1, <2>4, <2>5, <2>6 DEF ListInv, RowOf, Told, Registered
<1>24. CASE Retire
  BY <1>24, ListKept DEF Retire, reader, Past, Flying, At, Told, Entered
<1>25. CASE StandDownSquadrons
  <2> DEFINE R == {registry[id].task : id \in {i \in Ids : Registered(i)}}
  <2>1. task' = Cancelled(R) /\ rm' = rm
    BY <1>25 DEF StandDownSquadrons
  <2> HIDE DEF R
  <2>2. \A t \in Tasks : Told(task[t]) => Told(task'[t])
    <3>1. \A t \in Tasks : task'[t].pc = task[t].pc /\ (task[t].cancelled => task'[t].cancelled)
      BY <2>1, CancelledKeeps
    <3> QED BY <3>1 DEF Told
  <2> QED BY <1>25, <2>1, <2>2, ListKept, TokensOnly DEF queue, reader, Past, Flying, At
<1>26. CASE Resume
  BY <1>26, ListKept DEF Resume, reader, Past, Flying, At, Told, Entered
<1>27. CASE Restart
  <2>1. (\A t \in Tasks : task'[t] = NoTask) /\ rm' = None
    BY <1>27 DEF Restart
  <2> QED BY <2>1 DEF ListInv, NoTask, Past, Flying, At
<1>28. CASE UNCHANGED vars
  BY <1>28, ListKept DEF vars, Past, Flying, At, Told, Entered
<1> QED BY <1>1, <1>2, <1>3, <1>4, <1>5, <1>6, <1>7, <1>8, <1>9, <1>10, <1>11, <1>12, <1>13, <1>14, <1>15, <1>16, <1>17, <1>18, <1>19, <1>20, <1>21, <1>22, <1>23, <1>24, <1>25, <1>26, <1>27, <1>28
        DEF Next, Operator, Processor, Flight

-----------------------------------------------------------------------------
(* The seeder *)

\* A row of the seeder's that the operator did not retry.
Own(r) == rows[r].seeded /\ (InFlight(r) \/ r \in batch \/ r = cur) /\ r \notin hist.retried
SeedInv ==
  /\ \A r \in Rows : rows[r].seeded => rows[r].id = SeedId
  /\ \A r, q \in Rows : Own(r) /\ Own(q) => r = q
  /\ proc = "select" => \A r \in Rows : ~Own(r)

LEMMA SeedKept ==
    ASSUME SeedInv, \A q \in Rows : rows'[q].id = rows[q].id /\ rows'[q].seeded = rows[q].seeded,
           \A q \in Rows : Own(q)' => Own(q), proc' = "select" => proc = "select"
    PROVE  SeedInv'
  BY DEF SeedInv

LEMMA SeedStep ==
    ASSUME TypeOK, TypeOK', ClaimInv, SeedInv, [Next]_vars
    PROVE  SeedInv'
<1>1. ASSUME NEW r \in Rows, NEW m \in Markets, NEW id \in Ids, Deploy(r, m, id)
      PROVE  SeedInv'
  <2>1. /\ ~rows'[r].seeded /\ \A q \in Rows \ {r} : rows'[q] = rows[q]
        /\ hist'.retried = hist.retried \ {r}
    BY <1>1, InsertDoes DEF Deploy
  <2>2. UNCHANGED <<batch, cur, proc>>
    BY <1>1 DEF Deploy, reader
  <2>3. \A q \in Rows : Own(q)' => q # r /\ Own(q)
    BY <2>1, <2>2 DEF Own, InFlight
  <2> QED BY <2>1, <2>2, <2>3 DEF SeedInv
<1>2. ASSUME NEW id \in Ids, StandDown(id)
      PROVE  SeedInv'
  BY <1>2, SeedKept DEF StandDown, reader, TypeOK, Histories, Own, InFlight
<1>3. CASE StandDownCancels
  BY <1>3, SeedKept, TokensOnly DEF queue, reader, Own, InFlight
<1>4. CASE StandDownRemoves
  BY <1>4, SeedKept DEF StandDownRemoves, queue, reader, Own, InFlight
<1>5. CASE SwitchOn
  BY <1>5, SeedKept DEF SwitchOn, reader, TypeOK, Histories, Own, InFlight
<1>6. ASSUME NEW r \in Rows, Retry(r)
      PROVE  SeedInv'
  <2>1. /\ \A q \in Rows : rows'[q].id = rows[q].id /\ rows'[q].seeded = rows[q].seeded
        /\ \A q \in Rows \ {r} : rows'[q] = rows[q]
    BY <1>6, RowsMarked, PutBackDoes, MarkedRow DEF Status, Unfinished
  <2>2. UNCHANGED <<batch, cur, proc>> /\ hist.retried \subseteq hist'.retried
    BY <1>6, PutBackDoes DEF reader
  <2>3. (rows[r].seeded => r \in hist'.retried) \/ rows'[r].status = "completed"
    BY <1>6, PutBackDoes, MarkedRow DEF Status
  <2> QED BY <2>1, <2>2, <2>3, SeedKept DEF Own, InFlight, Unfinished
<1>7. ASSUME NEW r \in Rows, Dismiss(r)
      PROVE  SeedInv'
  <2>1. /\ \A q \in Rows : rows'[q].id = rows[q].id /\ rows'[q].seeded = rows[q].seeded
        /\ \A q \in Rows \ {r} : rows'[q] = rows[q]
    BY <1>7, RowsMarked, PutBackDoes, MarkedRow DEF Status, Unfinished
  <2>2. UNCHANGED <<batch, cur, proc>> /\ hist.retried \subseteq hist'.retried
    BY <1>7, PutBackDoes DEF reader
  <2>3. (rows[r].seeded => r \in hist'.retried) \/ rows'[r].status = "completed"
    BY <1>7, PutBackDoes, MarkedRow DEF Status
  <2> QED BY <2>1, <2>2, <2>3, SeedKept DEF Own, InFlight, Unfinished
<1>8. CASE Requeue
  <2>1. ASSUME NEW q \in Rows
        PROVE  InFlight(q)' => InFlight(q)
    <3>1. rows'[q] = rows[q] \/ q \in Interrupted
      BY <1>8 DEF Requeue
    <3> QED BY <3>1 DEF Interrupted, InFlight, Unfinished
  <2>2. UNCHANGED <<batch, cur, hist>> /\ proc' = "tick"
    BY <1>8 DEF Requeue
  <2> QED BY <1>8, <2>1, <2>2, SeedKept, RowsMarked DEF Own
<1>9. CASE Tick
  BY <1>9, SeedKept DEF Tick, queue, Own, InFlight
<1>10. CASE ListLive
  BY <1>10, SeedKept DEF ListLive, queue, Own, InFlight
<1>11. CASE ReadQueue
  <2>1. UNCHANGED <<rows, hist, batch, cur>> /\ batch = {} /\ cur = None
    BY <1>11 DEF ReadQueue, queue, ClaimInv
  <2>2. ASSUME proc' = "select"
        PROVE  \A r \in Rows : ~Own(r)
    <3>1. ClassesInFlight = {}
      BY <1>11, <2>2 DEF ReadQueue
    <3>2. ASSUME NEW r \in Rows, InFlight(r), rows[r].id = SeedId
          PROVE  FALSE
      BY <3>1, <3>2 DEF ClassesInFlight
    <3>3. None \notin Rows
      OBVIOUS
    <3> QED BY <2>1, <3>2, <3>3 DEF SeedInv, Own
  <2> QED BY <2>1, <2>2 DEF SeedInv, Own, InFlight
<1>12. ASSUME NEW r \in Rows, NEW m \in Markets, Select(r, m)
      PROVE  SeedInv'
  <2>0. SeedId \in Ids /\ TRUE \in BOOLEAN /\ Spare(r) /\ rows' = Inserted(r, m, SeedId, TRUE) /\ hist' = Forgotten(r)
    BY <1>12 DEF Select
  <2>1. /\ rows'[r].id = SeedId /\ \A q \in Rows \ {r} : rows'[q] = rows[q]
        /\ hist'.retried = hist.retried \ {r}
    BY <2>0, InsertDoes
  <2>2. UNCHANGED <<batch, cur>> /\ proc = "select" /\ proc' = "fetch"
    BY <1>12 DEF Select
  <2>3. \A q \in Rows : Own(q)' => q = r
    BY <2>1, <2>2 DEF Own, InFlight, SeedInv
  <2> QED BY <2>1, <2>2, <2>3 DEF SeedInv
<1>13. CASE SelectNothing
  BY <1>13, SeedKept DEF SelectNothing, queue, Own, InFlight
<1>14. CASE Fetch
  BY <1>14, SeedKept DEF Fetch, queue, Unfinished, Own, InFlight
<1>15. ASSUME NEW r \in Rows, Claim(r)
      PROVE  SeedInv'
  <2>1. /\ UNCHANGED <<hist, proc>> /\ r \in batch /\ batch' = batch \ {r} /\ cur' = r /\ cur = None
    BY <1>15 DEF Claim
  <2>2. \A q \in Rows \ {r} : rows'[q] = rows[q]
    BY <1>15, MarkedRow DEF Claim, Claimed, Status, Unfinished
  <2> QED BY <1>15, <2>1, <2>2, SeedKept, RowsMarked DEF Own, InFlight
<1>16. CASE Start
  <2>1. /\ UNCHANGED <<proc, batch>> /\ cur \in Rows /\ cur' = None
        /\ hist' = [hist EXCEPT !.twice = @ \/ (Manned(cur) /\ cur \notin hist.forced)]
    BY <1>16, StartDoes
  <2>2. hist'.retried = hist.retried
    BY <2>1 DEF TypeOK, Histories
  <2>3. \A q \in Rows \ {cur} : rows'[q] = rows[q]
    BY <1>16, StartDoes, MarkedRow DEF Status, Unfinished
  <2>4. None \notin Rows
    OBVIOUS
  <2> QED BY <1>16, <2>1, <2>2, <2>3, <2>4, SeedKept, RowsMarked DEF Own, InFlight
<1>17. CASE Drained
  BY <1>17, SeedKept DEF Drained, queue, Own, InFlight
<1>18. ASSUME NEW t \in Tasks, Fails(t)
      PROVE  SeedInv'
  <2>1. UNCHANGED <<proc, batch, cur, hist>> /\ t[1] \in Rows
    BY <1>18, FailsDoes, TaskOfRow DEF reader
  <2>2. rows'[t[1]].status \in {"completed", "failed"} /\ \A q \in Rows \ {t[1]} : rows'[q] = rows[q]
    BY <1>18, FailsDoes, MarkedRow, TaskOfRow DEF Status
  <2> QED BY <1>18, <2>1, <2>2, SeedKept, RowsMarked DEF Own, InFlight, Unfinished
<1>19. ASSUME NEW t \in Tasks, Register(t)
      PROVE  SeedInv'
  BY <1>19, SeedKept, FlightMoves DEF queue, reader, Own, InFlight
<1>20. ASSUME NEW t \in Tasks, Record(t)
      PROVE  SeedInv'
  BY <1>20, SeedKept, FlightMoves DEF queue, reader, Own, InFlight
<1>21. ASSUME NEW t \in Tasks, Close(t) \/ Leave(t)
      PROVE  SeedInv'
  BY <1>21, SeedKept, FlightMoves DEF queue, reader, Own, InFlight
<1>22. ASSUME NEW t \in Tasks, Complete(t)
      PROVE  SeedInv'
  <2>1. UNCHANGED <<proc, batch, cur, hist>> /\ t[1] \in Rows
    BY <1>22, TaskOfRow DEF Complete, reader
  <2>2. rows'[t[1]].status = "completed" /\ \A q \in Rows \ {t[1]} : rows'[q] = rows[q]
    BY <1>22, MarkedRow, TaskOfRow DEF Complete, Status
  <2> QED BY <1>22, <2>1, <2>2, SeedKept, RowsMarked DEF Own, InFlight, Unfinished
<1>23. ASSUME NEW t \in Tasks, Tail(t)
      PROVE  SeedInv'
  BY <1>23, SeedKept DEF Tail, queue, reader, Own, InFlight
<1>24. CASE Retire
  BY <1>24, SeedKept DEF Retire, reader, Own, InFlight
<1>25. CASE StandDownSquadrons
  BY <1>25, SeedKept, TokensOnly DEF queue, reader, Own, InFlight
<1>26. CASE Resume
  BY <1>26, SeedKept DEF Resume, reader, Own, InFlight
<1>27. CASE Restart
  <2>1. UNCHANGED rows /\ batch' = {} /\ cur' = None /\ proc' = "boot"
    BY <1>27 DEF Restart, queue
  <2>2. hist'.retried = hist.retried
    BY <1>27 DEF Restart, TypeOK, Histories
  <2>3. None \notin Rows
    OBVIOUS
  <2> QED BY <2>1, <2>2, <2>3, SeedKept DEF Own, InFlight
<1>28. CASE UNCHANGED vars
  BY <1>28, SeedKept DEF vars, Own, InFlight
<1> QED BY <1>1, <1>2, <1>3, <1>4, <1>5, <1>6, <1>7, <1>8, <1>9, <1>10, <1>11, <1>12, <1>13, <1>14, <1>15, <1>16, <1>17, <1>18, <1>19, <1>20, <1>21, <1>22, <1>23, <1>24, <1>25, <1>26, <1>27, <1>28
        DEF Next, Operator, Processor, Flight

\* A search for a market began with no squadron of the class in the queue, so
\* none can begin to fly during it, and none can be stood down.
DownInv ==
  /\ proc = "select" =>
       \A t \in Tasks : InClass(t[1]) /\ t[1] \notin hist.forced => task[t].pc \in {"none", "tail"}
  /\ hist.down => ~switch /\ proc # "select"

LEMMA DownKept ==
    ASSUME DownInv, proc' = "select" => proc = "select",
           \A t \in Tasks : rows'[t[1]].id = rows[t[1]].id, hist.forced \subseteq hist'.forced,
           proc = "select" => \A t \in Tasks : task[t].pc \in {"none", "tail"} => task'[t].pc \in {"none", "tail"},
           hist'.down => hist.down, switch' => switch
    PROVE  DownInv'
  BY DEF DownInv, InClass

LEMMA DownStep ==
    ASSUME TypeOK, TypeOK', ClaimInv, EntryInv, DownInv, [Next]_vars
    PROVE  DownInv'
<1>1. ASSUME NEW r \in Rows, NEW m \in Markets, NEW id \in Ids, Deploy(r, m, id)
      PROVE  DownInv'
  <2>1. /\ \A q \in Rows \ {r} : rows'[q] = rows[q]
        /\ \A t \in Tasks : t[1] = r => ~Alive(t)
        /\ hist'.forced = hist.forced \ {r} /\ hist'.down = hist.down
    BY <1>1, InsertDoes DEF Deploy
  <2>2. UNCHANGED <<task, switch>> /\ proc' = proc
    BY <1>1 DEF Deploy, reader
  <2> QED BY <2>1, <2>2, TaskOfRow DEF DownInv, InClass, Alive
<1>2. ASSUME NEW id \in Ids, StandDown(id)
      PROVE  DownInv'
  <2>1. UNCHANGED <<rows, task, proc>> /\ Registered(id) /\ switch' = (switch /\ id \notin ClassIds)
    BY <1>2 DEF StandDown, reader
  <2>2. hist' = [hist EXCEPT !.down = @ \/ Downs(id)]
    BY <1>2 DEF StandDown
  <2>3. hist'.down = (hist.down \/ Downs(id)) /\ hist'.forced = hist.forced
    BY <2>2 DEF TypeOK, Histories
  <2>4. CASE Downs(id)
    <3> DEFINE t == registry[id].task
    <3>1. t \in Tasks
      BY <2>1, EntryType
    <3>2. rows[t[1]].id = id
      BY <2>1 DEF EntryInv, RowOf
    <3>3. id \in ClassIds /\ task[t].pc \in {"recording", "flying"} /\ t[1] \notin hist.forced
      BY <2>4 DEF Downs, Flying
    <3> HIDE DEF t
    <3>4. proc # "select"
      BY <3>1, <3>2, <3>3 DEF DownInv, InClass
    <3> QED BY <2>1, <3>3, <3>4 DEF DownInv
  <2>5. CASE ~Downs(id)
    BY <2>1, <2>3, <2>5, DownKept
  <2> QED BY <2>4, <2>5
<1>3. CASE StandDownCancels
  BY <1>3, DownKept, TokensOnly DEF queue, reader
<1>4. CASE StandDownRemoves
  BY <1>4, DownKept DEF StandDownRemoves, queue, reader
<1>5. CASE SwitchOn
  <2>1. UNCHANGED <<rows, task, proc>> /\ ~hist'.down /\ hist'.forced = hist.forced
    BY <1>5 DEF SwitchOn, reader, TypeOK, Histories
  <2> QED BY <2>1 DEF DownInv, InClass
<1>6. ASSUME NEW r \in Rows, Retry(r)
      PROVE  DownInv'
  BY <1>6, DownKept, PutBackDoes, RowsMarked, TaskOfRow DEF reader
<1>7. ASSUME NEW r \in Rows, Dismiss(r)
      PROVE  DownInv'
  BY <1>7, DownKept, PutBackDoes, RowsMarked, TaskOfRow DEF reader
<1>8. CASE Requeue
  <2>1. UNCHANGED <<task, switch, hist>> /\ proc' = "tick"
    BY <1>8 DEF Requeue
  <2> QED BY <1>8, <2>1, DownKept, RowsMarked, TaskOfRow
<1>9. CASE Tick
  BY <1>9, DownKept DEF Tick, queue
<1>10. CASE ListLive
  BY <1>10, DownKept DEF ListLive, queue
<1>11. CASE ReadQueue
  <2>1. UNCHANGED <<rows, task, switch, hist>>
    BY <1>11 DEF ReadQueue, queue
  <2>2. ASSUME proc' = "select"
        PROVE  switch /\ \A r \in Rows : InClass(r) => ~InFlight(r)
    <3>1. ClassesInFlight = {} /\ switch
      BY <1>11, <2>2 DEF ReadQueue
    <3> QED BY <3>1 DEF ClassesInFlight, InClass
  <2>3. ASSUME NEW t \in Tasks, ~InFlight(t[1]), t[1] \notin hist.forced
        PROVE  task[t].pc \in {"none", "tail"}
    BY <2>3 DEF ClaimInv, Alive, At, RowOf, InFlight, Unfinished
  <2> QED BY <2>1, <2>2, <2>3, TaskOfRow DEF DownInv, InClass
<1>12. ASSUME NEW r \in Rows, NEW m \in Markets, Select(r, m)
      PROVE  DownInv'
  <2>1. /\ \A q \in Rows \ {r} : rows'[q] = rows[q]
        /\ \A t \in Tasks : t[1] = r => ~Alive(t)
        /\ hist'.forced = hist.forced \ {r} /\ hist'.down = hist.down
    BY <1>12, InsertDoes DEF Select
  <2>2. UNCHANGED <<task, switch>> /\ proc' = "fetch"
    BY <1>12 DEF Select, reader
  <2> QED BY <2>1, <2>2, TaskOfRow DEF DownInv, InClass, Alive
<1>13. CASE SelectNothing
  BY <1>13, DownKept DEF SelectNothing, queue
<1>14. CASE Fetch
  BY <1>14, DownKept DEF Fetch, queue
<1>15. ASSUME NEW r \in Rows, Claim(r)
      PROVE  DownInv'
  <2>1. UNCHANGED <<task, switch, hist, proc>>
    BY <1>15 DEF Claim
  <2> QED BY <1>15, <2>1, DownKept, RowsMarked, TaskOfRow
<1>16. CASE Start
  <2>1. UNCHANGED <<proc, switch>> /\ proc = "drain" /\ hist'.forced = hist.forced /\ hist'.down = hist.down
    BY <1>16, StartDoes DEF TypeOK, Histories
  <2> QED BY <1>16, <2>1, DownKept, RowsMarked, TaskOfRow
<1>17. CASE Drained
  BY <1>17, DownKept DEF Drained, queue
<1>18. ASSUME NEW t \in Tasks, Fails(t)
      PROVE  DownInv'
  <2>1. UNCHANGED <<proc, switch, hist>>
    BY <1>18, FailsDoes DEF reader
  <2>2. \A u \in Tasks : task[u].pc \in {"none", "tail"} => task'[u].pc \in {"none", "tail"}
    BY <1>18, FailsDoes DEF NoTask, TypeOK
  <2>3. \A u \in Tasks : rows'[u[1]].id = rows[u[1]].id
    BY <1>18, RowsMarked, TaskOfRow
  <2> QED BY <2>1, <2>2, <2>3, DownKept
<1>19. ASSUME NEW t \in Tasks, Register(t)
      PROVE  DownInv'
  BY <1>19, DownKept, FlightMoves, TaskOfRow DEF queue, reader
<1>20. ASSUME NEW t \in Tasks, Record(t)
      PROVE  DownInv'
  BY <1>20, DownKept, FlightMoves, TaskOfRow DEF queue, reader
<1>21. ASSUME NEW t \in Tasks, Close(t) \/ Leave(t)
      PROVE  DownInv'
  BY <1>21, DownKept, FlightMoves, TaskOfRow DEF queue, reader
<1>22. ASSUME NEW t \in Tasks, Complete(t)
      PROVE  DownInv'
  <2>1. UNCHANGED <<proc, switch, hist>>
    BY <1>22 DEF Complete, reader
  <2>2. \A u \in Tasks : task[u].pc \in {"none", "tail"} => task'[u].pc \in {"none", "tail"}
    BY <1>22, TaskSet DEF Complete, Task, At
  <2>3. \A u \in Tasks : rows'[u[1]].id = rows[u[1]].id
    BY <1>22, RowsMarked, TaskOfRow
  <2> QED BY <2>1, <2>2, <2>3, DownKept
<1>23. ASSUME NEW t \in Tasks, Tail(t)
      PROVE  DownInv'
  <2>1. UNCHANGED <<rows, proc, switch, hist>> /\ \A u \in Tasks : task'[u] = task[u] \/ task'[u].pc = "none"
    BY <1>23 DEF Tail, queue, reader, NoTask, TypeOK
  <2> QED BY <2>1, DownKept
<1>24. CASE Retire
  BY <1>24, DownKept DEF Retire, reader
<1>25. CASE StandDownSquadrons
  BY <1>25, DownKept, TokensOnly DEF queue, reader
<1>26. CASE Resume
  BY <1>26, DownKept DEF Resume, reader
<1>27. CASE Restart
  <2>1. UNCHANGED switch /\ proc' = "boot" /\ hist'.down = hist.down
    BY <1>27 DEF Restart, queue, TypeOK, Histories
  <2> QED BY <2>1 DEF DownInv
<1>28. CASE UNCHANGED vars
  BY <1>28, DownKept DEF vars
<1> QED BY <1>1, <1>2, <1>3, <1>4, <1>5, <1>6, <1>7, <1>8, <1>9, <1>10, <1>11, <1>12, <1>13, <1>14, <1>15, <1>16, <1>17, <1>18, <1>19, <1>20, <1>21, <1>22, <1>23, <1>24, <1>25, <1>26, <1>27, <1>28
        DEF Next, Operator, Processor, Flight

-----------------------------------------------------------------------------
(* The theorems *)

QueueInv == TypeOK /\ ClaimInv /\ EntryInv /\ ListInv /\ SeedInv /\ DownInv

LEMMA QueueInit == Init => QueueInv
<1> SUFFICES ASSUME Init PROVE QueueInv
  OBVIOUS
<1>1. /\ \A r \in Rows : rows[r] = NewRow
      /\ \A t \in Tasks : task[t] = NoTask
      /\ \A id \in Ids : registry[id] = NoEntry
      /\ proc = "boot" /\ batch = {} /\ cur = None /\ rm = None /\ ~hist.twice /\ ~hist.down
  BY DEF Init
<1>2. ClaimInv
  <2>1. None \notin Rows
    OBVIOUS
  <2> QED BY <1>1, <2>1 DEF ClaimInv, Alive, NoTask
<1>3. EntryInv
  BY <1>1 DEF EntryInv, Registered
<1>4. ListInv
  BY <1>1 DEF ListInv, Past, Flying, At, NoTask
<1>5. SeedInv
  BY <1>1 DEF SeedInv, Own, NewRow
<1>6. DownInv
  BY <1>1 DEF DownInv
<1> QED BY <1>2, <1>3, <1>4, <1>5, <1>6, TypeInit DEF QueueInv

LEMMA QueueStep == QueueInv /\ [Next]_vars => QueueInv'
  BY TypeStep, ClaimStep, EntryStep, ListStep, SeedStep, DownStep DEF QueueInv

LEMMA QueueHolds == Spec => []QueueInv
  BY QueueInit, QueueStep, PTL DEF Spec

\* No row is started while a task of it runs, over any number of restarts, requeues,
\* dismissals and retries, but one the operator put back while its task ran or
\* dismissed while it was claimed (run_deployment_processor).
THEOREM RowsAreClaimed == Spec => []ClaimedOnce
<1>1. QueueInv => ClaimedOnce
  BY DEF QueueInv, ClaimInv, ClaimedOnce
<1> QED BY <1>1, QueueHolds, PTL

\* A squadron that trades is listed as live under the token that stops it
\* (register_with_cancel), but where an id was registered over one still ending or
\* between the two steps of a stand-down.
THEOREM FlightsAreListed == Spec => []RunningIsListed
<1>1. QueueInv => RunningIsListed
  BY DEF QueueInv, ListInv, RunningIsListed, At, Flying
<1> QED BY <1>1, QueueHolds, PTL

\* The seeder never has two unfinished rows (seed_auto_deployments).
THEOREM SeedsAreSingle == Spec => []SeededOnce
<1>1. QueueInv => SeededOnce
  <2> SUFFICES ASSUME QueueInv PROVE SeededOnce
    OBVIOUS
  <2> DEFINE S == {r \in Rows : rows[r].seeded /\ InFlight(r) /\ r \notin hist.retried}
  <2>1. \A r, q \in S : r = q
    BY DEF QueueInv, SeedInv, Own
  <2>2. CASE S = {}
    BY <2>2, FS_EmptySet DEF SeededOnce
  <2>3. CASE S # {}
    <3>1. PICK r : r \in S
      BY <2>3
    <3>2. S = {r}
      BY <2>1, <3>1
    <3>3. Cardinality(S) = 1
      BY <3>2, FS_Singleton
    <3> QED BY <3>3 DEF SeededOnce
  <2> QED BY <2>2, <2>3
<1> QED BY <1>1, QueueHolds, PTL

\* Only the seeder, a retry and a forced row put a seeded row in flight.
LEMMA InFlightStep ==
    ASSUME TypeOK, TypeOK', ClaimInv, proc # "select", [Next]_vars, NEW x \in Rows,
           rows'[x].seeded, InFlight(x)', ~InFlight(x)
    PROVE  x \in hist'.retried \cup hist.forced
<1>1. ASSUME NEW r \in Rows, NEW m \in Markets, NEW id \in Ids, Deploy(r, m, id)
      PROVE  x \in hist'.retried \cup hist.forced
  BY <1>1, InsertDoes DEF Deploy, InFlight
<1>2. ASSUME NEW id \in Ids, StandDown(id)
      PROVE  x \in hist'.retried \cup hist.forced
  BY <1>2 DEF StandDown, InFlight
<1>3. CASE StandDownCancels
  BY <1>3, TokensOnly DEF queue, InFlight
<1>4. CASE StandDownRemoves
  BY <1>4 DEF StandDownRemoves, queue, reader, InFlight
<1>5. CASE SwitchOn
  BY <1>5 DEF SwitchOn, InFlight
<1>6. ASSUME NEW r \in Rows, Retry(r)
      PROVE  x \in hist'.retried \cup hist.forced
  <2>1. /\ \A q \in Rows : rows'[q].seeded = rows[q].seeded
        /\ \A q \in Rows \ {r} : rows'[q] = rows[q]
        /\ (rows[r].seeded => r \in hist'.retried) \/ rows'[r].status = "completed"
    BY <1>6, PutBackDoes, MarkedRow DEF Status, Unfinished
  <2> QED BY <2>1 DEF InFlight, Unfinished
<1>7. ASSUME NEW r \in Rows, Dismiss(r)
      PROVE  x \in hist'.retried \cup hist.forced
  <2>1. /\ \A q \in Rows : rows'[q].seeded = rows[q].seeded
        /\ \A q \in Rows \ {r} : rows'[q] = rows[q]
        /\ (rows[r].seeded => r \in hist'.retried) \/ rows'[r].status = "completed"
    BY <1>7, PutBackDoes, MarkedRow DEF Status, Unfinished
  <2> QED BY <2>1 DEF InFlight, Unfinished
<1>8. CASE Requeue
  <2>1. rows'[x] = rows[x] \/ x \in Interrupted
    BY <1>8 DEF Requeue
  <2> QED BY <2>1 DEF Interrupted, InFlight, Unfinished
<1>9. CASE Tick
  BY <1>9 DEF Tick, queue, InFlight
<1>10. CASE ListLive
  BY <1>10 DEF ListLive, queue, InFlight
<1>11. CASE ReadQueue
  BY <1>11 DEF ReadQueue, queue, InFlight
<1>12. ASSUME NEW r \in Rows, NEW m \in Markets, Select(r, m)
      PROVE  x \in hist'.retried \cup hist.forced
  BY <1>12 DEF Select, InFlight
<1>13. CASE SelectNothing
  BY <1>13 DEF SelectNothing, queue, InFlight
<1>14. CASE Fetch
  BY <1>14 DEF Fetch, queue, InFlight
<1>15. ASSUME NEW r \in Rows, Claim(r)
      PROVE  x \in hist'.retried \cup hist.forced
  <2>1. r \in batch /\ \A q \in Rows \ {r} : rows'[q] = rows[q]
    BY <1>15, MarkedRow DEF Claim, Claimed, Status, Unfinished
  <2> QED BY <2>1 DEF ClaimInv, InFlight, Unfinished
<1>16. CASE Start
  <2>1. cur \in Rows /\ \A q \in Rows \ {cur} : rows'[q] = rows[q]
    BY <1>16, StartDoes, MarkedRow DEF Status, Unfinished
  <2> QED BY <2>1 DEF ClaimInv, InFlight, Unfinished
<1>17. CASE Drained
  BY <1>17 DEF Drained, queue, InFlight
<1>18. ASSUME NEW t \in Tasks, Fails(t)
      PROVE  x \in hist'.retried \cup hist.forced
  <2>1. t[1] \in Rows /\ rows'[t[1]].status \in {"completed", "failed"} /\ \A q \in Rows \ {t[1]} : rows'[q] = rows[q]
    BY <1>18, FailsDoes, MarkedRow, TaskOfRow DEF Status
  <2> QED BY <2>1 DEF InFlight, Unfinished
<1>19. ASSUME NEW t \in Tasks, Register(t)
      PROVE  x \in hist'.retried \cup hist.forced
  BY <1>19, FlightMoves DEF queue, InFlight
<1>20. ASSUME NEW t \in Tasks, Record(t)
      PROVE  x \in hist'.retried \cup hist.forced
  BY <1>20, FlightMoves DEF queue, InFlight
<1>21. ASSUME NEW t \in Tasks, Close(t) \/ Leave(t)
      PROVE  x \in hist'.retried \cup hist.forced
  BY <1>21, FlightMoves DEF queue, InFlight
<1>22. ASSUME NEW t \in Tasks, Complete(t)
      PROVE  x \in hist'.retried \cup hist.forced
  <2>1. t[1] \in Rows /\ rows'[t[1]].status = "completed" /\ \A q \in Rows \ {t[1]} : rows'[q] = rows[q]
    BY <1>22, MarkedRow, TaskOfRow DEF Complete, Status
  <2> QED BY <2>1 DEF InFlight, Unfinished
<1>23. ASSUME NEW t \in Tasks, Tail(t)
      PROVE  x \in hist'.retried \cup hist.forced
  BY <1>23 DEF Tail, queue, InFlight
<1>24. CASE Retire
  BY <1>24 DEF Retire, reader, InFlight
<1>25. CASE StandDownSquadrons
  BY <1>25, TokensOnly DEF queue, InFlight
<1>26. CASE Resume
  BY <1>26 DEF Resume, reader, InFlight
<1>27. CASE Restart
  BY <1>27 DEF Restart, queue, InFlight
<1>28. CASE UNCHANGED vars
  BY <1>28 DEF vars, InFlight
<1> QED BY <1>1, <1>2, <1>3, <1>4, <1>5, <1>6, <1>7, <1>8, <1>9, <1>10, <1>11, <1>12, <1>13, <1>14, <1>15, <1>16, <1>17, <1>18, <1>19, <1>20, <1>21, <1>22, <1>23, <1>24, <1>25, <1>26, <1>27, <1>28
        DEF Next, Operator, Processor, Flight

\* A squadron the operator stood down is not replaced before the switch is on
\* again (stand_down_squadron); rows the operator retried or forced are not counted.
THEOREM StandDownsHold == Spec => NotReseeded
<1> DEFINE Kept == hist.down =>
             \A r \in Rows : rows'[r].seeded /\ InFlight(r)' => InFlight(r) \/ r \in hist'.retried \cup hist.forced
<1>1. ASSUME QueueInv, QueueInv', [Next]_vars
      PROVE  [Kept]_vars
  <2> SUFFICES ASSUME hist.down, Next, NEW r \in Rows, rows'[r].seeded, InFlight(r)', ~InFlight(r)
               PROVE  r \in hist'.retried \cup hist.forced
    BY <1>1
  <2>1. proc # "select"
    BY <1>1 DEF QueueInv, DownInv
  <2> QED BY <1>1, <2>1, InFlightStep DEF QueueInv
<1> QED BY <1>1, QueueHolds, PTL DEF Spec, NotReseeded

=============================================================================
