----------------------------- MODULE Squadrons -----------------------------
(***************************************************************************)
(* The deployment queue, the CAG's registry of squadrons and the actors    *)
(* that share them: the operator's requests (api/server.rs), the queue's   *)
(* one consumer with its auto-deploy seeder (venues/deployment.rs), the    *)
(* task each started row runs (run_pinned and trade_one_market of          *)
(* venues/kalshi/trader.rs; venues/us/trader.rs registers, records and     *)
(* leaves the same way), the CAG (cag/mod.rs) and instance retirement      *)
(* (helpers/migration.rs, api/migration.rs).                               *)
(*                                                                         *)
(* Three records of a squadron are kept by different hands and are only    *)
(* held together by the order of their writes: its row in                  *)
(* deployment_queue survives a restart, its registry entry holds the one   *)
(* token that stops it, and its task trades.  The registry is keyed by an  *)
(* id made of the asset class and the operator's name, which two rows may  *)
(* share.                                                                  *)
(*                                                                         *)
(* One auto-deployed class is modelled.  Rows are recycled once nothing    *)
(* acts on them, so a handful stands for the growing table.  A row may be  *)
(* started again while a task of it runs, so a row has several tasks.      *)
(***************************************************************************)
EXTENDS Naturals, FiniteSets

CONSTANTS
  Rows,         \* rows of deployment_queue that can matter at one time
  Markets,      \* market ids of the venue
  Ids,          \* squadron ids, `{asset}-open` or `{asset}-open-{name}`
  ClassIds,     \* the ids whose asset is the auto-deployed class
  SeedId,       \* the unnamed id of that class, the one a seeded row gets
  None,         \* no row, id or market
  MaxTasks,     \* bound: tasks of one row at one time
  MaxRequests,  \* bound: the operator's requests
  MaxRestarts   \* bound: exits of the process

ASSUME IdsAssumption == SeedId \in ClassIds /\ ClassIds \subseteq Ids /\ None \notin Ids \cup Rows \cup Markets
ASSUME BoundsAssumption == MaxTasks \in Nat /\ MaxRequests \in Nat /\ MaxRestarts \in Nat

VARIABLES
  rows,      \* deployment_queue, in the database
  switch,    \* auto_deploy_<class>, in the database
  retired,   \* retired.json, in the data volume, with its atomic copy
  task,      \* per row: the tasks run_deployment_processor spawned for it
  registry,  \* Cag::registry
  proc,      \* where run_deployment_processor stands
  cand,      \* ids reap_retired found due in its scan
  empty,     \* the seeder's first answer: no live squadron of the class
  batch,     \* rows fetched as pending and not yet claimed
  cur,       \* the row claimed and not yet started
  sd,        \* the id a stand-down request is about to cancel
  rm,        \* the id it has cancelled and is about to remove
  prep,      \* whether `prepare` has yet to stand the squadrons down
  requests,  \* the operator's requests so far
  restarts,  \* exits so far
  hist       \* history, read by no action: see Histories

queue == <<rows, switch, retired>>                 \* what a restart keeps
reader == <<proc, cand, empty, batch, cur>>
vars == <<rows, switch, retired, task, registry, proc, cand, empty, batch, cur,
          sd, rm, prep, requests, restarts, hist>>

Tasks == Rows \X (1 .. MaxTasks)
Unfinished == {"pending", "processing", "active"}
\* "completed" stands for every status nothing acts on: dismissed as well.
Status == Unfinished \cup {"completed", "failed"}
NewRow == [status |-> "completed", market |-> None, id |-> SeedId, seeded |-> FALSE]
Row == [status : Status, market : Markets \cup {None}, id : Ids, seeded : BOOLEAN]
NoTask == [pc |-> "none", cancelled |-> FALSE]
Task == [pc : {"none", "resolving", "recording", "flying", "done", "tail"},
         cancelled : BOOLEAN]
\* `task` stands for the entry's cancel_token, which is the task's own;
\* `stamped` for a stood_down_at that is set.
Entry == [task : Tasks, state : {"live", "down"}, stamped : BOOLEAN]
NoEntry == [task |-> None]

\* shared: ids registered while an earlier task of theirs was still ending.
\* overtaken: ids registered between a stand-down's cancel and its removal.
\* retried: seeded rows the operator put back.  forced: rows the operator put back while a
\* task of theirs ran, or dismissed while a task or the consumer had them.
\* down: the operator stood a flying squadron of the class down, of a row not
\* forced, and has not since switched auto-deploy on.  twice: a row not forced was
\* started while a task of it ran.
Histories == [shared : SUBSET Ids, overtaken : SUBSET Ids, retried : SUBSET Rows,
              forced : SUBSET Rows, down : BOOLEAN, twice : BOOLEAN]

InFlight(r) == rows[r].status \in Unfinished
InClass(r) == rows[r].id \in ClassIds
Registered(id) == registry[id] # NoEntry
Live(id) == Registered(id) /\ registry[id].state = "live"
RowOf(t) == rows[t[1]]
Alive(t) == task[t].pc # "none"
Manned(r) == \E t \in Tasks : t[1] = r /\ Alive(t)
Flying(t) == task[t].pc \in {"recording", "flying"}

Init ==
  /\ rows = [r \in Rows |-> NewRow]
  /\ switch \in BOOLEAN
  /\ retired = FALSE
  /\ task = [t \in Tasks |-> NoTask]
  /\ registry = [id \in Ids |-> NoEntry]
  /\ proc = "boot" /\ cand = {} /\ empty = FALSE /\ batch = {} /\ cur = None
  /\ sd = None /\ rm = None /\ prep = FALSE /\ requests = 0 /\ restarts = 0
  /\ hist = [shared |-> {}, overtaken |-> {}, retried |-> {}, forced |-> {}, down |-> FALSE, twice |-> FALSE]

-----------------------------------------------------------------------------
(* The database and the registry, by operation *)

\* queue_deployment inserts a pending row; `r` stands for it, one that nothing acts
\* on.  What the row was before, and its history, are forgotten.
Held(r) == r \in batch \/ r = cur \/ Manned(r)
Spare(r) == ~InFlight(r) /\ ~Held(r) /\ \A t \in Tasks, id \in Ids : t[1] = r => registry[id].task # t
NextRow == CHOOSE r \in Rows : Spare(r)
Inserted(r, m, id, seeded) ==
  [rows EXCEPT ![r] = [status |-> "pending", market |-> m, id |-> id, seeded |-> seeded]]
Forgotten(r) == [hist EXCEPT !.retried = @ \ {r}, !.forced = @ \ {r}]
\* update_deployment_status.  (The squadron id that set_deployment_squadron adds to
\* the row is the row's own, and nothing reads it before it is there.)
Marked(r, s) == [rows EXCEPT ![r].status = s]

\* Cag::update_state, on whatever is registered under the id.
Stated(id, s) ==
  IF Registered(id)
  THEN [registry EXCEPT ![id].state = s, ![id].stamped = @ /\ s = "down"]
  ELSE registry
\* Cag::retire: the first reason and the first clock win.
RetiredEntry(id) ==
  IF Registered(id)
  THEN [registry EXCEPT ![id].state = "down", ![id].stamped = TRUE]
  ELSE registry

Due(id) == Registered(id) /\ registry[id].state = "down" /\ registry[id].stamped
\* reap_retired removes a candidate only if it is still due.
Reaped_unchecked == cand
Reaped == {id \in cand : Due(id)}

\* Cag::stand_down: cancel the token the entry holds.
Cancelled(T) == [t \in Tasks |-> IF t \in T THEN [task[t] EXCEPT !.cancelled = TRUE] ELSE task[t]]

-----------------------------------------------------------------------------
(* The operator: api/server.rs *)

Asks == requests < MaxRequests /\ requests' = requests + 1

\* POST /api/squadrons/deploy.  A named squadron is refused while one of that
\* name is listed and not stood down; a market is refused while a row on it
\* is unfinished.  The check and the insert are one step.
TakenMarkets == {rows[r].market : r \in {q \in Rows : InFlight(q)}}
Deploy(r, m, id) ==
  /\ Asks
  /\ Spare(r) /\ r = NextRow
  /\ id = SeedId \/ ~Live(id)
  /\ m \notin TakenMarkets
  /\ rows' = Inserted(r, m, id, FALSE)
  /\ hist' = Forgotten(r)
  /\ UNCHANGED <<switch, retired, task, registry, reader, sd, rm, prep, restarts>>

\* POST /api/squadrons/{id}/stand-down looks the squadron up and switches
\* auto-deploy of its class off, which is a database write ...
Downs(id) == id \in ClassIds /\ Flying(registry[id].task) /\ registry[id].task[1] \notin hist.forced
StandDown_switchStays(id) ==
  /\ Asks
  /\ sd = None /\ rm = None
  /\ Registered(id)
  /\ sd' = id
  /\ hist' = [hist EXCEPT !.down = @ \/ (Downs(id))]
  /\ UNCHANGED <<rows, switch, retired, task, registry, reader, rm, prep, restarts>>
StandDown(id) ==
  /\ Asks
  /\ sd = None /\ rm = None
  /\ Registered(id)
  /\ sd' = id
  /\ switch' = (switch /\ id \notin ClassIds)
  /\ hist' = [hist EXCEPT !.down = @ \/ (Downs(id))]
  /\ UNCHANGED <<rows, retired, task, registry, reader, rm, prep, restarts>>

\* ... then cancels its token, or answers 404 ...
StandDownCancels ==
  /\ sd # None
  /\ sd' = None
  /\ rm' = IF Registered(sd) THEN sd ELSE None
  /\ task' = IF Registered(sd) THEN Cancelled({registry[sd].task}) ELSE task
  /\ UNCHANGED <<queue, registry, reader, prep, requests, restarts, hist>>

\* ... and removes whatever entry is under the id by then (Cag::remove).
StandDownRemoves ==
  /\ rm # None
  /\ registry' = [registry EXCEPT ![rm] = NoEntry]
  /\ rm' = None
  /\ UNCHANGED <<queue, task, reader, sd, prep, requests, restarts, hist>>

\* The operator turns the class's switch on.
SwitchOn ==
  /\ Asks
  /\ ~switch /\ sd = None /\ rm = None
  /\ switch' = TRUE
  /\ hist' = [hist EXCEPT !.down = FALSE]
  /\ UNCHANGED <<rows, retired, task, registry, reader, sd, rm, prep, restarts>>

\* POST /api/deployments/{id}/retry and /dismiss.  The Control Tower offers them
\* on a failed row; the requests look neither at its status nor for a task.
Exists(r) == rows[r].market # None
Retry(r) ==
  /\ Asks
  /\ Exists(r)
  /\ rows' = Marked(r, "pending")
  /\ hist' = [hist EXCEPT !.retried = @ \cup {q \in {r} : rows[q].seeded},
                         !.forced = @ \cup {q \in {r} : Manned(q)}]
  /\ UNCHANGED <<switch, retired, task, registry, reader, sd, rm, prep, restarts>>

Dismiss(r) ==
  /\ Asks
  /\ Exists(r)
  /\ rows' = Marked(r, "completed")
  /\ hist' = [hist EXCEPT !.forced = @ \cup {q \in {r} : Held(q)}]
  /\ UNCHANGED <<switch, retired, task, registry, reader, sd, rm, prep, restarts>>

-----------------------------------------------------------------------------
(* The consumer: run_deployment_processor and seed_auto_deployments *)

\* requeue_interrupted_deployments, before the first tick.
Interrupted == {r \in Rows : rows[r].status \in {"active", "processing"}}
Requeue ==
  /\ proc = "boot"
  /\ rows' = [r \in Rows |-> IF r \in Interrupted THEN [rows[r] EXCEPT !.status = "pending"] ELSE rows[r]]
  /\ proc' = "tick"
  /\ UNCHANGED <<switch, retired, task, registry, cand, empty, batch, cur, sd, rm, prep, requests, restarts, hist>>

\* A tick of an instance that is not retired begins with list_squadrons, whose
\* reap first scans for those past squadron_retire_linger_secs ...
Tick ==
  /\ proc = "tick" /\ ~retired
  /\ proc' = "list"
  /\ cand' \in SUBSET {id \in Ids : Due(id)}
  /\ UNCHANGED <<queue, task, registry, empty, batch, cur, sd, rm, prep, requests, restarts, hist>>

\* ... removes what is still due, and lists the rest.
ListLive ==
  /\ proc = "list"
  /\ registry' = [id \in Ids |-> IF id \in Reaped THEN NoEntry ELSE registry[id]]
  /\ empty' = ~\E id \in ClassIds : Live(id)
  /\ proc' = "queued" /\ cand' = {}
  /\ UNCHANGED <<queue, task, batch, cur, sd, rm, prep, requests, restarts, hist>>

\* deployment_classes_in_flight, then the switch.
ClassesInFlight_pending == {rows[r].id : r \in {q \in Rows : rows[q].status = "pending"}} \cap ClassIds
ClassesInFlight == {rows[r].id : r \in {q \in Rows : InFlight(q)}} \cap ClassIds
ReadQueue ==
  /\ proc = "queued"
  /\ proc' = IF empty /\ ClassesInFlight = {} /\ switch THEN "select" ELSE "fetch"
  /\ empty' = FALSE
  /\ UNCHANGED <<queue, task, registry, cand, batch, cur, sd, rm, prep, requests, restarts, hist>>

\* select_market, a search over the venue, then queue_deployment.
Select(r, m) ==
  /\ proc = "select"
  /\ Spare(r) /\ r = NextRow
  /\ rows' = Inserted(r, m, SeedId, TRUE)
  /\ hist' = Forgotten(r)
  /\ proc' = "fetch"
  /\ UNCHANGED <<switch, retired, task, registry, cand, empty, batch, cur, sd, rm, prep, requests, restarts>>

\* No suitable market is open.
SelectNothing ==
  /\ proc = "select"
  /\ proc' = "fetch"
  /\ UNCHANGED <<queue, task, registry, cand, empty, batch, cur, sd, rm, prep, requests, restarts, hist>>

\* fetch_pending_deployments.
Fetch_unfinished ==
  /\ proc = "fetch"
  /\ batch' = {r \in Rows : InFlight(r)}
  /\ proc' = "drain"
  /\ UNCHANGED <<queue, task, registry, cand, empty, cur, sd, rm, prep, requests, restarts, hist>>
Fetch ==
  /\ proc = "fetch"
  /\ batch' = {r \in Rows : rows[r].status = "pending"}
  /\ proc' = "drain"
  /\ UNCHANGED <<queue, task, registry, cand, empty, cur, sd, rm, prep, requests, restarts, hist>>

\* The next row of the batch is marked processing ...
Claimed(r) == Marked(r, "processing")
Claim(r) ==
  /\ proc = "drain" /\ cur = None
  /\ r \in batch
  /\ rows' = Claimed(r)
  /\ batch' = batch \ {r} /\ cur' = r
  /\ UNCHANGED <<switch, retired, task, registry, proc, cand, empty, sd, rm, prep, requests, restarts, hist>>

\* ... then active, and a task is spawned.
Unused(t) == ~Alive(t) /\ \A id \in Ids : registry[id].task # t
Start ==
  /\ proc = "drain" /\ cur # None
  /\ rows' = Marked(cur, "active")
  /\ \E n \in 1 .. MaxTasks :
       /\ Unused(<<cur, n>>) /\ \A k \in 1 .. MaxTasks : k < n => ~Unused(<<cur, k>>)
       /\ task' = [task EXCEPT ![<<cur, n>>] = [pc |-> "resolving", cancelled |-> FALSE]]
  /\ hist' = [hist EXCEPT !.twice = @ \/ (Manned(cur) /\ cur \notin hist.forced)]
  /\ cur' = None
  /\ UNCHANGED <<switch, retired, registry, proc, cand, empty, batch, sd, rm, prep, requests, restarts>>

Drained ==
  /\ proc = "drain" /\ cur = None /\ batch = {}
  /\ proc' = "tick"
  /\ UNCHANGED <<queue, task, registry, cand, empty, batch, cur, sd, rm, prep, requests, restarts, hist>>

-----------------------------------------------------------------------------
(* A task of a started row: run_pinned and trade_one_market *)

At(t, pc) == task[t].pc = pc
Goes(t, pc) == task' = [task EXCEPT ![t].pc = pc]
Past(t) == ~At(t, "none") /\ ~At(t, "resolving")

\* The market cannot be loaded.  A seeded row whose market closed is
\* dismissed; any other failure stays for the operator.
Fails(t) ==
  /\ At(t, "resolving")
  /\ \/ rows' = Marked(t[1], "failed")
     \/ RowOf(t).seeded /\ rows' = Marked(t[1], "completed")
  /\ task' = [task EXCEPT ![t] = NoTask]
  /\ UNCHANGED <<switch, retired, registry, reader, sd, rm, prep, requests, restarts, hist>>

\* register_with_cancel inserts over whatever is there.
Register(t) == LET id == RowOf(t).id IN
  /\ At(t, "resolving")
  /\ registry' = [registry EXCEPT ![id] = [task |-> t, state |-> "live", stamped |-> FALSE]]
  /\ Goes(t, "recording")
  /\ hist' = [hist EXCEPT
       !.shared = @ \cup {i \in {id} : \E u \in Tasks \ {t} : Past(u) /\ RowOf(u).id = i},
       !.overtaken = @ \cup {i \in {id} : i = rm}]
  /\ UNCHANGED <<queue, reader, sd, rm, prep, requests, restarts>>

\* set_deployment_squadron, then the loop starts as PATROLLING.
Record(t) ==
  /\ At(t, "recording")
  /\ registry' = Stated(RowOf(t).id, "live")
  /\ Goes(t, "flying")
  /\ UNCHANGED <<queue, reader, sd, rm, prep, requests, restarts, hist>>

\* The market closed: RTB, and the loop returns.
Ends(t, state) ==
  /\ At(t, "flying")
  /\ registry' = Stated(RowOf(t).id, state)
  /\ Goes(t, "done")
  /\ UNCHANGED <<queue, reader, sd, rm, prep, requests, restarts, hist>>
Close(t) == Ends(t, "live")

\* The token fired: cancel_all_before_leaving, up to three attempts long,
\* then STOOD_DOWN, and the loop returns.
Leave(t) == task[t].cancelled /\ Ends(t, "down")

\* Whichever way the loop ended, the row is completed ...
Complete(t) ==
  /\ At(t, "done")
  /\ rows' = Marked(t[1], "completed")
  /\ task' = [task EXCEPT ![t] = [pc |-> "tail", cancelled |-> FALSE]]
  /\ UNCHANGED <<switch, retired, registry, reader, sd, rm, prep, requests, restarts, hist>>

\* ... and the squadron recorded on it is retired.
TailRegistry_kept(t) == registry
TailRegistry(t) == RetiredEntry(RowOf(t).id)
Tail(t) ==
  /\ At(t, "tail")
  /\ registry' = TailRegistry(t)
  /\ task' = [task EXCEPT ![t] = NoTask]
  /\ UNCHANGED <<queue, reader, sd, rm, prep, requests, restarts, hist>>

-----------------------------------------------------------------------------
(* Retirement and the process *)

\* POST /api/migration/prepare writes the flag, then cancels every token the
\* registry holds.
Retire ==
  /\ Asks
  /\ ~retired
  /\ retired' = TRUE /\ prep' = TRUE
  /\ UNCHANGED <<rows, switch, task, registry, reader, sd, rm, restarts, hist>>
StandDownSquadrons ==
  /\ prep
  /\ task' = Cancelled({registry[id].task : id \in {i \in Ids : Registered(i)}})
  /\ prep' = FALSE
  /\ UNCHANGED <<queue, registry, reader, sd, rm, requests, restarts, hist>>

\* POST /api/migration/resume clears the flag; the restart it asks for comes within a
\* second, as one may come at any moment.
Resume ==
  /\ Asks
  /\ retired /\ ~prep /\ restarts < MaxRestarts
  /\ retired' = FALSE
  /\ UNCHANGED <<rows, switch, task, registry, reader, sd, rm, prep, restarts, hist>>

\* The process ends, by itself or because it was asked to, and starts again:
\* what is not on disk is gone.
Restart ==
  /\ restarts < MaxRestarts
  /\ restarts' = restarts + 1
  /\ task' = [t \in Tasks |-> NoTask]
  /\ registry' = [id \in Ids |-> NoEntry]
  /\ proc' = "boot" /\ cand' = {} /\ empty' = FALSE /\ batch' = {} /\ cur' = None
  /\ sd' = None /\ rm' = None /\ prep' = FALSE
  /\ hist' = [hist EXCEPT !.shared = {}, !.overtaken = {}, !.forced = {}]
  /\ UNCHANGED <<queue, requests>>

-----------------------------------------------------------------------------
Operator ==
  \/ \E r \in Rows, m \in Markets, id \in Ids : Deploy(r, m, id)
  \/ \E id \in Ids : StandDown(id)
  \/ StandDownCancels \/ StandDownRemoves
  \/ SwitchOn
  \/ \E r \in Rows : Retry(r) \/ Dismiss(r)

Processor ==
  \/ Requeue \/ Tick \/ ListLive \/ ReadQueue
  \/ \E r \in Rows, m \in Markets : Select(r, m)
  \/ SelectNothing
  \/ Fetch
  \/ \E r \in Rows : Claim(r)
  \/ Start \/ Drained

Flight(t) ==
  Fails(t) \/ Register(t) \/ Record(t) \/ Close(t) \/ Leave(t) \/ Complete(t) \/ Tail(t)

Next ==
  \/ Operator
  \/ Processor
  \/ \E t \in Tasks : Flight(t)
  \/ Retire \/ StandDownSquadrons \/ Resume \/ Restart

Spec == Init /\ [][Next]_vars

\* The runtime schedules the consumer and the tasks, whose timers fire; a search that
\* is repeated for ever finds a market, and one scan of the reaper in the end comes
\* after the linger.  Nothing is asked of the operator or of a restart.
TaskSteps(t) == Register(t) \/ Record(t) \/ Leave(t) \/ Complete(t) \/ Tail(t)
Fairness ==
  /\ WF_vars(Processor)
  /\ SF_vars(\E r \in Rows, m \in Markets : Select(r, m))
  /\ WF_vars(\E t \in Tasks : TaskSteps(t))
  /\ \A id \in ClassIds : SF_vars(Tick /\ id \in cand')
FairSpec == Spec /\ Fairness

-----------------------------------------------------------------------------
(* Properties *)

\* The types of the queue, the registry and the tasks (deployment_queue,
\* Cag::registry): nothing but register_with_cancel makes an entry.
TypeOK ==
  /\ rows \in [Rows -> Row] /\ switch \in BOOLEAN /\ retired \in BOOLEAN
  /\ task \in [Tasks -> Task] /\ registry \in [Ids -> Entry \cup {NoEntry}]
  /\ proc \in {"boot", "tick", "list", "queued", "select", "fetch", "drain"}
  /\ cand \subseteq Ids /\ empty \in BOOLEAN /\ batch \subseteq Rows /\ cur \in Rows \cup {None}
  /\ sd \in Ids \cup {None} /\ rm \in Ids \cup {None} /\ prep \in BOOLEAN
  /\ requests \in 0 .. MaxRequests /\ restarts \in 0 .. MaxRestarts
  /\ hist \in Histories

\* No row is started while a task of it runs: the claim keeps the next tick from
\* starting the market a second time (run_deployment_processor), also across a
\* restart, a requeue, a dismissal and the retry of a row whose task is over.  The
\* one exception is a row forced: put back while a task of it ran, which
\* retry_deployment does not refuse (FliesOnce).
ClaimedOnce == ~hist.twice

\* A squadron that trades and was not told to stop is listed as live, under a
\* token that stops it, whatever was reaped, retired or stood down around it
\* (register_with_cancel, reap_retired, stand_down_squadron); otherwise the operator
\* can neither see it nor stop it.  Two exceptions: an id registered again while an
\* earlier squadron of the same id was still ending (shared), and one registered
\* between the two steps of a stand-down (overtaken; StoppedIsTheListed).
RunningIsListed ==
  \A t \in Tasks : LET id == RowOf(t).id IN
    At(t, "flying") /\ ~task[t].cancelled /\ id \notin hist.shared \cup hist.overtaken
      => registry[id] = [task |-> t, state |-> "live", stamped |-> FALSE]

\* The seeder never has two unfinished rows of its own (seed_auto_deployments): a
\* class whose row is being claimed, started, flown, wound down or requeued by a
\* restart is not seeded again.  Rows the operator retried are not counted.
SeededOnce ==
  Cardinality({r \in Rows : rows[r].seeded /\ InFlight(r) /\ r \notin hist.retried}) <= 1

\* A squadron of the class that the operator stood down while it flew is not
\* replaced: nothing is seeded until the operator turns the switch on again
\* (stand_down_squadron switches it off before it cancels, so that the seeder
\* cannot come between).  Rows the operator retried or forced are not counted.
NotReseeded ==
  [][hist.down => \A r \in Rows : rows'[r].seeded /\ InFlight(r)' =>
                    InFlight(r) \/ r \in hist'.retried \cup hist.forced]_vars

\* Liveness: a class the operator keeps switched on does not stay empty, without a
\* row in the queue and without a squadron that flies (seed_auto_deployments).  A
\* finished squadron's entry must leave the live list, its row must leave the
\* queue, and the seeder must come round.  (A spare row is the bound's.)
KeptPopulated ==
  []<>(\/ ~switch \/ retired
       \/ ClassesInFlight # {} \/ \E t \in Tasks : InClass(t[1]) /\ Flying(t)
       \/ \A r \in Rows : ~Spare(r))

\* The claim "is what stops the next tick ... from starting the same market a second
\* time" (run_deployment_processor).  Refuted by a retry of a row whose task runs.
FliesOnce == \A t, u \in Tasks : Flying(t) /\ Flying(u) /\ t[1] = u[1] => t = u

\* RunningIsListed without its second exception.  "The operator removed it, so it
\* leaves the list now" (stand_down_squadron) says that what is removed is what was
\* stopped; refuted by an id registered between the cancel and the removal.
StoppedIsTheListed ==
  \A t \in Tasks : LET id == RowOf(t).id IN
    At(t, "flying") /\ ~task[t].cancelled /\ id \notin hist.shared
      => registry[id] = [task |-> t, state |-> "live", stamped |-> FALSE]

\* The words of resume (api/migration.rs): squadrons that the retirement stopped
\* "come back through their normal startup", which restarts what the queue
\* holds unfinished.  One the operator stopped is off the registry by then, and
\* one of the auto-deployed class is replaced by the seeder.
ResumeBringsBack ==
  [][\A t \in Tasks :
       /\ At(t, "done") /\ task[t].cancelled
       /\ registry[RowOf(t).id].task = t /\ ~InClass(t[1])
       => InFlight(t[1])']_vars
=============================================================================
