# DRADIS: a formal model of the trading engine

DRADIS is an automated trading engine for prediction markets (Kalshi, Polymarket
US, Polymarket International). This directory holds TLA+ modules that model its
stateful core, the TLC configurations that check them on small instances, and
proofs that TLAPS checks for every value of the constants. Everything is written
from the Rust source under `src/`; the docs are quoted only where code and text
disagree.

    tlc -workers 2 -config Squadrons.cfg MCSquadrons.tla
    tlapm OrderLifecycle_proofs.tla

## 1. The system

### 1.1 Components

| Part | Where | State it keeps | What it does |
|---|---|---|---|
| Raptors | `src/raptors` | price, sports and funding feeds | publish market data and their health |
| Vipers | `src/vipers` | model state, cooldowns | look at a snapshot, emit a `StrategySignal` |
| Orchestrator | `src/orchestrator` | registry of vipers | run them concurrently with a timeout, resolve their signals |
| Market loop (Kalshi, US) | `src/venues/{kalshi,us}/trader.rs` | position map, its lifecycle, exit backoffs | one `select!` loop per market: dashboard tick, rescan, lifecycle tick, price tick |
| Dispatcher | `dispatch_signal`, `dispatch_single` | none of its own | turn a signal into orders, guards and rows |
| Order lifecycle | `src/venues/lifecycle.rs` | tracked orders, released quotes, confirmed figures, killed flattens | settle resting orders: fill feed, reconcile, cancels |
| Fill listener | `spawn_fill_listener` | none | a task beside the loop: one fill event at a time |
| Venue clients | `src/venues/*` (`Execution`) | order tickers, book, cached balance | place, cancel, list, ask; feeds |
| Squadron patrol | `src/squadron` | local books, resting exits | the international venue's loop |
| CAG | `src/cag` | registry of squadrons, their states and cancel tokens | register, stand down, retire, reap |
| Deployment | `src/venues/deployment.rs` | `deployment_queue` in the database | one consumer claims rows and spawns a task for each; seeds the auto-deployed classes |
| Database | `src/helpers/db.rs` | `open_positions`, `trades`, tombstones | rows for the dashboard, adoption, `ExitClaim` |
| Ghost mode | `src/helpers/ghost_*.rs` | resting simulated quotes | simulate fills and settlements |
| Policy | `llm_policy`, `dynamic_config`, `helm` | settings, intents | bound and apply changes of configuration |
| Migration | `src/helpers/migration.rs` | retired record, staged archive, records of a restore | retire an instance, restore one from an archive |
| Order-book feeds | `squadron/local_book.rs`, `venues/kalshi/ws.rs` | books per token, cumulative fill counts | rebuild books from frames; count fills |
| Tasks, API, UI | `src/tasks`, `src/api`, `control-tower` | none that trades | sweeps, HTTP handlers, dashboard |

How they meet: a viper's signal reaches the dispatcher of the loop that flies its
squadron; the dispatcher calls the venue and writes a **guard** (an entry of the
position map keyed by squadron, strategy and token), hands a resting order to the
**lifecycle**, and writes a **row**. The lifecycle learns what became of the order
from three sources that race one another: the fill feed (in its own task), the
reconcile pass, and the answer to each cancel. It changes the guard; it has no
database, so it queues what the loop then writes to the row.

Around the loops: an operator's request becomes a **row of the queue**; its one
consumer spawns a **task** for it, which registers a **squadron** with the CAG and
flies it until its market closes or its token is cancelled. The rows of
`open_positions` are written by every loop, by the account sweep each loop runs
every 30 seconds, by settlements and by the operator's Close Now; who may sell is
decided by one claim per token. A restore replaces the files of all of this
before the next start opens them.

### 1.2 What is hard

A guard is the engine's belief about what it holds. The difficult behaviour is
that the belief is changed by two tasks at every `await`, from answers that may
be late, partial, refused or missing:

* every lock is released across venue calls, so a decision is taken on a copy;
* a cancel may fail after it landed, be refused because the order filled, or be
  confirmed with part of the order traded;
* a venue may not answer about a single order at all (Polymarket US), or answer
  without a count or with a status the code does not know (Kalshi);
* fill events are cumulative counts that come late, smaller than the truth, or
  never;
* the same viper may re-enter a leg while the previous order's answer is
  outstanding, and another viper of the squadron may hold the same token.

Outside the lifecycle the same three difficulties return: readings used after they
were taken (the account sweep, the reaper's scan, the seeder's answers), two
records kept together only by the order of their writes (a booking and its row, a
queue row and its registry entry, a staged archive and its record), and an exit of
the process between any two of them.

What makes the lifecycle correct: no fill is lost and no position is dropped; no
guard is sold beyond what its order bought; no quote is orphaned or placed twice;
an answer about one order never settles another's guard; a done order eventually
leaves tracking; and a loop leaves its market only when nothing is left behind.
`PROJECT.json` lists each hazard at its line with the property that covers it.

## 2. Plan

Written: **OrderLifecycle** and **PairLifecycle** (resting orders, pairs),
**PositionBook** (what the position map promises, implemented by OrderLifecycle),
**PositionRows** (who owns the contracts of a token), **Squadrons** (queue,
registry, tasks, retirement), **LocalBook** and **KalshiFeed** (the feeds),
**InstanceRestore**, **RestingExits** (the take-profit ask of the international
patrol). Each has an MC module and one run, the lifecycle three and the pairs two.

OrderLifecycle composes the loop, the listener and the venue; PositionRows composes
loops, sweeps and the operator over what OrderLifecycle calls a confirmed guard, and
takes a fill for granted; Squadrons starts and stops the loops that both are about.
They meet at the guard (PositionRows' `Enter` is OrderLifecycle's `Place` to
`RecordEntry` of an order that fills at once) and at the loop's departure
(`Leave` of Squadrons is OrderLifecycle's `Leave` to `Depart`).

Still to write, in this order: the rest of the **patrol** of the international
venue: its entry quotes with the watchers that confirm them, paired legs tracked at
placement, confirmed from holdings and reconciled in a task of their own, and its
on-chain redemptions; **HelmIntents** and the policy
circuit breaker over the queue; the backup side of migration. Section 12 says what is
proved: every invariant and every action property of the passing runs. Still worth
proving: a refinement like `PositionBook`'s for a second component, and the properties
of the modules still to write.

## 3. OrderLifecycle

### 3.1 State

| Variable | In the code |
|---|---|
| `okey`, `st`, `traded`, `sold`, `lastId` | the venue's truth about each order; `lastId` is also the clock of `opened_at` |
| `guard`, `shares`, `confirmed` | `PositionMap`: entry, `Position.shares`, `fill_confirmed_at` |
| `tracked`, `cancelled`, `missing` | `OrderLifecycle.tracked`, `TrackedLeg.cancelled`, `TrackedLeg.missing_since` |
| `queued`, `released` | `OrderLifecycle.confirmed` and `.released`, not yet drained |
| `rows` | the `open_positions` row of a strategy and leg: the placement that wrote it, the order whose figure last sized it |
| `pc`, `op`, `key`, `ack`, `sig`, `held`, `todo`, `settled`, `tries`, `exits`, `listing` | the loop: where it is, in which operation, and that operation's locals |
| `lpc`, `lid`, `lcount`, `ldone`, `lkeys` | the listener and the event in its hands |
| `unread`, `inflated`, `unheard` | history that only properties read |

A guard is identified by the order that opened it: `guard[k]` is an order id, 0
when the map has no entry. The code compares instants (`opened_at <=
guard_opened_by`, `owns_guard`); since a guard is written just before its order is
tracked and orders are placed one after the other, comparing ids is comparing
those instants, and `OwnsGuard(o, g) == g <= o` keeps the code's comparison rather
than the equality it is meant to decide.

### 3.2 Steps

An action is one stretch of code between two points at which the other task can
run. A venue call and the lock section that applies its answer are one step when
nothing but the venue can tell them apart; where the other task can fall in
between (guard recorded and order not tracked; guard sold and sale not booked;
event copied and guard not sized; first and second question of the second look)
there are two steps.

| Code | Actions |
|---|---|
| `dispatch_single` (buy) | `Place` or `PlaceLost`, `RecordGuard`, `ConfirmGuard`, `Track`, `RecordEntry` |
| `MakerCancel` | `Pull`, `PullOrder`, `PullDone` |
| `Exit` | `Exit`, `PullOrder`, `ExitDecide`, `Sell` or `SellUnheard`, `Book`, `Forget` |
| lifecycle tick, `reconcile` pass 1 | `BeginReconcile`, `ReconcileOrder` (`AskCancelled`, `WaitBlind`, `Listed`, `Vanished`), `EndReconcile` |
| `cancel_all` | `BeginCancelAll`, `CancelAllOrder`, `EndCancelAll` |
| rescan and retire arms | `Rotate`, `Retire`, `CheckHolds`, `CheckTracks` |
| `cancel_all_before_leaving`, `flatten_before_stand_down` | `Leave`, `Retry`, `Flatten`, `Depart` |
| `confirm_on_fill` | `TrackedFill`, `SizeTracked`, `UntrackFilled`; `UntrackedFill`, `ConfirmUntracked` |
| the venue (external) | `Trade`, `Expire`, the answers of `CancelReplies` and `OrderState`, `Age` for the grace clock |

Places where the model gives the code more freedom than it has: a viper may emit
any signal its dispatcher accepts at any time; whether an order is past its stale
window is a free choice; the stand-down may leave any exit unsent (a closed
market or a missing bid); the account scan may miss any order, and may hit one on
the other leg of its market because Kalshi lists every order under the YES leg.
What the venue *says* is true, but anything may go unsaid, and any call may fail
after it did its work: a placement (`PlaceLost`), a cancel, and the FAK of an exit
(`SellUnheard`). An exit whose call fails (`trader.rs:2969`) or whose reply carries no
count (`orders.rs:154`) has sold and is taken for not executed, so its guard stays and
is sold again; `unheard` counts what went that way, at most `MaxUnheard`.

### 3.3 Left out

Prices and fees; ghost mode; exit backoff; paired legs (section 4); the
funding preflight and every other gate that only refuses an entry; the account
sweep (`sync_dashboard`), settlement and the operator's Close Now, which remove or
adopt guards from outside. Rows are outputs: no action reads them. The figure
queue keeps the last figure of each key, which is the one that remains on the
row. An immediate order that fills nothing changes no state and is no step.

## 4. PairLifecycle

One viper, one market, its two legs: Arbitrage (`repairs`) or Time Decay
(`~repairs`, `HoldAndManage`). The viper buys both legs with one `place_atomic`;
`reconcile` then has to tell a pair that is still filling from a leg left alone,
and to buy the partner or sell the leg. On Kalshi and Polymarket US both legs are
post-only bids, acknowledged unfilled, so they are quotes; what one order's
answers do to its own guard is OrderLifecycle's subject, and here such a step is
any of the outcomes those steps have (`SizeToReading`, `Release`, kept, kept as
cancelled, settled). Kept in full is what pass 2 decides on.

| Variable | In the code |
|---|---|
| `netted`, `repairs` | fixed in the initial state: the kind of account, `lone_leg_policy` |
| `leg`, `st`, `traded`, `own`, `lastId` | the venue's truth: the orders, and what this viper bought less what it sold of each leg |
| `guard`, `shares`, `confirmed`, `tracked`, `cancelled` | as in OrderLifecycle, per leg |
| `killed` | `OrderLifecycle.killed_flattens` |
| `held`, `shown` | the legs `positions()` and `open_orders()` showed to this pass |
| `todo`, `keep`, `settled` | the pass's copy of the tracked list, and what became of it |
| `orphans`, `cur` | the naked legs collected, at the size read then; the one under repair |
| `sold`, `unheard`, `paired` | history that only properties read |

| Code | Actions |
|---|---|
| paired `Entry`, `place_atomic` | `EnterPair`, `EnterFails` |
| `Exit` of Arbitrage and Time Decay | `CancelOnLeg`, `ExitLeg` or `ExitUnheard` |
| `reconcile`, its two reads and pass 1 | `Begin`, `ReadOpen`, `PassQuote` |
| merge, `orphans`, `sold_after_kill` | `Collect` |
| pass 2 | `StartRepair`, `ReHedge`, `NoReHedge`, `Flatten`, `EndPass` |
| `confirm_on_fill` | `FillEvent` |

Fills and fill events fall between any two steps of a pass. `netted` says what the
venue's reads look like: Kalshi's `positions()` has one signed count per market and
its `open_orders()` names every order by the YES leg. `~netted` is a venue that
reports each leg under its own id, which is what `reconcile` assumes; the
Polymarket US client passes the gateway's symbols through, and the repository does
not say which they are. A flatten may sell any part of what is there and be
reported sold, killed or failed whatever it sold: the comment on
`killed_flattens` says a killed report can be untrue, and an error may follow a
sale. A re-hedge reported missed may have traded, and an exit taken for not executed
may have sold (`ExitUnheard`, as `SellUnheard` of section 3).

Left out: prices and the re-hedge's breakeven test (whether to hedge is a free
choice); the race of a fill with the recording of its order, and the two windows
of section 11, which OrderLifecycle has; stand-down and market rotation; the branch
of pass 1 for legs that traded at placement, which only the international patrol
reaches; the account sweep, so contracts whose guard is gone stay in `own`.

## 5. PositionBook

What the position map promises its readers: an entry is a quote until it is said to
have filled and a holding from then on; a quote may be let go, a holding leaves
only when sold; no two entries carry the same instant (`opened_at`), so an instant
names an entry. It has four variables (`clock`, `opened`, `holding`, `sale`) and
knows nothing of orders, cancels, listings or the second task. `OrderLifecycle`
instantiates it (`Promise`) with

    clock <- lastId, opened <- guard,
    holding <- {k \in Keys : guard[k] \in confirmed},
    sale <- IF pc = "book" THEN {key} ELSE {}

and `KeepsPromise == Promise!Spec` is checked by `kalshi` and proved (section 12).

## 6. Positions

### 6.1 PositionRows

One token of a cash-settled account (Kalshi, Polymarket US) that several squadrons
share, each flying one viper. The loops buy and sell; each runs `sync_dashboard`,
which reads the account and then works from that reading to its end; the operator
closes rows from the dashboard and trades on the venue's own site.

| Variable | In the code |
|---|---|
| `held`, `settled` | the account's contracts of the token; the market has resolved (external) |
| `guard`, `entering`, `exit` | the position map's entry, a buy whose row is not written, the exit arm of `dispatch_signal` |
| `sweep` | `sync_dashboard` of a squadron, with its reading and the rows it is about to book |
| `manual` | `manual_exit`, Close Now |
| `rows`, `trades` | `open_positions` (with `engine_attributed`), the strategies and sizes booked |
| `claim`, `opRelease`, `released` | `ExitClaim`, `operator_releases`, `released_positions` |
| `noted`, `sighting`, `gap`, `protected` | `unclaimed_since`, `resize_seen`, `guard_gaps`, `recent_confirmations` |
| `mine`, `strayed`, `unbooked`, `torn`, `raced` | history that only properties read |

| Code | Actions |
|---|---|
| `dispatch_single`, `record_entry` | `Enter`, `EnterRow` |
| `Exit` arm | `ExitStart`, `ExitSell` or `ExitUnheard`, `ExitBook`, `ExitClose` |
| `manual_exit`, `forget_position` | `ManualStart`, `ManualSell` or `ManualUnheard`, `ManualBook`, `ManualClose` |
| `sync_dashboard` | `SweepRead`, `SweepClaim`, `SweepAdopt`, `SweepFollow`, `SweepProbe` |
| `purge_stale_open_positions` | `SweepSettle`, `SweepPurge`, `SweepBook` |
| `release_swept_positions`, `release_operator_closed_positions` | `ReleaseClosed` |
| time | `GraceEnds`, `ProtectionEnds` |
| external | `OutsideBuy`, `OutsideSale`, `Settle`, `Restart` |

Assumed: handlers are shorter than the graces (15 minutes and more), so time passes
and the market settles only while no handler waits (`Quiet`); the operator sells on
the venue's site only what no viper bought; a buy's answer is not lost (that is
OrderLifecycle's); each squadron has a strategy name of its own. Two squadrons flying the *same* viper on
one token are outside the model: `close_open_position` deletes by strategy and token
(`db.rs:4728`) and `operator_releases` is keyed so too.

Close Now sells the row as it reads it: `manual_exit` does not ask what the account
holds, so the row may be one the operator has sold from already, or one no longer true.
Its order is fill-or-kill, but the handler has a branch for a part
(`server.rs:2184`), which leaves the guard of a Kalshi or US loop as it was. Its
placement, like an exit's, may fail or time out after it sold: "a retry could sell
twice" (`server.rs:2133`), and nothing prevents the retry. `strayed` counts the
contracts gone that way: sold unheard, sold of a row beyond what the account had for
it, sold in part under a guard that was not told.

The sweep cannot be right about everything: what it read may have been sold or
bought since, and it runs beside Close Now and the other loops. `raced` marks the
behaviours in which that mattered: a sweep rewrote, purged or booked rows although the
account had moved since its reading, another hand was between a sale and its row (or,
for the resize, a buy's row was still to come); a sweep adopted contracts that are other
vipers' or of a lot whose guard the operator's mark is about to drop; a drained release
took a guard of a market that lives; a viper bought beside the row of its last life; or
Close Now sold part of a lot under a guard.
`BookedOnce` and `LotsGuarded` are claimed for the others; without the excuse TLC refutes
them (section 11). `AdoptedOnce` needs none. `NoOversell` says how short the account
can go: always by at most what `strayed`, however stale the sweep; and while nothing
raced or tore, by at most what has left the account and is not booked (`unbooked`): only
such a departure makes a row larger than what it stands for. That the account never goes
short at all is refuted (`NeverShort`, section 11). Not modelled: pending rows and sizing (in
OrderLifecycle), ghost rows, chain redemptions, fees and prices.

### 6.2 RestingExits

On the international venue a position rests a post-only ask while it waits: the
take-profit. Nothing tells the engine that the ask was lifted. Four places of
`patrol_impl.rs` have to find out, each pulling or keeping the ask: the viper's
`MakerRestingExit` signal, a stop, the fill sweep behind a tick's signals and the
tear-down. Their witnesses are the order's matched size, cumulative and gone once the order
is; the wallet's balance, which lags a fill and reads 0 when it cannot be read; and
the venue's refusal of a sell.

| Variable | In the code |
|---|---|
| `ask`, `wallet`, `seen`, `lifted` | the order on the book, the shares held, what the balance endpoint shows, what asks sold at each price (external) |
| `pos` | `Position.shares` of the map, 0 when it has no entry |
| `rec` | `maker_resting_exits`: price, shares, booked, `short_reads`, `max_short_read`, `vanished_at` |
| `booked` | what `record_trade` was told an ask sold, per price |
| `op` | the signal or tear-down under way, with its copy of the record and what the cancel found |
| `due` | this tick had signals: it has not gone back before the sweep |
| `hist` | history that only properties read |

| Code | Actions |
|---|---|
| `MakerRestingExit` signal | `WantAsk`, `List`, `Cancel`, `ReadReprice`, `Place`, `RecordAsk` |
| `Exit` signal | `Exit`, `List`, `Cancel`, `ReadExit`, `Drop`, `Sell`, `BookSale`, `Refused` |
| a tick of the loop, fill sweep | `Tick`, `TickEnds`, `Sweep` (`Polled`, `Rebased`) |
| rotation or stand-down, tear-down | `TearDown`, `CancelAll`, `List`, `Cancel`, `ReadDown` |
| 45 s on the tick's signals, a lost answer to the sale | `CutOff`, `CutBetween` |
| `take_released_positions` | `Release` |
| another squadron's rotation | `OthersCancelAll` |
| external | `Lift`, `Settle`, failing readings (`Reads`), `Fault` |

The arithmetic of `mod resting_exit` is kept operator by operator
(`LiftSinceBooking`, `LiftAtPull`, `ChainDrop`, `RemainingAfter`). A viper may ask for
any price on any tick that has signals, a stop may come on any of those and a tear-down
at any time. A tick with a dark book, an evaluation that failed or no signal of any
viper goes back before the sweep (lines 1308, 1346, 1697, 1700), so polls are only
promised while ticks with signals keep coming. The re-post grace, the settlement grace of a refused sell and the time between polls are free.
Shares come in lots of the smallest order.

What no arithmetic can repair is excused by name: a position raised to a lagging
reading (`raised`), a refusal explained by a reading that failed (`misread`), a
tear-down that closes the whole position because part of it was lifted (`closed`),
one that books what a refusal booked already (`again`), a sale whose answer was lost
or cut off by the 45 seconds, which the sweep or a refusal then takes for a lift
(`unheard`), a sweep whose second reading in a row failed, so that it counts on as
short what is still held (`blind`), and an exit at a price of 0, which takes the entry
out of the map and sells nothing (`dropped`).

Left out: the retried readings of a stop or a tear-down failing all together (taken
not to happen); the price an exit without an ask is booked at;
ghost mode; the entry quote that may rest beside the ask, and pairs; the account
sweep of section 6.1 working at the same time, except for its release; a restart,
at which the records are lost and the ask with them is left to the next start's
cancel; the rows of the database, which follow the map here.

## 7. Squadrons

| Variable | In the code |
|---|---|
| `rows`, `switch`, `retired` | `deployment_queue`, `auto_deploy_<class>`, `retired.json`: what a restart keeps |
| `task` | the tasks spawned for a row (a retry may add one while another runs): where each is, whether its token is cancelled |
| `registry` | `Cag::registry`: per id the task whose token the entry holds, live or stood down, stamped (`stood_down_at`) |
| `proc`, `cand`, `empty`, `batch`, `cur` | `run_deployment_processor`: where it stands and its locals |
| `sd`, `rm`, `prep` | a stand-down before its cancel and before its removal, a `prepare` before its broadcast |
| `hist` | history that only properties read |

| Code | Actions |
|---|---|
| `deploy_squadron`, `retry_deployment`, `dismiss_deployment` | `Deploy`, `Retry`, `Dismiss` |
| `stand_down_squadron` | `StandDown`, `StandDownCancels`, `StandDownRemoves` |
| `requeue_interrupted_deployments` | `Requeue` |
| `list_squadrons` with `reap_retired` | `Tick`, `ListLive` |
| `seed_auto_deployments` | `ReadQueue`, `Select`, `SelectNothing` |
| the drain of the queue | `Fetch`, `Claim`, `Start`, `Drained` |
| `run_pinned`, `trade_one_market` | `Fails`, `Register`, `Record`, `Close`, `Leave` |
| the rest of a row's task | `Complete`, `Tail` |
| `prepare`, `resume` | `Retire`, `StandDownSquadrons`, `Resume` |
| the process | `Restart` |

Abstractions: one auto-deployed class; rows are recycled once nothing can act on
them (`Spare`); a deploy request checks and inserts in one step; the database answers
(a failed read of `deployment_classes_in_flight` reads as empty, `db.rs:3675`, and a
failed write of the switch is only logged, `server.rs:3076`: both are outside the
model); the row's `squadron` column, which the queue never reads back, is left out. The
operator retries and dismisses any row, as `retry_deployment`, `dismiss_deployment` and
their UPDATEs do, whatever its status and whether a task of it runs; a row put back to
pending while a task of it runs is `forced`, and `ClaimedOnce` excuses those by name
(`FliesOnce`). `RunningIsListed` excuses an id registered again while an earlier
squadron of that id was still ending (`shared`): the earlier task's last writes then
land on the later one's entry; and an id registered between a stand-down's cancel and
its removal, two locks apart (`overtaken`, `StoppedIsTheListed`).

What this model leaves out and the code allows: two requests of one name before
either registers both fly under one id; a squadron that is still resolving its market
while the instance is retired registers after the broadcast and flies; a
stand-down followed by a crash before the row is completed is revived by the
requeue; a failed `completed` write blocks its class.

## 8. LocalBook and KalshiFeed

**LocalBook** is the order book of one international token rebuilt from full books
and the changes between them (`squadron/local_book.rs`), with the task that feeds
it (`spawn_ws_task`). Levels are there or not. The venue publishes one event in one
or more frames, all stamped with the touch the event settles on: a cancel and
replace in two, a trade as its crossing placement and then a full book. Frames are
lost, repeated, overtaken by a full book; stamps and sizes may be missing; the
stream reconnects. Actions: `Requote`, `CancelReplace`, `Trade`, `Lose` (external),
`Deliver`, `Repeat`, `Overtake` (each one run of the read loop on a frame:
`reset`, `apply` with `HoldHard`, `NextHold` and `Ignored`, `price_state`,
publish), `Reconnect`. The venue's own full books are taken to be uncrossed, which `reset`
does not check. A receipt time is the frame received then, so `DatedTruly` can
say of a published touch whose it is.

**KalshiFeed** is `venues/kalshi/ws.rs`: one connection and one sequence for all
tickers of a squadron (`Connect`, `ReadFrame`, `Disconnect`), and the fill feed that
adds per-trade counts to the cumulative count of a `FillEvent` (`ReadFill`,
`FillConnect`, `FillDisconnect`). A book is one number per ticker. A sequence number
is what the code asks of it: does it follow the last one read. The first frame of a
connection is taken whatever its number; a snapshot lost before it is not noticed
(`unlucky`), which `BookArrives` excuses. Each trade is sent once: the code compares no
trade ids and would count one sent twice.

## 9. InstanceRestore

Four kinds of file held together by the order of their writes: the instance's own
(`place`, and `wal` beside the ledger), the staged copies (`staging`), the record
`restore-pending.json` (`pending`), the pre-restore folders (`aside`). Two units, a
ledger and models, and two archives, one without models. `stage_restore` is
`Upload`, `ClearStaged`, `ClearRecord`, `Extract`, `Verify`, `Record`, `Refuse`;
`discard_staged_restore` is `Discard`, `DiscardStaged` and may run beside it;
`apply_pending_restore` is `Start` to `FinishStaged` or `FailFinish`, one file
operation per step; `Open` is the engine's start. `Crash` falls between any two.
The report's write may fail, which returns with the record standing and neither
report nor failure (`ReportFails`), and so may the write of the failure itself
(`FailUnsaid`, `unsaid`); the engine starts all the same. A move that fails between
the ledger's and its -wal's leaves that -wal behind, where it is no longer collected
(`botched`); staged copies removed under a record that stays are `torn`. The
properties name these three.

Not modelled: two uploads at one time, which `restore_upload` does not exclude; a
removal that fails; what a file contains, the manifest's checksums beyond complete or not,
the archive kept for download, and the count of existing trades, which is read at
staging and used at apply.

## 10. Runs

| Run | Instance | Shows |
|---|---|---|
| `kalshi` | 1 viper, 1 leg, 2 orders of 2, `order_state` answers, 2 attempts, 1 contract sold unheard | quotes, guards, rows and departures of one viper, and the refinement of PositionBook; 5.55 million states |
| `us` | 2 orders of 1, `order_state` never answers, fair | a done order leaves tracking even when no question is answered |
| `vipers` | 2 vipers, 1 leg, 2 orders of 1, 1 attempt | no order settles another's guard; 4 million states |
| `pair_one` | a pair and a re-hedge of 2 contracts, either leg first, either policy, netted or not, 1 contract sold unheard | guards and repairs of one pair; 2.03 million states |
| `pair_live` | a pair and a re-hedge of 1 contract, 1 sold unheard, fair | naked legs are tried, killed sales cleared; 43 thousand states |
| `rows` | 1 or 2 squadrons, lots of up to 2 contracts, 2 bought, 1 strayed unheard, 1 restart | rows, claims, sweeps, Close Now; 3.83 million states |
| `squadrons` | 2 rows of 2 tasks each, 1 market, 2 ids, 2 requests, 1 restart, fair | queue, registry, tasks; 2.11 million states |
| `book_intl` | 3 prices, 2 events, 1 fault | holds and dating; 410 thousand states |
| `feed_kalshi` | 2 tickers, 2 orders, 2 frames on their way, fair | gaps, reconnects, fill counts; 580 thousand states |
| `exits_intl` | 3 lots, 2 prices, 1 failed reading, 1 failed listing or cancel or cut-off, fair | lifts booked once, held shares managed; 1.21 million states |
| `restore` | 2 units, 2 archives, 3 crashes, 2 moves or writes that fail, fair | interrupted restores; 474 thousand states |
| `resume_brings_back` | 1 market, 2 requests | violated: section 11 |

Properties:

* `GuardBacked`: a confirmed guard shows no more than its order traded less what
  the exits' replies counted as sold, with the sale in flight accounted for.
* `NoOversell`: what is sold out of a guard exceeds what its order bought by no more
  than the exits sold unheard (OrderLifecycle); the account is short by no more than
  what strayed, and without races by no more than what is unbooked (PositionRows).
* `QuoteGuardTracked`: an unconfirmed guard's own order is tracked or being placed.
* `NothingForgotten`: an order that still works is tracked, unless the venue never
  answered about it.
* `FillNotLost`: an order with a fill and nothing sold still has its guard, or is
  tracked, unless the venue never answered about it.
* `OneWorkingQuote`: one working order per viper and leg.
* `RowsFollowGuards`: between operations every guard has the row its own placement
  wrote, and no row is without a guard, the confirmed leftovers of section 11 apart.
* `LeavesNothingBehind`: rotation and retirement leave with nothing tracked and
  nothing working; retirement leaves flat.
* `KeepsPromise`: OrderLifecycle implements PositionBook.
* `OwnOrderOnly`, `ConfirmedKept` (actions): a guard is settled only by its own
  order; a confirmed one keeps its shares but for what a booked sale sold, and leaves
  only when all it held as the sale was sent was sold.
* `DoneOrderSettles` (liveness): an order that is done leaves tracking.
* `GuardsAreOwned`: a confirmed guard of a pair shows no more than what its order bought
  less what was heard sold under it, except on a leg with an unresolved killed flatten.
* `NeverFlattensGone`, `HedgedLeftAlone` (actions): on an account that shows both
  legs, pass 2 never sends the sale of a leg that is gone, and repairs no leg whose
  partner was confirmed when the pass began, unless the partner's flatten was reported
  killed or an exit of it was sold unheard.
* `NakedLegRepaired`, `KilledSaleClears` (liveness): a leg left alone is tried; a
  guard whose contracts a killed flatten did sell goes.
* `AdoptedOnce`, `BookedOnce`, `LotsGuarded`: at most one adopted row; no departure
  booked twice; no loop loses the guard of a lot that was not sold.
* `ClaimedOnce`, `RunningIsListed`, `SeededOnce`, `NotReseeded`: a row does not fly
  twice, unless it was put back while it flew; a squadron that flies is listed under a
  token that stops it, unless its id was shared or registered inside a stand-down; one
  seeded row per class; nothing seeded against a stand-down.
* `KeptPopulated` (liveness): a class kept switched on does not stay empty.
* `DatedTruly`, `NeverCrossed`, `DerivedIsExact`, `ReadyIsExact`, `NeverOvercounts`:
  what the feeds publish is what the venue had, dated as it was, and counted once.
* `BookArrives` (liveness): a subscribed ticker gets its book or a new connection.
* `BookedAtItsPrice`: the ledger never says an ask sold more than it did.
* `HeldIsManaged`: shares in the wallet are in the position map, so a stop can sell
  them.
* `LiftNoticed` (liveness): while ticks with signals keep coming, the sweep does not go
  on with a record of shares that are gone, the stuck confirmation of section 11 apart.
* `NeverMixes`, `NothingLost`, `ReportedIsRestored`: no ledger beside a foreign -wal,
  nothing replaced lost, a reported restore complete, but for a failed move between a
  ledger and its -wal (the first two) and a staging cut short (the third).
* `Concludes` (liveness): a record found at boot is concluded, or stands for the next
  boot, unless a failure could not be written.

`TypeOK` of the other modules was checked on the same instances and states their
shapes; it is a run's property only where it is proved.

**Bounds.** Two orders are the fewest for which one order's late answer can meet
another's guard, and two contracts the fewest for which an order trades in part,
sells in part and trades again. A second viper matters only through the leg it
shares, so one contract each is enough there. `Attempts` is 2 where the code has
3: the loop of `cancel_all_before_leaving` has the same body on every attempt, and
two reach both "again" and "give up". One contract sold unheard is enough for an exit
to sell it twice and for a guard to stand on nothing; the lost reply may come at any
exit. `us` and `vipers`, which are about settling, have none. Of pairs, three orders are an entry and its
re-hedge. Of rows, two contracts allow a partial exit, a
second lot after the first, and a viper's lot beside the operator's; one restart
splits every pair of writes once, and `torn` names what it splits; `MaxUnheard` bounds
what strays unheard, not what a stale row strays. `Rows.cfg` has a state constraint
(`Explored`): after both a race and a stray every excuse of the other properties is spent
and what is left of `NoOversell`, its first part, is proved without it (section 12). Of squadrons, two
rows are one ending and one starting, two tasks of a row one that runs and one that a
retry starts beside it, two ids one auto-deployed and one named; the safety properties
hold with two markets as well (11.4 million states, too many for a run). Three prices give a touch room to move on either side; two events
and one fault are a half-published event with a frame lost or overtaken. Of resting
exits, three lots are a lift in part, another, and a rest; two prices make a booking
at the wrong one visible; two readings that fail are what the sweep needs to confirm a
lift it did not see, and a fault more of either kind adds states, no new step. The
restore's three crashes are one in staging and two in applying.

**Fairness.** The loop runs an operation it has begun to its end and its lifecycle
tick comes round (`WF` of its steps, `SF` of a reconcile pass whose listing can be
read: an error is not for ever); the listener task is scheduled (`WF`); a grace
clock that is restarted only finitely often runs out (`SF` of `Age`). Nothing is
assumed of the venue: no trade, no event and no answer ever has to come. In `pair_live`
a pass that has begun runs to its end and the tick comes round. In `squadrons` the
runtime schedules the consumer and the tasks (`WF`: some task that can step does), the
linger time of a retired entry passes (`SF` of a tick that finds it due), and a search
for a market repeated for ever finds one (`SF` of `Select`); a market need never close. In `feed_kalshi` the task
reads and reconnects; the venue sends the snapshots it owes and the markets go on
changing, without which a lost frame is never noticed: the code has no timer. In
`exits_intl` a call under way is answered or times out, the balance endpoint catches
up, and of the ticks that reach the sweep, if they come for ever, one finds the poll
due (`SF`); that they come is the premise of `LiftNoticed`, not assumed. In
`restore` a boot runs on and the supervisor restarts what ended; crashes are
bounded. This is what a tokio `select!` loop with an interval, and a service with
`restart: always`, give.

**Mistakes.** Each property has a definition beside the one it breaks,
`X_mistake`, that changes operator `X` the way a slip in that code would (the merge
that replaces the tracked list, a reap that does not look again, a count kept per
market ...). No action uses them.

## 11. Where the code and its comments disagree

One has a run of its own:

* `ResumeBringsBack` (`resume_brings_back`): `resume` says squadrons "come back
  through their normal startup" (`api/migration.rs:364`). A retirement cancels
  their tokens, the loops return `Ok`, and their rows are marked completed; the
  requeue at the next start takes only active and processing rows. A squadron the
  operator deployed does not come back; the auto-deployed class is seeded anew.

The others stay in their modules as definitions TLC refutes when they are named, as
INVARIANT or PROPERTY, in the configuration given:

| Definition | Configuration | What happens |
|---|---|---|
| `NotSizedBackUp` | `Lifecycle_kalshi.cfg` | The listener copies the order, then sizes. A partial exit booked in between, with its `forget_cancelled_for`, is undone by the sizing (`trader.rs:2765`). |
| `RotatesFlat` | `Lifecycle_kalshi.cfg` | A fill between `holds_anything` and `tracks_anything` is seen by neither, and the rotation leaves the position behind (`trader.rs:1642`). |
| `ConfirmedHasTraded` | `Lifecycle_kalshi.cfg` | `record_guard` runs before `track_resting`: an event of an untracked order in between confirms, at the size placed, a quote that has traded nothing. |
| `RowSizedByOwnOrder` | `Lifecycle_kalshi.cfg` | Queued figures carry strategy and token only: one queued for a guard that is sold before the drain sizes the row of the next entry. |
| `NothingSoldTwice` | `Lifecycle_kalshi.cfg` | An exit without a fill is taken for "Nothing traded — we still own it" (`trader.rs:2734`). If the call failed after the FAK traded, or the reply had no count, the guard stays on contracts that are gone, and the retry sells them again. |
| `GrowthKept` | `Lifecycle_kalshi.cfg` | What remains of a guard is taken "From the live guard, not the snapshot: a fill event may have grown it while the sell was in flight" (`trader.rs:2759`), but whether anything remains is decided on the snapshot: a sale of all it held removes the guard with what it grew by. |
| `UnknownStatusKeepsOrder` | `Lifecycle_kalshi.cfg` | `reconcile` takes a count with an unknown status as final and drops an order that may still work; `settle_refused_cancel` waits. |
| `RepairsOnlyNaked` | `Pair_one.cfg` | Holdings are read before pass 1. A partner that fills after that read is confirmed by pass 1 and still read as not held by pass 2 (`lifecycle.rs:687`). |
| `ExitPairExitsBoth` | `Pair_one.cfg` | `exit_pair` drops the partner's guard and sends no order for it (`state.rs:1190`). |
| `GuardShowsWhatIsLeft` | `Pair_one.cfg` | "exit did NOT execute … position retained, will retry" (`trader.rs:2739`): an exit that sold without being heard leaves its guard on contracts that are gone, and the partner is taken for hedged. |
| `NettedPairIsHeld` | `Pair_one.cfg` | On Kalshi a pair filled unevenly shows one leg only, so pass 2 takes the larger leg for naked (`lifecycle.rs:917`). |
| `NeverBookedTwice` of PositionRows | `Rows.cfg` | A sweep whose reading is older than a sale, or a purge beside Close Now, books the same contracts again. The resize's grace does not prevent it: a sighting that has stood is acted on when the account coincides with it for the moment of a fill whose row or booking is still to come. |
| `NeverShort` | `Rows.cfg` | After a part is sold "shares remain open and still managed" (`server.rs:2212`), but the guard of a Kalshi or US loop is not told and is sold whole; after a timeout "a retry could sell twice" (`server.rs:2133`), and an exit whose reply is lost is retried unasked. The account goes short, which on a netting venue buys the other leg. |
| `ConnectingHasNoBook` | `Feed_kalshi.cfg` | While the feed reconnects, the hub still serves the books of the old connection ("Feed still connecting — no book to describe", `trader.rs:2321`). |
| `NeverBookedTwice` of RestingExits | `Exits_intl.cfg` | A stop books the slice its ask sold and sets the position to a lagging balance; the refusal of the sell then books all of it again at the ask. A tear-down books again what a refusal booked: unlike the sweep it does not ask whether the position is gone (`patrol_impl.rs:3586`, `3699`). |
| `EveryLiftNoticed` | `Exits_intl.cfg` | After a lift in part the record is re-based "so the next poll measures against the right baseline" (`patrol_impl.rs:3670`), but `short_reads` and `max_short_read` are not: a second lift that comes before a poll shows the new baseline is never booked by the sweep. |
| `TearDownBooksLift` | `Exits_intl.cfg` | The tear-down books a lift "here at the resting price rather than leaving a silent cash move for the reconciler" (`patrol_impl.rs:3722`). Every way to it has just cancelled all orders of the account (`833`, `880`, `1241`), so no order is left to report a matched size, and the wallet is read only for an ask that had vanished before. |
| `RecordedIsResting` | `Exits_intl.cfg` | The same cancel takes the asks of every other squadron; their records stay, and the deadband goes on taking them for resting, "silently stranding the position with no exit order at all" (`patrol_impl.rs:3428`), until the viper asks for another price. |
| `AskIsRecorded` | `Exits_intl.cfg` | "After this point no ask of ours rests" (`patrol_impl.rs:3426`), but a listing that fails reads as empty, the cancel's answer is not looked at, and a tick cut off after the placement leaves an ask without a record. |
| `ConfirmedIsSold` | `Exits_intl.cfg` | The sweep asks for a second reading because one "returns 0 on ANY failure" and trusting it would "leave real shares floating unmanaged to settlement" (`patrol_impl.rs:3595`). Two polls that fail in a row agree on 0, and the position is dropped with the shares still in the wallet. |
| `PolledEveryTick` | `Exits_intl.cfg` | "The sweep runs on every 50ms tick" (`patrol_impl.rs:3603`), but a tick with a dark book, a failed evaluation or no signal of any viper goes back before it (`1308`, `1346`, `1697`, `1700`): a lift under a squadron that stays quiet is never polled. |
| `ExitsKeepTheRest` | `Exits_intl.cfg` | A refused exit cross-checks the wallet because shares once "floated unmanaged for 8 min" (`patrol_impl.rs:1962`). An exit at a price of 0, signalled on a book without bids, removes the entry unasked and sells nothing (`1916`). |
| `FliesOnce` | `Squadrons.cfg` | The claim "is what stops the next tick from starting the same market a second time" (`deployment.rs:215`). `retry_deployment` and its UPDATE put back any row, whatever its status (`server.rs:4750`, `db.rs:3742`): one whose task runs is claimed and started again beside it. |
| `StoppedIsTheListed` | `Squadrons.cfg` | "The operator removed it, so it leaves the list now" (`server.rs:3084`): the cancel (`3081`) and the removal (`3091`) lock the registry separately, and a squadron of that id that registers in between loses its entry and flies on, unlisted and not stopped. |
| `KeepsEveryWal` | `Restore.cfg` | "Everything replaced, including a database's `-wal` and `-shm`, moves into `logs/migration/pre-restore-<time>/`" (`migration.rs:887`). When the move of the -wal fails after the ledger's, the restore is given up with the -wal in its place and no ledger beside it: it never moves into the folder, and the engine opens a new ledger over it. |
| `ConcludedAtOnce` | `Restore.cfg` | A restore that failed part-way "is for an operator to look at" (`migration.rs:967`), and one that succeeded has its report; a report that cannot be written returns early with the record standing and neither (`960`), and the engine starts. |
| `GoneWasMovedIn` | `Restore.cfg` | Staging again removes the old staged copies before the old record; after a crash between the two the next boot takes the missing copies for moved in, skips them and reports a restore that did not happen (`migration.rs:912`). |

`ConfirmedHasTraded` and `NotSizedBackUp` are why `GuardBacked`, `NoOversell` and
`OwnOrderOnly` speak of guards outside `inflated`: the history variable records
exactly the guards that went through one of those two windows.

## 12. Proofs

Eight modules hold the theorems, one per component. Each result holds for every value of
the constants that satisfies the assumptions named, whatever the number of vipers,
orders, rows, frames, crashes or failures, and for every size.

| Module, assumptions | Theorems (`Spec => []P`, unless said) |
|---|---|
| `OrderLifecycle_proofs`: `BoundsAssumption` | `TypeCorrect` (`TypeOK`), `QuotesAreTracked` (`QuoteGuardTracked`), `PromiseKept` (`Spec => KeepsPromise`, the refinement of PositionBook), `HoldingsKept` (`Spec => ConfirmedKept`), `GuardsAreBacked` (`GuardBacked`), `NeverOversold` (`NoOversell`), `LiveOrdersAreTracked` (`NothingForgotten`), `FillsAreKept` (`FillNotLost`), `QuotesAreSingle` (`OneWorkingQuote`), `RowsAreGuarded` (`RowsFollowGuards`), `LeavesClean` (`LeavesNothingBehind`), `OwnGuardOnly` (`Spec => OwnOrderOnly`) |
| `PositionRows_proofs`: `RowsAssumption`, `NamesAssumption` | `TypeCorrect`, `HoldingsAreAdoptedOnce` (`AdoptedOnce`), `NeverOversold` (`NoOversell`), `GuardsAreKept` (`Spec => LotsGuarded`), `DeparturesAreBookedOnce` (`BookedOnce`) |
| `PairLifecycle_proofs`: `PairAssumption` | `TypeCorrect` (`TypeOK`), `GuardsHold` (`GuardsAreOwned`), `FlattensWhatIsHeld` (`Spec => NeverFlattensGone`), `HedgedIsLeftAlone` (`Spec => HedgedLeftAlone`) |
| `Squadrons_proofs`: `IdsAssumption`, `BoundsAssumption` | `TypeCorrect`, `RowsAreClaimed` (`ClaimedOnce`), `FlightsAreListed` (`RunningIsListed`), `SeedsAreSingle` (`SeededOnce`), `StandDownsHold` (`Spec => NotReseeded`) |
| `LocalBook_proofs`: `BookAssumption` | `TypeCorrect`, `TouchesAreDated` (`DatedTruly`), `BooksNeverCross` (`NeverCrossed`), `DerivedBooksAreExact` (`DerivedIsExact`) |
| `KalshiFeed_proofs`: `FeedAssumption` | `TypeCorrect`, `BooksAreExact` (`ReadyIsExact`), `CountsAreTrue` (`NeverOvercounts`) |
| `InstanceRestore_proofs`: `UnitsAssumption`, `ContentsAssumption`, `CarriesAssumption`, `BoundsAssumption` | `TypeCorrect`, `WalIsItsOwn` (`NeverMixes`), `NoFileIsLost` (`NothingLost`), `ReportsAreTrue` (`ReportedIsRestored`) |
| `RestingExits_proofs`: `SizeAssumption`, `BoundsAssumption` | `TypeCorrect`, `HeldStaysManaged` (`HeldIsManaged`), `LiftsAreBookedOnce` (`BookedAtItsPrice`) |

The assumptions say that bounds are natural numbers, that sizes, prices and attempts
are positive, that there is a viper and a leg, that `None` is not a value of the sets it
stands beside, that the auto-deployed ids are ids, that the squadrons of an account are
finitely many and none is called by a name the code reserves, and that an archive carries the
ledger (`verify_manifest` refuses one without).

None of the properties is inductive as it stands. What each needs beside itself:

**OrderLifecycle.** `TypeOK` needs three facts: a working order has contracts left to
trade (else `Trade` exceeds the size), the listener's order exists, and the order being
recorded exists. Together they are `TypeInv`.

`QuoteGuardTracked`: an order leaves tracking on a decision taken earlier. `QuoteInv`
adds what each decision left behind: a guard stands on the key of the order that opened
it (`OwnKey`); only placed orders are known (`PlacedIds`); nobody knows an order before
it is tracked (`FreshOrder`); an order the pass settled, or the listener sized, leaves no
unconfirmed guard (`DoneWith`); and a sale is of a guard whose cancelled order may be
forgotten (`Selling`). `QuoteStep` summarises what every action but the placing ones may
do to these, each action is shown to be one, and the invariant is preserved by a
`QuoteStep` once and for all.

The refinement of `PositionBook` adds `BookInv`: the key under way is free while its
order is placed and recorded (`KeyFree`), and only standing guards are confirmed
(`ConfirmedStand`). Every step other than placing and recording is an `Edit` of the
map: guards filled, one unconfirmed guard dropped, or the sale under way moved. An
`Edit` preserves `BookInv` (`EditKeeps`) and is a step of `PositionBook` or leaves its
four variables alone (`EditPromised`), so the refinement is proved once and each
action only shown to be an `Edit`. `ConfirmedKept` follows from the same split.

`GuardBacked` and `NoOversell` depend on answers that are still under way. `CountInv`:
a guard belongs to the newest order of its key, and every count listed, sent as an event
or answered to a cancel was reached by its order, so sizing by it stays within what
traded. `CopyInv`: the orders an operation has still to ask about are those it copied,
of its key; a loop that stands down has asked about all. `SalesInv`: an order is sold out
of only once its guard is confirmed, and from then on nothing asks about it again, so no
late answer sizes the guard back up. A sale nobody heard of changes nothing but
`unheard`, so the bound holds with it on both sides. `DoneInv` says why an order nobody tracks is not
working (a cancel landed, a status or an event ended it); `HeldInv` what stands for the
contracts of an order: its guard, its sale, or a reading the venue never gave;
`LeaveInv` what has been checked at each stage of a departure. `OrdersInv` joins them.
`RowsInv` relates the row to its guard and to the figures queued for it.

**PositionRows.** The properties count contracts, and a sum over a set of any size has a
recursive definition. The prover has no induction over data, so what sums need is had
from well-foundedness of `<` instead: a nonempty family of finite sets has a member that
stays in it with no element removed (`SmallestSet`), and a least counterexample gives
that `Contracts` changes by what one entry changes, splits over disjoint sets, follows a
renaming of its keys and grows with its entries. `TypeInv` adds what each stage of an
exit or a sweep has in hand. `OneWallet` is `AdoptedOnce` without cardinalities.
`OwnInv`, for the first part of `NoOversell`: what the vipers count on together fits the
account and what strayed of it (`OwnTotal`), and a guard or an exit at its sale is of
contracts its viper counts on, unless the market has settled or the lot's release is
noted. `BusyInv`: what a squadron does excludes what, and
nothing is held once the market has paid. `LotsInv`, while nothing raced: a viper's lot
is covered by its guard and by its row, or the row is on its way; the row Close Now sells
is the one it read. `LedgerInv`, while nothing raced or tore: what the rows say
(`Recorded`), with the buys still to be written (`Arriving`) and without the sale whose
row still stands (`Unwritten`), is at most what is held and not yet booked (`Balanced`);
each hand that books takes as much from the rows as from the ledger. `Unfilled`: a row
adopted for nobody is never taken for a fill, so the row Close Now sells is the only one
of its strategy (`SoldRowIsOne`) and what is still unwritten is of rows that stand
(`Unwritten <= Recorded`); with `Balanced` that is the second part of `NoOversell`. `LotsGuarded`
follows from `LotsInv` step by step.

**PairLifecycle.** `FreshInv`, `CopiedInv`, `GuardedInv`: what is known of orders that
have been placed, and only of those. `SharesInv`: a confirmed guard shows shares.
`LatestInv`: the guard of a leg is of its latest tracked order, so an older answer
settles none. `UnsoldInv`: under a tracked order's guard nothing was sold, unless a
flatten was reported killed. For the action properties, on accounts that show both
legs: `StockInv` (no leg below zero), `UnsoldOwn` (what a guard has unsold is in the
account), `CollectedInv` and `SeenInv` (what the pass saw held or collected as naked is
there, and every guard confirmed before it began was seen).

**Squadrons.** `ClaimInv`: of a row that was not forced, a live task has its row's
status and is the only one, and the batch the consumer holds is pending. `EntryInv`: a
registry entry is of a task that registered it or has ended. `ListInv`: a flying
squadron whose id nobody shares, and no stand-down overtook, is the entry under its id,
and an id about to be removed has no flying squadron that was not cancelled. `SeedInv`: seeded rows carry the seed id and at most one is
unfinished, none at the moment the seeder selects. `DownInv`: the seeder selects only
with the class empty, and after a stand-down the switch is off. Together, `QueueInv`.

**LocalBook.** `BaseInv`: frames carry what their kind carries, and the venue's own book
is not crossed. `TouchInv`: the published touch is the one its frame settled on, and so
is the derived one while no hold is set. `OrderInv`: frames stay in order on the wire,
and the snapshot splits them into overtaken and fresh. `ChainInv`: each fresh frame leads
from the one before it, the last to the venue's book. `TruthInv`: with no frame missing,
the first of them follows from what was delivered; `LevelsInv`: and that is what the
levels show. The prices' least and greatest are found by well-foundedness of `<`.

**KalshiFeed.** `ReadyIsExact` compares a book with the venue's at the last frame read.
`FeedInv` speaks of the frames on their way: a snapshot carries the level as it is and a
frame whose number follows tells all that changed on any ticker since the one before it
(`Chained`); unless the last number was lost, they lead from the last one read to the
venue's books (`UpToDate`); and a connection has no book before its first frame
(`NoneYet`). Sending keeps the chain once for changes and snapshots (`SentKeeps`);
reading moves its start by one. `NeverOvercounts` needs no sum of the fills on their way:
a witness function gives, for each place in the channel, a count from which the rest of
the frames lead to no more than what traded; sending extends it, reading drops its
first value, a reconnection replaces it.

**InstanceRestore.** `StagerInv` and `BootInv`: staging and the boot hook each work on
the record they are about, never at once. `WalInv`: the -wal is the ledger's, unless the
boot stands between the two moves or a restore that failed there left it (`botched`).
`RestoreInv`: as long as no staging was cut short over an older record (`torn`), every
unit of a pending archive is still staged or in its place.

**RestingExits.** Each step is summarised once as one of sixteen forms (`Steps`), and the
invariants are preserved by forms. `TypeInv` adds that the ask is backed by the wallet
and what each stage of an operation has in hand (`AskInv`, `RecInv`, `OpInv`). `BaseInv`:
a record whose ask is not known to be gone is about the whole position. `ReadInv`: the
largest short reading is no less than the wallet, or is a single failed one. `HeldInv`:
as long as the history is `Honest`, what is held and what an ask was seen to sell fits
the position (`Fits`). `LedgerInv`: as long as it is `Trusted`, every account that may
still be booked, the standing record's, the pulled one's, the sale's and the new
posting's, is owed at most what the ask sold and the ledger does not have yet
(`Accounts`). The failing readings showed why two in a row are an excuse of their own:
the invariants do not hold over a sweep that confirms on them (`blind`).

**Only model-checked.** Everything that needs fairness
(`DoneOrderSettles`, `NakedLegRepaired`, `KilledSaleClears`, `KeptPopulated`,
`BookArrives`, `Concludes`, `LiftNoticed`). Liveness, `ENABLED` and recursive operators
are outside what the prover handles here; no module declares a recursive operator.

## 13. Not modelled

`PROJECT.json` lists every component with its status. Vipers, raptors and pricing
are numerical: most of the repository's lines are price models, statistics, training
code, parsing, rendering and configuration, which hold no state that two steps could
disagree about. The rest of the HTTP API, the Control Tower and the REST plumbing
are input and output. Of the international patrol only the resting exits are modelled
(section 6.2); its entries, pairs and redemptions are the largest state machine still
to be modelled (section 2).
