# farm-world: a TLA+ model of the simulation core

farm-world is an online farming simulation written in TypeScript. A player owns land, fields,
machines, workers and buildings; everything happens in *game time*, a clock that runs at a rate
an operator may change, and almost nothing is computed when it happens. A field ripens, a task
ends, a wage is due whether anybody is connected or not, and the server works it out when a
request, a queue job or a sweep next touches the player. The modules here are about that: what
is written late, in which order, by whom, and what has to be the same as if it had been written
in time.

Paths below are relative to the repository. `lib/`, `modules/`, `plugins/`, `worker.ts` and `app.ts`
are under `src/backend/src/`; `net/`, `stores/`, `composables/` and `game/` are under
`src/frontend/app/`; `shared/` is `src/shared/`.

## 1. The system

| Component | State it keeps | Operations | Who it meets |
|---|---|---|---|
| **Scheduled events** (`lib/scheduler.ts`, `lib/jobs.ts`, `lib/queue.ts`, `lib/outbox.ts`, `worker.ts`) | rows `scheduled_events` (PENDING, PROCESSED, CANCELED), BullMQ jobs in Redis, outbox effects of a transaction | schedule, cancel, enqueue, ring, park early, reconcile, reschedule | every module schedules; the applier claims rows; the clock retimes |
| **The applier** (`lib/advancePlayer.ts`, `lib/tx.ts`, `lib/context.ts`) | the row lock of a player, a clock reading, the batch of due rows | lock, settle, claim, run a handler, tail, commit, flush | wraps every mutating route and every job |
| **Game clock** (`lib/gameClock.ts`, `shared/rules/clock.ts`, `stores/clock.ts`, `composables/useGameClock.ts`) | rate, epoch and anchor of the world row, its segments; per process the mark it never goes below; on the page the anchor and one reading per component | read, retime, boot, extrapolate, reconcile | retiming invalidates the delays of the alarms; CLOCK frames and snapshots carry readings |
| **Event log and live channel** (`lib/events.ts`, `lib/pubsub.ts`) | `game_events`, `eventSeq`, the replay ring and the channel in Redis | append, push, publish, read ring, read log | the session routes and the socket read them |
| **Session and socket** (`modules/session`, `plugins/ws.ts`) | per connection: sequence read, subscription | replay, snapshot, HELLO, CLOCK, forward | the client |
| **Welcome-back summary** (`modules/session/welcomeBack.ts`, `cache.ts`, two routes) | `lastSummaryGameMs`, a summary cached in Redis, the panel of each page | ask, build, cache, show, confirm, clear | reads what every module dated; advances the player |
| **Client synchronisation** (`net/sequence.ts`, `net/ws.ts`, `stores/sync.ts`, `stores/net.ts`) | the mark (`lastAppliedSeq`), the entities, the rung in flight | decide a frame or a reply, replay, snapshot, retry | receives frames, replies and pages in any order |
| **Chunk store and streamer** (`stores/world.ts`, `game/world/streamer.ts`) | copies of chunks with versions, stale marks, views, requests in flight | load, unload, evict, ask, answer, patch, invalidate | the batch read of the world; CHUNK_PATCHED frames |
| **Idempotent requests** (`plugins/auth.ts`, `app.ts`, `lib/ledger.ts`) | `request_idempotency`, the ledger entry of a key | create, look up, replay, complete, remove | every route that moves money; the client that retries |
| **Fields** (`modules/fields`, `shared/rules/yield.ts`) | cells, field rows, phase alarms | create, extend, split, merge, advance a phase, work | tasks reserve fields; the applier delivers phase events |
| **Forestry** (`modules/forestry`) | plots, trees projected lazily, one milestone alarm per plot | create a plot, fell, replant, clear, notify | tasks, the wood store |
| **Tasks** (`modules/tasks`) | task rows, reservations of field, worker, machines and room | assign, complete, cancel | reserves rows of five modules |
| **Ledger and accruals** (`lib/ledger.ts`, `lib/accrual.ts`, `shared/rules/holding.ts`) | balance, entries, `lastAccrualGameMs` | charge, credit, accrue, settle a window | every module with a cost |
| **Debt and liquidation** (`modules/economy`) | status of the player, stock sold | debt policy, trigger, forced liquidation, market | the sweep runs it inside an advance; it cancels tasks, sells machines, dismisses workers |
| **Workers, machinery, farms** (`modules/workers`, `machinery`, `farms`) | contracts, machines and repairs, buildings and stock | hire, dismiss, buy, sell, repair, build, demolish, deposit, withdraw | tasks reserve them; accruals read their intervals |
| **Land and world** (`modules/land`, `modules/world`) | cells, chunk versions, overlay cache in Redis, generated terrain | buy land, place a building, read a batch of chunks, spawn | fields, farms, other buyers |
| **Authentication** (`modules/auth`, `plugins/auth.ts`) | users, refresh tokens, socket tickets | register, log in, rotate, revoke | opens sessions |
| **Frontend, tools, infrastructure** | view state | rendering, reports | |

How they interact: every mutating request and every queue job runs `withPlayerAdvanced`. It
reads the clock, locks the player row, applies the due events at their own instants, settles
costs, runs the body, commits, and only then flushes its effects (alarms to Redis, frames to the
ring and the channel). PostgreSQL is the truth, Redis holds alarms and frames that may be lost.

### What is hard, and what makes each part correct

- *Events*: an alarm may be lost, doubled, late or set with a delay computed at another rate.
  Correct when each row is handled once, never before its instant and, while the worker lives,
  eventually; when no pending row is forgotten; and when the chain of settlement sweeps neither
  dies nor forks.
- *Synchronisation*: frames, replies and pages overtake each other, effects are flushed outside
  the lock. Correct when the client's mark never passes an event whose state it lacks, and gaps
  it knows of close.
- *Fields*: several writers meet a row that is behind its timeline, each of which may cut, join
  or work it. Correct when the stored row, its alarm and the cells agree, a task still applies
  when it ends, and lateness changes nothing a player can see.
- *Forestry*: a task keeps no cells, it finds them again when it ends; one alarm serves all the
  trees of a plot. Correct when what a task finds is what was chosen and every tree is told once.
- *Holding*: intervals are opened and closed by a dozen operations with a stale reading, by
  events applied in the past and by a liquidation in the middle of a batch. Correct when nothing
  is reserved twice or for ever, each row has paid exactly its interval, and only the passing of
  time makes a debt.
- *Land*: two buyers contend for cells and chunk rows in transactions that see each other's
  commits; a cache outside every transaction shows the result. Correct when a player has paid for
  what he owns and for nothing else, and what is shown of a chunk is what is in it.
- *Chunks on the client*: answers and frames reach a copy in any order, and the copy may have
  been dropped meanwhile. Correct when a copy holds the cells of its version and one that is
  behind is asked for again.
- *Idempotent requests*: a copy arrives while the first runs, after it answered or after it died.
  Correct when an operation is decided once and every answer is that decision.
- *Welcome-back*: an interval is summed by several statements, cached, shown in two pages and
  confirmed later. Correct when nothing is set aside that was not shown, and nothing comes back.
- *Clock*: processes read a row in one step and compute in another, each with its own wall
  clock. Correct when the history has no gap and nobody is ahead of it without a known cause.

`PROJECT.json` lists each hazard at the line where it bites with the properties that cover it.

## 2. The modules

One module per part of the simulation; each abstracts what the others do to it, and says so.

| Module | Models | Instance for TLC | Proofs |
|---|---|---|---|
| `EventSchedule` | scheduled events, alarms, the applier as seen by one player, retiming, crashes | `MCEventSchedule` | `EventSchedule_proofs` |
| `EventSync` | log, ring, channel, socket, replay, snapshot, reducer of the client | `MCEventSync` | `Client_proofs` |
| `Fields` | cells, the crop cycle, phase alarms, field side of tasks | `MCFields` | `Fields_proofs` |
| `Forestry` | plots, trees, felling, replanting, clearing, milestone alarms, wood store | `MCForestry` | `Forestry_proofs` |
| `Holding` | workers, machines, tasks, store, settlements, debt, liquidation | `MCHolding` | `Holding_proofs` |
| `Land` | purchases of land and of footprints, chunk versions, overlay cache | `MCLand` | `Land_proofs` |
| `LandSale` | a purchase as one step: the abstract specification of `Land` | | `Land_proofs` |
| `ChunkCopies` | the copies of chunks a client holds, its streamer, answers and frames | `MCChunkCopies` | `Client_proofs` |
| `Requests` | guard, body and completion of a request under an idempotency key | `MCRequests` | `Requests_proofs` |
| `OncePerKey` | what such a key promises: the abstract specification of `Requests` | | `Requests_proofs` |
| `WelcomeBack` | the return summary, its cache, its panel and its confirmation | `MCWelcomeBack` | `Client_proofs` |
| `GameClock` | the row of the world, readings, retimings, wall clocks, the clock of the page | `MCGameClock` | `GameClock_proofs` |

`Client_proofs` extends three of them, so their definitions have names of their own (`SyncInit`,
`CopiesInit`, `SummaryInit` and so on) where the others say `Init`, `Next`, `Spec` and `vars`.

Where two modules touch the same code they divide it. A rollback of an advance is in
`EventSchedule` and nowhere else: in `Fields`, `Forestry` and `Holding` a transaction that rolls
back is one that did not happen. What a retiming does to the clock is in `GameClock`, what it does
to the alarms in `EventSchedule`. What a frame carries is in `Land`, the order in which frames reach
the client in `EventSync`, and what a chunk copy makes of them in `ChunkCopies`.

Definitions named in a comment `\* Mutant: ...` are not part of a specification. Each is a
definition of the module with a plausible bug in it (a dropped filter, a release forgotten, an order
swapped), beside the definition it would replace; `PROJECT.json` pairs each with the property that
TLC then finds violated.

### EventSchedule

`rows` is the table as committed and `view` the table as the transaction that holds `lock` sees
it, so a rollback forgets `view`. `queue` holds the jobs by event and epoch, with the states
BullMQ retains them in; `fx` is the outbox of each process. `passedOver` is history, read by no step:
the rows the rescheduling of the current epoch has come to and found beyond the horizon or the world
paused, recorded at the instant `FlushRead` compares the distance (`Parked`). A process goes through `ReadClock`,
`LockPlayer`, the loop (`SkipEvent`, `ApplyTask`, `ApplySweep`), `Body`, `Commit`, and then
`FlushRead`, `FlushAdd`, `FlushStamp` or `FlushRemove` for each effect: between any two of them
another process may run, and between `FlushRead` and `FlushAdd` the world may be retimed, which is
how a delay of an old rate gets into Redis. `Ring` and `ParkEarly` are the job handler, `Reconcile`
and `Reschedule` the sweeper and the operator. `RollBack`, `Crash`, `FlushFails` and `RedisLoss` are
the faults.

Abstracted: one player; the limit of 500 rows of a sweep; one operator at a time; a liquidation
cancels at most one task; heartbeats.

### EventSync

The k-th event of `log` is a full replacement of one entity, which is what frames carry, so the
state of an entity is the number of the last event that wrote it and "the client missed event k"
is `held[log[k]] < k`. Each writer commits, pushes the ring, publishes and, if it is a request of
this client, receives its reply. A snapshot is read statement by statement (`SnapshotCount`, then
`SnapshotRead` per entity in any order). The client applies one frame, page or reply at a time;
`sync` is the rung in flight. Faults: a failed effect, the death of a writer, a lost ring, a
disconnection, a failed call.

`ring` is the Redis list from its tail, the order `readRing` walks it in. `Push` puts a block there
in the order `pushRing` really leaves it: the block is reversed and `LPUSH`, which inserts its
arguments one by one, reverses it again, so a block of several frames stands in the ring backwards
(section 4). `ragged` is history: the page was read from a ring in which an event was missing or out
of its place.

Abstracted: one tab (no superseded connections), socket tickets, chunk subscriptions, the
reconnection backoff; the page of a replay and the ring have one size.

### Fields

The land is a strip of cells, `field` the rows, `alarm` the pending FIELD_ADVANCE_PHASE of each,
`task` the running task of each. A transaction opens (`Begin` fetches the earliest due events),
applies them (`AdvancePhase`, `CompleteTask`) and does one request. `Projected` is the phase by the
timeline, which needs only the sowing instant; the row catches up through `Materialized`. `true`
and `torn` are history: the weeds a punctual run would have, and the fields a split wrote while
their row was behind (the exception of `WeedsPunctual`, see the finding on `splitField`).

Abstracted: a strip for the grid (contiguity and adjacency of an interval); fertility and
fertilisation; farm and name; seasons; cells used by anything else; a request that waits for the
lock with a stale reading (`Holding` has those).

### Forestry

A tree stores when it was planted, and `Fellable`, `Volume` and `Maturity` derive the rest from the
clock. `task` holds the operation of each plot with what it reserved; `chosen` is no column but the
cells the player meant, to compare with those the completion works on (`Marked` trees, `EmptyCells`).
`alarm` is the one pending FOREST_NOTIFY_MILESTONE of a plot, which `SyncMilestone` keeps while it is
pending; it falls at the end of a window, and reports every tree that matured in that window. `news`
is history: what the player has been told of each tree.

Abstracted: as in `Fields`; one species; crews are counted (`Holding` has who works); frames.

### Holding

`mark` is `lastAccrualGameMs`. Rows carry the interval the accrual integrates over: hired and
terminated, acquired and disposed, start and end. `Cost(s, a, b)` is what
`accrueContinuousCostsExact` gives for one row over the window [a, b); `Settle(t)` is
`settleAccruals`. `paid` (history) is what each row has been charged; `late` (history) the rows
whose interval was opened or closed behind the mark, or past the end the settlements assumed.
`Begin` chooses a reading up to `MaxWait` behind the clock, because the reading is taken before the
lock is waited for. A sweep has three forms, by how far the liquidation has to go: nothing
(`PlainSweep`), stock and idle machines (`SellingSweep`), everything (`RuinousSweep`).

Abstracted: one farm with one kind of store; home and garage slots; the pool of candidates;
rounding to four decimals and the carried remainder; interest, bankruptcy; skill; the workshop a
repair needs; the field of a task (it is in `Fields`) and the yield (chosen from `Yields`);
idempotency keys (they are in `Requests`).

### Land

A purchase is one READ COMMITTED transaction that takes its rows one at a time: `EnsureChunk`,
`ClaimCell`, `BumpChunk`, then `AssignUse` for a building, `Charge`, `PatchFrames`, `Commit`. What it
has written and holds is in `tx`; an action on a row that another open transaction has written is
not enabled, which is the wait, and `RollBack` may come at any point. `Parcel` is what a transaction
reads: what others have committed, and its own writes. A batch read is three steps on the pool
(`ReadVersion`, `Hit` or `LoadOverlays`, `WriteOverlays`); `cache` holds overlays by chunk and version.
`tainted` is history: the keys that a transaction wrote before it was rolled back.

`LandSale` has only the land and the balances, and two actions, `Buy` and `Build`: a purchase at one
moment, of all of its selection that is free at that moment, at its price. `Land` implements it
(`SoldAtOnce`; the variables map to themselves, an order to the set of its cells), so a validation
that locks nothing and claims made row by row are as good as a lock on the whole map.

Abstracted: terrain and prices (a price per cell), the shape and adjacency of a selection, the
release of a footprint (`DemolishSilo` in `Holding`), ledger entries.

### ChunkCopies

The content of a chunk is named by the version at which it was committed, so a copy is a version it
claims and a content it has. `Tick` is one tick of the streamer: load, unload, evict, ask, in this
order. A request goes through `ReadVersion`, `ReadCells` and `ApplyReply`, or `FailFetch`;
`ReceivePatch` is `applyChunkPatch`, `Rebuild` the invalidation that a snapshot does. History: `known`,
the latest version a frame told of while the copy lived; `hollow`, copies that were told `unchanged`
and were not the ones that asked; `overtaken`, copies set by an answer older than a frame already
seen.

Abstracted: geometry of the rings (`Ring` and `Keep` are given), the order of loads and evictions,
several batches of one tick, drawing.

### Requests and OncePerKey

Every statement of the guard (`Create`, `LookUp`) and of the completion (`Complete`) is a transaction
of its own; the body is one transaction. Copies of a request are sent (`Send`, also as a retry), lost
or received; a handler answers, or the process stops (`Crash`) between any two statements. `KindOf`
distinguishes three kinds of body by what they do when the key already has its ledger entry: one
that looks first (`sellStock`), one that acts and is only charged once (`buyMachine`), one whose own
effect refuses (`sellMachine`). `mislaid` is history: executions that committed and were answered 5xx.

`OncePerKey` is the promise of schema.prisma as a specification: `decision` is made once, and `told`
only ever holds it. `Requests` implements it for the bodies that look first, under the mapping
`Decision`: the ledger entry of the key, or else the refusal that was stored or told.

Abstracted: the look of `sellStock` for the farm when it replays (`economy/market.ts:213`), which can
refuse only a retry that names another farm, after an answer that was mislaid; hashes of bodies
(compared as values), the refresh of an access token (a copy that is
lost before the guard), ownership of a key by a player.

### WelcomeBack

The ledger stands for every dated row of the summary. `Start` reads the clock, `Write` is the
transaction under the lock that advances and writes at that reading, so entries are dated behind
others. A page goes through `Ask`, `AdvanceGuard`, `ReadMark`, then `Hit`, or `Build` with its three
statements and `WriteCache`; then `Show`, `Dismiss` or `Confirm`, `Acknowledge`, `Clear`, after which
the panel closes, or stays open and can be confirmed again because the answer was lost. Redis fails
where the code ignores it. `Advanced` is the advance inside both: it settles and applies the overdue
events in the order of their instants.

Abstracted: the other blocks of the summary, which count dated rows of the same interval.

### GameClock

`world` is the row (game, real, rate, epoch) and `GameMsAt` its arithmetic. A call of a process reads
the row (`Select`) and computes later with its own wall clock (`Compute`); `Guarded` is the mark it
never goes below. `LockWorld` is the first half of a retiming, under the lock of the row, and
`CommitRetime` makes it visible; `Restart` and `Boot` are a process that starts again, with a
configured rate it may have to apply. On the page, `ApplyClock` stores a reading and reconciles every
mounted instance, `TickInstance` is its interval. Real time is `real`; a wall clock is off by `skew`.
History: `peak`, the latest the clock of the world has been; `led` and `misled`, processes and page
that a fast clock or a retiming has led astray.

Abstracted: signing out, the test of the constants at boot, the rescheduling of alarms.

## 3. The runs

Each run has one question. The bounds are the constants in its `.cfg`; inside them the check is
exhaustive.

| Run | Shows | Bounds and why they suffice |
|---|---|---|
| `schedule_events` | exactly one link of the sweep chain is pending; nothing is applied early; no pending row is forgotten; no alarm of a row that was rolled back | a request, a queue worker, the sweeper and the operator, two links three hours apart, a task, a horizon of two, a rate of 2 changed to 1 or 0, two epochs, and *one trouble*: a fault anywhere, or a retiming anywhere with no task (constraint `OneTrouble`). After a change to rate 1 the same link is beyond the horizon when the rescheduling comes to it early and within it when it comes later, so rows passed over and rows to be renewed both occur. `AlarmSet` says nothing once there was a fault, so the pair adds little to what it checks; the theorems do not have the constraint |
| `schedule_live` | a due event is eventually applied | one fault, one attempt, so that a retained failed job is met |
| `sync_ring` | expects a violation: the frames of a replayed page do not ascend (`PagesAscend`) | one writer, a ring larger than the log, no fault: an advance of two events is enough |
| `sync_live` | the mark passes an event the client lacks only by a reply or by a page read from a ring with a hole or out of order; a snapshot is never behind its sequence; gaps the client set out to close close; the sequence a greeting reported is reached | one request with an advance of two events, a ring of one, blocks that collapse, one fault |
| `fields_cycle` | geometry, alarms, timeline, reservations and weeds agree however late and however cut | two fields, three cells, two crops (one needs cultivation), six hours: sow, ripen, split, merge and harvest fit, one event per transaction makes two of three phase events late |
| `forestry_plots` | every tree is told of once; a task finds what was chosen; the store is not oversold | two plots, three cells with a sapling, a growing and a grown tree, seven hours, windows of three, one event per transaction |
| `holding_work` | every row has paid its interval, no hour twice; reservations and stock agree; wear is billed; only time makes a debt; a liquidation takes no more than it needs | one worker, machine, task and silo, four hours, a wait of one, one event per advance: stale readings, overdue tasks, late sweeps and each form of liquidation occur |
| `land_chunks` | what is owned is paid for; `Land` implements `LandSale`; cache and frames are true | two buyers, a cell in each of two chunks; both cells as quoted, both or what is left of them as quoted, one of them without a quote, and a building over both; three versions, one batch reader |
| `chunk_copies` | a copy does not claim a version it lacks; one that is behind is marked; a marked view is answered | two chunks and room for one, two requests in flight, so that a copy is dropped and created while its answer travels |
| `requests_keys` | one body per key at a time; again only if mislaid; one answer; `Requests` implements `OncePerKey` | three keys, one of each kind of body, two handlers, two bodies, three copies |
| `welcome_back` | a confirmation never moves the mark back, nor over what was not shown; nothing confirmed returns; sums agree when undisturbed | two pages, a writer, two due events applied one at a time |
| `clock_page` | the history has no gap; ahead only for a reason; the page finds back | one process with two calls, so that a reading and a retiming overlap, a wall clock off by one, one trouble, one retiming by hand or at boot |

Deadlock is not checked in `EventSchedule`, `EventSync`, `ChunkCopies`, `GameClock`, `Land` and
`Requests`, which really stop: game time, versions, copies, epochs, troubles and faults are bounded,
and a quiet system has nothing left to do. Symmetry is used where no property and no fairness names
an element: fields, plots, pages.

### Fairness

Only the liveness properties assume any.

- `EventSchedule`: a process that began a step ends it; the queue worker takes a job that rings
  (`worker.ts` keeps a consumer running); the sweep runs every minute (`worker.ts:120-132`); the row
  lock is handed out (strong fairness: PostgreSQL queues waiters); retained jobs are removed by age,
  which for a job that used its attempts is a day (`lib/queue.ts:158`): `DueIsApplied` promises no less.
  Requests, retimings, faults and time are not fair.
- `EventSync`: the writers finish what they committed, a socket that began to open opens, frames are
  delivered, calls return. That a call fails or a socket closes is an outcome and not something
  fairness excludes: the properties name it.
- `ChunkCopies`: the scene ticks (weak fairness); a chunk that is asked for again and again gets an
  answer at last (strong fairness, per chunk, of each step of its request). Frames, writes, the camera
  and failures are not fair.
- `GameClock`: the timer of the CLOCK frames fires on a process that is up (`plugins/ws.ts:202-230`)
  and its frames arrive; a transaction that holds the row ends and one that waits for it gets it; the
  interval of a mounted component fires. Retimings, clock steps, restarts and time are not fair.

## 4. What the comments promise and the code does not do

`PROJECT.json` quotes each finding with both lines. Where a module can say what the comment says,
it does, in a definition that no passing run lists; put it into the `.cfg` of the module's run, as an
INVARIANT or a PROPERTY, in place of those it has, and TLC shows the counterexample. Two need more
than the bounds of the run: `ReplayClosesGap` those of `sync_ring`, or, for blocks of one event, two
writers (`Callers = {}`, `Others = {o1, o2}`, `MaxAdvance = 1`, `MaxBody = 0`), `NoBumpCycle`
the larger land of `MCLand`
(`MoreCells`, `MoreChunkOf`, `MorePrices`, `MoreOrders`) and an opening balance of 6.

| Definition | Module | What happens instead |
|---|---|---|
| `NoneForgotten` | `EventSchedule` | a row that a rescheduling finds beyond the horizon loses its job and keeps its stamp, so the sweep passes it by until it is overdue |
| `PagesAscend` | `EventSync` | `pushRing` (`lib/events.ts:151`) reverses a block that `LPUSH` reverses again: a block of several frames is replayed backwards. The run `sync_ring` shows it |
| `ReplayClosesGap` | `EventSync` | a page read from a ring with a hole, or out of order, moves the mark over the missing event |
| `ReplyIsSafe` | `EventSync` | the reply of a mutation moves the mark over the frames of its own advance |
| `StoredHistoryPunctual` | `Fields` | a split settles the weeds of a row it did not materialise: they are accrued twice |
| `RipeTreesAreNoNews` | `Forestry` | a tree that was mature before its plot existed is reported with another of the same window |
| `PlantsTheCellsNamed` | `Forestry` | a replanting plants the first empty cells, whichever were named |
| `RecomputableAlways` | `Holding` | a late sweep closes contracts in hours that were already charged |
| `CacheNeverWrong` | `Land` | the entry of a purchase that rolled back is read by the next that reaches the version |
| `NoBumpCycle` | `Land` | a building bumps chunks twice, in ascending order each time and not overall: two buyers wait for each other |
| `RevIsHonest` | `ChunkCopies` | `unchanged` reaches an emptied copy, which then claims the version |
| `OneLifetime` | `ChunkCopies` | an answer after the drop creates a copy that has no view |
| `MadeOnce` | `Requests` | a purchase of a machine that committed and was answered 5xx is performed again by the retry |
| `AlwaysReconciles` | `WelcomeBack` | an entry is committed between two statements of a summary |
| `NoHole` | `WelcomeBack` | an entry is dated behind a mark already confirmed |
| `NothingRewound` | `GameClock` | a slow-down takes the clock back by what it ran on during the transaction of the retiming |
| `ServerTimeWins` | `GameClock` | the page extrapolates with its own wall clock and stays wrong by as much |
| `NeverBackwards` | `GameClock` | two instances on the page write their own readings to the store in turn |

Three properties of the passing runs exempt exactly such a case, and say no more than that it has no
other cause: `AlarmSet` the rows of `NoneForgotten` (`LeftStamped`), `Reconciles` the summaries of
`AlwaysReconciles` (`Disturbed`), and the half of `AheadForAReason` about hosts the host under whose
reading the world was retimed (`led`), which hands out an instant of the old rate for as long as it
is ahead. `HelloCatchesUp` starts from the sequence a greeting reported: it does not cover the event
between the reading of that sequence and the subscription, below.

Without such a definition: a batch that a handler extends behind the clock is applied out of due
order; an alarm added under an id BullMQ still retains is ignored; a job of a stale epoch is not
discarded (`NeverEarly` shows that it is harmless); an event published between the reading and the
subscription of a new connection reaches nobody until the next one; a failed rung is not retried; the
comment in `economy/jobs.ts` about the worker process is stale; `applyChunkResult` compares no version
and an older answer undoes a frame (`overtaken`); `invalidateCellsOf` sets a mark that nothing
reads; the record of an idempotency key whose process stopped stays open for ever; the second insert
of the guard can fail unhandled.

## 5. Proofs

TLAPS proves the theorems below for every value of the constants, from the assumption each module
names (`ScheduleAssumption`, `HoldingAssumption` and so on: finite sets of rows, positive durations
and periods, identifiers apart from their null values), which TLC evaluates on every run. None of
the properties is inductive as it stands. Each proof module begins with the lemmas on the operators
it needs, then states the strengthening, then shows it of the initial states and of every action,
one lemma per action or per kind of action. TLC finds each strengthening true on the instance of its
module.

**`EventSchedule_proofs`**: `TypeCorrect`, `SweepChainHolds`, `TerminalRowsAreFinal`,
`NothingAppliedEarly`, `AlarmsReferToRows`, `AlarmsAreSet`. The first five rest on what a transaction
may have changed (its view agrees with the table on final rows, only the holder of the lock has one,
and the chain holds in both), on a batch lying within a reading that is not ahead of the clock, and
on an effect of a committed transaction referring to a row in the table. `AlarmsAreSet` is the
longest argument of the project. Its invariant says of each pending row that it is `Minded`: a mark
or an addition of the current epoch exists only for a row that is not parked, a job of the epoch
rings in time, and the row is either still to be renewed by the operator (`Coming`), done with
(`Settled`: it was passed over, or its alarm is good), or younger than the epoch (`Fresh`). That needs `Books`: who may do what, that no row,
job or reading is of an epoch to come, that an open transaction moves no due instant, and that the
operator, who alone removes the job of a pending row, has its renewal later in the same list.
Like the property it is conditional: it says nothing once there was a fault.

**`Fields_proofs`**: `TypeCorrect`, `AlarmsFollowRows`, `RowsNotAhead`, `TasksApply`, `GeometryHolds`,
`ProgressIsKept`, `WeedsAreTrue`, `UnitsHold`. `RowInv` relates a row, its alarm, its task and the
time: that a task which is admitted at its due instant stays so whatever materialises the row in
between is what makes it inductive, and makes the refusal that `completeTask` catches unreachable.
`WeedsAreTrue` adds to each row the history of its true level (`FieldHistory`) and rests on
`AcrossFacts`, that weeds accrued over two windows are those of their union; `HarvestAfter` says why
a harvest never ends while weeds still grow.

**`Holding_proofs`**: `TypeCorrect`, `ReservationsHold`, `RecomputableHolds`, `ChargedOnceHolds`,
`StorageHolds`, `ReservedRoomHolds`, `DebtOnlyByTimeHolds`, `DebtIsMarkedHolds`, `TakesNoMoreHolds`,
`WearIsBilledHolds`. The accounts rest on one fact of arithmetic, that a window cut in two costs
what it costs whole (`ClipAdds`), and on an invariant that says when an interval may still change: a
row that does not exist has paid nothing, an interval is only ever given an end at or after the mark
(or the row joins `late`), and a batch never holds an event later than the completion of a task it
left out (`ClockInv`), which is why a liquidation in the middle of a batch cancels no task behind its
scheduled end. That last part is true of an advance because its events are sorted and because the
batch is the earliest of what is due. `StorageHolds` needs the reserved column to be the very sum of
the reservations: with an inequality the `max(0, ...)` of a release would not be the identity, and
`ReservedRoomHolds` would fail. `WearIsBilledHolds` puts two columns together that nothing compares,
what a task paid and what its machines wore. It needs `WearInv`: a request runs with the mark at its
reading or past it, so a task that is not `late` began exactly at the mark, where no machine can have
been worn since; from there both sides are the hours between its start and its end. Sums are
cardinalities of sets of units (`Total`), so that the library's facts about finite sets give a sum
with one term more (`TotalAdds`).

**`Forestry_proofs`**: `TypeCorrect`, `ToldOnce`, `TasksHold`, `PlotsHold`, `WoodHolds`. One alarm
serves all the trees of a plot, so the invariant is about one tree and that alarm (`TreeOK`): a tree
still awaited has a window no earlier than the alarm, one that was told has a window that ended, and
the alarm is past it. Alarms fall on ends of windows (`Aligned`) and none is later than the window of
a sapling planted now. `AreaAgrees` says that the empty cells of a plot are those a clearing chose
and include those a replanting counted, because the plot is reserved meanwhile.

**`Land_proofs`**: `TypeCorrect`, `LandIsPaid`, `OverlaysAreTrue`, `PurchaseAsAgreed`, and `PurchasesAreAtomic`,
the refinement: a commit is a step of `LandSale` and every other step a stutter. The invariant
says of an open transaction that what it acquired is still wild for everybody else (`Claims`), that
every chunk it changes is or will be bumped (`Marks`), that it was charged for what it holds
(`Charges`), and that no two hold a cell or a chunk row (`Exclusive`). Of the cache it says that an
entry under a version to come is what the transaction about to commit it leaves (`Ahead`), and of a
batch read that it holds the overlay of its version if that is still current (`Reads`). The refinement adds
`Current`: what a transaction found taken is taken still when it commits, because land that has an
owner never becomes free again (`StaysTaken`), and what it found free nobody else could take.

**`Client_proofs`** has three parts, after a section of lemmas they share (below).

*EventSync*: `SyncTypeCorrect`, `SnapshotHoldsWhatItReports`, `ReplaysRunOn`,
`EventsAreMissedOnlyByJump`. The types say that no number is beyond the bound; what makes them
inductive is that every frame, page, mark and sequence is within the *log* (`ServerWithin`,
`SocketWithin`, `ClientWithin`), because an event that is not in the log would have no entity to
replace. `ReadingOK` says of a snapshot half read that each entity read so far holds what the count
taken first promises, which is why the count must come first. `ReplayOK` says that a replay was asked
for from a mark the client has reached, which no writer, lost frame or disconnection takes back, and
that its page, if the ring was in order, runs on from there: a ring without a hole whose oldest
event is at most the one after the mark begins right after the mark once filtered (`RingAfter`). `MissedOnlyByJump` follows action by action: a frame is applied only next to the mark, a
run of frames only one after another, and a snapshot replaces everything. `PagesRunOn` is stated
with the proofs: it is the part of `ReplayOK` a reader would ask for. The exemption of pages out of
order is the code's defect and not the proof's: without it the property is false.

*ChunkCopies*: `CopiesTypeCorrect`, `CopiesAreHonest`, `LagsAreMarked`. `AnswersTrue` says what an
answer on its way may say (`unchanged` repeats the version asked about, cells are no older than the
version read before them), `NotHeldIsBlank` that a copy dropped starts afresh.

*WelcomeBack*: `SummaryTypeCorrect`, `ConfirmedStaysAway`, `NothingConfirmedUnseen`,
`SummariesReconcile`. The invariant speaks of every summary there is, cached, half built or shown,
against a ledger that has grown since each of its statements ran (`SummaryRight`): the sum is that of
the entries there were, the first balance is taken after every entry there was before the interval,
the second after every entry that was counted. It is kept because a ledger only grows (`Grown`) and the
mark only rises, and it bounds the mark of a page from below by the one it would have found when it
asked, which is `NeverReappears`: the cache is compared with the mark after it is read.
`SummariesReconcile` adds that in a ledger without disturbance the entries up to the second balance
are those up to the first and the lines (`CalmParts`), and that a sum over a disjoint union is the
sum of both (`SumOfTwo`).

The shared lemmas are about the operators of the community modules, for every sequence and every
finite set. These are folds over a recursive function that the library picks with CHOOSE, so each
lemma first shows that such a function exists (`RecursionExists`, for a finite set whose elements are
taken out one at a time), then that what was picked is a chain of steps (`FoldIsChain`), or that it is
the same whichever element is taken first (`FoldStays`, `SumIs`). The induction they need is not a rule
with an operator as a parameter but the well-ordering of the numbers: the set of those at which the
statement fails would have a least element (`LeastOf`, `UpTo_n`), and so for finite sets by their size
(`BySize`).

**`Requests_proofs`**: `OneRequestAtATime`, `AgainOnlyForWantOfAnAnswer`, `OneDefiniteAnswer`, and
`LookingKeepsThePromise`, the refinement: under the mapping `Decision` each step of `Requests` is a
step of `OncePerKey` or a stutter. The invariant says which handler owns an open record, that the
answer on its way is the entry or a refusal (`Carries`), that executions whose answer cannot be
stored are those counted as mislaid (`Counts`, `Owes`), and that a refusal once stored or told is
final (`Finality`).

**`GameClock_proofs`**: `TypeCorrect`, `HistoryIsContinuous`, `AheadOnlyForAReason`, and `NoEarlyFiring`,
a theorem about the arithmetic of an anchor: an alarm set with the delay the code computes does not
ring before its game instant. The invariant says that the transaction which holds the row works on
the anchor in force (`Pending`), and that every reading on its way is an anchor that has been in
force, no two with the same epoch (`InFlight`).

### What is only model-checked

- The liveness properties (`DueIsApplied`, `KnownGapCloses`, `HelloCatchesUp`, `StaleIsReloaded`,
  `Resyncs`): fairness and `ENABLED` are beyond the prover.

Every other property of a passing run is stated by a theorem.
Two properties are proved and listed by no run: `PagesRunOn`, and `AsAgreed`, which says of one
purchase a part of what `SoldAtOnce` says of all of them.

## 6. The plan

Done, in this order: `EventSchedule`, because everything is applied through it; `EventSync`, because
a client sees nothing else; `Fields`, the first module that must follow a timeline it is behind;
`Holding`, where money and reservations meet; `Land`, `Forestry`, `ChunkCopies`, `Requests`,
`WelcomeBack` and `GameClock`, with the abstract specifications of `Land` and `Requests`. The proofs came with the first modules and
then module by module, the safety invariants before the action properties.

Next:

1. `Advance`, an abstract specification: a player applied punctually, hour by hour. `Fields`
   refines it for a field that no split tore, `Holding` for rows that were not written late.
   `WeedsPunctual` and `Recomputable` are what it would say of one variable each.
2. `EventSync` with a `pushRing` that leaves its blocks in order: what then remains of `ragged` is the
   race between two pushes, and a page without a hole could be promised of one writer.
3. `RefreshTokens`: rotation, reuse and revocation as a protocol of two clients and one table.

### What is not modelled

- Terrain generation, spawn placement, the curves of price, skill and duration: arithmetic over
  constants, where nothing interleaves and nothing is stored half-way.
- Authentication and refresh tokens (planned, above); the details of a connection (tickets,
  reconnection backoff, superseded tabs); signing out.
- Rendering, panels and domain stores of the page: they show what the modelled stores hold.
- HTTP plumbing, schemas, configuration and metrics; the tools, the smoke scripts and the
  infrastructure.
