--------------------------- MODULE EventSchedule ---------------------------
(***************************************************************************)
(* The due events of one player: the scheduled_events rows in PostgreSQL   *)
(* (the truth), the BullMQ jobs in Redis (alarm clocks and nothing else),  *)
(* and the processes that write them:                                      *)
(*                                                                         *)
(*   - requests, which advance the player and then schedule or cancel      *)
(*     (lib/advancePlayer.ts, withPlayerAdvanced);                         *)
(*   - queue workers, which advance the player when an alarm rings         *)
(*     (lib/jobs.ts, createAdvanceJobHandler);                             *)
(*   - the sweeper, which re-creates missing alarms (reconcile);           *)
(*   - the operator, who changes the rate of the world (retimeWorld) and   *)
(*     then re-creates every alarm (rescheduleHorizon).                    *)
(*                                                                         *)
(* A transaction holds the lock of the player row and works on "view", its *)
(* uncommitted copy of the rows; its queue effects wait in "fx" and leave  *)
(* the process only after the commit (lib/tx.ts, lib/outbox.ts).           *)
(***************************************************************************)
EXTENDS Integers, Sequences, FiniteSets

CONSTANTS
    Requests, Workers,     \* processes of the server and of the worker
    Sweeper, Operator,     \* the reconcile timer and the caller of a retiming
    NoProc,                \* the player row is not locked
    Rates,                 \* game time per unit of real time; 0 is a paused world
    InitialRate,           \* the rate of the world when the player registers
    Period,                \* SETTLE_SWEEP_PERIOD_GAME_MS
    Durations,             \* game time from scheduling a task to its completion
    Horizon,               \* scheduleHorizonRealMs
    MaxBatch,              \* MAX_EVENTS_PER_ADVANCE
    MaxAttempts,           \* attempts of a BullMQ job before it is kept as failed
    Links,                 \* bound: links of the settlement sweep chain
    TaskCount,             \* bound: tasks that requests schedule
    MaxGame,               \* bound of the game clock
    MaxEpoch,              \* bound: epochs of the schedule (retimings + 1)
    MaxFaults              \* bound: crashes, rollbacks and losses together

ASSUME ScheduleAssumption ==
    /\ Rates \subseteq Nat /\ InitialRate \in Rates
    /\ Durations \subseteq Nat
    /\ Period \in Nat \ {0} /\ Horizon \in Nat /\ MaxBatch \in Nat \ {0}
    /\ MaxAttempts \in Nat \ {0}
    /\ Links \in Nat \ {0} /\ TaskCount \in Nat
    /\ MaxGame \in Nat /\ MaxGame < Links * Period
    /\ MaxEpoch \in Nat \ {0} /\ MaxFaults \in Nat
    /\ IsFiniteSet(Requests \cup Workers)
    /\ Requests \cap Workers = {} /\ Sweeper # Operator
    /\ {Sweeper, Operator} \cap (Requests \cup Workers) = {}
    /\ NoProc \notin Requests \cup Workers \cup {Sweeper, Operator}

Procs == Requests \cup Workers \cup {Sweeper, Operator}

\* The i-th row of the sweep chain is due at i * Period, which is also what its
\* dedupe key says; the tasks take the identifiers after the chain.
Sweeps == 1 .. Links
Tasks == (Links + 1) .. (Links + TaskCount)
Events == 1 .. (Links + TaskCount)

Epochs == 1 .. MaxEpoch
NoJob == 0                 \* jobId null

Terminal == {"PROCESSED", "CANCELED"}
Statuses == {"ABSENT", "PENDING"} \cup Terminal
Rows == [status : Statuses, due : Nat, job : Epochs \cup {NoJob}, stamped : BOOLEAN]
AbsentRow == [status |-> "ABSENT", due |-> 0, job |-> NoJob, stamped |-> FALSE]
NoView == [e \in Events |-> AbsentRow]   \* no transaction is open

\* A job is identified by its event and the epoch of its creation (lib/ids.ts).
Jobs == Events \X Epochs
Live == {"delayed", "active"}
Retained == {"completed", "failed"}
\* "set" is the epoch whose rate its delay was computed with.
JobStates == [state : {"absent"} \cup Live \cup Retained, set : Epochs, tries : Nat]
NoAlarm == [state |-> "absent", set |-> 1, tries |-> 0]

\* An enqueue effect is flushed in three steps: "enqueue" reads the clock, "add" calls
\* the queue with the delay computed at epoch "set", "stamp" writes the row.
Effects == [op : {"enqueue", "add", "stamp", "remove"}, ev : Events,
            ep : Epochs \cup {NoJob}, set : Epochs]
Effect(op, e, k) == [op |-> op, ev |-> e, ep |-> k, set |-> 1]
Enqueue(e, k) == Effect("enqueue", e, k)
Remove(e, k) == Effect("remove", e, k)

NoReading == [game |-> 0, epoch |-> 1]
IdleJob == <<0, 0>>

VARIABLES
    game,      \* game time of the world
    rate,      \* rateNum/rateDen of the world row
    epoch,     \* scheduleEpoch of the world row
    rows,      \* scheduled_events, as committed
    queue,     \* the jobs of the domain queue in Redis
    lock,      \* holder of the player row lock
    view,      \* the rows as the transaction that holds the lock sees them
    batch,     \* due events that transaction fetched and has not visited yet
    pc,        \* per process: where it is
    reading,   \* per process: the clock reading it took
    fx,        \* per process: outbox effects not flushed yet
    job,       \* per worker: the job it is running
    faults,    \* faults so far
    passedOver \* history, read by no step: the rows that the rescheduling of this
               \* epoch found parked when it came to their alarm

clockVars == <<game, rate, epoch, passedOver>>
txVars == <<lock, view, batch>>
procVars == <<pc, reading, fx, job>>
vars == <<clockVars, rows, queue, txVars, procVars, faults>>

TypeOK ==
    /\ game \in 0 .. MaxGame /\ rate \in Rates /\ epoch \in Epochs
    /\ rows \in [Events -> Rows]
    /\ queue \in [Jobs -> JobStates]
    /\ lock \in Procs \cup {NoProc}
    /\ view \in [Events -> Rows]
    /\ batch \in SUBSET Events
    /\ pc \in [Procs -> {"idle", "early", "woken", "read", "advance", "commit", "flush", "retimed"}]
    /\ reading \in [Procs -> [game : 0 .. MaxGame, epoch : Epochs]]
    /\ fx \in [Procs -> Seq(Effects)]
    /\ job \in [Procs -> Jobs \cup {IdleJob}]
    /\ faults \in Nat
    /\ passedOver \in SUBSET Events

\* A registered player: startSettleSweepChain wrote the first link, whose alarm
\* is still to be flushed by the registration, here the first request.
Init ==
    /\ game = 0 /\ rate = InitialRate /\ epoch = 1 /\ passedOver = {}
    /\ rows = [e \in Events |->
                 IF e = 1 THEN [AbsentRow EXCEPT !.status = "PENDING", !.due = Period]
                          ELSE AbsentRow]
    /\ queue = [j \in Jobs |-> NoAlarm]
    /\ lock = NoProc
    /\ view = NoView
    /\ batch = {}
    /\ \E r \in Requests :
         /\ pc = [p \in Procs |-> IF p = r THEN "flush" ELSE "idle"]
         /\ fx = [p \in Procs |-> IF p = r THEN <<Enqueue(1, 1)>> ELSE <<>>]
    /\ reading = [p \in Procs |-> NoReading]
    /\ job = [p \in Procs |-> IdleJob]
    /\ faults = 0
-----------------------------------------------------------------------------
(* The clock *)

Tick ==
    /\ game + rate <= MaxGame
    /\ rate # 0
    /\ game' = game + rate
    /\ UNCHANGED <<rate, epoch, passedOver, rows, queue, txVars, procVars, faults>>

\* retimeWorld, in its own transaction; the alarms are rescheduled afterwards.
Retime ==
    /\ pc[Operator] = "idle" /\ epoch < MaxEpoch
    /\ rate' \in Rates
    /\ epoch' = epoch + 1 /\ passedOver' = {}
    /\ pc' = [pc EXCEPT ![Operator] = "retimed"]
    /\ UNCHANGED <<game, rows, queue, txVars, reading, fx, job, faults>>

CeilDiv(a, b) == (a + b - 1) \div b

\* delayFor: no alarm in a paused world nor beyond the horizon; the real delay is
\* rounded up (realInstant), so that no alarm rings early at the rate in force.
Parked(due) == rate = 0 \/ (due > game /\ CeilDiv(due - game, rate) > Horizon)

\* An alarm set at the rate in force rings when its event is due; one set before a
\* retiming rings at an instant that means nothing any more, sooner or later.
Rings(e, k) ==
    LET j == queue[<<e, k>>] IN
    j.state = "delayed" /\ (j.set = epoch => rows[e].due <= game)
-----------------------------------------------------------------------------
(* scheduleEvent and cancelScheduledEvent, inside a transaction *)

\* Insert ignoring the conflict with a pending row of the same key.
Insert(v, e, due) ==
    IF v[e].status = "PENDING" THEN v
    ELSE [v EXCEPT ![e] = [AbsentRow EXCEPT !.status = "PENDING", !.due = due]]
InsertFx(v, e, k) == IF v[e].status = "PENDING" THEN <<>> ELSE <<Enqueue(e, k)>>

CancelAll(v, C) ==
    [e \in Events |-> IF e \in C /\ v[e].status = "PENDING"
                      THEN [v[e] EXCEPT !.status = "CANCELED"] ELSE v[e]]
\* Only a row whose jobId is known loses its job: an alarm not stamped yet stays.
RemoveFx(e) == IF rows[e].job = NoJob THEN <<>> ELSE <<Remove(e, rows[e].job)>>

PendingTasks(v) == {t \in Tasks : v[t].status = "PENDING"}
-----------------------------------------------------------------------------
(* advancePlayer under the player lock *)

DueBy_NoFilter(t) == {e \in Events : rows[e].status = "PENDING"}

DueBy(t) == {e \in Events : rows[e].status = "PENDING" /\ rows[e].due <= t}

\* The first MaxBatch rows of S by due instant, ties broken by an identifier
\* that carries no meaning, hence every choice.
IsBatch(B, S) ==
    /\ B \subseteq S
    /\ Cardinality(B) <= MaxBatch
    /\ \/ B = S
       \/ Cardinality(B) = MaxBatch
    /\ \A b \in B, s \in S \ B : rows[b].due <= rows[s].due

ReadClock_NextEpoch(p) ==
    /\ pc[p] = IF p \in Requests THEN "idle" ELSE "woken"
    /\ reading' = [reading EXCEPT ![p] = [game |-> game, epoch |-> epoch + 1]]
    /\ pc' = [pc EXCEPT ![p] = "read"]
    /\ UNCHANGED <<clockVars, rows, queue, txVars, fx, job, faults>>

\* The clock is read before the lock is waited for.
ReadClock(p) ==
    /\ pc[p] = IF p \in Requests THEN "idle" ELSE "woken"
    /\ reading' = [reading EXCEPT ![p] = [game |-> game, epoch |-> epoch]]
    /\ pc' = [pc EXCEPT ![p] = "read"]
    /\ UNCHANGED <<clockVars, rows, queue, txVars, fx, job, faults>>

LockPlayer(p) ==
    /\ pc[p] = "read" /\ lock = NoProc
    /\ lock' = p
    /\ view' = rows
    /\ \E B \in SUBSET DueBy(reading[p].game) :
         IsBatch(B, DueBy(reading[p].game)) /\ batch' = B
    /\ pc' = [pc EXCEPT ![p] = "advance"]
    /\ UNCHANGED <<clockVars, rows, queue, reading, fx, job, faults>>

\* The next due event of the batch.
Earliest(e) == e \in batch /\ \A f \in batch : view[e].due <= view[f].due

\* The claim found the row no longer pending: nothing of it runs.
SkipEvent(p, e) ==
    /\ lock = p /\ pc[p] = "advance" /\ Earliest(e)
    /\ view[e].status # "PENDING"
    /\ batch' = batch \ {e}
    /\ UNCHANGED <<clockVars, rows, queue, lock, view, procVars, faults>>

Claim_Forgotten(e) == view

Claim(e) == [view EXCEPT ![e].status = "PROCESSED"]

ApplyTask_Unconditional(p, e) ==
    /\ lock = p /\ pc[p] = "advance" /\ Earliest(e)
    /\ e \in Tasks
    /\ view' = Claim(e)
    /\ batch' = batch \ {e}
    /\ UNCHANGED <<clockVars, rows, queue, lock, procVars, faults>>

\* TASK_COMPLETE and the like: effects outside this module, no new row.
ApplyTask(p, e) ==
    /\ lock = p /\ pc[p] = "advance" /\ Earliest(e)
    /\ e \in Tasks /\ view[e].status = "PENDING"
    /\ view' = Claim(e)
    /\ batch' = batch \ {e}
    /\ UNCHANGED <<clockVars, rows, queue, lock, procVars, faults>>

\* What the liquidation of a sweep cancels: nothing, or one task.
Liquidations == {<<>>} \cup {<<t>> : t \in PendingTasks(view)}
CancelFx(s) == IF s = <<>> THEN <<>> ELSE RemoveFx(s[1])

\* settleSweepHandler: the hooks may liquidate, which cancels a running task and
\* its completion, and the next link is always scheduled.
ApplySweep(p, e) ==
    /\ lock = p /\ pc[p] = "advance" /\ Earliest(e)
    /\ e \in Sweeps /\ e + 1 \in Sweeps /\ view[e].status = "PENDING"
    /\ \E s \in Liquidations :
         LET v == CancelAll(Claim(e), {s[i] : i \in DOMAIN s}) IN
         /\ view' = Insert(v, e + 1, view[e].due + Period)
         /\ fx' = [fx EXCEPT ![p] = @ \o CancelFx(s) \o InsertFx(v, e + 1, reading[p].epoch)]
    /\ batch' = batch \ {e}
    /\ UNCHANGED <<clockVars, rows, queue, lock, pc, reading, job, faults>>

\* The body of a request: schedule a task, cancel one, or neither.
Body(p) ==
    /\ p \in Requests /\ lock = p /\ pc[p] = "advance" /\ batch = {}
    /\ \/ \E t \in Tasks, d \in Durations :
            /\ view[t].status = "ABSENT"
            /\ view' = Insert(view, t, reading[p].game + d)
            /\ fx' = [fx EXCEPT ![p] = @ \o InsertFx(view, t, reading[p].epoch)]
       \/ \E t \in PendingTasks(view) :
            /\ view' = CancelAll(view, {t})
            /\ fx' = [fx EXCEPT ![p] = @ \o RemoveFx(t)]
       \/ UNCHANGED <<view, fx>>
    /\ pc' = [pc EXCEPT ![p] = "commit"]
    /\ UNCHANGED <<clockVars, rows, queue, lock, batch, reading, job, faults>>

\* The columns jobId and enqueuedAtRealMs are written outside the player lock, so
\* the commit leaves the ones the table has.
Commit(p) ==
    /\ lock = p /\ batch = {}
    /\ pc[p] = "commit" \/ (pc[p] = "advance" /\ p \in Workers)
    /\ rows' = [e \in Events |->
                  [view[e] EXCEPT !.job = rows[e].job, !.stamped = rows[e].stamped]]
    /\ lock' = NoProc
    /\ view' = NoView
    /\ pc' = [pc EXCEPT ![p] = "flush"]
    /\ UNCHANGED <<clockVars, queue, batch, reading, fx, job, faults>>
-----------------------------------------------------------------------------
(* After the commit: the outbox, effect by effect *)

NextEffect_BeforeCommit(p, op) == fx[p] # <<>> /\ Head(fx[p]).op = op

NextEffect(p, op) == pc[p] = "flush" /\ fx[p] # <<>> /\ Head(fx[p]).op = op
Drop(p) == [fx EXCEPT ![p] = Tail(@)]

\* enqueueEffect: a fresh clock reading decides whether there is an alarm at all.
FlushRead(p) ==
    /\ NextEffect(p, "enqueue")
    /\ LET e == Head(fx[p]).ev IN
       IF Parked(rows[e].due)
       THEN /\ fx' = Drop(p)
            /\ passedOver' = IF p = Operator THEN passedOver \cup {e} ELSE passedOver
       ELSE /\ fx' = [fx EXCEPT ![p] = <<[Head(@) EXCEPT !.op = "add", !.set = epoch]>> \o Tail(@)]
            /\ UNCHANGED passedOver
    /\ UNCHANGED <<game, rate, epoch, rows, queue, txVars, pc, reading, job, faults>>

\* BullMQ ignores an add whose identifier it still knows, in any state.
FlushAdd(p) ==
    /\ NextEffect(p, "add")
    /\ LET j == <<Head(fx[p]).ev, Head(fx[p]).ep>>
       IN queue' = IF queue[j].state # "absent" THEN queue
                   ELSE [queue EXCEPT ![j] = [NoAlarm EXCEPT !.state = "delayed",
                                                             !.set = Head(fx[p]).set]]
    /\ fx' = [fx EXCEPT ![p] = <<[Head(@) EXCEPT !.op = "stamp", !.set = 1]>> \o Tail(@)]
    /\ UNCHANGED <<clockVars, rows, txVars, pc, reading, job, faults>>

\* The row records its alarm if it is still pending.
FlushStamp(p) ==
    /\ NextEffect(p, "stamp")
    /\ LET e == Head(fx[p]).ev
           k == Head(fx[p]).ep
       IN rows' = IF rows[e].status = "PENDING"
                  THEN [rows EXCEPT ![e].job = k, ![e].stamped = TRUE]
                  ELSE rows
    /\ fx' = Drop(p)
    /\ UNCHANGED <<clockVars, queue, txVars, pc, reading, job, faults>>

\* Nothing to remove without a jobId; a job being run is locked by its worker and
\* survives its removal.
FlushRemove(p) ==
    /\ NextEffect(p, "remove")
    /\ LET j == <<Head(fx[p]).ev, Head(fx[p]).ep>>
       IN queue' = IF j[2] = NoJob \/ queue[j].state = "active"
                   THEN queue ELSE [queue EXCEPT ![j] = NoAlarm]
    /\ fx' = Drop(p)
    /\ UNCHANGED <<clockVars, rows, txVars, pc, reading, job, faults>>

\* What becomes of the job a process was running, unless Redis lost it.
JobBecomes(p, s) ==
    IF job[p] # IdleJob /\ queue[job[p]].state = "active"
    THEN [queue EXCEPT ![job[p]] = s]
    ELSE queue
Completed == [NoAlarm EXCEPT !.state = "completed"]

\* The process is idle again, whatever it was doing.
Rest(p) ==
    /\ pc' = [pc EXCEPT ![p] = "idle"]
    /\ job' = [job EXCEPT ![p] = IdleJob]
    /\ reading' = [reading EXCEPT ![p] = NoReading]

Finish(p) ==
    /\ pc[p] = "flush" /\ fx[p] = <<>>
    /\ queue' = JobBecomes(p, Completed)
    /\ Rest(p)
    /\ UNCHANGED <<clockVars, rows, txVars, fx, faults>>
-----------------------------------------------------------------------------
(* The queue worker *)

\* The handler reads the clock; the epoch of the job is not looked at, only the due
\* guard decides.
Ring(w, e, k) ==
    /\ w \in Workers /\ pc[w] = "idle"
    /\ Rings(e, k)
    /\ pc' = [pc EXCEPT ![w] = IF game < rows[e].due THEN "early" ELSE "woken"]
    /\ queue' = [queue EXCEPT ![<<e, k>>].state = "active"]
    /\ job' = [job EXCEPT ![w] = <<e, k>>]
    /\ UNCHANGED <<clockVars, rows, txVars, reading, fx, faults>>

\* parkEarlyEvent: the row has no alarm any more, and the job completes.
ParkEarly(w) ==
    /\ pc[w] = "early"
    /\ LET e == job[w][1]
       IN rows' = IF rows[e].status = "PENDING"
                  THEN [rows EXCEPT ![e].job = NoJob, ![e].stamped = FALSE] ELSE rows
    /\ queue' = JobBecomes(w, Completed)
    /\ Rest(w)
    /\ UNCHANGED <<clockVars, txVars, fx, faults>>
-----------------------------------------------------------------------------
(* The sweeper and the operator *)

\* The sequences that list S by due instant.
ByDue(S) ==
    {s \in [1 .. Cardinality(S) -> S] :
        /\ \A i, j \in 1 .. Cardinality(S) : i # j => s[i] # s[j]
        /\ \A i, j \in 1 .. Cardinality(S) : i < j => rows[s[i]].due <= rows[s[j]].due}
EnqueueAll(s) == [i \in DOMAIN s |-> Enqueue(s[i], epoch)]

Overdue_Unstamped == {e \in DueBy(game) : ~rows[e].stamped}

Overdue == DueBy(game)
Soon == {e \in Events : rows[e].status = "PENDING" /\ rows[e].due > game /\ ~rows[e].stamped}

\* reconcile: everything due, stamped or not, then what has no alarm yet.
Reconcile ==
    /\ pc[Sweeper] = "idle"
    /\ Overdue \cup Soon # {}
    /\ \E s \in ByDue(Overdue), t \in ByDue(Soon) :
         fx' = [fx EXCEPT ![Sweeper] = EnqueueAll(s) \o EnqueueAll(t)]
    /\ pc' = [pc EXCEPT ![Sweeper] = "flush"]
    /\ UNCHANGED <<clockVars, rows, queue, txVars, reading, job, faults>>

Pending == {e \in Events : rows[e].status = "PENDING"}

Reschedule_LikeTheSweep ==
    /\ pc[Operator] = "retimed"
    /\ \E s \in ByDue(Soon) : fx' = [fx EXCEPT ![Operator] = EnqueueAll(s)]
    /\ pc' = [pc EXCEPT ![Operator] = "flush"]
    /\ UNCHANGED <<clockVars, rows, queue, txVars, reading, job, faults>>

\* rescheduleHorizon: every job of the old epoch removed, then every alarm anew.
Reschedule ==
    /\ pc[Operator] = "retimed"
    /\ \E s \in ByDue(Pending) :
         fx' = [fx EXCEPT ![Operator] =
                  [i \in 1 .. 2 * Cardinality(Pending) |->
                     IF i % 2 = 1 THEN Remove(s[(i + 1) \div 2], rows[s[(i + 1) \div 2]].job)
                                  ELSE Enqueue(s[i \div 2], epoch)]]
    /\ pc' = [pc EXCEPT ![Operator] = "flush"]
    /\ UNCHANGED <<clockVars, rows, queue, txVars, reading, job, faults>>
-----------------------------------------------------------------------------
(* Faults *)

Fault == faults < MaxFaults /\ faults' = faults + 1

\* Nothing of the open transaction stays, its recorded effects included.
Abort(p) ==
    /\ lock' = IF lock = p THEN NoProc ELSE lock
    /\ batch' = IF lock = p THEN {} ELSE batch
    /\ view' = IF lock = p THEN NoView ELSE view
    /\ fx' = [fx EXCEPT ![p] = <<>>]
    /\ Rest(p)
    /\ UNCHANGED <<clockVars, rows>>

\* Another attempt of the job, until it is kept as failed.
Retry(j) ==
    LET tries == queue[j].tries + 1 IN
    [queue[j] EXCEPT !.state = IF tries < MaxAttempts THEN "delayed" ELSE "failed",
                     !.tries = tries]

\* The handler throws or the transaction times out.
RollBack(p) ==
    /\ Fault
    /\ pc[p] \in {"early", "woken", "read", "advance", "commit"}
    /\ queue' = JobBecomes(p, Retry(job[p]))
    /\ Abort(p)

\* The process dies, before or after its commit: the effects left are gone, and
\* BullMQ delivers a stalled job again.
Crash(p) ==
    /\ Fault
    /\ pc[p] # "idle"
    /\ queue' = JobBecomes(p, [queue[job[p]] EXCEPT !.state = "delayed"])
    /\ Abort(p)

\* One effect fails: logged and swallowed, the next one goes on.
FlushFails(p) ==
    /\ Fault
    /\ pc[p] = "flush" /\ fx[p] # <<>>
    /\ fx' = Drop(p)
    /\ UNCHANGED <<clockVars, rows, queue, txVars, pc, reading, job>>

\* Redis loses its contents.
RedisLoss ==
    /\ Fault
    /\ \E j \in Jobs : queue[j].state # "absent"
    /\ queue' = [j \in Jobs |-> NoAlarm]
    /\ UNCHANGED <<clockVars, rows, txVars, procVars>>

\* removeOnComplete and removeOnFail: the identifier becomes usable again.
Purge(j) ==
    /\ queue[j].state \in Retained
    /\ queue' = [queue EXCEPT ![j] = NoAlarm]
    /\ UNCHANGED <<clockVars, rows, txVars, procVars, faults>>
-----------------------------------------------------------------------------
Advance(p) ==
    \/ LockPlayer(p)
    \/ \E e \in Events : SkipEvent(p, e) \/ ApplyTask(p, e) \/ ApplySweep(p, e)
    \/ Body(p)
    \/ Commit(p)

Flush(p) == FlushRead(p) \/ FlushAdd(p) \/ FlushStamp(p) \/ FlushRemove(p) \/ Finish(p)

Wake(w) == ParkEarly(w) \/ \E e \in Events, k \in Epochs : Ring(w, e, k)

Next ==
    \/ Tick
    \/ Retime \/ Reschedule \/ Reconcile
    \/ \E p \in Procs :
         \/ ReadClock(p) \/ Advance(p) \/ Flush(p) \/ Wake(p)
         \/ RollBack(p) \/ Crash(p) \/ FlushFails(p)
    \/ RedisLoss
    \/ \E j \in Jobs : Purge(j)

Spec == Init /\ [][Next]_vars
-----------------------------------------------------------------------------
(* Properties *)

\* A row that was processed or cancelled stays so, in the table and inside the
\* transaction that decided it: no second run of a handler, no run of the handler
\* of an event that the sweep of the same advance has just cancelled (the claim of
\* advancePlayer, the conditional updates of cancelScheduledEvent).
TerminalIsFinal ==
    [][\A e \in Events :
         /\ rows[e].status \in Terminal => rows'[e].status = rows[e].status
         /\ lock # NoProc /\ lock' = lock /\ view[e].status \in Terminal
               => view'[e].status = view[e].status]_vars

\* The settlement sweep of a player neither dies nor forks: whatever fails, exactly
\* one link of the chain is pending (settleSweepHandler, scheduleNextSettleSweep).
SweepChain == \E e \in Sweeps : \A f \in Sweeps : rows[f].status = "PENDING" <=> f = e

\* No alarm clock and no queued effect refers to a row that was rolled back: effects
\* leave a process only after its commit (withTransaction).
AlarmsHaveRows ==
    /\ \A j \in Jobs : queue[j].state # "absent" => rows[j[1]].status # "ABSENT"
    /\ \A p \in Procs : pc[p] = "flush" =>
         \A i \in DOMAIN fx[p] : rows[fx[p][i].ev].status # "ABSENT"

\* However the rate changed since its alarm was set, an event is never applied before
\* game time reaches it.
NeverEarly == \A e \in Events : rows[e].status = "PROCESSED" => rows[e].due <= game

\* With nothing failing, whenever every process is at rest in a running world, no
\* pending row is forgotten until it is overdue: it has an alarm set for the right
\* instant under the rate in force, or it lies beyond the horizon, or the next sweep
\* will give it one, however requests, sweeps and retimings interleaved.  The one
\* exception: when the rescheduling after the last retiming came to this row, it found
\* it beyond the horizon at that instant (or the world paused) and gave it no alarm, and
\* a stamp of an earlier epoch hides it from the sweep (NoneForgotten is the claim
\* without the exception).
Quiescent == \A p \in Procs : pc[p] = "idle"
OnTime(e, k) == queue[<<e, k>>].state = "delayed" /\ queue[<<e, k>>].set = epoch
Remembered(e) ==
    \/ Parked(rows[e].due)
    \/ e \in Soon \cup Overdue
    \/ \E k \in Epochs : OnTime(e, k)
LeftStamped(e) == e \in passedOver /\ rows[e].stamped /\ rows[e].job # epoch
AtRest == Quiescent /\ faults = 0 /\ rate # 0
AlarmSet == AtRest => \A e \in Pending : Remembered(e) \/ LeftStamped(e)

\* Refuted: an alarm removed by a retiming is missed only until the next sweep
\* ("Null while the event is outside the horizon", prisma/schema.prisma:1409).
NoneForgotten == AtRest => \A e \in Pending : Remembered(e)

\* An event that fell due is eventually applied or cancelled, unless the world is
\* paused, however many alarms were lost on the way (worker, reconcile).
DueIsApplied ==
    \A e \in Events :
        (rows[e].status = "PENDING" /\ rows[e].due <= game)
            ~> (rows[e].status # "PENDING" \/ rate = 0)

-----------------------------------------------------------------------------
(* Fairness: a process that has started a step ends it; the worker takes jobs that
   ring; the sweep runs every minute; the row lock of PostgreSQL is handed out in
   order; retained jobs are removed by age. Requests, retimings, faults and the
   passing of time are not fair. *)
Fairness ==
    /\ WF_vars(Reconcile) /\ WF_vars(Reschedule)
    /\ \A w \in Workers : WF_vars(ReadClock(w))
    /\ \A p \in Procs :
         /\ SF_vars(LockPlayer(p))
         /\ WF_vars(Advance(p)) /\ WF_vars(Flush(p)) /\ WF_vars(Wake(p))
    /\ \A j \in Jobs : WF_vars(Purge(j))

FairSpec == Spec /\ Fairness
=============================================================================
