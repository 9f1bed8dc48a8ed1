------------------------------- MODULE Holding -------------------------------
(***************************************************************************)
(* The holding of one player: workers, machines, tasks, a store and the    *)
(* money they cost (modules/tasks, workers, machinery, farms, economy, and *)
(* lib/accrual.ts, lib/ledger.ts, lib/advancePlayer.ts).                   *)
(*                                                                         *)
(* Costs are never charged when they are incurred.  A mark says up to      *)
(* which game instant they are settled; every due event first settles up   *)
(* to its own instant, the advance ends by settling up to the clock        *)
(* reading of its transaction, and each settlement integrates the validity *)
(* intervals of the rows over [mark, to).  The module is about the writers *)
(* of those intervals and about what a task holds while it runs.           *)
(*                                                                         *)
(* Transactions of a player exclude each other, but each one reads the     *)
(* clock before it waits for the lock.  Refused requests write nothing and *)
(* are not steps.                                                          *)
(***************************************************************************)
EXTENDS Integers, FiniteSets

CONSTANTS
    Workers, Machines, Tasks,   \* identifiers of rows, each used once
    NoTask,                     \* currentTaskId null
    Price,       \* wage, upkeep, running: by the game hour; machine, repair, silo: paid;
                 \* resale, siloResale, unit: earned; other: land and buildings never sold
    Opening,     \* balance of a new player
    SiloSize, MaxSilos,
    Yields,      \* what an operation produces; 0 for one that stores nothing
    WorkTime,    \* game hours a task takes
    RepairTime,  \* game hours to restore one hour of wear
    FullWear,    \* wear of a machine of condition zero
    Fit,         \* MIN_CONDITION_TO_ASSIGN, as the wear it still allows
    Period,      \* SETTLE_SWEEP_PERIOD_GAME_MS
    MaxBatch,    \* MAX_EVENTS_PER_ADVANCE
    MaxWait,     \* bound of the game time a transaction waits for the lock
    MaxGame      \* bound of the game clock

Sources == Workers \cup Machines \cup Tasks

ASSUME HoldingAssumption ==
    /\ IsFiniteSet(Sources) /\ NoTask \notin Tasks /\ Workers # {}
    /\ Workers \cap Machines = {} /\ Workers \cap Tasks = {} /\ Machines \cap Tasks = {}
    /\ Price \in [{"wage", "upkeep", "running", "machine", "repair", "silo", "resale",
                   "siloResale", "unit", "other"} -> Nat]
    /\ Price.unit > 0
    /\ Opening \in Nat /\ SiloSize \in Nat \ {0} /\ MaxSilos \in Nat \ {0}
    /\ Yields \subseteq Nat
    /\ WorkTime \in Nat \ {0} /\ RepairTime \in Nat \ {0}
    /\ FullWear \in Nat \ {0} /\ Fit \in 0 .. FullWear
    /\ Period \in Nat \ {0} /\ MaxBatch \in Nat \ {0} /\ MaxWait \in Nat /\ MaxGame \in Nat

Never == MaxGame + 1   \* terminated, disposed, ended: null
NoRepair == 0          \* repairEndsAtGameMs null; a repair takes time, so ends later

WorkerRows == [status : {"ABSENT", "IDLE", "WORKING"}, task : Tasks \cup {NoTask},
               hired : Nat, terminated : Nat]
AbsentWorker == [status |-> "ABSENT", task |-> NoTask, hired |-> 0, terminated |-> 0]

MachineRows == [status : {"ABSENT", "IDLE", "WORKING", "IN_REPAIR"}, task : Tasks \cup {NoTask},
                acquired : Nat, disposed : Nat,
                wear : 0 .. FullWear, wearAt : Nat, repairEnds : Nat]
AbsentMachine == [status |-> "ABSENT", task |-> NoTask, acquired |-> 0, disposed |-> 0,
                  wear |-> 0, wearAt |-> 0, repairEnds |-> NoRepair]

\* A task and its pending TASK_COMPLETE, which is due at scheduledEnd.
TaskRows == [status : {"ABSENT", "IN_PROGRESS", "COMPLETED", "CANCELED"},
             worker : Workers, machines : SUBSET Machines, start : Nat, scheduledEnd : Nat,
             ended : Nat, units : Nat, reserved : Nat]
AbsentTask == [status |-> "ABSENT", worker |-> CHOOSE w \in Workers : TRUE, machines |-> {},
               start |-> 0, scheduledEnd |-> 0, ended |-> 0, units |-> 0, reserved |-> 0]

Events == [kind : {"task", "repair", "sweep"}, ref : Sources \cup {NoTask}, due : Nat]

VARIABLES
    game,      \* game time, in hours
    now,       \* the reading of the open transaction
    phase,     \* of the transaction that holds the player row: CLOSED, ADVANCE, BODY
    batch,     \* the due events it fetched and has not applied
    mark,      \* lastAccrualGameMs
    balance, status,
    worker, machine, task,
    stored, reserved, silos,
    sweep,     \* due instant of the pending PLAYER_SETTLE_SWEEP
    paid,      \* history: what has been charged for each row
    late       \* history: rows whose interval was written behind the mark, or past its end

clockVars == <<game, now, phase, batch>>
moneyVars == <<mark, balance, status, paid>>
storeVars == <<stored, reserved, silos>>
rowVars == <<worker, machine, task>>
vars == <<clockVars, moneyVars, storeVars, rowVars, sweep, late>>

TypeOK ==
    /\ game \in 0 .. MaxGame /\ now \in 0 .. MaxGame
    /\ phase \in {"CLOSED", "ADVANCE", "BODY"} /\ batch \in SUBSET Events
    /\ mark \in 0 .. MaxGame /\ balance \in Int /\ status \in {"ACTIVE", "IN_DEBT"}
    /\ worker \in [Workers -> WorkerRows]
    /\ machine \in [Machines -> MachineRows]
    /\ task \in [Tasks -> TaskRows]
    /\ stored \in Nat /\ reserved \in Nat /\ silos \in 0 .. MaxSilos
    /\ sweep \in Nat
    /\ paid \in [Sources -> Nat] /\ late \in SUBSET Sources

\* A registered player with one silo, one pending sweep and nobody on the payroll.
Init ==
    /\ game = 0 /\ now = 0 /\ phase = "CLOSED" /\ batch = {}
    /\ mark = 0 /\ balance = Opening /\ status = "ACTIVE"
    /\ worker = [w \in Workers |-> AbsentWorker]
    /\ machine = [m \in Machines |-> AbsentMachine]
    /\ task = [t \in Tasks |-> AbsentTask]
    /\ stored = 0 /\ reserved = 0 /\ silos = 1
    /\ sweep = Period
    /\ paid = [s \in Sources |-> 0] /\ late = {}

Smaller(a, b) == IF a < b THEN a ELSE b
Larger(a, b) == IF a > b THEN a ELSE b

\* The sum of a function to natural numbers, as the number of its units, which the theorems
\* about cardinality speak of.
Total(f) == Cardinality(UNION {{x} \X (1 .. f[x]) : x \in DOMAIN f})

Employed(w) == worker[w].status # "ABSENT" /\ worker[w].terminated = Never
Owned(m) == machine[m].status # "ABSENT" /\ machine[m].disposed = Never
Running(t) == task[t].status = "IN_PROGRESS"
RunningTasks == {t \in Tasks : Running(t)}
IdleWorker(w) == Employed(w) /\ worker[w].status = "IDLE" /\ worker[w].task = NoTask
IdleMachine(m) == Owned(m) /\ machine[m].status = "IDLE" /\ machine[m].task = NoTask
Capacity == silos * SiloSize
-----------------------------------------------------------------------------
(* Accruals *)

From(s) == IF s \in Workers THEN worker[s].hired
           ELSE IF s \in Machines THEN machine[s].acquired ELSE task[s].start

\* Mutant: a running task costs until somebody closes it.
UntilClosed(s) == IF s \in Workers THEN worker[s].terminated
                  ELSE IF s \in Machines THEN machine[s].disposed ELSE task[s].ended

\* A running task costs until its scheduled end, whenever its completion is applied.
Until(s) == IF s \in Workers THEN worker[s].terminated
            ELSE IF s \in Machines THEN machine[s].disposed
            ELSE IF task[s].ended = Never THEN task[s].scheduledEnd ELSE task[s].ended

Rate(s) == IF s \in Workers THEN Price.wage
           ELSE IF s \in Machines THEN Price.upkeep
           ELSE Price.running * Cardinality(task[s].machines)

\* accrueContinuousCostsExact, one source: its rate over the overlap of the window [a, b)
\* with its validity interval.
Cost(s, a, b) == Rate(s) * Larger(0, Smaller(b, Until(s)) - Larger(a, From(s)))

\* The amounts of the settlement up to t. An instant that is not ahead of the mark
\* settles nothing.
Window(t) == [s \in Sources |-> IF t > mark THEN Cost(s, mark, t) ELSE 0]
BalanceAt(t) == balance - Total(Window(t))

\* Mutant: the mark follows the instant in both directions.
SettleBackwards(t) ==
    /\ mark' = t
    /\ paid' = [s \in Sources |-> paid[s] + Window(t)[s]]

\* settleAccruals but for the balance, which each action moves once.
Settle(t) ==
    /\ mark' = Larger(mark, t)
    /\ paid' = [s \in Sources |-> paid[s] + Window(t)[s]]

\* The rows of S open or close their intervals at t, with the costs settled up to m.
Rewrite(S, t, m) == late' = IF t < m THEN late \cup S ELSE late
-----------------------------------------------------------------------------
(* A transaction: the due events, then the tail of the window *)

Tick ==
    /\ phase = "CLOSED" /\ game < MaxGame
    /\ game' = game + 1
    /\ UNCHANGED <<now, phase, batch, moneyVars, storeVars, rowVars, sweep, late>>

Pending ==
    {[kind |-> "task", ref |-> t, due |-> task[t].scheduledEnd] : t \in RunningTasks}
    \cup {[kind |-> "repair", ref |-> m, due |-> machine[m].repairEnds] :
              m \in {x \in Machines : machine[x].status = "IN_REPAIR"}}
    \cup {[kind |-> "sweep", ref |-> NoTask, due |-> sweep]}
DueBy(t) == {e \in Pending : e.due <= t}

\* The clock is read, then the lock is awaited, then the earliest MaxBatch events due by
\* the reading are fetched, once.
Begin ==
    /\ phase = "CLOSED"
    /\ \E r \in Larger(0, game - MaxWait) .. game, B \in SUBSET Pending :
         /\ B \subseteq DueBy(r)
         /\ Cardinality(B) = Smaller(MaxBatch, Cardinality(DueBy(r)))
         /\ \A e \in B, d \in DueBy(r) \ B : e.due <= d.due
         /\ now' = r /\ batch' = B
    /\ phase' = "ADVANCE"
    /\ UNCHANGED <<game, moneyVars, storeVars, rowVars, sweep, late>>

\* The loop of advancePlayer takes e: it settles up to the due instant, whatever comes next.
Take(e) ==
    /\ phase = "ADVANCE" /\ e \in batch /\ \A d \in batch : e.due <= d.due
    /\ batch' = batch \ {e}
    /\ Settle(e.due)
    /\ UNCHANGED <<game, now, phase, status>>

\* The claim finds a row that a liquidation of the same batch canceled.
Skip(e) ==
    /\ Take(e) /\ e \notin Pending
    /\ balance' = BalanceAt(e.due)
    /\ UNCHANGED <<storeVars, rowVars, sweep, late>>

\* workedGameHours and applyMachineWear of a row that worked [start, end).
Worn(r, start, end) ==
    IF end > start /\ r.wearAt < end
    THEN [r EXCEPT !.wear = Smaller(FullWear, r.wear + (end - start)), !.wearAt = end]
    ELSE r

\* Mutant: the wear of the planned hours.
BackAsPlanned(m, t, end) == [Worn(machine[m], task[t].start, task[t].scheduledEnd)
                             EXCEPT !.status = "IDLE", !.task = NoTask]

\* wearAndRelease, one machine of task t.
Back(m, t, end) ==
    LET r == Worn(machine[m], task[t].start, end)
    IN IF r.task = t THEN [r EXCEPT !.status = "IDLE", !.task = NoTask] ELSE r

\* Mutant: the worker stays on the task.
KeepWorkers(T) == worker

\* applyTaskCompletion and releaseWorkerFromTask.
WorkersBack(T) ==
    [w \in Workers |-> IF \E t \in T : task[t].worker = w /\ worker[w].task = t
                       THEN [worker[w] EXCEPT !.status = "IDLE", !.task = NoTask]
                       ELSE worker[w]]

MachinesBack(T, end) ==
    [m \in Machines |-> IF \E t \in T : m \in task[t].machines
                        THEN LET t == CHOOSE t \in T : m \in task[t].machines
                             IN Back(m, t, end[t])
                        ELSE machine[m]]

\* claimTask.
TasksClosed(T, st, end) ==
    [t \in Tasks |-> IF t \in T THEN [task[t] EXCEPT !.status = st, !.ended = end[t]]
                     ELSE task[t]]

\* Mutant: the room is measured before the reservation is given back.
DepositBeforeRelease(t) ==
    /\ reserved' = Larger(0, reserved - task[t].reserved)
    /\ stored' = stored + Smaller(task[t].units, Larger(0, Capacity - stored - reserved))
    /\ UNCHANGED silos

\* depositProduce: the reservation is given back, then what fits is stored and the rest
\* is wasted.
Deposit(t) ==
    LET reservedAfter == Larger(0, reserved - task[t].reserved)
    IN /\ reserved' = reservedAfter
       /\ stored' = stored + Smaller(task[t].units, Larger(0, Capacity - stored - reservedAfter))
       /\ UNCHANGED silos

\* completeTask, at the due instant.
CompleteTask(e) ==
    /\ Take(e) /\ e \in Pending /\ e.kind = "task"
    /\ balance' = BalanceAt(e.due)
    /\ task' = TasksClosed({e.ref}, "COMPLETED", [t \in Tasks |-> e.due])
    /\ machine' = MachinesBack({e.ref}, [t \in Tasks |-> e.due])
    /\ worker' = WorkersBack({e.ref})
    /\ Deposit(e.ref)
    /\ UNCHANGED <<sweep, late>>

\* completeRepair: the points that were paid for are read back from the two instants.
CompleteRepair(e) ==
    /\ Take(e) /\ e \in Pending /\ e.kind = "repair"
    /\ balance' = BalanceAt(e.due)
    /\ machine' = [machine EXCEPT ![e.ref].status = "IDLE", ![e.ref].repairEnds = NoRepair,
           ![e.ref].wear = Larger(0, @ - ((machine[e.ref].repairEnds - machine[e.ref].wearAt)
                                          \div RepairTime)),
           ![e.ref].wearAt = e.due]
    /\ UNCHANGED <<worker, task, storeVars, sweep, late>>
-----------------------------------------------------------------------------
(* The sweep and the forced liquidation it may run *)

Resale(m) == Larger(0, Price.resale - machine[m].wear)
Proceeds(M) == Total([m \in M |-> Resale(m)])
Idle == {m \in Machines : IdleMachine(m)}

\* liquidationTrigger: the debt has passed 30 % of what the holding would fetch.
Triggered(b) ==
    b < 0 /\ -b * 10 > 3 * (Proceeds(Idle) + stored * Price.unit
                            + silos * Price.siloResale + Price.other)

\* Mutant: all the stock goes.
AllUnits(b) == IF b < 0 THEN stored ELSE 0

\* Step INVENTORY: the units the debt needs, rounded up.
UnitsFor(b) == IF b < 0 THEN Smaller(stored, (-b + Price.unit - 1) \div Price.unit) ELSE 0

\* Step IDLE_MACHINES: one by one, in an order nobody chose, until the debt is covered.
SoldFor(M, b) ==
    /\ M \subseteq Idle
    /\ M # {} => \E last \in M : b + Proceeds(M \ {last}) < 0
    /\ b + Proceeds(M) >= 0 \/ M = Idle

\* cancelTask and the two disposals never close an interval before its start.
EndFor(s, due) == Larger(From(s), due)
EndsFor(due) == [t \in Tasks |-> EndFor(t, due)]

\* A sweep that leaves the holding as it is.
PlainSweep(e) ==
    /\ Take(e) /\ e \in Pending /\ e.kind = "sweep"
    /\ ~Triggered(BalanceAt(e.due))
    /\ balance' = BalanceAt(e.due)
    /\ sweep' = e.due + Period
    /\ UNCHANGED <<storeVars, rowVars, late>>

\* Steps INVENTORY and IDLE_MACHINES cover the debt.
SellingSweep(e, M) ==
    /\ Take(e) /\ e \in Pending /\ e.kind = "sweep"
    /\ LET b == BalanceAt(e.due)
           raised == b + UnitsFor(b) * Price.unit
       IN /\ Triggered(b) /\ SoldFor(M, raised) /\ raised + Proceeds(M) >= 0
          /\ balance' = raised + Proceeds(M)
          /\ stored' = stored - UnitsFor(b)
    /\ machine' = [m \in Machines |-> IF m \in M
                       THEN [machine[m] EXCEPT !.disposed = EndFor(m, e.due)] ELSE machine[m]]
    /\ Rewrite(M, e.due, mark')
    /\ sweep' = e.due + Period
    /\ UNCHANGED <<worker, task, reserved, silos>>

\* They do not: CANCEL_TASKS closes every running task and WORKERS dismisses everybody,
\* as nobody is busy any more. The machines the tasks gave back wait for another sweep.
RuinousSweep(e) ==
    /\ Take(e) /\ e \in Pending /\ e.kind = "sweep"
    /\ LET b == BalanceAt(e.due)
           raised == b + stored * Price.unit + Proceeds(Idle)
           back == MachinesBack(RunningTasks, EndsFor(e.due))
           free == WorkersBack(RunningTasks)
           gone == {w \in Workers : Employed(w)}
       IN /\ Triggered(b) /\ raised < 0
          /\ balance' = raised
          /\ machine' = [m \in Machines |-> IF m \in Idle
                             THEN [machine[m] EXCEPT !.disposed = EndFor(m, e.due)] ELSE back[m]]
          /\ task' = TasksClosed(RunningTasks, "CANCELED", EndsFor(e.due))
          /\ worker' = [w \in Workers |-> IF w \in gone
                            THEN [free[w] EXCEPT !.terminated = EndFor(w, e.due)] ELSE free[w]]
          /\ Rewrite(Idle \cup RunningTasks \cup gone, e.due, mark')
    /\ stored' = 0
    /\ reserved' = Larger(0, reserved - Total([t \in RunningTasks |-> task[t].reserved]))
    /\ sweep' = e.due + Period
    /\ UNCHANGED silos

\* Mutant: the policy looks at the balance before the tail is settled.
PolicyFirst ==
    /\ phase = "ADVANCE" /\ batch = {}
    /\ phase' = "BODY"
    /\ Settle(now) /\ balance' = BalanceAt(now)
    /\ status' = IF balance < 0 THEN "IN_DEBT" ELSE "ACTIVE"
    /\ UNCHANGED <<game, now, batch, storeVars, rowVars, sweep, late>>

\* The end of advancePlayer: the tail of the window, then applyDebtPolicy.
Tail ==
    /\ phase = "ADVANCE" /\ batch = {}
    /\ phase' = "BODY"
    /\ Settle(now) /\ balance' = BalanceAt(now)
    /\ status' = IF balance' < 0 THEN "IN_DEBT" ELSE "ACTIVE"
    /\ UNCHANGED <<game, now, batch, storeVars, rowVars, sweep, late>>
-----------------------------------------------------------------------------
(* The requests, at the reading of their transaction *)

Body ==
    /\ phase = "BODY" /\ phase' = "CLOSED"
    /\ UNCHANGED <<game, now, batch, mark, status, paid, sweep>>

\* A queue job, or a request that was refused.
Close == Body /\ UNCHANGED <<balance, storeVars, rowVars, late>>

\* Mutant: the charge does not look at the balance.
SpendOnCredit(amount) == balance >= 0 /\ balance' = balance - amount

\* requireAffordable and charge.
Spend(amount) == balance >= amount /\ balance' = balance - amount
Earn(amount) == balance' = balance + amount

HireCandidate(w) ==
    /\ Body /\ worker[w].status = "ABSENT"
    /\ balance >= 0 /\ UNCHANGED balance
    /\ worker' = [worker EXCEPT ![w] = [status |-> "IDLE", task |-> NoTask,
                                        hired |-> now, terminated |-> Never]]
    /\ Rewrite({w}, now, mark)
    /\ UNCHANGED <<machine, task, storeVars>>

DismissWorker(w) ==
    /\ Body /\ IdleWorker(w)
    /\ now >= worker[w].hired                \* workers_life_check
    /\ worker' = [worker EXCEPT ![w].terminated = now]
    /\ Rewrite({w}, now, mark)
    /\ UNCHANGED <<balance, machine, task, storeVars>>

BuyMachine(m) ==
    /\ Body /\ machine[m].status = "ABSENT"
    /\ Spend(Price.machine)
    /\ machine' = [machine EXCEPT ![m] = [status |-> "IDLE", task |-> NoTask, acquired |-> now,
                       disposed |-> Never, wear |-> 0, wearAt |-> now, repairEnds |-> NoRepair]]
    /\ Rewrite({m}, now, mark)
    /\ UNCHANGED <<worker, task, storeVars>>

SellMachine(m) ==
    /\ Body /\ IdleMachine(m)
    /\ now >= machine[m].acquired            \* machines_life_check
    /\ machine' = [machine EXCEPT ![m].disposed = now]
    /\ Earn(Resale(m))
    /\ Rewrite({m}, now, mark)
    /\ UNCHANGED <<worker, task, storeVars>>

\* n hours of the wear are restored.
RepairMachine(m, n) ==
    /\ Body /\ Owned(m) /\ machine[m].status = "IDLE"
    /\ n \in 1 .. machine[m].wear
    /\ Spend(n * Price.repair)
    /\ machine' = [machine EXCEPT ![m].status = "IN_REPAIR",
                       ![m].repairEnds = now + n * RepairTime, ![m].wearAt = now]
    /\ UNCHANGED <<worker, task, storeVars, late>>

BuildSilo ==
    /\ Body /\ silos < MaxSilos
    /\ Spend(Price.silo)
    /\ silos' = silos + 1
    /\ UNCHANGED <<rowVars, stored, reserved, late>>

\* Mutant: what is reserved is not counted.
RoomForStock == stored <= (silos - 1) * SiloSize
RoomWithoutOne == stored + reserved <= (silos - 1) * SiloSize

DemolishSilo ==
    /\ Body /\ silos > 0 /\ RoomWithoutOne
    /\ Earn(Price.siloResale)
    /\ silos' = silos - 1
    /\ UNCHANGED <<rowVars, stored, reserved, late>>

SellStock(n) ==
    /\ Body /\ n \in 1 .. stored
    /\ Earn(n * Price.unit)
    /\ stored' = stored - n
    /\ UNCHANGED <<rowVars, reserved, silos, late>>

\* summarise: what the store has room for.
Reservation(y) == Smaller(y, Capacity - stored - reserved)

\* createTask of worker w with the machines M; y is what it will produce. Allowed in debt.
AssignTask(t, w, M, y) ==
    /\ Body /\ task[t].status = "ABSENT"
    /\ IdleWorker(w)
    /\ M # {} /\ \A m \in M : IdleMachine(m) /\ machine[m].wear <= Fit
    /\ y > 0 => Capacity - stored - reserved > 0
    /\ task' = [task EXCEPT ![t] = [status |-> "IN_PROGRESS", worker |-> w, machines |-> M,
                    start |-> now, scheduledEnd |-> now + WorkTime, ended |-> Never,
                    units |-> y, reserved |-> Reservation(y)]]
    /\ worker' = [worker EXCEPT ![w].status = "WORKING", ![w].task = t]
    /\ machine' = [m \in Machines |-> IF m \in M
                       THEN [machine[m] EXCEPT !.status = "WORKING", !.task = t] ELSE machine[m]]
    /\ reserved' = reserved + Reservation(y)
    /\ Rewrite({t}, now, mark)
    /\ UNCHANGED <<balance, stored, silos>>

\* cancelTaskById. A task whose completion a truncated batch left behind is still running.
CancelTask(t) ==
    /\ Body /\ Running(t)
    /\ task' = TasksClosed({t}, "CANCELED", EndsFor(now))
    /\ machine' = MachinesBack({t}, EndsFor(now))
    /\ late' = IF EndFor(t, now) < mark \/ EndFor(t, now) > task[t].scheduledEnd
               THEN late \cup {t} ELSE late
    /\ worker' = WorkersBack({t})
    /\ reserved' = Larger(0, reserved - task[t].reserved)
    /\ UNCHANGED <<balance, stored, silos>>

Next ==
    \/ Tick \/ Begin \/ Tail \/ Close \/ BuildSilo \/ DemolishSilo
    \/ \E e \in batch :
         Skip(e) \/ CompleteTask(e) \/ CompleteRepair(e) \/ PlainSweep(e) \/ RuinousSweep(e)
    \/ \E e \in batch, M \in SUBSET Machines : SellingSweep(e, M)
    \/ \E w \in Workers : HireCandidate(w) \/ DismissWorker(w)
    \/ \E m \in Machines : BuyMachine(m) \/ SellMachine(m)
    \/ \E m \in Machines, n \in 1 .. FullWear : RepairMachine(m, n)
    \/ \E n \in 1 .. Capacity : SellStock(n)
    \/ \E t \in Tasks, w \in Workers, M \in SUBSET Machines, y \in Yields :
         AssignTask(t, w, M, y)
    \/ \E t \in Tasks : CancelTask(t)

Spec == Init /\ [][Next]_vars
-----------------------------------------------------------------------------
(* Properties *)

\* What a task holds and what says it is held are the same (modules/tasks reserves and
\* releases rows of three modules): a worker or a machine points at a task if and only if
\* that task is running and names it, its status says so, and nobody who is held has left.
ReservationsAgree ==
    /\ \A w \in Workers : (worker[w].status = "WORKING") = (worker[w].task # NoTask)
    /\ \A w \in Workers, t \in Tasks : worker[w].task = t =>
           Running(t) /\ task[t].worker = w /\ Employed(w)
    /\ \A m \in Machines : (machine[m].status = "WORKING") = (machine[m].task # NoTask)
    /\ \A m \in Machines, t \in Tasks : machine[m].task = t =>
           Running(t) /\ m \in task[t].machines /\ Owned(m)
    /\ \A t \in RunningTasks : worker[task[t].worker].task = t
                              /\ \A m \in task[t].machines : machine[m].task = t
    /\ \A m \in Machines : (machine[m].status = "IN_REPAIR") = (machine[m].repairEnds # NoRepair)

\* The column of reserved room is what the running tasks reserved, and neither a sale nor a
\* demolition nor a deposit makes stock and reservations outgrow the silos.
StorageAgrees ==
    /\ reserved = Total([t \in RunningTasks |-> task[t].reserved])
    /\ stored + reserved <= Capacity

\* "The room the harvest reserved for itself is exactly the room it may now occupy"
\* (depositStorage): a completion stores at least what its task reserved.
ReservedRoomIsKept ==
    [][\A t \in Tasks : Running(t) /\ task'[t].status = "COMPLETED" =>
           stored' - stored >= task[t].reserved]_vars

\* "The balance only ever turns negative through the passage of time" (economy/debt.ts).
DebtOnlyByTime == [][balance' < 0 /\ balance' < balance => mark' > mark]_vars

\* When no transaction is open a player who owes is marked as such: no request leaves a
\* debt the policy of the advance has not seen.
DebtIsMarked == phase = "CLOSED" /\ balance < 0 => status = "IN_DEBT"

\* Each row has paid what one integration of its interval over [0, mark) gives, however the
\* time was cut into windows and whatever was hired, sold or closed in between; a row
\* written behind the mark is the exception (RecomputableAlways).
Recomputable == \A s \in Sources \ late : paid[s] = Cost(s, 0, mark)

\* "The same function over the same interval reproduces the history from scratch"
\* (lib/accrual.ts), of every row.
RecomputableAlways == \A s \in Sources : paid[s] = Cost(s, 0, mark)

\* No hour of a row is charged twice, even of one written behind the mark.
ChargedOnce == \A s \in Sources : paid[s] <= Rate(s) * Larger(0, mark - From(s))

\* "The hours that wear a machine and the hours it is billed for are the same hours"
\* (wearAndRelease): at the step that closes a task, unless it closed behind the mark.
WearIsBilled ==
    [][\A t \in Tasks \ late' : Running(t) /\ task'[t].status # "IN_PROGRESS" =>
           \A m \in task[t].machines :
              \/ machine'[m].wear = FullWear
              \/ (machine'[m].wear - machine[m].wear) * Rate(t) = paid'[t]]_vars

\* A forced liquidation takes nothing the debt does not need: if it leaves the player
\* solvent, without the last unit or the last machine it took the player would not be.
TakesNoMore ==
    [][LET gone == {m \in Machines : Owned(m) /\ machine'[m].disposed # Never}
           last == {Price.unit : n \in 1 .. stored - stored'} \cup {Resale(m) : m \in gone}
       IN sweep' # sweep /\ balance' >= 0 /\ last # {} =>
              \E p \in (IF gone = {} THEN last ELSE {Resale(m) : m \in gone}) : balance' - p < 0
      ]_vars
=============================================================================
