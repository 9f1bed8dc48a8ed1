-------------------------- MODULE Holding_proofs --------------------------
(***************************************************************************)
(* Proofs about Holding, for any number of rows, prices and durations.     *)
(***************************************************************************)
EXTENDS Holding, FiniteSetTheorems, TLAPS

-----------------------------------------------------------------------------
(* Arithmetic: the overlap of a window with an interval *)

\* The overlap of the window [a, b) with the interval [f, u).
Clip(f, u, a, b) == Larger(0, Smaller(b, u) - Larger(a, f))

LEMMA ClipType ==
  ASSUME NEW f \in Nat, NEW u \in Nat, NEW a \in Nat, NEW b \in Nat
  PROVE  Clip(f, u, a, b) \in Nat
BY DEF Clip, Larger, Smaller

\* A window cut in two costs what it costs whole.
LEMMA ClipAdds ==
  ASSUME NEW f \in Nat, NEW u \in Nat, NEW m \in Nat, NEW t \in Nat, m <= t
  PROVE  Clip(f, u, 0, m) + Clip(f, u, m, t) = Clip(f, u, 0, t)
BY DEF Clip, Larger, Smaller

\* A window up to t adds no more than the hours since the mark that are after f.
LEMMA ClipBound ==
  ASSUME NEW f \in Nat, NEW u \in Nat, NEW m \in Nat, NEW t \in Nat, m <= t
  PROVE  Larger(0, m - f) + Clip(f, u, m, t) <= Larger(0, t - f)
BY DEF Clip, Larger, Smaller

\* What was settled up to m does not depend on an end at or after m.
LEMMA ClipSame ==
  ASSUME NEW f \in Nat, NEW u \in Nat, NEW v \in Nat, NEW m \in Nat, m <= u, m <= v
  PROVE  Clip(f, u, 0, m) = Clip(f, v, 0, m)
BY DEF Clip, Larger, Smaller

LEMMA SumBelow ==
  ASSUME NEW a \in Nat, NEW b \in Nat, NEW c \in Nat, NEW d \in Nat, NEW e \in Nat,
         a + b <= c + d, c + d <= e
  PROVE  a + b <= e
OBVIOUS

LEMMA Scaled ==
  ASSUME NEW r \in Nat, NEW x \in Nat, NEW y \in Nat
  PROVE  /\ r * x \in Nat
         /\ r * (x + y) = r * x + r * y
         /\ x <= y => r * x <= r * y
OBVIOUS

-----------------------------------------------------------------------------
(* Sums *)

Units(f) == UNION {{x} \X (1 .. f[x]) : x \in DOMAIN f}

LEMMA UnitsFinite ==
  ASSUME NEW S, IsFiniteSet(S), NEW f \in [S -> Nat]
  PROVE  IsFiniteSet(Units(f))
<1> DEFINE g == [x \in S |-> {x} \X (1 .. f[x])]
           F == {g[x] : x \in S}
<1>1. g \in Surjection(S, F)
  BY DEF Surjection
<1>2. IsFiniteSet(F)
  BY <1>1, FS_Surjection
<1>3. ASSUME NEW x \in S
      PROVE  IsFiniteSet(g[x])
  <2>1. IsFiniteSet({x}) /\ f[x] \in Nat
    BY FS_Singleton
  <2>2. IsFiniteSet(1 .. f[x])
    BY <2>1, FS_Interval
  <2> QED
    BY <2>1, <2>2, FS_Product
<1>4. \A T \in F : IsFiniteSet(T)
  BY <1>3
<1>5. IsFiniteSet(UNION F)
  BY <1>2, <1>4, FS_UNION
<1>6. Units(f) = UNION F
  BY DEF Units
<1> QED
  BY <1>5, <1>6

LEMMA TotalType ==
  ASSUME NEW S, IsFiniteSet(S), NEW f \in [S -> Nat]
  PROVE  Total(f) \in Nat
BY UnitsFinite, FS_CardinalityType DEF Total, Units

\* A sum of nothing.
LEMMA TotalZero ==
  ASSUME NEW S, NEW f \in [S -> Nat], \A x \in S : f[x] = 0
  PROVE  Total(f) = 0
<1>1. \A x \in S : {x} \X (1 .. f[x]) = {}
  BY SMT
<1>2. Units(f) = {}
  BY <1>1 DEF Units
<1> QED
  BY <1>2, FS_EmptySet DEF Total, Units

\* One term more.
LEMMA TotalAdds ==
  ASSUME NEW S, IsFiniteSet(S), NEW f \in [S -> Nat], NEW y, y \notin S,
         NEW h \in [S \cup {y} -> Nat], \A x \in S : h[x] = f[x]
  PROVE  Total(h) = Total(f) + h[y]
<1> DEFINE A == {y} \X (1 .. h[y])
<1>1. h[y] \in Nat /\ IsFiniteSet({y}) /\ Cardinality({y}) = 1
  BY FS_Singleton
<1>2. IsFiniteSet(1 .. h[y]) /\ Cardinality(1 .. h[y]) = h[y]
  BY <1>1, FS_Interval
<1>3. IsFiniteSet(A) /\ Cardinality(A) = h[y]
  <2>1. IsFiniteSet(A) /\ Cardinality(A) = Cardinality({y}) * Cardinality(1 .. h[y])
    BY <1>1, <1>2, FS_Product
  <2> QED
    BY <1>1, <1>2, <2>1
<1>4. IsFiniteSet(Units(f))
  BY UnitsFinite
<1>5. Units(h) = Units(f) \cup A
  BY DEF Units
<1>6. Units(f) \cap A = {}
  BY DEF Units
<1>7. Cardinality(Units(f)) \in Nat
  BY <1>4, FS_CardinalityType
<1>8. Cardinality(Units(h)) = Cardinality(Units(f)) + Cardinality(A) - Cardinality({})
  BY <1>3, <1>4, <1>5, <1>6, FS_Union
<1> QED
  BY <1>1, <1>3, <1>7, <1>8, FS_EmptySet DEF Total, Units
-----------------------------------------------------------------------------
(* Constants and rows *)

LEMMA Prices ==
  /\ Price.wage \in Nat /\ Price.upkeep \in Nat /\ Price.running \in Nat
  /\ Price.machine \in Nat /\ Price.repair \in Nat /\ Price.silo \in Nat
  /\ Price.resale \in Nat /\ Price.siloResale \in Nat /\ Price.other \in Nat
  /\ Price.unit \in Nat /\ Price.unit > 0
BY HoldingAssumption

LEMMA Finite ==
  /\ IsFiniteSet(Workers) /\ IsFiniteSet(Machines) /\ IsFiniteSet(Tasks)
  /\ IsFiniteSet(Sources)
BY HoldingAssumption, FS_Subset DEF Sources

LEMMA RowFacts ==
  ASSUME TypeOK, NEW s \in Sources
  PROVE  /\ From(s) \in Nat /\ Until(s) \in Nat /\ Rate(s) \in Nat
<1>1. CASE s \in Workers
  BY <1>1, Prices DEF TypeOK, From, Until, Rate, WorkerRows
<1>2. CASE s \in Machines
  BY <1>2, Prices, HoldingAssumption DEF TypeOK, From, Until, Rate, MachineRows
<1>3. CASE s \in Tasks
  <2>1. s \notin Workers /\ s \notin Machines
    BY <1>3, HoldingAssumption
  <2>2. task[s] \in TaskRows
    BY <1>3 DEF TypeOK
  <2>3. Cardinality(task[s].machines) \in Nat
    <3>1. task[s].machines \in SUBSET Machines
      BY <2>2 DEF TaskRows
    <3> QED
      BY <3>1, Finite, FS_Subset, FS_CardinalityType
  <2>4. Rate(s) \in Nat
    BY <2>1, <2>3, Prices, Scaled DEF Rate
  <2> QED
    BY <2>1, <2>2, <2>4 DEF From, Until, TaskRows
<1> QED
  BY <1>1, <1>2, <1>3 DEF Sources

LEMMA IntervalsNext ==
  ASSUME TypeOK', NEW s \in Sources
  PROVE  From(s)' \in Nat /\ Until(s)' \in Nat
<1>1. CASE s \in Workers
  BY <1>1 DEF TypeOK, From, Until, WorkerRows
<1>2. CASE s \in Machines
  BY <1>2, HoldingAssumption DEF TypeOK, From, Until, MachineRows
<1>3. CASE s \in Tasks
  <2>1. s \notin Workers /\ s \notin Machines
    BY <1>3, HoldingAssumption
  <2> QED
    BY <1>3, <2>1 DEF TypeOK, From, Until, TaskRows
<1> QED
  BY <1>1, <1>2, <1>3 DEF Sources

LEMMA CostType ==
  ASSUME TypeOK, NEW s \in Sources, NEW a \in Nat, NEW b \in Nat
  PROVE  /\ Cost(s, a, b) = Rate(s) * Clip(From(s), Until(s), a, b)
         /\ Cost(s, a, b) \in Nat
BY RowFacts, ClipType, Scaled DEF Cost, Clip
-----------------------------------------------------------------------------
(* The inductive invariant *)

TaskEvent(t) == [kind |-> "task", ref |-> t, due |-> task[t].scheduledEnd]

\* Stock and reservations fit.
RoomInv == stored + reserved <= Capacity

\* The mark is not ahead of the clock, an event of the batch fell due by the reading, and the
\* completion of a running task is not left out of a batch in favour of a later event.
ClockInv ==
    /\ now <= game /\ mark <= game
    /\ phase # "ADVANCE" => batch = {}
    /\ \A e \in batch : e.due <= now
    /\ \A e \in batch : \A t \in RunningTasks :
         e.due <= task[t].scheduledEnd \/ TaskEvent(t) \in batch

\* Rows that do not exist are empty, no interval starts in the future, a running task has not
\* ended, and a repair ends after it began.
RowInv ==
    /\ \A w \in Workers : worker[w].status = "ABSENT" => worker[w] = AbsentWorker
    /\ \A m \in Machines : machine[m].status = "ABSENT" => machine[m] = AbsentMachine
    /\ \A t \in Tasks : task[t].status = "ABSENT" => task[t] = AbsentTask
    /\ \A s \in Sources : From(s) <= game
    /\ \A t \in RunningTasks : task[t].ended = Never
    /\ \A m \in Machines :
         machine[m].status = "IN_REPAIR" => machine[m].wearAt <= machine[m].repairEnds

Exists(s) == IF s \in Workers THEN worker[s].status # "ABSENT"
             ELSE IF s \in Machines THEN machine[s].status # "ABSENT"
             ELSE task[s].status # "ABSENT"

\* What was charged: exactly the interval, for rows written in time, and no hour twice.
AccountInv ==
    /\ \A s \in late : Exists(s)
    /\ Recomputable
    /\ ChargedOnce

IInv == TypeOK /\ RoomInv /\ ClockInv /\ RowInv /\ ReservationsAgree /\ AccountInv

-----------------------------------------------------------------------------
(* The events of a batch *)

LEMMA PendingEvents ==
  ASSUME NEW e \in Pending
  PROVE  /\ e.kind = "task" => e.ref \in RunningTasks /\ e.due = task[e.ref].scheduledEnd
                              /\ e = TaskEvent(e.ref)
         /\ e.kind = "repair" => /\ e.ref \in Machines /\ machine[e.ref].status = "IN_REPAIR"
                                 /\ e.due = machine[e.ref].repairEnds
         /\ e.kind = "sweep" => e.due = sweep
BY DEF Pending, TaskEvent

LEMMA PendingType ==
  ASSUME TypeOK
  PROVE  Pending \subseteq Events
<1>1. ASSUME NEW t \in RunningTasks
      PROVE  TaskEvent(t) \in Events
  BY <1>1 DEF TypeOK, RunningTasks, TaskRows, TaskEvent, Events, Sources
<1>2. ASSUME NEW m \in Machines
      PROVE  [kind |-> "repair", ref |-> m, due |-> machine[m].repairEnds] \in Events
  BY <1>2 DEF TypeOK, MachineRows, Events, Sources
<1>3. [kind |-> "sweep", ref |-> NoTask, due |-> sweep] \in Events
  BY DEF TypeOK, Events
<1> QED
  BY <1>1, <1>2, <1>3 DEF Pending, TaskEvent

-----------------------------------------------------------------------------
(* What is given back when tasks close *)

LEMMA FreeWorkers ==
  ASSUME TypeOK, ReservationsAgree, NEW T \in SUBSET RunningTasks, NEW w \in Workers
  PROVE  /\ worker[w].task \in T =>
              WorkersBack(T)[w] = [worker[w] EXCEPT !.status = "IDLE", !.task = NoTask]
         /\ worker[w].task \notin T => WorkersBack(T)[w] = worker[w]
<1>1. T \subseteq Tasks
  BY DEF RunningTasks
<1>2. worker[w].task \in T <=> \E t \in T : task[t].worker = w /\ worker[w].task = t
  BY <1>1 DEF ReservationsAgree, RunningTasks
<1> QED
  BY <1>2 DEF WorkersBack

LEMMA WornMachine ==
  ASSUME NEW r \in MachineRows, NEW a \in Nat, NEW b \in Nat
  PROVE  /\ Worn(r, a, b) \in MachineRows
         /\ Worn(r, a, b).status = r.status /\ Worn(r, a, b).task = r.task
         /\ Worn(r, a, b).acquired = r.acquired /\ Worn(r, a, b).disposed = r.disposed
         /\ Worn(r, a, b).repairEnds = r.repairEnds
<1>1. FullWear \in Nat
  BY HoldingAssumption
<1>2. CASE b > a /\ r.wearAt < b
  <2>1. Smaller(FullWear, r.wear + (b - a)) \in 0 .. FullWear
    BY <1>1, <1>2 DEF MachineRows, Smaller
  <2> QED
    BY <1>2, <2>1 DEF Worn, MachineRows
<1>3. CASE ~(b > a /\ r.wearAt < b)
  BY <1>3 DEF Worn
<1> QED
  BY <1>2, <1>3

LEMMA FreeMachines ==
  ASSUME TypeOK, ReservationsAgree, NEW T \in SUBSET RunningTasks,
         NEW end \in [Tasks -> Nat], NEW m \in Machines
  PROVE  LET r == MachinesBack(T, end)[m]
         IN /\ r \in MachineRows
            /\ machine[m].task \in T =>
                 r.status = "IDLE" /\ r.task = NoTask /\ r.repairEnds = machine[m].repairEnds
            /\ machine[m].task \notin T => r = machine[m]
            /\ r.acquired = machine[m].acquired /\ r.disposed = machine[m].disposed
<1>1. T \subseteq Tasks
  BY DEF RunningTasks
<1>2. \A t \in T : m \in task[t].machines <=> machine[m].task = t
  BY <1>1 DEF ReservationsAgree, RunningTasks
<1>3. machine[m] \in MachineRows
  BY DEF TypeOK
<1>4. CASE machine[m].task \in T
  <2> DEFINE t == CHOOSE t \in T : m \in task[t].machines
  <2>1. \E x \in T : m \in task[x].machines
    BY <1>2, <1>4
  <2>2. t \in T /\ machine[m].task = t
    BY <1>2, <2>1
  <2>3. MachinesBack(T, end)[m] = Back(m, t, end[t])
    BY <2>1 DEF MachinesBack
  <2>4. task[t].start \in Nat /\ end[t] \in Nat
    BY <1>1, <2>2 DEF TypeOK, TaskRows
  <2> HIDE DEF t
  <2> DEFINE r == Worn(machine[m], task[t].start, end[t])
  <2>5. /\ r \in MachineRows /\ r.task = t /\ r.acquired = machine[m].acquired
        /\ r.disposed = machine[m].disposed /\ r.repairEnds = machine[m].repairEnds
    <3>1. /\ r \in MachineRows /\ r.status = machine[m].status /\ r.task = machine[m].task
          /\ r.acquired = machine[m].acquired /\ r.disposed = machine[m].disposed
          /\ r.repairEnds = machine[m].repairEnds
      BY <1>3, <2>4, WornMachine
    <3> QED
      BY <2>2, <3>1
  <2>6. Back(m, t, end[t]) = IF r.task = t THEN [r EXCEPT !.status = "IDLE", !.task = NoTask] ELSE r
    BY DEF Back
  <2> HIDE DEF r
  <2>7. Back(m, t, end[t]) = [r EXCEPT !.status = "IDLE", !.task = NoTask]
    BY <2>5, <2>6
  <2> QED
    BY <1>4, <2>3, <2>5, <2>7 DEF MachineRows
<1>5. CASE machine[m].task \notin T
  <2>1. ~ \E t \in T : m \in task[t].machines
    BY <1>2, <1>5
  <2> QED
    BY <1>3, <1>5, <2>1 DEF MachinesBack
<1> QED
  BY <1>4, <1>5
-----------------------------------------------------------------------------
(* Settlements *)

LEMMA WindowType ==
  ASSUME TypeOK, NEW t \in Nat
  PROVE  /\ Window(t) \in [Sources -> Nat]
         /\ Total(Window(t)) \in Nat /\ BalanceAt(t) \in Int
         /\ t <= mark => BalanceAt(t) = balance
<1>1. mark \in Nat /\ balance \in Int
  BY HoldingAssumption DEF TypeOK
<1>2. Window(t) \in [Sources -> Nat]
  BY <1>1, CostType DEF Window
<1>3. Total(Window(t)) \in Nat
  BY <1>2, Finite, TotalType
<1>4. ASSUME t <= mark
      PROVE  Total(Window(t)) = 0
  <2>1. \A s \in Sources : Window(t)[s] = 0
    BY <1>1, <1>4 DEF Window
  <2> QED
    BY <1>2, <2>1, TotalZero
<1> QED
  BY <1>1, <1>2, <1>3, <1>4 DEF BalanceAt

\* A settlement up to t moves the mark forward only and keeps the accounts of all rows, by the
\* intervals they had before it.
LEMMA Settled ==
  ASSUME TypeOK, AccountInv, NEW t \in Nat, t <= game, mark <= game, Settle(t)
  PROVE  /\ mark' \in 0 .. game /\ mark <= mark' /\ mark' \in {mark, t} /\ t <= mark'
         /\ paid' \in [Sources -> Nat]
         /\ \A s \in Sources \ late : paid'[s] = Cost(s, 0, mark')
         /\ \A s \in Sources : paid'[s] <= Rate(s) * Larger(0, mark' - From(s))
<1>1. mark \in Nat /\ game \in Nat /\ paid \in [Sources -> Nat]
  BY HoldingAssumption DEF TypeOK
<1>2. /\ mark' \in 0 .. game /\ mark <= mark' /\ mark' \in {mark, t} /\ t <= mark'
      /\ mark' \in Nat
  BY <1>1 DEF Settle, Larger
<1>3. Window(t) \in [Sources -> Nat]
  BY WindowType
<1>4. paid' \in [Sources -> Nat]
  BY <1>1, <1>3 DEF Settle
<1>5. ASSUME NEW s \in Sources
      PROVE  /\ s \notin late => paid'[s] = Cost(s, 0, mark')
             /\ paid'[s] <= Rate(s) * Larger(0, mark' - From(s))
  <2> DEFINE f == From(s)
             u == Until(s)
             r == Rate(s)
  <2>1. f \in Nat /\ u \in Nat /\ r \in Nat
    BY RowFacts
  <2>2. paid[s] \in Nat /\ paid'[s] = paid[s] + Window(t)[s]
    BY <1>1 DEF Settle
  <2>3. /\ s \notin late => paid[s] = r * Clip(f, u, 0, mark)
        /\ paid[s] <= r * Larger(0, mark - f)
    BY <1>1, CostType DEF AccountInv, Recomputable, ChargedOnce
  <2>4. CASE t <= mark
    <3>1. Window(t)[s] = 0 /\ mark' = mark
      BY <1>1, <2>4 DEF Window, Settle, Larger
    <3> QED
      BY <1>1, <2>2, <2>3, <3>1, CostType
  <2>5. CASE mark < t
    <3>1. mark' = t /\ Window(t)[s] = r * Clip(f, u, mark, t)
      BY <1>1, <2>5, CostType DEF Window, Settle, Larger
    <3>2. Clip(f, u, mark, t) \in Nat /\ Clip(f, u, 0, mark) \in Nat
      BY <1>1, <2>1, ClipType
    <3>3. s \notin late => paid'[s] = Cost(s, 0, t)
      <4>1. Clip(f, u, 0, mark) + Clip(f, u, mark, t) = Clip(f, u, 0, t)
        BY <1>1, <2>1, <2>5, ClipAdds
      <4>2. r * (Clip(f, u, 0, mark) + Clip(f, u, mark, t))
              = r * Clip(f, u, 0, mark) + r * Clip(f, u, mark, t)
        BY <2>1, <3>2, Scaled
      <4>3. Cost(s, 0, t) = r * Clip(f, u, 0, t)
        BY CostType
      <4> QED
        BY <2>2, <2>3, <3>1, <4>1, <4>2, <4>3
    <3>4. paid'[s] <= r * Larger(0, t - f)
      <4> DEFINE x == Larger(0, mark - f)
                 y == Clip(f, u, mark, t)
                 z == Larger(0, t - f)
      <4>1. x \in Nat /\ y \in Nat /\ z \in Nat /\ x + y <= z
        BY <1>1, <2>1, <2>5, <3>2, ClipBound DEF Larger
      <4> HIDE DEF x, y, z
      <4>2. x + y \in Nat
        BY <4>1
      <4>3. r * (x + y) <= r * z /\ r * (x + y) = r * x + r * y
        BY <2>1, <4>1, <4>2, Scaled
      <4>4. r * x \in Nat /\ r * y \in Nat /\ r * z \in Nat
        BY <2>1, <4>1, Scaled
      <4>5. paid'[s] <= r * x + r * y
        BY <2>2, <2>3, <3>1, <4>4 DEF x, y
      <4>6. paid'[s] <= r * z
        BY <2>2, <3>1, <4>3, <4>4, <4>5 DEF y
      <4> QED
        BY <4>6 DEF z
    <3> QED
      BY <3>1, <3>3, <3>4
  <2> QED
    BY <1>1, <2>4, <2>5
<1> QED
  BY <1>2, <1>4, <1>5

\* The accounts after a step, from the intervals before it.
LEMMA Rebooked ==
  ASSUME TypeOK, TypeOK', NEW s \in Sources,
         From(s)' = From(s), Rate(s)' = Rate(s),
         paid'[s] <= Rate(s) * Larger(0, mark' - From(s)),
         s \notin late' => /\ paid'[s] = Cost(s, 0, mark')
                           /\ \/ Until(s)' = Until(s)
                              \/ mark' <= Until(s) /\ mark' <= Until(s)'
  PROVE  /\ s \notin late' => paid'[s] = Cost(s, 0, mark)'
         /\ (paid[s] <= Rate(s) * Larger(0, mark - From(s)))'
<1>1. From(s) \in Nat /\ Until(s) \in Nat /\ Rate(s) \in Nat /\ mark' \in Nat
  BY RowFacts, HoldingAssumption DEF TypeOK
<1>2. Until(s)' \in Nat
  BY IntervalsNext
<1>3. ASSUME s \notin late'
      PROVE  paid'[s] = Cost(s, 0, mark)'
  <2>1. Clip(From(s), Until(s), 0, mark') = Clip(From(s), Until(s)', 0, mark')
    BY <1>1, <1>2, <1>3, ClipSame
  <2>2. Cost(s, 0, mark') = Rate(s) * Clip(From(s), Until(s), 0, mark')
    BY <1>1, CostType
  <2>3. Cost(s, 0, mark)' = Rate(s) * Clip(From(s), Until(s)', 0, mark')
    BY DEF Cost, Clip
  <2> QED
    BY <1>3, <2>1, <2>2, <2>3
<1> QED
  BY <1>3
-----------------------------------------------------------------------------
(* Types *)

LEMMA BackTypes ==
  ASSUME TypeOK, ReservationsAgree, NEW T \in SUBSET RunningTasks,
         NEW end \in [Tasks -> Nat], NEW st \in {"COMPLETED", "CANCELED"}
  PROVE  /\ WorkersBack(T) \in [Workers -> WorkerRows]
         /\ MachinesBack(T, end) \in [Machines -> MachineRows]
         /\ TasksClosed(T, st, end) \in [Tasks -> TaskRows]
<1>1. ASSUME NEW w \in Workers
      PROVE  WorkersBack(T)[w] \in WorkerRows
  <2>1. worker[w] \in WorkerRows
    BY DEF TypeOK
  <2>2. [worker[w] EXCEPT !.status = "IDLE", !.task = NoTask] \in WorkerRows
    BY <2>1 DEF WorkerRows
  <2> QED
    BY <2>1, <2>2, FreeWorkers
<1>2. \A m \in Machines : MachinesBack(T, end)[m] \in MachineRows
  BY FreeMachines
<1>3. ASSUME NEW t \in Tasks
      PROVE  [task[t] EXCEPT !.status = st, !.ended = end[t]] \in TaskRows
  BY DEF TypeOK, TaskRows
<1>4. WorkersBack(T) = [w \in Workers |-> WorkersBack(T)[w]]
  BY DEF WorkersBack
<1>5. MachinesBack(T, end) = [m \in Machines |-> MachinesBack(T, end)[m]]
  BY DEF MachinesBack
<1>6. TasksClosed(T, st, end) \in [Tasks -> TaskRows]
  BY <1>3 DEF TasksClosed, TypeOK
<1> QED
  BY <1>1, <1>2, <1>4, <1>5, <1>6

LEMMA EndsForType ==
  ASSUME TypeOK, NEW d \in Nat
  PROVE  /\ \A s \in Sources : EndFor(s, d) \in Nat
         /\ EndsFor(d) \in [Tasks -> Nat]
BY RowFacts DEF EndFor, EndsFor, Larger, Sources

\* What every event of a batch does.
LEMMA TakeFacts ==
  ASSUME IInv, NEW e, Take(e)
  PROVE  /\ e \in batch /\ e \in Events /\ e.due \in Nat /\ e.due <= now /\ e.due <= game
         /\ phase = "ADVANCE"
         /\ UNCHANGED <<game, now, phase, status>>
         /\ batch' \in SUBSET Events /\ batch' = batch \ {e}
         /\ Settle(e.due) /\ mark' \in 0 .. game /\ mark' \in 0 .. MaxGame
         /\ mark <= mark' /\ mark' \in {mark, e.due} /\ e.due <= mark'
         /\ paid' \in [Sources -> Nat]
         /\ BalanceAt(e.due) \in Int
<1>1. /\ e \in batch /\ e \in Events /\ e.due \in Nat /\ e.due <= now
      /\ now \in Nat /\ game \in Nat /\ now <= game /\ mark <= game /\ game <= MaxGame
      /\ MaxGame \in Nat
  BY HoldingAssumption DEF Take, IInv, TypeOK, ClockInv, Events
<1>2. Settle(e.due) /\ UNCHANGED <<game, now, phase, status>> /\ batch' = batch \ {e}
      /\ phase = "ADVANCE"
  BY DEF Take
<1>3. TypeOK /\ AccountInv /\ batch \in SUBSET Events
  BY DEF IInv, TypeOK
<1>4. e.due <= game
  BY <1>1
<1>5. /\ mark' \in 0 .. game /\ mark <= mark' /\ mark' \in {mark, e.due} /\ e.due <= mark'
      /\ paid' \in [Sources -> Nat]
  BY <1>1, <1>2, <1>3, <1>4, Settled
<1>6. BalanceAt(e.due) \in Int
  BY <1>1, <1>3, WindowType
<1>7. mark' \in 0 .. MaxGame
  BY <1>1, <1>5
<1> QED
  BY <1>1, <1>2, <1>3, <1>4, <1>5, <1>6, <1>7

\* The type invariant of a step that takes an event, from the types of what the event writes.
LEMMA TakeType ==
  ASSUME IInv, NEW e, Take(e), balance' \in Int,
         worker' \in [Workers -> WorkerRows], machine' \in [Machines -> MachineRows],
         task' \in [Tasks -> TaskRows], stored' \in Nat, reserved' \in Nat,
         silos' \in 0 .. MaxSilos, sweep' \in Nat, late' \in SUBSET Sources
  PROVE  TypeOK'
<1>1. /\ game' \in 0 .. MaxGame /\ now' \in 0 .. MaxGame
      /\ phase' \in {"CLOSED", "ADVANCE", "BODY"} /\ status' \in {"ACTIVE", "IN_DEBT"}
  BY TakeFacts DEF IInv, TypeOK
<1>2. batch' \in SUBSET Events /\ mark' \in 0 .. MaxGame /\ paid' \in [Sources -> Nat]
  BY TakeFacts
<1> QED
  BY <1>1, <1>2 DEF TypeOK

LEMMA SkipType ==
  ASSUME IInv, NEW e, Skip(e)
  PROVE  TypeOK' /\ RoomInv'
<1>1. Take(e) /\ UNCHANGED <<storeVars, rowVars, sweep, late>> /\ balance' = BalanceAt(e.due)
  BY DEF Skip
<1>2. balance' \in Int
  BY <1>1, TakeFacts
<1>3. TypeOK'
  BY <1>1, <1>2, TakeType DEF IInv, TypeOK, storeVars, rowVars
<1> QED
  BY <1>1, <1>3 DEF IInv, RoomInv, storeVars, Capacity

LEMMA PlainSweepType ==
  ASSUME IInv, NEW e, PlainSweep(e)
  PROVE  TypeOK' /\ RoomInv'
<1>1. /\ Take(e) /\ UNCHANGED <<storeVars, rowVars, late>> /\ balance' = BalanceAt(e.due)
      /\ sweep' = e.due + Period
  BY DEF PlainSweep
<1>2. balance' \in Int /\ sweep' \in Nat
  BY <1>1, TakeFacts, HoldingAssumption
<1>3. TypeOK'
  BY <1>1, <1>2, TakeType DEF IInv, TypeOK, storeVars, rowVars
<1> QED
  BY <1>1, <1>3 DEF IInv, RoomInv, storeVars, Capacity

LEMMA CapacityType ==
  ASSUME TypeOK
  PROVE  /\ Capacity \in Nat /\ silos \in Nat /\ SiloSize \in Nat
         /\ (silos + 1) * SiloSize = Capacity + SiloSize
BY HoldingAssumption DEF TypeOK, Capacity

\* What leaves the silos alone and takes nothing in keeps the room.
LEMMA RoomKept ==
  ASSUME TypeOK, RoomInv, silos' = silos, stored' \in Nat, reserved' \in Nat,
         stored' + reserved' <= stored + reserved
  PROVE  RoomInv'
<1>1. Capacity' = Capacity
  BY DEF Capacity
<1>2. Capacity \in Nat /\ stored \in Nat /\ reserved \in Nat
  BY CapacityType DEF TypeOK
<1>3. stored' + reserved' <= Capacity
  <2>1. stored + reserved <= Capacity
    BY DEF RoomInv
  <2> QED
    BY <1>2, <2>1, SumBelow
<1>4. stored' + reserved' <= Capacity'
  BY <1>1, <1>3
<1> QED
  BY <1>4 DEF RoomInv

LEMMA DepositType ==
  ASSUME TypeOK, RoomInv, NEW t \in Tasks, Deposit(t)
  PROVE  /\ stored' \in Nat /\ reserved' \in Nat /\ silos' = silos
         /\ stored' + reserved' <= Capacity
<1>1. task[t].reserved \in Nat /\ task[t].units \in Nat
  BY DEF TypeOK, TaskRows
<1> QED
  BY <1>1, CapacityType DEF TypeOK, RoomInv, Deposit, Larger, Smaller

LEMMA CompleteTaskType ==
  ASSUME IInv, NEW e, CompleteTask(e)
  PROVE  TypeOK' /\ RoomInv'
<1> DEFINE end == [t \in Tasks |-> e.due]
<1>1. /\ Take(e) /\ UNCHANGED <<sweep, late>> /\ balance' = BalanceAt(e.due)
      /\ task' = TasksClosed({e.ref}, "COMPLETED", end)
      /\ machine' = MachinesBack({e.ref}, end)
      /\ worker' = WorkersBack({e.ref})
      /\ Deposit(e.ref) /\ e \in Pending /\ e.kind = "task"
  BY DEF CompleteTask
<1>2. e.ref \in RunningTasks /\ e.ref \in Tasks /\ {e.ref} \in SUBSET RunningTasks
  BY <1>1, PendingEvents DEF RunningTasks
<1>3. end \in [Tasks -> Nat]
  BY <1>1, TakeFacts
<1>4. /\ worker' \in [Workers -> WorkerRows] /\ machine' \in [Machines -> MachineRows]
      /\ task' \in [Tasks -> TaskRows]
  BY <1>1, <1>2, <1>3, BackTypes DEF IInv
<1>5. stored' \in Nat /\ reserved' \in Nat /\ silos' = silos /\ stored' + reserved' <= Capacity
  BY <1>1, <1>2, DepositType DEF IInv
<1>6. balance' \in Int
  BY <1>1, TakeFacts
<1>7. TypeOK'
  BY <1>1, <1>4, <1>5, <1>6, TakeType DEF IInv, TypeOK
<1> QED
  BY <1>5, <1>7 DEF RoomInv, Capacity

LEMMA CompleteRepairType ==
  ASSUME IInv, NEW e, CompleteRepair(e)
  PROVE  TypeOK' /\ RoomInv'
<1> DEFINE m == e.ref
           r == machine[m]
           q == (r.repairEnds - r.wearAt) \div RepairTime
           v == Larger(0, r.wear - q)
           x == [r EXCEPT !.status = "IDLE", !.repairEnds = NoRepair, !.wear = v,
                          !.wearAt = e.due]
<1>1. /\ Take(e) /\ e \in Pending /\ e.kind = "repair" /\ balance' = BalanceAt(e.due)
      /\ UNCHANGED <<worker, task, storeVars, sweep, late>>
  BY DEF CompleteRepair
<1>2. m \in Machines /\ r.status = "IN_REPAIR" /\ e.due \in Nat /\ balance' \in Int
  BY <1>1, PendingEvents, TakeFacts
<1>3. machine \in [Machines -> MachineRows]
  BY DEF IInv, TypeOK
<1>4. r \in MachineRows
  BY <1>2, <1>3
<1>5. /\ FullWear \in Nat /\ RepairTime \in Nat \ {0} /\ r.wear \in 0 .. FullWear
      /\ r.repairEnds \in Nat /\ r.wearAt \in Nat /\ r.wearAt <= r.repairEnds
  BY <1>2, <1>4, HoldingAssumption DEF MachineRows, IInv, RowInv
<1>6. r.repairEnds - r.wearAt \in Nat
  BY <1>5
<1>7. q \in Nat
  BY <1>5, <1>6
<1>8. machine' = [machine EXCEPT ![m] = x]
  BY <1>2, <1>3, <1>4 DEF CompleteRepair, MachineRows
<1> HIDE DEF q
<1>9. v \in 0 .. FullWear
  BY <1>5, <1>7 DEF Larger
<1> HIDE DEF v
<1>10. x \in MachineRows
  BY <1>2, <1>4, <1>9 DEF MachineRows, NoRepair
<1> HIDE DEF x
<1>11. machine' \in [Machines -> MachineRows]
  BY <1>3, <1>8, <1>10
<1>12. TypeOK'
  BY <1>1, <1>2, <1>11, TakeType DEF IInv, TypeOK, storeVars
<1> QED
  BY <1>1, <1>12 DEF IInv, RoomInv, storeVars, Capacity

LEMMA UnitsForType ==
  ASSUME TypeOK, NEW b \in Int
  PROVE  UnitsFor(b) \in 0 .. stored
<1> DEFINE q == (-b + Price.unit - 1) \div Price.unit
<1>1. Price.unit \in Nat /\ Price.unit > 0 /\ stored \in Nat
  BY Prices DEF TypeOK
<1>2. CASE b < 0
  <2>1. -b + Price.unit - 1 \in Nat
    BY <1>1, <1>2
  <2>2. q \in Nat
    BY <1>1, <2>1
  <2>3. UnitsFor(b) = Smaller(stored, q)
    BY <1>2 DEF UnitsFor
  <2> HIDE DEF q
  <2> QED
    BY <1>1, <2>2, <2>3 DEF Smaller
<1>3. CASE ~(b < 0)
  BY <1>1, <1>3 DEF UnitsFor
<1> QED
  BY <1>2, <1>3

LEMMA ResaleType ==
  ASSUME TypeOK, NEW m \in Machines
  PROVE  Resale(m) \in Nat
<1>1. machine[m].wear \in Nat /\ Price.resale \in Nat
  BY Prices, HoldingAssumption DEF TypeOK, MachineRows
<1> QED
  BY <1>1 DEF Resale, Larger

LEMMA ProceedsType ==
  ASSUME TypeOK, NEW M \in SUBSET Machines
  PROVE  Proceeds(M) \in Nat
<1>1. [m \in M |-> Resale(m)] \in [M -> Nat]
  BY ResaleType
<1> QED
  BY <1>1, Finite, FS_Subset, TotalType DEF Proceeds

\* A row of a machine that goes.
LEMMA DisposedType ==
  ASSUME TypeOK, NEW m \in Machines, NEW d \in Nat
  PROVE  [machine[m] EXCEPT !.disposed = EndFor(m, d)] \in MachineRows
<1>1. EndFor(m, d) \in Nat
  BY EndsForType DEF Sources
<1> QED
  BY <1>1 DEF TypeOK, MachineRows

LEMMA SellingSweepType ==
  ASSUME IInv, NEW e, NEW M \in SUBSET Machines, SellingSweep(e, M)
  PROVE  TypeOK' /\ RoomInv'
<1> DEFINE b == BalanceAt(e.due)
           u == UnitsFor(b)
<1>1. /\ Take(e) /\ sweep' = e.due + Period /\ Rewrite(M, e.due, mark')
      /\ UNCHANGED <<worker, task, reserved, silos>>
      /\ stored' = stored - u
      /\ balance' = b + u * Price.unit + Proceeds(M)
      /\ machine' = [m \in Machines |-> IF m \in M
                       THEN [machine[m] EXCEPT !.disposed = EndFor(m, e.due)] ELSE machine[m]]
  BY DEF SellingSweep
<1>2. b \in Int /\ e.due \in Nat /\ TypeOK
  BY <1>1, TakeFacts DEF IInv
<1>3. u \in 0 .. stored /\ Price.unit \in Nat /\ Proceeds(M) \in Nat
  BY <1>2, UnitsForType, Prices, ProceedsType
<1> HIDE DEF b, u
<1>4. balance' \in Int /\ sweep' \in Nat /\ stored' \in Nat /\ stored' <= stored
  BY <1>1, <1>2, <1>3, HoldingAssumption DEF TypeOK
<1>5. machine' \in [Machines -> MachineRows]
  BY <1>1, <1>2, DisposedType DEF TypeOK
<1>6. late' \in SUBSET Sources
  BY <1>1, <1>2 DEF Rewrite, TypeOK, Sources
<1>7. TypeOK'
  BY <1>1, <1>4, <1>5, <1>6, TakeType DEF IInv, TypeOK
<1>8. reserved' = reserved /\ silos' = silos /\ stored \in Nat /\ reserved \in Nat
  BY <1>1, <1>2 DEF TypeOK
<1>9. RoomInv'
  BY <1>1, <1>2, <1>4, <1>8, RoomKept DEF IInv
<1> QED
  BY <1>7, <1>9

LEMMA RuinousSweepType ==
  ASSUME IInv, NEW e, RuinousSweep(e)
  PROVE  TypeOK' /\ RoomInv'
<1> DEFINE end == EndsFor(e.due)
           back == MachinesBack(RunningTasks, end)
           free == WorkersBack(RunningTasks)
           gone == {w \in Workers : Employed(w)}
           held == [t \in RunningTasks |-> task[t].reserved]
<1>1. /\ Take(e) /\ sweep' = e.due + Period
      /\ stored' = 0 /\ reserved' = Larger(0, reserved - Total(held)) /\ UNCHANGED silos
      /\ balance' = BalanceAt(e.due) + stored * Price.unit + Proceeds(Idle)
      /\ machine' = [m \in Machines |-> IF m \in Idle
                       THEN [machine[m] EXCEPT !.disposed = EndFor(m, e.due)] ELSE back[m]]
      /\ task' = TasksClosed(RunningTasks, "CANCELED", end)
      /\ worker' = [w \in Workers |-> IF w \in gone
                       THEN [free[w] EXCEPT !.terminated = EndFor(w, e.due)] ELSE free[w]]
      /\ Rewrite(Idle \cup RunningTasks \cup gone, e.due, mark')
  BY DEF RuinousSweep
<1>2. BalanceAt(e.due) \in Int /\ e.due \in Nat /\ TypeOK /\ ReservationsAgree
  BY <1>1, TakeFacts DEF IInv
<1>3. Idle \in SUBSET Machines /\ RunningTasks \in SUBSET Tasks /\ gone \in SUBSET Workers
  BY DEF Idle, RunningTasks
<1>4. Price.unit \in Nat /\ Proceeds(Idle) \in Nat /\ stored \in Nat
  BY <1>2, <1>3, Prices, ProceedsType DEF TypeOK
<1>5. balance' \in Int /\ sweep' \in Nat
  BY <1>1, <1>2, <1>4, HoldingAssumption
<1>6. IsFiniteSet(RunningTasks) /\ held \in [RunningTasks -> Nat]
  <2>1. \A t \in RunningTasks : task[t].reserved \in Nat
    BY <1>2, <1>3 DEF TypeOK, TaskRows
  <2> QED
    BY <1>3, <2>1, Finite, FS_Subset
<1>7. Total(held) \in Nat
  BY <1>6, TotalType
<1> HIDE DEF held
<1>8. stored' \in Nat /\ reserved' \in Nat /\ stored' + reserved' <= stored + reserved
  BY <1>1, <1>2, <1>7 DEF TypeOK, Larger
<1>9. end \in [Tasks -> Nat]
  BY <1>2, EndsForType
<1> HIDE DEF end
<1>10. /\ free \in [Workers -> WorkerRows] /\ back \in [Machines -> MachineRows]
       /\ task' \in [Tasks -> TaskRows]
  BY <1>1, <1>2, <1>9, BackTypes
<1>11. worker' \in [Workers -> WorkerRows]
  <2>1. ASSUME NEW w \in Workers
        PROVE  [free[w] EXCEPT !.terminated = EndFor(w, e.due)] \in WorkerRows
    <3>1. EndFor(w, e.due) \in Nat /\ free[w] \in WorkerRows
      BY <1>2, <1>10, EndsForType DEF Sources
    <3> HIDE DEF free
    <3> QED
      BY <3>1 DEF WorkerRows
  <2> HIDE DEF free
  <2> QED
    BY <1>1, <1>10, <2>1
<1>12. machine' \in [Machines -> MachineRows]
  <2> HIDE DEF back
  <2> QED
    BY <1>1, <1>2, <1>10, DisposedType
<1>13. late' \in SUBSET Sources
  BY <1>1, <1>2, <1>3 DEF Rewrite, TypeOK, Sources
<1>14. silos' \in 0 .. MaxSilos
  BY <1>1, <1>2 DEF TypeOK
<1>15. TypeOK'
  BY <1>1, <1>5, <1>8, <1>10, <1>11, <1>12, <1>13, <1>14, TakeType
<1>16. RoomInv'
  BY <1>1, <1>2, <1>8, RoomKept DEF IInv
<1> QED
  BY <1>15, <1>16

-----------------------------------------------------------------------------
(* Types of the steps that take no event *)

\* The type invariant of a request, from the types of what it writes.
LEMMA BodyType ==
  ASSUME IInv, Body, balance' \in Int,
         worker' \in [Workers -> WorkerRows], machine' \in [Machines -> MachineRows],
         task' \in [Tasks -> TaskRows], stored' \in Nat, reserved' \in Nat,
         silos' \in 0 .. MaxSilos, late' \in SUBSET Sources
  PROVE  TypeOK'
BY DEF Body, IInv, TypeOK

LEMMA TickType ==
  ASSUME IInv, Tick
  PROVE  TypeOK' /\ RoomInv'
<1>1. game' \in 0 .. MaxGame
  BY HoldingAssumption DEF IInv, TypeOK, Tick
<1>2. TypeOK'
  BY <1>1 DEF IInv, TypeOK, Tick, moneyVars, storeVars, rowVars
<1> QED
  BY <1>2 DEF IInv, RoomInv, Capacity, Tick, storeVars

LEMMA BeginType ==
  ASSUME IInv, Begin
  PROVE  TypeOK' /\ RoomInv'
<1>1. PICK r \in Larger(0, game - MaxWait) .. game, B \in SUBSET Pending :
        now' = r /\ batch' = B
  BY DEF Begin
<1>2. now' \in 0 .. MaxGame
  BY <1>1, HoldingAssumption DEF IInv, TypeOK, Larger
<1>3. batch' \in SUBSET Events
  BY <1>1, PendingType DEF IInv
<1>4. /\ phase' = "ADVANCE"
      /\ UNCHANGED <<game, moneyVars, storeVars, rowVars, sweep, late>>
  BY DEF Begin
<1>5. TypeOK'
  BY <1>2, <1>3, <1>4 DEF IInv, TypeOK, moneyVars, storeVars, rowVars
<1> QED
  BY <1>4, <1>5 DEF IInv, RoomInv, Capacity, storeVars

LEMMA TailFacts ==
  ASSUME IInv, Tail
  PROVE  /\ mark' \in 0 .. game /\ mark' \in 0 .. MaxGame
         /\ mark <= mark' /\ mark' \in {mark, now} /\ now <= mark'
         /\ paid' \in [Sources -> Nat]
         /\ Settle(now) /\ now \in Nat /\ now <= game
         /\ balance' \in Int
<1>1. /\ now \in Nat /\ game \in Nat /\ now <= game /\ mark <= game /\ game <= MaxGame
      /\ MaxGame \in Nat /\ TypeOK /\ AccountInv
  BY HoldingAssumption DEF IInv, TypeOK, ClockInv
<1>2. Settle(now) /\ balance' = BalanceAt(now)
  BY DEF Tail
<1>3. /\ mark' \in 0 .. game /\ mark <= mark' /\ mark' \in {mark, now} /\ now <= mark'
      /\ paid' \in [Sources -> Nat]
  BY <1>1, <1>2, Settled
<1>4. balance' \in Int
  BY <1>1, <1>2, WindowType
<1>5. mark' \in 0 .. MaxGame
  BY <1>1, <1>3
<1> QED
  BY <1>1, <1>2, <1>3, <1>4, <1>5

LEMMA TailType ==
  ASSUME IInv, Tail
  PROVE  TypeOK' /\ RoomInv'
<1>1. mark' \in 0 .. MaxGame /\ paid' \in [Sources -> Nat] /\ balance' \in Int
  BY TailFacts
<1>2. /\ phase' = "BODY" /\ status' \in {"ACTIVE", "IN_DEBT"}
      /\ UNCHANGED <<game, now, batch, storeVars, rowVars, sweep, late>>
  BY DEF Tail
<1>3. TypeOK'
  BY <1>1, <1>2 DEF IInv, TypeOK, storeVars, rowVars
<1> QED
  BY <1>2, <1>3 DEF IInv, RoomInv, Capacity, storeVars

LEMMA CloseType ==
  ASSUME IInv, Close
  PROVE  TypeOK' /\ RoomInv'
<1>1. TypeOK'
  BY BodyType DEF Close, IInv, TypeOK, storeVars, rowVars
<1> QED
  BY <1>1 DEF IInv, RoomInv, Capacity, Close, storeVars

LEMMA HireCandidateType ==
  ASSUME IInv, NEW w \in Workers, HireCandidate(w)
  PROVE  TypeOK' /\ RoomInv'
<1>1. /\ Body /\ UNCHANGED <<balance, machine, task, storeVars>> /\ Rewrite({w}, now, mark)
      /\ worker' = [worker EXCEPT ![w] = [status |-> "IDLE", task |-> NoTask,
                                          hired |-> now, terminated |-> Never]]
  BY DEF HireCandidate
<1>2. [status |-> "IDLE", task |-> NoTask, hired |-> now, terminated |-> Never] \in WorkerRows
  BY HoldingAssumption DEF WorkerRows, Never, IInv, TypeOK
<1>3. worker' \in [Workers -> WorkerRows]
  BY <1>1, <1>2 DEF IInv, TypeOK
<1>4. late' \in SUBSET Sources
  BY <1>1 DEF Rewrite, IInv, TypeOK, Sources
<1>5. TypeOK'
  BY <1>1, <1>3, <1>4, BodyType DEF IInv, TypeOK, storeVars
<1> QED
  BY <1>1, <1>5 DEF IInv, RoomInv, Capacity, storeVars

LEMMA DismissWorkerType ==
  ASSUME IInv, NEW w \in Workers, DismissWorker(w)
  PROVE  TypeOK' /\ RoomInv'
<1>1. /\ Body /\ UNCHANGED <<balance, machine, task, storeVars>> /\ Rewrite({w}, now, mark)
      /\ worker' = [worker EXCEPT ![w].terminated = now]
  BY DEF DismissWorker
<1>2. worker \in [Workers -> WorkerRows] /\ now \in Nat
  BY HoldingAssumption DEF IInv, TypeOK
<1>3. worker' \in [Workers -> WorkerRows]
  BY <1>1, <1>2 DEF WorkerRows
<1>4. late' \in SUBSET Sources
  BY <1>1 DEF Rewrite, IInv, TypeOK, Sources
<1>5. TypeOK'
  BY <1>1, <1>3, <1>4, BodyType DEF IInv, TypeOK, storeVars
<1> QED
  BY <1>1, <1>5 DEF IInv, RoomInv, Capacity, storeVars

LEMMA BuyMachineType ==
  ASSUME IInv, NEW m \in Machines, BuyMachine(m)
  PROVE  TypeOK' /\ RoomInv'
<1> DEFINE r == [status |-> "IDLE", task |-> NoTask, acquired |-> now, disposed |-> Never,
                 wear |-> 0, wearAt |-> now, repairEnds |-> NoRepair]
<1>1. /\ Body /\ UNCHANGED <<worker, task, storeVars>> /\ Rewrite({m}, now, mark)
      /\ balance' = balance - Price.machine
      /\ machine' = [machine EXCEPT ![m] = r]
  BY DEF BuyMachine, Spend
<1>2. r \in MachineRows
  BY HoldingAssumption DEF MachineRows, Never, NoRepair, IInv, TypeOK
<1> HIDE DEF r
<1>3. machine' \in [Machines -> MachineRows] /\ balance' \in Int
  BY <1>1, <1>2, Prices DEF IInv, TypeOK
<1>4. late' \in SUBSET Sources
  BY <1>1 DEF Rewrite, IInv, TypeOK, Sources
<1>5. TypeOK'
  BY <1>1, <1>3, <1>4, BodyType DEF IInv, TypeOK, storeVars
<1> QED
  BY <1>1, <1>5 DEF IInv, RoomInv, Capacity, storeVars

LEMMA SellMachineType ==
  ASSUME IInv, NEW m \in Machines, SellMachine(m)
  PROVE  TypeOK' /\ RoomInv'
<1>1. /\ Body /\ UNCHANGED <<worker, task, storeVars>> /\ Rewrite({m}, now, mark)
      /\ balance' = balance + Resale(m)
      /\ machine' = [machine EXCEPT ![m].disposed = now]
  BY DEF SellMachine, Earn
<1>2. machine \in [Machines -> MachineRows] /\ now \in Nat /\ balance \in Int
  BY HoldingAssumption DEF IInv, TypeOK
<1>3. machine' \in [Machines -> MachineRows]
  BY <1>1, <1>2 DEF MachineRows
<1>4. late' \in SUBSET Sources
  BY <1>1 DEF Rewrite, IInv, TypeOK, Sources
<1>5. balance' \in Int
  BY <1>1, <1>2, ResaleType DEF IInv
<1>6. TypeOK'
  BY <1>1, <1>3, <1>4, <1>5, BodyType DEF IInv, TypeOK, storeVars
<1> QED
  BY <1>1, <1>6 DEF IInv, RoomInv, Capacity, storeVars

LEMMA RepairMachineType ==
  ASSUME IInv, NEW m \in Machines, NEW n \in 1 .. FullWear, RepairMachine(m, n)
  PROVE  TypeOK' /\ RoomInv'
<1> DEFINE d == n * RepairTime
           c == n * Price.repair
<1>1. /\ Body /\ UNCHANGED <<worker, task, storeVars, late>>
      /\ balance' = balance - c
      /\ machine' = [machine EXCEPT ![m].status = "IN_REPAIR", ![m].repairEnds = now + d,
                                    ![m].wearAt = now]
  BY DEF RepairMachine, Spend
<1>2. n \in Nat /\ RepairTime \in Nat /\ Price.repair \in Nat
  BY HoldingAssumption, Prices
<1>3. d \in Nat /\ c \in Nat
  BY <1>2, Scaled
<1> HIDE DEF d, c
<1>4. machine \in [Machines -> MachineRows] /\ now \in Nat /\ balance \in Int
  BY HoldingAssumption DEF IInv, TypeOK
<1>5. machine' \in [Machines -> MachineRows] /\ balance' \in Int
  <2> DEFINE r == machine[m]
             x == [r EXCEPT !.status = "IN_REPAIR", !.repairEnds = now + d, !.wearAt = now]
  <2>1. r \in MachineRows
    BY <1>4
  <2>2. now + d \in Nat
    BY <1>3, <1>4
  <2>3. machine' = [machine EXCEPT ![m] = x]
    BY <1>1, <2>1 DEF MachineRows
  <2> HIDE DEF r
  <2>4. x \in MachineRows
    BY <1>4, <2>1, <2>2 DEF MachineRows
  <2> HIDE DEF x
  <2>5. balance' \in Int
    BY <1>1, <1>3, <1>4
  <2>6. machine' \in [Machines -> MachineRows]
    BY <1>4, <2>3, <2>4
  <2> QED
    BY <2>5, <2>6
<1>6. TypeOK'
  BY <1>1, <1>5, BodyType DEF IInv, TypeOK, storeVars
<1> QED
  BY <1>1, <1>6 DEF IInv, RoomInv, Capacity, storeVars

LEMMA BuildSiloType ==
  ASSUME IInv, BuildSilo
  PROVE  TypeOK' /\ RoomInv'
<1>1. /\ Body /\ silos < MaxSilos /\ silos' = silos + 1 /\ balance' = balance - Price.silo
      /\ UNCHANGED <<rowVars, stored, reserved, late>>
  BY DEF BuildSilo, Spend
<1>2. /\ TypeOK /\ stored \in Nat /\ reserved \in Nat /\ SiloSize \in Nat /\ Capacity \in Nat
      /\ stored + reserved <= Capacity
  BY CapacityType DEF IInv, TypeOK, RoomInv
<1>3. silos' \in 0 .. MaxSilos /\ balance' \in Int
  BY <1>1, <1>2, Prices, HoldingAssumption DEF TypeOK
<1>4. TypeOK'
  BY <1>1, <1>3, BodyType DEF IInv, TypeOK, rowVars
<1>5. Capacity' = Capacity + SiloSize
  <2>1. Capacity' = (silos + 1) * SiloSize
    BY <1>1 DEF Capacity
  <2> QED
    BY <1>2, <2>1, CapacityType
<1>6. stored + reserved <= Capacity + SiloSize
  BY <1>2
<1>7. RoomInv'
  BY <1>1, <1>5, <1>6 DEF RoomInv
<1> QED
  BY <1>4, <1>7

LEMMA DemolishSiloType ==
  ASSUME IInv, DemolishSilo
  PROVE  TypeOK' /\ RoomInv'
<1>1. /\ Body /\ silos > 0 /\ silos' = silos - 1 /\ balance' = balance + Price.siloResale
      /\ UNCHANGED <<rowVars, stored, reserved, late>>
      /\ stored + reserved <= (silos - 1) * SiloSize
  BY DEF DemolishSilo, Earn, RoomWithoutOne
<1>2. silos' \in 0 .. MaxSilos /\ balance' \in Int
  BY <1>1, Prices, HoldingAssumption DEF IInv, TypeOK
<1>3. TypeOK'
  BY <1>1, <1>2, BodyType DEF IInv, TypeOK, rowVars
<1>4. Capacity' = (silos - 1) * SiloSize
  BY <1>1 DEF Capacity
<1>5. RoomInv'
  BY <1>1, <1>4 DEF RoomInv
<1> QED
  BY <1>3, <1>5

LEMMA SellStockType ==
  ASSUME IInv, NEW n \in Nat, SellStock(n)
  PROVE  TypeOK' /\ RoomInv'
<1>1. /\ Body /\ n \in 1 .. stored /\ stored' = stored - n /\ balance' = balance + n * Price.unit
      /\ UNCHANGED <<rowVars, reserved, silos, late>>
  BY DEF SellStock, Earn
<1>2. /\ TypeOK /\ RoomInv /\ stored \in Nat /\ reserved \in Nat /\ balance \in Int
      /\ n * Price.unit \in Nat
  BY Prices, Scaled DEF IInv, TypeOK
<1>3. stored' \in Nat /\ reserved' \in Nat /\ stored' + reserved' <= stored + reserved
      /\ balance' \in Int
  BY <1>1, <1>2
<1>4. TypeOK'
  BY <1>1, <1>3, BodyType DEF IInv, TypeOK, rowVars
<1>5. RoomInv'
  BY <1>1, <1>2, <1>3, RoomKept
<1> QED
  BY <1>4, <1>5

\* A reservation fits what is left.
LEMMA ReservationType ==
  ASSUME TypeOK, RoomInv, NEW y \in Nat
  PROVE  /\ Reservation(y) \in Nat
         /\ stored + (reserved + Reservation(y)) <= Capacity
<1>1. stored \in Nat /\ reserved \in Nat /\ Capacity \in Nat /\ stored + reserved <= Capacity
  BY CapacityType DEF TypeOK, RoomInv
<1>2. Capacity - stored - reserved \in Nat
  BY <1>1
<1> QED
  BY <1>1, <1>2 DEF Reservation, Smaller

LEMMA AssignTaskType ==
  ASSUME IInv, NEW t \in Tasks, NEW w \in Workers, NEW M \in SUBSET Machines, NEW y \in Yields,
         AssignTask(t, w, M, y)
  PROVE  TypeOK' /\ RoomInv'
<1> DEFINE v == Reservation(y)
           r == [status |-> "IN_PROGRESS", worker |-> w, machines |-> M, start |-> now,
                 scheduledEnd |-> now + WorkTime, ended |-> Never, units |-> y, reserved |-> v]
<1>1. /\ Body /\ Rewrite({t}, now, mark) /\ UNCHANGED <<balance, stored, silos>>
      /\ task' = [task EXCEPT ![t] = r]
      /\ worker' = [worker EXCEPT ![w].status = "WORKING", ![w].task = t]
      /\ machine' = [m \in Machines |-> IF m \in M
                       THEN [machine[m] EXCEPT !.status = "WORKING", !.task = t] ELSE machine[m]]
      /\ reserved' = reserved + v
  BY DEF AssignTask
<1>2. /\ TypeOK /\ RoomInv /\ y \in Nat /\ now \in Nat /\ Never \in Nat /\ WorkTime \in Nat
      /\ reserved \in Nat
  BY HoldingAssumption DEF IInv, TypeOK, Never
<1>3. v \in Nat /\ stored + (reserved + v) <= Capacity
  BY <1>2, ReservationType
<1> HIDE DEF v
<1>4. r \in TaskRows
  BY <1>2, <1>3 DEF TaskRows
<1> HIDE DEF r
<1>5. task' \in [Tasks -> TaskRows]
  BY <1>1, <1>2, <1>4 DEF TypeOK
<1>6. worker' \in [Workers -> WorkerRows]
  BY <1>1, <1>2 DEF TypeOK, WorkerRows
<1>7. machine' \in [Machines -> MachineRows]
  <2>1. ASSUME NEW m \in Machines
        PROVE  [machine[m] EXCEPT !.status = "WORKING", !.task = t] \in MachineRows
    BY <1>2 DEF TypeOK, MachineRows
  <2> QED
    BY <1>1, <1>2, <2>1 DEF TypeOK
<1>8. reserved' \in Nat /\ late' \in SUBSET Sources
  <2>1. reserved' \in Nat
    <3>1. reserved' = reserved + v
      BY <1>1
    <3> QED
      BY <1>2, <1>3, <3>1
  <2>2. late' \in SUBSET Sources
    BY <1>1, <1>2 DEF TypeOK, Rewrite, Sources
  <2> QED
    BY <2>1, <2>2
<1>9. TypeOK'
  BY <1>1, <1>2, <1>5, <1>6, <1>7, <1>8, BodyType DEF TypeOK
<1>10. Capacity' = Capacity
  BY <1>1 DEF Capacity
<1>11. RoomInv'
  BY <1>1, <1>3, <1>10 DEF RoomInv
<1> QED
  BY <1>9, <1>11

LEMMA CancelTaskType ==
  ASSUME IInv, NEW t \in Tasks, CancelTask(t)
  PROVE  TypeOK' /\ RoomInv'
<1> DEFINE end == EndsFor(now)
<1>1. /\ Body /\ UNCHANGED <<balance, stored, silos>>
      /\ task' = TasksClosed({t}, "CANCELED", end)
      /\ machine' = MachinesBack({t}, end)
      /\ worker' = WorkersBack({t})
      /\ late' \in {late, late \cup {t}}
      /\ reserved' = Larger(0, reserved - task[t].reserved)
      /\ {t} \in SUBSET RunningTasks
  BY DEF CancelTask, RunningTasks
<1>2. TypeOK /\ RoomInv /\ ReservationsAgree /\ now \in Nat /\ reserved \in Nat /\ stored \in Nat
  BY HoldingAssumption DEF IInv, TypeOK
<1>3. task[t].reserved \in Nat
  BY <1>2 DEF TypeOK, TaskRows
<1>4. end \in [Tasks -> Nat]
  BY <1>2, EndsForType
<1> HIDE DEF end
<1>5. /\ worker' \in [Workers -> WorkerRows] /\ machine' \in [Machines -> MachineRows]
      /\ task' \in [Tasks -> TaskRows]
  BY <1>1, <1>2, <1>4, BackTypes
<1>6. stored' \in Nat /\ reserved' \in Nat /\ stored' + reserved' <= stored + reserved
  BY <1>1, <1>2, <1>3 DEF Larger
<1>7. TypeOK'
  <2>1. late' \in SUBSET Sources
    BY <1>1, <1>2 DEF TypeOK, Sources
  <2>2. balance' \in Int /\ silos' \in 0 .. MaxSilos
    BY <1>1, <1>2 DEF TypeOK
  <2> QED
    BY <1>1, <1>5, <1>6, <2>1, <2>2, BodyType
<1>8. RoomInv'
  BY <1>1, <1>2, <1>6, RoomKept
<1> QED
  BY <1>7, <1>8

-----------------------------------------------------------------------------
(* The initial state *)

LEMMA InitTypeAndRoom == Init => TypeOK /\ RoomInv
<1> SUFFICES ASSUME Init
             PROVE  TypeOK /\ RoomInv
  OBVIOUS
<1>1. AbsentWorker \in WorkerRows
  BY DEF AbsentWorker, WorkerRows
<1>2. AbsentMachine \in MachineRows
  BY HoldingAssumption DEF AbsentMachine, MachineRows, NoRepair
<1>3. AbsentTask \in TaskRows
  BY HoldingAssumption DEF AbsentTask, TaskRows
<1>4. TypeOK
  BY <1>1, <1>2, <1>3, HoldingAssumption DEF Init, TypeOK
<1>5. RoomInv
  <2>1. Capacity \in Nat
    BY <1>4, CapacityType
  <2> QED
    BY <2>1 DEF Init, RoomInv
<1> QED
  BY <1>4, <1>5

-----------------------------------------------------------------------------
(* The clock and the batch *)

LEMMA BodyClock ==
  ASSUME IInv, Body
  PROVE  ClockInv'
BY DEF IInv, ClockInv, Body

\* A step that takes e leaves nothing that e should have waited for, when a task it leaves
\* running is not the one e completes.
LEMMA TakeClock ==
  ASSUME IInv, NEW e, Take(e),
         \A t \in RunningTasks' : /\ t \in RunningTasks /\ TaskEvent(t) # e
                                  /\ task'[t].scheduledEnd = task[t].scheduledEnd
  PROVE  ClockInv'
<1>1. /\ batch' = batch \ {e} /\ phase = "ADVANCE"
      /\ UNCHANGED <<game, now, phase>> /\ mark' \in 0 .. game
  BY TakeFacts
<1>2. now' <= game' /\ mark' <= game' /\ (phase' # "ADVANCE" => batch' = {})
  BY <1>1, HoldingAssumption DEF IInv, ClockInv, TypeOK
<1>3. \A d \in batch' : d.due <= now'
  BY <1>1 DEF IInv, ClockInv
<1>4. ASSUME NEW d \in batch', NEW t \in RunningTasks'
      PROVE  d.due <= task'[t].scheduledEnd \/ TaskEvent(t)' \in batch'
  <2>1. d \in batch /\ t \in RunningTasks /\ TaskEvent(t) # e
        /\ task'[t].scheduledEnd = task[t].scheduledEnd
    BY <1>1
  <2>2. TaskEvent(t)' = TaskEvent(t)
    BY <2>1 DEF TaskEvent
  <2>3. d.due <= task[t].scheduledEnd \/ TaskEvent(t) \in batch
    BY <2>1 DEF IInv, ClockInv
  <2> QED
    BY <1>1, <2>1, <2>2, <2>3
<1> QED
  BY <1>2, <1>3, <1>4 DEF ClockInv

\* No running task should have been completed before e.
LEMMA EventsInOrder ==
  ASSUME IInv, NEW e, Take(e), NEW t \in RunningTasks
  PROVE  e.due <= task[t].scheduledEnd
<1>1. e \in batch /\ \A d \in batch : e.due <= d.due
  BY DEF Take
<1>2. e.due <= task[t].scheduledEnd \/ TaskEvent(t) \in batch
  BY <1>1 DEF IInv, ClockInv
<1>3. TaskEvent(t).due = task[t].scheduledEnd
  BY DEF TaskEvent
<1> QED
  BY <1>1, <1>2, <1>3

-----------------------------------------------------------------------------
(* The accounts *)

LEMMA RateNext ==
  ASSUME TypeOK', NEW s \in Sources
  PROVE  Rate(s)' \in Nat
<1>1. CASE s \in Workers \/ s \in Machines
  BY <1>1, Prices DEF Rate
<1>2. CASE s \in Tasks /\ s \notin Workers /\ s \notin Machines
  <2>1. task'[s] \in TaskRows
    BY <1>2 DEF TypeOK
  <2>2. task'[s].machines \in SUBSET Machines
    BY <2>1 DEF TaskRows
  <2>3. Cardinality(task'[s].machines) \in Nat
    BY <2>2, Finite, FS_Subset, FS_CardinalityType
  <2>4. Rate(s)' = Price.running * Cardinality(task'[s].machines)
    BY <1>2 DEF Rate
  <2> QED
    BY <2>3, <2>4, Prices, Scaled
<1> QED
  BY <1>1, <1>2 DEF Sources

\* What has been charged after a step is right for the rows as they were before it.
Booked ==
  /\ mark' \in Nat /\ paid' \in [Sources -> Nat]
  /\ \A s \in Sources \ late : paid'[s] = Cost(s, 0, mark')
  /\ \A s \in Sources : paid'[s] <= Rate(s) * Larger(0, mark' - From(s))

SameRow(s) == /\ From(s)' = From(s) /\ Rate(s)' = Rate(s)
              /\ Exists(s) => Exists(s)'
EndKept(s) == \/ Until(s)' = Until(s)
              \/ mark' <= Until(s) /\ mark' <= Until(s)'

LEMMA TakeBooked ==
  ASSUME IInv, NEW e, Take(e)
  PROVE  Booked
<1>1. e.due \in Nat /\ e.due <= game /\ Settle(e.due) /\ mark' \in 0 .. MaxGame
  BY TakeFacts
<1>2. TypeOK /\ AccountInv /\ mark <= game /\ mark' \in Nat
  BY <1>1, HoldingAssumption DEF IInv, ClockInv
<1> QED
  BY <1>1, <1>2, Settled DEF Booked

LEMMA TailBooked ==
  ASSUME IInv, Tail
  PROVE  Booked
<1>1. now \in Nat /\ now <= game /\ Settle(now) /\ mark' \in 0 .. MaxGame
  BY TailFacts
<1>2. TypeOK /\ AccountInv /\ mark <= game /\ mark' \in Nat
  BY <1>1, HoldingAssumption DEF IInv, ClockInv
<1> QED
  BY <1>1, <1>2, Settled DEF Booked

LEMMA UnchangedBooked ==
  ASSUME IInv, UNCHANGED <<mark, paid>>
  PROVE  Booked
<1>1. mark \in Nat /\ mark' = mark /\ paid' = paid /\ paid \in [Sources -> Nat]
  BY HoldingAssumption DEF IInv, TypeOK
<1>2. /\ \A s \in Sources \ late : paid[s] = Cost(s, 0, mark)
      /\ \A s \in Sources : paid[s] <= Rate(s) * Larger(0, mark - From(s))
  BY DEF IInv, AccountInv, Recomputable, ChargedOnce
<1> QED
  BY <1>1, <1>2 DEF Booked

\* The accounts after a step that opens no interval.
LEMMA Accounts ==
  ASSUME IInv, TypeOK', Booked, late \subseteq late', \A s \in late' : Exists(s)',
         \A s \in Sources : SameRow(s), \A s \in Sources \ late' : EndKept(s)
  PROVE  AccountInv'
<1>1. ASSUME NEW s \in Sources
      PROVE  /\ s \notin late' => paid'[s] = Cost(s, 0, mark)'
             /\ (paid[s] <= Rate(s) * Larger(0, mark - From(s)))'
  <2>1. From(s)' = From(s) /\ Rate(s)' = Rate(s)
    BY DEF SameRow
  <2>2. paid'[s] <= Rate(s) * Larger(0, mark' - From(s))
    BY DEF Booked
  <2>3. s \notin late' => /\ paid'[s] = Cost(s, 0, mark')
                          /\ \/ Until(s)' = Until(s)
                             \/ mark' <= Until(s) /\ mark' <= Until(s)'
    BY DEF Booked, EndKept
  <2> QED
    BY <2>1, <2>2, <2>3, Rebooked DEF IInv
<1>2. Recomputable'
  BY <1>1 DEF Recomputable
<1>3. ChargedOnce'
  BY <1>1 DEF ChargedOnce
<1> QED
  BY <1>2, <1>3 DEF AccountInv

\* A row that does not exist has paid nothing.
LEMMA AbsentPaid ==
  ASSUME IInv, NEW s \in Sources, ~ Exists(s)
  PROVE  paid[s] = 0
<1>1. s \notin late
  BY DEF IInv, AccountInv
<1>2. paid[s] = Cost(s, 0, mark) /\ TypeOK /\ mark \in Nat
  BY <1>1, HoldingAssumption DEF IInv, AccountInv, Recomputable, TypeOK
<1>3. From(s) = 0 /\ Until(s) = 0
  <2>1. CASE s \in Workers
    BY <2>1 DEF IInv, RowInv, Exists, AbsentWorker, From, Until
  <2>2. CASE s \in Machines
    BY <2>2, HoldingAssumption DEF IInv, RowInv, Exists, AbsentMachine, From, Until
  <2>3. CASE s \in Tasks
    <3>1. s \notin Workers /\ s \notin Machines
      BY <2>3, HoldingAssumption
    <3>2. task[s] = AbsentTask
      BY <2>3, <3>1 DEF IInv, RowInv, Exists
    <3>3. Never # 0
      BY HoldingAssumption DEF Never
    <3> QED
      BY <3>1, <3>2, <3>3 DEF AbsentTask, From, Until
  <2> QED
    BY <2>1, <2>2, <2>3 DEF Sources
<1>4. Cost(s, 0, mark) = Rate(s) * 0
  <2>1. Larger(0, Smaller(mark, 0) - Larger(0, 0)) = 0
    BY <1>2 DEF Larger, Smaller
  <2> QED
    BY <1>3, <2>1 DEF Cost
<1>5. Rate(s) \in Nat
  BY <1>2, RowFacts
<1> QED
  BY <1>2, <1>4, <1>5

\* The accounts after a request that creates row x at the reading.
LEMMA NewRowAccounts ==
  ASSUME IInv, TypeOK', UNCHANGED <<mark, paid>>, NEW x \in Sources,
         ~ Exists(x), Exists(x)', From(x)' = now, Rewrite({x}, now, mark),
         \A s \in Sources \ {x} : SameRow(s) /\ Until(s)' = Until(s)
  PROVE  AccountInv'
<1>1. mark \in Nat /\ now \in Nat /\ mark' = mark /\ paid' = paid /\ TypeOK
  BY HoldingAssumption DEF IInv, TypeOK
<1>2. late \subseteq late' /\ late' \subseteq late \cup {x} /\ (x \notin late' => mark <= now)
      /\ late \in SUBSET Sources
  BY <1>1 DEF Rewrite, TypeOK
<1>3. x \notin late
  BY DEF IInv, AccountInv
<1>4. ASSUME NEW s \in late'
      PROVE  Exists(s)'
  BY <1>2, <1>3, <1>4 DEF SameRow, IInv, AccountInv
<1>5. ASSUME NEW s \in Sources
      PROVE  /\ s \notin late' => paid'[s] = Cost(s, 0, mark)'
             /\ (paid[s] <= Rate(s) * Larger(0, mark - From(s)))'
  <2>1. CASE s # x
    <3>1. From(s)' = From(s) /\ Rate(s)' = Rate(s) /\ Until(s)' = Until(s)
      BY <2>1 DEF SameRow
    <3>2. Booked
      BY <1>1, UnchangedBooked
    <3>3. paid'[s] <= Rate(s) * Larger(0, mark' - From(s))
      BY <3>2 DEF Booked
    <3>4. s \notin late' => paid'[s] = Cost(s, 0, mark')
      BY <1>2, <3>2 DEF Booked
    <3> QED
      BY <1>1, <3>1, <3>3, <3>4, Rebooked
  <2>2. CASE s = x
    <3>1. paid'[s] = 0 /\ From(s)' = now
      BY <1>1, <2>2, AbsentPaid
    <3>2. Rate(s)' \in Nat /\ Until(s)' \in Nat
      BY RateNext, IntervalsNext
    <3>3. Larger(0, mark' - From(s)') \in Nat
      BY <1>1, <3>1 DEF Larger
    <3>4. Rate(s)' * Larger(0, mark' - From(s)') \in Nat
      BY <3>2, <3>3, Scaled
    <3>5. ASSUME s \notin late'
          PROVE  Cost(s, 0, mark)' = 0
      <4>1. Larger(0, Smaller(mark', Until(s)') - Larger(0, From(s)')) = 0
        BY <1>1, <1>2, <2>2, <3>1, <3>2, <3>5 DEF Larger, Smaller
      <4>2. Cost(s, 0, mark)' = Rate(s)' * 0
        BY <4>1 DEF Cost
      <4> QED
        BY <3>2, <4>2
    <3> QED
      BY <3>1, <3>4, <3>5
  <2> QED
    BY <2>1, <2>2
<1>6. Recomputable' /\ ChargedOnce'
  BY <1>5 DEF Recomputable, ChargedOnce
<1> QED
  BY <1>4, <1>6 DEF AccountInv

-----------------------------------------------------------------------------
(* Steps that write no row *)

LEMMA RowsSteady ==
  ASSUME IInv, TypeOK', RoomInv', ClockInv', Booked, UNCHANGED <<rowVars, late>>, game' \in Nat,
         game <= game'
  PROVE  IInv'
<1>1. UNCHANGED <<worker, machine, task>> /\ late' = late
  BY DEF rowVars
<1>2. ASSUME NEW s \in Sources
      PROVE  From(s)' = From(s) /\ Until(s)' = Until(s) /\ Rate(s)' = Rate(s)
             /\ Exists(s)' = Exists(s)
  BY <1>1 DEF From, Until, Rate, Exists
<1>3. AccountInv'
  <2>1. \A s \in Sources : SameRow(s) /\ EndKept(s)
    BY <1>2 DEF SameRow, EndKept
  <2>2. \A s \in late' : Exists(s)'
    BY <1>1, <1>2 DEF IInv, AccountInv, TypeOK
  <2> QED
    BY <1>1, <2>1, <2>2, Accounts
<1>4. RowInv'
  <2>1. game \in Nat /\ TypeOK
    BY HoldingAssumption DEF IInv, TypeOK
  <2>2. \A s \in Sources : From(s)' <= game'
    <3>1. ASSUME NEW s \in Sources
          PROVE  From(s)' <= game'
      <4>1. From(s) \in Nat /\ From(s) <= game /\ From(s)' = From(s)
        BY <1>2, <2>1, RowFacts DEF IInv, RowInv
      <4> QED
        BY <2>1, <4>1
    <3> QED
      BY <3>1
  <2> QED
    BY <1>1, <2>2 DEF IInv, RowInv, RunningTasks, Running
<1>5. ReservationsAgree'
  BY <1>1 DEF IInv, ReservationsAgree, RunningTasks, Running, Employed, Owned
<1> QED
  BY <1>3, <1>4, <1>5 DEF IInv

LEMMA RunningSteady ==
  ASSUME UNCHANGED rowVars
  PROVE  RunningTasks' = RunningTasks /\ \A t \in Tasks : task'[t] = task[t]
BY DEF rowVars, RunningTasks, Running

LEMMA SkipKeeps ==
  ASSUME IInv, NEW e, Skip(e)
  PROVE  IInv'
<1>1. Take(e) /\ e \notin Pending /\ UNCHANGED <<rowVars, late>>
  BY DEF Skip
<1>2. \A t \in RunningTasks : TaskEvent(t) \in Pending
  BY DEF Pending, TaskEvent
<1>3. ClockInv'
  <2>1. RunningTasks \subseteq Tasks
    BY DEF RunningTasks
  <2> QED
    BY <1>1, <1>2, <2>1, TakeClock, RunningSteady
<1>4. game' = game /\ game \in Nat
  BY <1>1, TakeFacts, HoldingAssumption DEF IInv, TypeOK
<1> QED
  BY <1>1, <1>3, <1>4, SkipType, TakeBooked, RowsSteady

\* An event of another kind completes no task.
LEMMA OtherEvents ==
  ASSUME NEW e, e.kind # "task"
  PROVE  \A t : TaskEvent(t) # e
<1>1. \A t : TaskEvent(t).kind = "task"
  BY DEF TaskEvent
<1> QED
  BY <1>1

LEMMA PlainSweepKeeps ==
  ASSUME IInv, NEW e, PlainSweep(e)
  PROVE  IInv'
<1>1. Take(e) /\ e.kind # "task" /\ UNCHANGED <<rowVars, late>>
  BY DEF PlainSweep
<1>2. ClockInv'
  <2>1. RunningTasks \subseteq Tasks
    BY DEF RunningTasks
  <2> QED
    BY <1>1, <2>1, TakeClock, OtherEvents, RunningSteady
<1>3. game' = game /\ game \in Nat
  BY <1>1, TakeFacts, HoldingAssumption DEF IInv, TypeOK
<1> QED
  BY <1>1, <1>2, <1>3, PlainSweepType, TakeBooked, RowsSteady

LEMMA TickKeeps ==
  ASSUME IInv, Tick
  PROVE  IInv'
<1>1. /\ game \in Nat /\ game' = game + 1 /\ now' = now /\ mark' = mark /\ paid' = paid
      /\ phase' = phase /\ batch' = batch /\ UNCHANGED <<rowVars, late>> /\ phase = "CLOSED"
      /\ now \in Nat /\ mark \in Nat
  BY HoldingAssumption DEF IInv, TypeOK, Tick, moneyVars
<1>2. ClockInv'
  BY <1>1 DEF IInv, ClockInv
<1>3. game' \in Nat /\ game <= game'
  BY <1>1
<1> QED
  BY <1>1, <1>2, <1>3, TickType, UnchangedBooked, RowsSteady

LEMMA BeginKeeps ==
  ASSUME IInv, Begin
  PROVE  IInv'
<1>1. PICK r \in Larger(0, game - MaxWait) .. game, B \in SUBSET Pending :
        /\ B \subseteq DueBy(r)
        /\ \A e \in B, d \in DueBy(r) \ B : e.due <= d.due
        /\ now' = r /\ batch' = B
  BY DEF Begin
<1>2. /\ phase' = "ADVANCE" /\ game' = game /\ mark' = mark /\ paid' = paid
      /\ UNCHANGED <<rowVars, late>>
  BY DEF Begin, moneyVars
<1>3. game \in Nat /\ TypeOK /\ r \in Nat /\ r <= game /\ mark <= game
  BY <1>1, HoldingAssumption DEF IInv, TypeOK, ClockInv, Larger
<1>4. ASSUME NEW e \in B, NEW t \in RunningTasks
      PROVE  e.due <= task[t].scheduledEnd \/ TaskEvent(t) \in B
  <2>1. TaskEvent(t) \in Pending /\ TaskEvent(t).due = task[t].scheduledEnd
    BY DEF Pending, TaskEvent
  <2>2. e.due \in Nat /\ e.due <= r
    BY <1>1, <1>3, PendingType DEF DueBy, Events
  <2>3. task[t].scheduledEnd \in Nat
    BY <1>3 DEF TypeOK, TaskRows, RunningTasks
  <2>4. CASE task[t].scheduledEnd <= r
    <3>1. TaskEvent(t) \in DueBy(r)
      BY <2>1, <2>4 DEF DueBy
    <3> QED
      BY <1>1, <2>1, <3>1
  <2>5. CASE r < task[t].scheduledEnd
    BY <1>3, <2>2, <2>3, <2>5
  <2> QED
    BY <1>3, <2>3, <2>4, <2>5
<1>5. ClockInv'
  <2>1. RunningTasks' = RunningTasks /\ RunningTasks \subseteq Tasks
        /\ \A t \in Tasks : task'[t] = task[t]
    BY <1>2, RunningSteady DEF RunningTasks
  <2>2. \A t \in RunningTasks : TaskEvent(t)' = TaskEvent(t)
    BY <2>1 DEF TaskEvent
  <2>3. \A e \in batch' : \A t \in RunningTasks' :
          e.due <= task'[t].scheduledEnd \/ TaskEvent(t)' \in batch'
    BY <1>1, <1>4, <2>1, <2>2
  <2>4. \A e \in batch' : e.due <= now'
    BY <1>1 DEF DueBy
  <2> QED
    BY <1>1, <1>2, <1>3, <2>3, <2>4 DEF ClockInv
<1>6. game <= game' /\ game' \in Nat
  BY <1>2, <1>3
<1> QED
  BY <1>2, <1>5, <1>6, BeginType, UnchangedBooked, RowsSteady

LEMMA TailKeeps ==
  ASSUME IInv, Tail
  PROVE  IInv'
<1>1. /\ phase' = "BODY" /\ game' = game /\ now' = now /\ batch' = {} /\ UNCHANGED <<rowVars, late>>
  BY DEF Tail
<1>2. game \in Nat /\ now <= game /\ mark' \in 0 .. game
  BY TailFacts, HoldingAssumption DEF IInv, TypeOK
<1>3. ClockInv'
  BY <1>1, <1>2 DEF ClockInv
<1>4. game <= game' /\ game' \in Nat
  BY <1>1, <1>2
<1> QED
  BY <1>1, <1>3, <1>4, TailType, TailBooked, RowsSteady

LEMMA BodyFacts ==
  ASSUME IInv, Body
  PROVE  /\ ClockInv' /\ Booked
         /\ game' = game /\ now' = now /\ mark' = mark /\ paid' = paid
         /\ game' \in Nat /\ game <= game'
         /\ game \in Nat /\ now \in Nat /\ mark \in Nat /\ now <= game /\ mark <= game
         /\ game <= MaxGame /\ MaxGame \in Nat
<1>1. game' = game /\ now' = now /\ mark' = mark /\ paid' = paid
  BY DEF Body
<1>2. /\ game \in Nat /\ now \in Nat /\ mark \in Nat /\ now <= game /\ mark <= game
      /\ game <= MaxGame /\ MaxGame \in Nat
  BY HoldingAssumption DEF IInv, TypeOK, ClockInv
<1> QED
  BY <1>1, <1>2, BodyClock, UnchangedBooked

LEMMA StoreKeeps ==
  ASSUME IInv, Close \/ BuildSilo \/ DemolishSilo \/ \E n \in 1 .. Capacity : SellStock(n)
  PROVE  IInv'
<1>1. Body /\ UNCHANGED <<rowVars, late>>
  BY DEF Close, BuildSilo, DemolishSilo, SellStock
<1>2. TypeOK' /\ RoomInv'
  BY CloseType, BuildSiloType, DemolishSiloType, SellStockType
<1> QED
  BY <1>1, <1>2, BodyFacts, RowsSteady

-----------------------------------------------------------------------------
(* Steps that write one worker *)

LEMMA HireCandidateKeeps ==
  ASSUME IInv, NEW w \in Workers, HireCandidate(w)
  PROVE  IInv'
<1> DEFINE r == [status |-> "IDLE", task |-> NoTask, hired |-> now, terminated |-> Never]
<1>1. /\ Body /\ worker[w].status = "ABSENT" /\ Rewrite({w}, now, mark)
      /\ worker' = [worker EXCEPT ![w] = r] /\ UNCHANGED <<machine, task>>
  BY DEF HireCandidate
<1>2. TypeOK' /\ RoomInv' /\ ClockInv' /\ UNCHANGED <<mark, paid>> /\ now <= game'
  BY <1>1, HireCandidateType, BodyFacts
<1>3. worker \in [Workers -> WorkerRows] /\ worker[w] = AbsentWorker
  BY <1>1 DEF IInv, TypeOK, RowInv
<1>4. \A x \in Workers : worker'[x] = IF x = w THEN r ELSE worker[x]
  BY <1>1, <1>3
<1>5. ASSUME NEW s \in Sources \ {w}
      PROVE  /\ From(s)' = From(s) /\ Until(s)' = Until(s) /\ Rate(s)' = Rate(s)
             /\ Exists(s)' = Exists(s)
  BY <1>1, <1>4 DEF From, Until, Rate, Exists
<1>6. From(w)' = now /\ Exists(w)' /\ ~ Exists(w) /\ w \in Sources
  BY <1>1, <1>4 DEF From, Exists, Sources
<1>7. AccountInv'
  BY <1>1, <1>2, <1>5, <1>6, NewRowAccounts DEF SameRow
<1>8. RowInv'
  <2>1. \A s \in Sources : From(s)' <= game'
    BY <1>1, <1>2, <1>5, <1>6, BodyFacts DEF IInv, RowInv
  <2> QED
    BY <1>1, <1>4, <2>1 DEF IInv, RowInv, RunningTasks, Running
<1>9. ReservationsAgree'
  <2>1. ReservationsAgree /\ NoTask \notin Tasks /\ task' = task /\ machine' = machine
    BY <1>1, HoldingAssumption DEF IInv
  <2>2. ASSUME NEW x \in Workers
        PROVE  /\ (worker'[x].status = "WORKING") = (worker'[x].task # NoTask)
               /\ \A t \in Tasks : worker'[x].task = t =>
                    Running(t) /\ task[t].worker = x /\ Employed(x)'
    BY <1>4, <2>1 DEF ReservationsAgree, Employed
  <2>3. ASSUME NEW t \in RunningTasks
        PROVE  worker'[task[t].worker].task = t
    <3>1. t \in Tasks /\ task[t].worker \in Workers /\ worker[task[t].worker].task = t
      BY <2>1 DEF ReservationsAgree, RunningTasks, IInv, TypeOK, TaskRows
    <3>2. task[t].worker # w
      BY <1>3, <2>1, <3>1 DEF AbsentWorker
    <3> QED
      BY <1>4, <3>1, <3>2
  <2> QED
    BY <2>1, <2>2, <2>3 DEF ReservationsAgree, RunningTasks, Running, Owned
<1> QED
  BY <1>2, <1>7, <1>8, <1>9 DEF IInv

LEMMA DismissWorkerKeeps ==
  ASSUME IInv, NEW w \in Workers, DismissWorker(w)
  PROVE  IInv'
<1> DEFINE r == [worker[w] EXCEPT !.terminated = now]
<1>1. /\ Body /\ IdleWorker(w) /\ Rewrite({w}, now, mark)
      /\ worker' = [worker EXCEPT ![w] = r] /\ UNCHANGED <<machine, task>>
  BY DEF DismissWorker
<1>2. TypeOK' /\ RoomInv' /\ ClockInv' /\ Booked /\ mark' = mark
  BY <1>1, DismissWorkerType, BodyFacts
<1>3. worker \in [Workers -> WorkerRows] /\ worker[w] \in WorkerRows
  BY DEF IInv, TypeOK
<1>4. /\ r.status = worker[w].status /\ r.task = worker[w].task /\ r.hired = worker[w].hired
      /\ r.terminated = now
  BY <1>3 DEF WorkerRows
<1>5. \A x \in Workers : worker'[x] = IF x = w THEN r ELSE worker[x]
  BY <1>1, <1>3
<1> HIDE DEF r
<1>6. ASSUME NEW s \in Sources
      PROVE  /\ From(s)' = From(s) /\ Rate(s)' = Rate(s) /\ Exists(s)' = Exists(s)
             /\ s # w => Until(s)' = Until(s)
  BY <1>1, <1>4, <1>5 DEF From, Until, Rate, Exists
<1>7. Until(w) = Never /\ Until(w)' = now /\ w \in Sources /\ Exists(w)'
  BY <1>1, <1>4, <1>5 DEF Until, Sources, Exists, IdleWorker, Employed
<1>8. AccountInv'
  <2>1. late \subseteq late' /\ late' \subseteq late \cup {w} /\ (w \notin late' => mark <= now)
    BY <1>1, BodyFacts DEF Rewrite
  <2>2. \A s \in Sources \ late' : EndKept(s)
    BY <1>1, <1>2, <1>6, <1>7, <2>1, BodyFacts DEF EndKept, Never
  <2>3. \A s \in late' : Exists(s)'
    BY <1>6, <1>7, <2>1 DEF IInv, AccountInv, TypeOK
  <2> QED
    BY <1>2, <1>6, <2>1, <2>2, <2>3, Accounts DEF SameRow
<1>9. RowInv'
  <2>1. \A s \in Sources : From(s)' <= game'
    BY <1>1, <1>6, BodyFacts DEF IInv, RowInv
  <2>2. worker[w].status # "ABSENT"
    BY <1>1 DEF IdleWorker, Employed
  <2> QED
    BY <1>1, <1>4, <1>5, <2>1, <2>2 DEF IInv, RowInv, RunningTasks, Running
<1>10. ReservationsAgree'
  <2>1. /\ ReservationsAgree /\ NoTask \notin Tasks /\ task' = task /\ machine' = machine
        /\ worker[w].task = NoTask
    BY <1>1, HoldingAssumption DEF IInv, IdleWorker
  <2>2. ASSUME NEW x \in Workers
        PROVE  /\ worker'[x].status = worker[x].status /\ worker'[x].task = worker[x].task
               /\ x # w => Employed(x)' = Employed(x)
    BY <1>4, <1>5 DEF Employed
  <2>3. \A t \in RunningTasks : task[t].worker \in Workers
    BY DEF IInv, TypeOK, TaskRows, RunningTasks
  <2> QED
    BY <2>1, <2>2, <2>3 DEF ReservationsAgree, RunningTasks, Running, Owned
<1> QED
  BY <1>2, <1>8, <1>9, <1>10 DEF IInv

-----------------------------------------------------------------------------
(* Steps that write one machine *)

LEMMA BuyMachineKeeps ==
  ASSUME IInv, NEW m \in Machines, BuyMachine(m)
  PROVE  IInv'
<1> DEFINE r == [status |-> "IDLE", task |-> NoTask, acquired |-> now, disposed |-> Never,
                 wear |-> 0, wearAt |-> now, repairEnds |-> NoRepair]
<1>1. /\ Body /\ machine[m].status = "ABSENT" /\ Rewrite({m}, now, mark)
      /\ machine' = [machine EXCEPT ![m] = r] /\ UNCHANGED <<worker, task>>
  BY DEF BuyMachine
<1>2. TypeOK' /\ RoomInv' /\ ClockInv' /\ UNCHANGED <<mark, paid>> /\ now <= game'
  BY <1>1, BuyMachineType, BodyFacts
<1>3. machine \in [Machines -> MachineRows] /\ machine[m] = AbsentMachine
  BY <1>1 DEF IInv, TypeOK, RowInv
<1>4. \A x \in Machines : machine'[x] = IF x = m THEN r ELSE machine[x]
  BY <1>1, <1>3
<1>5. ASSUME NEW s \in Sources \ {m}
      PROVE  /\ From(s)' = From(s) /\ Until(s)' = Until(s) /\ Rate(s)' = Rate(s)
             /\ Exists(s)' = Exists(s)
  BY <1>1, <1>4 DEF From, Until, Rate, Exists
<1>6. From(m)' = now /\ Exists(m)' /\ ~ Exists(m) /\ m \in Sources
  BY <1>1, <1>4, HoldingAssumption DEF From, Exists, Sources
<1>7. AccountInv'
  BY <1>1, <1>2, <1>5, <1>6, NewRowAccounts DEF SameRow
<1>8. RowInv'
  <2>1. \A s \in Sources : From(s)' <= game'
    BY <1>1, <1>2, <1>5, <1>6, BodyFacts DEF IInv, RowInv
  <2> QED
    BY <1>1, <1>4, <2>1 DEF IInv, RowInv, RunningTasks, Running
<1>9. ReservationsAgree'
  <2>1. ReservationsAgree /\ NoTask \notin Tasks /\ task' = task /\ worker' = worker
    BY <1>1, HoldingAssumption DEF IInv
  <2>2. ASSUME NEW x \in Machines
        PROVE  /\ (machine'[x].status = "WORKING") = (machine'[x].task # NoTask)
               /\ \A t \in Tasks : machine'[x].task = t =>
                    Running(t) /\ x \in task[t].machines /\ Owned(x)'
               /\ (machine'[x].status = "IN_REPAIR") = (machine'[x].repairEnds # NoRepair)
    BY <1>4, <2>1 DEF ReservationsAgree, Owned
  <2>3. ASSUME NEW t \in RunningTasks, NEW x \in task[t].machines
        PROVE  machine'[x].task = t
    <3>1. t \in Tasks /\ x \in Machines /\ machine[x].task = t
      BY <2>1 DEF ReservationsAgree, RunningTasks, IInv, TypeOK, TaskRows
    <3>2. x # m
      BY <1>3, <2>1, <3>1 DEF AbsentMachine
    <3> QED
      BY <1>4, <3>1, <3>2
  <2> QED
    BY <2>1, <2>2, <2>3 DEF ReservationsAgree, RunningTasks, Running, Employed
<1> QED
  BY <1>2, <1>7, <1>8, <1>9 DEF IInv

LEMMA SellMachineKeeps ==
  ASSUME IInv, NEW m \in Machines, SellMachine(m)
  PROVE  IInv'
<1> DEFINE r == [machine[m] EXCEPT !.disposed = now]
<1>1. /\ Body /\ IdleMachine(m) /\ Rewrite({m}, now, mark)
      /\ machine' = [machine EXCEPT ![m] = r] /\ UNCHANGED <<worker, task>>
  BY DEF SellMachine
<1>2. TypeOK' /\ RoomInv' /\ ClockInv' /\ Booked /\ mark' = mark
  BY <1>1, SellMachineType, BodyFacts
<1>3. machine \in [Machines -> MachineRows] /\ machine[m] \in MachineRows
  BY DEF IInv, TypeOK
<1>4. /\ r.status = machine[m].status /\ r.task = machine[m].task
      /\ r.acquired = machine[m].acquired /\ r.disposed = now
      /\ r.wearAt = machine[m].wearAt /\ r.repairEnds = machine[m].repairEnds
  BY <1>3 DEF MachineRows
<1>5. \A x \in Machines : machine'[x] = IF x = m THEN r ELSE machine[x]
  BY <1>1, <1>3
<1> HIDE DEF r
<1>6. ASSUME NEW s \in Sources
      PROVE  /\ From(s)' = From(s) /\ Rate(s)' = Rate(s) /\ Exists(s)' = Exists(s)
             /\ s # m => Until(s)' = Until(s)
  BY <1>1, <1>4, <1>5 DEF From, Until, Rate, Exists
<1>7. Until(m) = Never /\ Until(m)' = now /\ m \in Sources /\ Exists(m)'
  BY <1>1, <1>4, <1>5, HoldingAssumption DEF Until, Sources, Exists, IdleMachine, Owned
<1>8. AccountInv'
  <2>1. late \subseteq late' /\ late' \subseteq late \cup {m} /\ (m \notin late' => mark <= now)
    BY <1>1, BodyFacts DEF Rewrite
  <2>2. \A s \in Sources \ late' : EndKept(s)
    BY <1>1, <1>2, <1>6, <1>7, <2>1, BodyFacts DEF EndKept, Never
  <2>3. \A s \in late' : Exists(s)'
    BY <1>6, <1>7, <2>1 DEF IInv, AccountInv, TypeOK
  <2> QED
    BY <1>2, <1>6, <2>1, <2>2, <2>3, Accounts DEF SameRow
<1>9. RowInv'
  <2>1. \A s \in Sources : From(s)' <= game'
    BY <1>1, <1>6, BodyFacts DEF IInv, RowInv
  <2>2. machine[m].status # "ABSENT"
    BY <1>1 DEF IdleMachine, Owned
  <2> QED
    BY <1>1, <1>4, <1>5, <2>1, <2>2 DEF IInv, RowInv, RunningTasks, Running
<1>10. ReservationsAgree'
  <2>1. /\ ReservationsAgree /\ NoTask \notin Tasks /\ task' = task /\ worker' = worker
        /\ machine[m].task = NoTask
    BY <1>1, HoldingAssumption DEF IInv, IdleMachine
  <2>2. ASSUME NEW x \in Machines
        PROVE  /\ machine'[x].status = machine[x].status /\ machine'[x].task = machine[x].task
               /\ machine'[x].repairEnds = machine[x].repairEnds
               /\ x # m => Owned(x)' = Owned(x)
    BY <1>4, <1>5 DEF Owned
  <2>3. \A t \in RunningTasks : task[t].machines \subseteq Machines
    BY DEF IInv, TypeOK, TaskRows, RunningTasks
  <2> QED
    BY <2>1, <2>2, <2>3 DEF ReservationsAgree, RunningTasks, Running, Employed
<1> QED
  BY <1>2, <1>8, <1>9, <1>10 DEF IInv

\* A machine that no task holds enters or leaves the workshop.
LEMMA WorkshopKeeps ==
  ASSUME IInv, TypeOK', RoomInv', ClockInv', Booked, game' = game,
         UNCHANGED <<worker, task, late>>, NEW m \in Machines, NEW r,
         machine' = [machine EXCEPT ![m] = r],
         machine[m].status \notin {"ABSENT", "WORKING"},
         r.acquired = machine[m].acquired, r.disposed = machine[m].disposed,
         r.task = machine[m].task, r.status \in {"IDLE", "IN_REPAIR"},
         r.status = "IN_REPAIR" => r.repairEnds # NoRepair /\ r.wearAt <= r.repairEnds,
         r.status = "IDLE" => r.repairEnds = NoRepair
  PROVE  IInv'
<1>1. machine \in [Machines -> MachineRows]
  BY DEF IInv, TypeOK
<1>2. \A x \in Machines : machine'[x] = IF x = m THEN r ELSE machine[x]
  BY <1>1
<1>3. ASSUME NEW s \in Sources
      PROVE  /\ From(s)' = From(s) /\ Rate(s)' = Rate(s) /\ Exists(s)' = Exists(s)
             /\ Until(s)' = Until(s)
  BY <1>2 DEF From, Until, Rate, Exists
<1>4. AccountInv'
  <2>1. \A s \in late' : Exists(s)'
    BY <1>3 DEF IInv, AccountInv, TypeOK
  <2> QED
    BY <1>3, <2>1, Accounts DEF SameRow, EndKept
<1>5. RowInv'
  <2>1. \A s \in Sources : From(s)' <= game'
    BY <1>3 DEF IInv, RowInv
  <2> QED
    BY <1>2, <2>1 DEF IInv, RowInv, RunningTasks, Running
<1>6. ReservationsAgree'
  <2>1. ReservationsAgree /\ NoTask \notin Tasks /\ task' = task /\ worker' = worker
    BY HoldingAssumption DEF IInv
  <2>2. machine[m].task = NoTask
    BY <2>1 DEF ReservationsAgree
  <2>3. ASSUME NEW x \in Machines
        PROVE  /\ (machine'[x].status = "WORKING") = (machine'[x].task # NoTask)
               /\ machine'[x].task = machine[x].task
               /\ Owned(x)' = Owned(x)
               /\ (machine'[x].status = "IN_REPAIR") = (machine'[x].repairEnds # NoRepair)
    BY <1>2, <2>1, <2>2 DEF ReservationsAgree, Owned
  <2>4. \A t \in RunningTasks : task[t].machines \subseteq Machines
    BY DEF IInv, TypeOK, TaskRows, RunningTasks
  <2> QED
    BY <2>1, <2>3, <2>4 DEF ReservationsAgree, RunningTasks, Running, Employed
<1> QED
  BY <1>4, <1>5, <1>6 DEF IInv

LEMMA RepairMachineKeeps ==
  ASSUME IInv, NEW m \in Machines, NEW n \in 1 .. FullWear, RepairMachine(m, n)
  PROVE  IInv'
<1> DEFINE d == n * RepairTime
           x == machine[m]
           r == [x EXCEPT !.status = "IN_REPAIR", !.repairEnds = now + d, !.wearAt = now]
<1>1. /\ Body /\ Owned(m) /\ machine[m].status = "IDLE" /\ UNCHANGED <<worker, task, late>>
  BY DEF RepairMachine
<1>2. TypeOK' /\ RoomInv' /\ ClockInv' /\ Booked /\ game' = game /\ now \in Nat
  BY <1>1, RepairMachineType, BodyFacts
<1>3. machine \in [Machines -> MachineRows] /\ x \in MachineRows
  BY DEF IInv, TypeOK
<1>4. machine' = [machine EXCEPT ![m] = r]
  BY <1>3 DEF RepairMachine, MachineRows
<1>5. d \in Nat /\ d > 0
  <2>1. n \in Nat /\ n >= 1 /\ RepairTime \in Nat /\ RepairTime >= 1
    BY HoldingAssumption
  <2>2. 1 * RepairTime <= n * RepairTime
    BY <2>1
  <2> QED
    BY <2>1, <2>2
<1> HIDE DEF d
<1>6. now + d \in Nat /\ now + d # 0 /\ now <= now + d
  BY <1>2, <1>5
<1>7. /\ r.acquired = x.acquired /\ r.disposed = x.disposed /\ r.task = x.task
      /\ r.status = "IN_REPAIR" /\ r.repairEnds # NoRepair /\ r.wearAt <= r.repairEnds
  BY <1>3, <1>6 DEF MachineRows, NoRepair
<1> HIDE DEF r
<1> QED
  BY <1>1, <1>2, <1>4, <1>7, WorkshopKeeps

LEMMA CompleteRepairKeeps ==
  ASSUME IInv, NEW e, CompleteRepair(e)
  PROVE  IInv'
<1> DEFINE m == e.ref
           x == machine[m]
           v == Larger(0, x.wear - ((x.repairEnds - x.wearAt) \div RepairTime))
           r == [x EXCEPT !.status = "IDLE", !.repairEnds = NoRepair, !.wear = v,
                          !.wearAt = e.due]
<1>1. /\ Take(e) /\ e \in Pending /\ e.kind = "repair" /\ UNCHANGED <<worker, task, late>>
  BY DEF CompleteRepair
<1>2. TypeOK' /\ RoomInv' /\ Booked /\ game' = game
  BY <1>1, CompleteRepairType, TakeBooked, TakeFacts
<1>3. m \in Machines /\ x.status = "IN_REPAIR"
  BY <1>1, PendingEvents
<1>4. machine \in [Machines -> MachineRows] /\ x \in MachineRows
  BY <1>3 DEF IInv, TypeOK
<1>5. machine' = [machine EXCEPT ![m] = r]
  BY <1>3, <1>4 DEF CompleteRepair, MachineRows
<1> HIDE DEF v
<1>6. /\ r.acquired = x.acquired /\ r.disposed = x.disposed /\ r.task = x.task
      /\ r.status = "IDLE" /\ r.repairEnds = NoRepair
  BY <1>4 DEF MachineRows
<1>7. ClockInv'
  <2>1. RunningTasks' = RunningTasks /\ task' = task
    BY <1>1 DEF RunningTasks, Running
  <2> QED
    BY <1>1, <2>1, OtherEvents, TakeClock
<1> HIDE DEF r, m
<1> QED
  BY <1>1, <1>2, <1>3, <1>5, <1>6, <1>7, WorkshopKeeps

-----------------------------------------------------------------------------
(* A task begins *)

LEMMA AssignTaskKeeps ==
  ASSUME IInv, NEW t \in Tasks, NEW w \in Workers, NEW M \in SUBSET Machines, NEW y \in Yields,
         AssignTask(t, w, M, y)
  PROVE  IInv'
<1> DEFINE rt == [status |-> "IN_PROGRESS", worker |-> w, machines |-> M, start |-> now,
                  scheduledEnd |-> now + WorkTime, ended |-> Never, units |-> y,
                  reserved |-> Reservation(y)]
           rw == [worker[w] EXCEPT !.status = "WORKING", !.task = t]
           rm == [m \in Machines |-> [machine[m] EXCEPT !.status = "WORKING", !.task = t]]
<1>1. /\ Body /\ task[t].status = "ABSENT" /\ IdleWorker(w) /\ \A m \in M : IdleMachine(m)
      /\ Rewrite({t}, now, mark)
      /\ task' = [task EXCEPT ![t] = rt]
  BY DEF AssignTask
<1>2. /\ TypeOK' /\ RoomInv' /\ ClockInv' /\ UNCHANGED <<mark, paid>> /\ now <= game'
      /\ game' = game
  BY <1>1, AssignTaskType, BodyFacts
<1>3. /\ worker \in [Workers -> WorkerRows] /\ machine \in [Machines -> MachineRows]
      /\ task \in [Tasks -> TaskRows]
  BY DEF IInv, TypeOK
<1>4. worker' = [worker EXCEPT ![w] = rw]
  BY <1>3 DEF AssignTask, WorkerRows
<1>5. machine' = [m \in Machines |-> IF m \in M THEN rm[m] ELSE machine[m]]
  BY DEF AssignTask
<1>6. /\ rw.status = "WORKING" /\ rw.task = t /\ rw.hired = worker[w].hired
      /\ rw.terminated = worker[w].terminated
  <2>1. worker[w] \in WorkerRows
    BY <1>3
  <2> QED
    BY <2>1 DEF WorkerRows
<1>7. ASSUME NEW m \in Machines
      PROVE  /\ rm[m].status = "WORKING" /\ rm[m].task = t
             /\ rm[m].acquired = machine[m].acquired /\ rm[m].disposed = machine[m].disposed
             /\ rm[m].repairEnds = machine[m].repairEnds
  <2>1. machine[m] \in MachineRows
    BY <1>3
  <2> QED
    BY <2>1 DEF MachineRows
<1>8. /\ rt.status = "IN_PROGRESS" /\ rt.worker = w /\ rt.machines = M /\ rt.start = now
      /\ rt.ended = Never
  OBVIOUS
<1> HIDE DEF rt, rw, rm
<1>9. /\ \A x \in Workers : worker'[x] = IF x = w THEN rw ELSE worker[x]
      /\ \A x \in Tasks : task'[x] = IF x = t THEN rt ELSE task[x]
      /\ \A m \in Machines : machine'[m] = IF m \in M THEN rm[m] ELSE machine[m]
  BY <1>1, <1>3, <1>4, <1>5
<1>10. /\ Employed(w) /\ worker[w].status = "IDLE" /\ worker[w].task = NoTask
       /\ \A m \in M : Owned(m) /\ machine[m].status = "IDLE" /\ machine[m].task = NoTask
  BY <1>1 DEF IdleWorker, IdleMachine
<1>11. ASSUME NEW s \in Sources \ {t}
       PROVE  /\ From(s)' = From(s) /\ Until(s)' = Until(s) /\ Rate(s)' = Rate(s)
              /\ Exists(s) => Exists(s)'
  <2>1. CASE s \in Workers
    BY <1>6, <1>9, <1>10, <2>1 DEF From, Until, Rate, Exists
  <2>2. CASE s \in Machines
    BY <1>7, <1>9, <1>10, <2>2, HoldingAssumption DEF From, Until, Rate, Exists
  <2>3. CASE s \in Tasks
    BY <1>9, <2>3, HoldingAssumption DEF From, Until, Rate, Exists
  <2> QED
    BY <2>1, <2>2, <2>3 DEF Sources
<1>12. From(t)' = now /\ Exists(t)' /\ ~ Exists(t) /\ t \in Sources
  BY <1>1, <1>8, <1>9, HoldingAssumption DEF From, Exists, Sources
<1>13. AccountInv'
  BY <1>1, <1>2, <1>11, <1>12, NewRowAccounts DEF SameRow
<1>14. RowInv'
  <2>1. \A s \in Sources : From(s)' <= game'
    BY <1>2, <1>11, <1>12 DEF IInv, RowInv
  <2>2. \A x \in Workers : worker'[x].status = "ABSENT" => worker'[x] = AbsentWorker
    BY <1>6, <1>9 DEF IInv, RowInv
  <2>3. \A x \in Machines : /\ machine'[x].status = "ABSENT" => machine'[x] = AbsentMachine
                            /\ machine'[x].status = "IN_REPAIR" =>
                                 machine'[x].wearAt <= machine'[x].repairEnds
    BY <1>7, <1>9 DEF IInv, RowInv
  <2>4. \A x \in Tasks : /\ task'[x].status = "ABSENT" => task'[x] = AbsentTask
                         /\ Running(x)' => task'[x].ended = Never
    BY <1>8, <1>9 DEF IInv, RowInv, RunningTasks, Running
  <2> QED
    BY <2>1, <2>2, <2>3, <2>4 DEF RowInv, RunningTasks
<1>15. ReservationsAgree'
  <2>1. ReservationsAgree /\ NoTask \notin Tasks /\ t # NoTask /\ ~ Running(t)
    BY <1>1, HoldingAssumption DEF IInv, Running
  <2>2. /\ \A x \in Tasks : Running(x)' <=> x = t \/ Running(x)
        /\ RunningTasks' = RunningTasks \cup {t} /\ t \notin RunningTasks
        /\ \A x \in RunningTasks : x \in Tasks /\ task'[x] = task[x]
    BY <1>8, <1>9, <2>1 DEF Running, RunningTasks
  <2>3. ASSUME NEW x \in Workers
        PROVE  /\ (worker'[x].status = "WORKING") = (worker'[x].task # NoTask)
               /\ \A u \in Tasks : worker'[x].task = u =>
                    (Running(u) /\ task[u].worker = x /\ Employed(x))'
    <3>1. CASE x = w
      BY <1>6, <1>8, <1>9, <1>10, <2>1, <2>2, <3>1 DEF Employed
    <3>2. CASE x # w
      BY <1>9, <2>1, <2>2, <3>2 DEF ReservationsAgree, Employed
    <3> QED
      BY <3>1, <3>2
  <2>4. ASSUME NEW x \in Machines
        PROVE  /\ (machine'[x].status = "WORKING") = (machine'[x].task # NoTask)
               /\ \A u \in Tasks : machine'[x].task = u =>
                    (Running(u) /\ x \in task[u].machines /\ Owned(x))'
               /\ (machine'[x].status = "IN_REPAIR") = (machine'[x].repairEnds # NoRepair)
    <3>1. CASE x \in M
      <4>1. machine'[x] = rm[x] /\ task'[t] = rt
        BY <1>9, <3>1
      <4>2. machine[x].repairEnds = NoRepair
        BY <1>10, <2>1, <3>1 DEF ReservationsAgree
      <4> QED
        BY <1>7, <1>8, <1>10, <2>1, <2>2, <3>1, <4>1, <4>2 DEF Owned
    <3>2. CASE x \notin M
      BY <1>9, <2>1, <2>2, <3>2 DEF ReservationsAgree, Owned
    <3> QED
      BY <3>1, <3>2
  <2>5. ASSUME NEW u \in RunningTasks'
        PROVE  /\ worker'[task'[u].worker].task = u
               /\ \A x \in task'[u].machines : machine'[x].task = u
    <3>1. CASE u = t
      BY <1>6, <1>7, <1>8, <1>9, <3>1
    <3>2. CASE u # t
      <4>1. u \in RunningTasks /\ u \in Tasks /\ task'[u] = task[u] /\ u # NoTask
        BY <2>1, <2>2, <3>2
      <4>2. task[u].worker \in Workers /\ task[u].machines \subseteq Machines
        BY <1>3, <4>1 DEF TaskRows
      <4>3. /\ worker[task[u].worker].task = u
            /\ \A x \in task[u].machines : machine[x].task = u
        BY <2>1, <4>1 DEF ReservationsAgree
      <4> QED
        BY <1>9, <1>10, <4>1, <4>2, <4>3
    <3> QED
      BY <3>1, <3>2
  <2> QED
    BY <2>3, <2>4, <2>5 DEF ReservationsAgree
<1> QED
  BY <1>2, <1>13, <1>14, <1>15 DEF IInv

-----------------------------------------------------------------------------
(* Tasks close *)

\* What closing the tasks of T may do to a worker and to a machine: who was held goes idle, and
\* who goes away is held by no task any more.
WorkersFreed(T) ==
  \A w \in Workers :
    /\ worker'[w].hired = worker[w].hired
    /\ worker[w].task \in T => worker'[w].status = "IDLE" /\ worker'[w].task = NoTask
    /\ worker[w].task \notin T => /\ worker'[w].status = worker[w].status
                                  /\ worker'[w].task = worker[w].task
    /\ worker'[w].terminated # worker[w].terminated => worker'[w].task = NoTask
    /\ ~ Employed(w) => worker'[w] = worker[w]

MachinesFreed(T) ==
  \A m \in Machines :
    /\ machine'[m].acquired = machine[m].acquired
    /\ machine'[m].repairEnds = machine[m].repairEnds
    /\ machine[m].task \in T => machine'[m].status = "IDLE" /\ machine'[m].task = NoTask
    /\ machine[m].task \notin T => /\ machine'[m].status = machine[m].status
                                   /\ machine'[m].task = machine[m].task
                                   /\ machine'[m].wearAt = machine[m].wearAt
    /\ machine'[m].disposed # machine[m].disposed => machine'[m].task = NoTask
    /\ ~ Owned(m) => machine'[m] = machine[m]

LEMMA WorkersBackFreed ==
  ASSUME IInv, NEW T \in SUBSET RunningTasks, worker' = WorkersBack(T)
  PROVE  /\ WorkersFreed(T)
         /\ \A w \in Workers : worker'[w].terminated = worker[w].terminated
<1>1. TypeOK /\ ReservationsAgree /\ T \subseteq Tasks
  BY DEF IInv, RunningTasks
<1>2. ASSUME NEW w \in Workers
      PROVE  /\ worker'[w].hired = worker[w].hired
             /\ worker'[w].terminated = worker[w].terminated
             /\ worker[w].task \in T => worker'[w].status = "IDLE" /\ worker'[w].task = NoTask
             /\ worker[w].task \notin T => worker'[w] = worker[w]
             /\ ~ Employed(w) => worker'[w] = worker[w]
  <2>1. worker[w] \in WorkerRows
    BY <1>1 DEF TypeOK
  <2>2. worker[w].task \in T => Employed(w)
    BY <1>1 DEF ReservationsAgree
  <2>3. CASE worker[w].task \in T
    <3>1. worker'[w] = [worker[w] EXCEPT !.status = "IDLE", !.task = NoTask]
      BY <1>1, <2>3, FreeWorkers
    <3> QED
      BY <2>1, <2>2, <2>3, <3>1 DEF WorkerRows
  <2>4. CASE worker[w].task \notin T
    BY <1>1, <2>4, FreeWorkers
  <2> QED
    BY <2>3, <2>4
<1> QED
  BY <1>2 DEF WorkersFreed

LEMMA MachinesBackFreed ==
  ASSUME IInv, NEW T \in SUBSET RunningTasks, NEW end \in [Tasks -> Nat],
         machine' = MachinesBack(T, end)
  PROVE  /\ MachinesFreed(T)
         /\ \A m \in Machines : machine'[m].disposed = machine[m].disposed
<1>1. TypeOK /\ ReservationsAgree /\ T \subseteq Tasks
  BY DEF IInv, RunningTasks
<1>2. ASSUME NEW m \in Machines
      PROVE  /\ machine'[m].acquired = machine[m].acquired
             /\ machine'[m].disposed = machine[m].disposed
             /\ machine'[m].repairEnds = machine[m].repairEnds
             /\ machine[m].task \in T => machine'[m].status = "IDLE" /\ machine'[m].task = NoTask
             /\ machine[m].task \notin T => machine'[m] = machine[m]
             /\ ~ Owned(m) => machine'[m] = machine[m]
  <2>1. machine[m].task \in T => Owned(m)
    BY <1>1 DEF ReservationsAgree
  <2> QED
    BY <1>1, <2>1, FreeMachines
<1> QED
  BY <1>2 DEF MachinesFreed

\* The rows after the tasks of T close.
LEMMA ClosingRows ==
  ASSUME IInv, TypeOK', game' = game, NEW T \in SUBSET RunningTasks,
         NEW st \in {"COMPLETED", "CANCELED"}, NEW end \in [Tasks -> Nat],
         task' = TasksClosed(T, st, end), WorkersFreed(T), MachinesFreed(T)
  PROVE  /\ RowInv' /\ ReservationsAgree'
         /\ \A s \in Sources : SameRow(s)
         /\ RunningTasks' = RunningTasks \ T
         /\ \A t \in Tasks : /\ task'[t].scheduledEnd = task[t].scheduledEnd
                             /\ t \in T => task'[t].ended = end[t]
                             /\ t \notin T => task'[t] = task[t]
<1>1. /\ TypeOK /\ ReservationsAgree /\ RowInv /\ T \subseteq Tasks /\ NoTask \notin Tasks
      /\ task \in [Tasks -> TaskRows]
  BY HoldingAssumption DEF IInv, RunningTasks, TypeOK
<1>2. ASSUME NEW t \in Tasks
      PROVE  /\ t \in T => /\ task'[t].status = st /\ task'[t].ended = end[t]
                           /\ task'[t].start = task[t].start
                           /\ task'[t].scheduledEnd = task[t].scheduledEnd
                           /\ task'[t].machines = task[t].machines
                           /\ task[t].status = "IN_PROGRESS"
             /\ t \notin T => task'[t] = task[t]
  <2>1. task'[t] = IF t \in T THEN [task[t] EXCEPT !.status = st, !.ended = end[t]] ELSE task[t]
    BY DEF TasksClosed
  <2>2. task[t] \in TaskRows
    BY <1>1
  <2> QED
    BY <2>1, <2>2 DEF TaskRows, RunningTasks, Running
<1>3. RunningTasks' = RunningTasks \ T
  BY <1>2 DEF RunningTasks, Running
<1>4. ASSUME NEW s \in Sources
      PROVE  SameRow(s)
  <2>1. CASE s \in Workers
    BY <2>1, <1>1 DEF SameRow, From, Rate, Exists, WorkersFreed
  <2>2. CASE s \in Machines
    BY <2>2, <1>1, HoldingAssumption DEF SameRow, From, Rate, Exists, MachinesFreed
  <2>3. CASE s \in Tasks
    BY <1>2, <2>3, HoldingAssumption DEF SameRow, From, Rate, Exists
  <2> QED
    BY <2>1, <2>2, <2>3 DEF Sources
<1>5. RowInv'
  <2>1. ASSUME NEW w \in Workers, worker'[w].status = "ABSENT"
        PROVE  worker'[w] = AbsentWorker
    <3>1. worker[w].status = "ABSENT"
      BY <2>1 DEF WorkersFreed
    <3>2. ~ Employed(w)
      BY <3>1 DEF Employed
    <3> QED
      BY <1>1, <3>1, <3>2 DEF WorkersFreed, RowInv
  <2>2. ASSUME NEW m \in Machines, machine'[m].status = "ABSENT"
        PROVE  machine'[m] = AbsentMachine
    <3>1. machine[m].status = "ABSENT"
      BY <2>2 DEF MachinesFreed
    <3>2. ~ Owned(m)
      BY <3>1 DEF Owned
    <3> QED
      BY <1>1, <3>1, <3>2 DEF MachinesFreed, RowInv
  <2>3. \A m \in Machines : machine'[m].status = "IN_REPAIR" =>
                              machine'[m].wearAt <= machine'[m].repairEnds
    BY <1>1 DEF MachinesFreed, RowInv
  <2>4. \A t \in Tasks : /\ task'[t].status = "ABSENT" => task'[t] = AbsentTask
                         /\ t \in RunningTasks' => task'[t].ended = Never
    BY <1>1, <1>2, <1>3 DEF RowInv
  <2>5. \A s \in Sources : From(s)' <= game'
    BY <1>1, <1>4 DEF SameRow, RowInv
  <2>6. RunningTasks' \subseteq Tasks
    BY <1>1, <1>3 DEF RunningTasks
  <2> QED
    BY <2>1, <2>2, <2>3, <2>4, <2>5, <2>6 DEF RowInv
<1>6. ReservationsAgree'
  <2>1. \A t \in Tasks : Running(t)' <=> Running(t) /\ t \notin T
    BY <1>2 DEF Running
  <2>2. ASSUME NEW w \in Workers
        PROVE  /\ (worker'[w].status = "WORKING") = (worker'[w].task # NoTask)
               /\ \A t \in Tasks : worker'[w].task = t =>
                    (Running(t) /\ task[t].worker = w /\ Employed(w))'
    <3>1. CASE worker[w].task \in T
      BY <1>1, <3>1 DEF WorkersFreed
    <3>2. CASE worker[w].task \notin T
      <4>1. worker'[w].status = worker[w].status /\ worker'[w].task = worker[w].task
        BY <3>2 DEF WorkersFreed
      <4>2. ASSUME NEW t \in Tasks, worker'[w].task = t
            PROVE  (Running(t) /\ task[t].worker = w /\ Employed(w))'
        <5>1. Running(t) /\ task[t].worker = w /\ Employed(w) /\ t \notin T /\ t # NoTask
          BY <1>1, <3>2, <4>1, <4>2 DEF ReservationsAgree
        <5>2. worker'[w].terminated = worker[w].terminated
          BY <4>2, <5>1 DEF WorkersFreed
        <5> QED
          BY <1>2, <2>1, <4>1, <5>1, <5>2 DEF Employed
      <4> QED
        BY <1>1, <4>1, <4>2 DEF ReservationsAgree
    <3> QED
      BY <3>1, <3>2
  <2>3. ASSUME NEW m \in Machines
        PROVE  /\ (machine'[m].status = "WORKING") = (machine'[m].task # NoTask)
               /\ \A t \in Tasks : machine'[m].task = t =>
                    (Running(t) /\ m \in task[t].machines /\ Owned(m))'
               /\ (machine'[m].status = "IN_REPAIR") = (machine'[m].repairEnds # NoRepair)
    <3>1. CASE machine[m].task \in T
      <4>1. machine[m].status = "WORKING" /\ machine[m].repairEnds = NoRepair
        BY <1>1, <3>1 DEF ReservationsAgree
      <4> QED
        BY <1>1, <3>1, <4>1 DEF MachinesFreed
    <3>2. CASE machine[m].task \notin T
      <4>1. machine'[m].status = machine[m].status /\ machine'[m].task = machine[m].task
            /\ machine'[m].repairEnds = machine[m].repairEnds
        BY <3>2 DEF MachinesFreed
      <4>2. ASSUME NEW t \in Tasks, machine'[m].task = t
            PROVE  (Running(t) /\ m \in task[t].machines /\ Owned(m))'
        <5>1. Running(t) /\ m \in task[t].machines /\ Owned(m) /\ t \notin T /\ t # NoTask
          BY <1>1, <3>2, <4>1, <4>2 DEF ReservationsAgree
        <5>2. machine'[m].disposed = machine[m].disposed
          BY <4>2, <5>1 DEF MachinesFreed
        <5> QED
          BY <1>2, <2>1, <4>1, <5>1, <5>2 DEF Owned
      <4> QED
        BY <1>1, <4>1, <4>2 DEF ReservationsAgree
    <3> QED
      BY <3>1, <3>2
  <2>4. ASSUME NEW t \in RunningTasks'
        PROVE  /\ worker'[task'[t].worker].task = t
               /\ \A m \in task'[t].machines : machine'[m].task = t
    <3>1. t \in RunningTasks /\ t \in Tasks /\ t \notin T /\ task'[t] = task[t]
      BY <1>2, <1>3 DEF RunningTasks
    <3>2. task[t].worker \in Workers /\ task[t].machines \subseteq Machines
      BY <1>1, <3>1 DEF TaskRows
    <3>3. worker[task[t].worker].task = t /\ \A m \in task[t].machines : machine[m].task = t
      BY <1>1, <3>1 DEF ReservationsAgree
    <3> QED
      BY <3>1, <3>2, <3>3 DEF WorkersFreed, MachinesFreed
  <2> QED
    BY <2>2, <2>3, <2>4 DEF ReservationsAgree
<1> QED
  BY <1>2, <1>3, <1>4, <1>5, <1>6

LEMMA CompleteTaskKeeps ==
  ASSUME IInv, NEW e, CompleteTask(e)
  PROVE  IInv'
<1> DEFINE end == [t \in Tasks |-> e.due]
<1>1. /\ Take(e) /\ e \in Pending /\ e.kind = "task" /\ late' = late
      /\ task' = TasksClosed({e.ref}, "COMPLETED", end)
      /\ machine' = MachinesBack({e.ref}, end) /\ worker' = WorkersBack({e.ref})
  BY DEF CompleteTask
<1>2. /\ e.ref \in RunningTasks /\ e.ref \in Tasks /\ {e.ref} \in SUBSET RunningTasks
      /\ e.due = task[e.ref].scheduledEnd
  BY <1>1, PendingEvents DEF RunningTasks
<1>3. end \in [Tasks -> Nat] /\ end[e.ref] = e.due /\ e.due \in Nat /\ e.due <= game
      /\ game' = game
  BY <1>1, <1>2, TakeFacts
<1> HIDE DEF end
<1>4. TypeOK' /\ RoomInv' /\ Booked
  BY <1>1, CompleteTaskType, TakeBooked
<1>5. /\ WorkersFreed({e.ref}) /\ \A w \in Workers : worker'[w].terminated = worker[w].terminated
      /\ MachinesFreed({e.ref}) /\ \A m \in Machines : machine'[m].disposed = machine[m].disposed
  BY <1>1, <1>2, <1>3, WorkersBackFreed, MachinesBackFreed
<1>6. /\ RowInv' /\ ReservationsAgree'
      /\ \A s \in Sources : SameRow(s)
      /\ RunningTasks' = RunningTasks \ {e.ref}
      /\ \A t \in Tasks : /\ task'[t].scheduledEnd = task[t].scheduledEnd
                          /\ t \in {e.ref} => task'[t].ended = end[t]
                          /\ t \notin {e.ref} => task'[t] = task[t]
  BY <1>1, <1>2, <1>3, <1>4, <1>5, ClosingRows
<1>7. ASSUME NEW s \in Sources
      PROVE  EndKept(s)
  <2>1. CASE s \in Workers
    BY <1>5, <2>1 DEF EndKept, Until
  <2>2. CASE s \in Machines
    BY <1>5, <2>2, HoldingAssumption DEF EndKept, Until
  <2>3. CASE s \in Tasks /\ s # e.ref
    BY <1>6, <2>3, HoldingAssumption DEF EndKept, Until
  <2>4. CASE s = e.ref
    <3>1. s \notin Workers /\ s \notin Machines
      BY <1>2, <2>4, HoldingAssumption
    <3>2. Until(s) = e.due
      BY <1>2, <2>4, <3>1 DEF IInv, RowInv, Until
    <3>3. task'[s].ended = e.due /\ e.due # Never
      BY <1>2, <1>3, <1>6, <2>4, HoldingAssumption DEF IInv, TypeOK, Never
    <3> QED
      BY <3>1, <3>2, <3>3 DEF EndKept, Until
  <2> QED
    BY <2>1, <2>2, <2>3, <2>4 DEF Sources
<1>8. AccountInv'
  <2>1. \A s \in late' : Exists(s)'
    BY <1>1, <1>6 DEF IInv, AccountInv, TypeOK, SameRow
  <2> QED
    BY <1>1, <1>4, <1>6, <1>7, <2>1, Accounts
<1>9. ClockInv'
  <2>1. \A t \in RunningTasks' : t \in RunningTasks /\ t \in Tasks /\ t # e.ref
    BY <1>6 DEF RunningTasks
  <2>2. \A t \in RunningTasks' : TaskEvent(t) # e
    <3>1. \A t \in RunningTasks' : TaskEvent(t).ref = t
      BY DEF TaskEvent
    <3> QED
      BY <2>1, <3>1
  <2> QED
    BY <1>1, <1>6, <2>1, <2>2, TakeClock
<1> QED
  BY <1>4, <1>6, <1>8, <1>9 DEF IInv

LEMMA CancelTaskKeeps ==
  ASSUME IInv, NEW u \in Tasks, CancelTask(u)
  PROVE  IInv'
<1> DEFINE end == EndsFor(now)
<1>1. /\ Body /\ Running(u)
      /\ task' = TasksClosed({u}, "CANCELED", end)
      /\ machine' = MachinesBack({u}, end) /\ worker' = WorkersBack({u})
      /\ late' = IF EndFor(u, now) < mark \/ EndFor(u, now) > task[u].scheduledEnd
                 THEN late \cup {u} ELSE late
  BY DEF CancelTask
<1>2. u \in RunningTasks /\ {u} \in SUBSET RunningTasks /\ u \in Sources
  BY <1>1 DEF RunningTasks, Sources
<1>3. end \in [Tasks -> Nat] /\ end[u] = EndFor(u, now) /\ EndFor(u, now) \in Nat
  BY <1>1, <1>2, BodyFacts, EndsForType DEF IInv, EndsFor
<1> HIDE DEF end
<1>4. TypeOK' /\ RoomInv' /\ ClockInv' /\ Booked /\ game' = game /\ mark' = mark /\ mark \in Nat
  BY <1>1, CancelTaskType, BodyFacts
<1>5. /\ WorkersFreed({u}) /\ \A w \in Workers : worker'[w].terminated = worker[w].terminated
      /\ MachinesFreed({u}) /\ \A m \in Machines : machine'[m].disposed = machine[m].disposed
  BY <1>1, <1>2, <1>3, WorkersBackFreed, MachinesBackFreed
<1>6. /\ RowInv' /\ ReservationsAgree'
      /\ \A s \in Sources : SameRow(s)
      /\ \A t \in Tasks : /\ task'[t].scheduledEnd = task[t].scheduledEnd
                          /\ t \in {u} => task'[t].ended = end[t]
                          /\ t \notin {u} => task'[t] = task[t]
  BY <1>1, <1>2, <1>3, <1>4, <1>5, ClosingRows
<1>7. ASSUME NEW s \in Sources \ late'
      PROVE  EndKept(s)
  <2>1. CASE s \in Workers
    BY <1>5, <2>1 DEF EndKept, Until
  <2>2. CASE s \in Machines
    BY <1>5, <2>2, HoldingAssumption DEF EndKept, Until
  <2>3. CASE s \in Tasks /\ s # u
    BY <1>6, <2>3, HoldingAssumption DEF EndKept, Until
  <2>4. CASE s = u
    <3>1. s \notin Workers /\ s \notin Machines
      BY <2>4, HoldingAssumption
    <3>2. Until(s) = task[u].scheduledEnd /\ task[u].scheduledEnd \in Nat
      BY <1>2, <2>4, <3>1 DEF IInv, RowInv, Until, TypeOK, TaskRows
    <3>3. mark <= EndFor(u, now) /\ EndFor(u, now) <= task[u].scheduledEnd
      BY <1>1, <1>3, <1>4, <1>7, <2>4, <3>2
    <3>4. task'[s].ended = EndFor(u, now) /\ task'[s].scheduledEnd = task[u].scheduledEnd
      BY <1>3, <1>6, <2>4
    <3>5. Until(s)' \in {task[u].scheduledEnd, EndFor(u, now)}
      BY <3>1, <3>4 DEF Until
    <3>6. mark <= task[u].scheduledEnd
      BY <1>3, <1>4, <3>2, <3>3
    <3> QED
      BY <1>4, <3>2, <3>3, <3>5, <3>6 DEF EndKept
  <2> QED
    BY <2>1, <2>2, <2>3, <2>4 DEF Sources
<1>8. AccountInv'
  <2>1. late \subseteq late' /\ late' \subseteq late \cup {u}
    BY <1>1
  <2>2. Exists(u)
    BY <1>1, HoldingAssumption DEF Exists, Running
  <2>3. \A s \in late' : Exists(s)'
    BY <1>2, <1>6, <2>1, <2>2 DEF IInv, AccountInv, TypeOK, SameRow
  <2> QED
    BY <1>4, <1>6, <1>7, <2>1, <2>3, Accounts
<1> QED
  BY <1>4, <1>6, <1>8 DEF IInv

-----------------------------------------------------------------------------
(* The liquidations *)

LEMMA SellingSweepKeeps ==
  ASSUME IInv, NEW e, NEW M \in SUBSET Machines, SellingSweep(e, M)
  PROVE  IInv'
<1>1. /\ Take(e) /\ e.kind # "task" /\ M \subseteq Idle /\ Rewrite(M, e.due, mark')
      /\ UNCHANGED <<worker, task>>
      /\ machine' = [m \in Machines |-> IF m \in M
                       THEN [machine[m] EXCEPT !.disposed = EndFor(m, e.due)] ELSE machine[m]]
  BY DEF SellingSweep, SoldFor
<1>2. TypeOK' /\ RoomInv' /\ Booked
  BY <1>1, SellingSweepType, TakeBooked
<1>3. /\ e.due \in Nat /\ game' = game /\ game \in Nat /\ game <= MaxGame /\ MaxGame \in Nat
      /\ mark' \in 0 .. game /\ TypeOK
  BY <1>1, TakeFacts, HoldingAssumption DEF IInv, TypeOK
<1>4. ASSUME NEW m \in Machines
      PROVE  /\ machine'[m].acquired = machine[m].acquired
             /\ machine'[m].status = machine[m].status /\ machine'[m].task = machine[m].task
             /\ machine'[m].wearAt = machine[m].wearAt
             /\ machine'[m].repairEnds = machine[m].repairEnds
             /\ m \notin M => machine'[m] = machine[m]
             /\ m \in M => machine'[m].disposed = EndFor(m, e.due) /\ Owned(m) /\ IdleMachine(m)
  <2>1. machine[m] \in MachineRows
    BY <1>3 DEF TypeOK
  <2>2. m \in M => IdleMachine(m) /\ Owned(m)
    BY <1>1 DEF Idle, IdleMachine
  <2> QED
    BY <1>1, <2>1, <2>2 DEF MachineRows
<1>5. ASSUME NEW s \in Sources
      PROVE  /\ From(s)' = From(s) /\ Rate(s)' = Rate(s) /\ Exists(s)' = Exists(s)
             /\ s \notin M => Until(s)' = Until(s)
  BY <1>1, <1>4 DEF From, Rate, Exists, Until
<1>6. late \subseteq late' /\ late' \subseteq late \cup M
      /\ (e.due < mark' => late' = late \cup M)
  BY <1>1 DEF Rewrite
<1>7. ASSUME NEW s \in Sources \ late'
      PROVE  EndKept(s)
  <2>1. CASE s \notin M
    BY <1>5, <2>1 DEF EndKept
  <2>2. CASE s \in M
    <3>1. s \in Machines /\ s \notin Workers /\ mark' <= e.due
      BY <1>3, <1>6, <1>7, <2>2, HoldingAssumption
    <3>2. Until(s) = Never
      BY <1>4, <2>2, <3>1 DEF Until, Owned
    <3>3. mark' <= Never
      BY <1>3 DEF Never
    <3>4. Until(s)' = Larger(From(s), e.due)
      BY <1>4, <2>2, <3>1 DEF Until, EndFor
    <3>5. mark' <= Larger(From(s), e.due)
      BY <1>3, <3>1, RowFacts DEF Larger
    <3> QED
      BY <3>2, <3>3, <3>4, <3>5 DEF EndKept
  <2> QED
    BY <2>1, <2>2
<1>8. AccountInv'
  <2>1. \A s \in M : Exists(s)
    BY <1>4, HoldingAssumption DEF Owned, Exists
  <2>2. \A s \in late' : Exists(s)'
    BY <1>3, <1>5, <1>6, <2>1 DEF IInv, AccountInv, TypeOK, Sources
  <2> QED
    BY <1>2, <1>5, <1>6, <1>7, <2>2, Accounts DEF SameRow
<1>9. RowInv'
  <2>1. \A s \in Sources : From(s)' <= game'
    BY <1>3, <1>5 DEF IInv, RowInv
  <2>2. \A m \in Machines : machine'[m].status = "ABSENT" => machine'[m] = AbsentMachine
    BY <1>4 DEF IInv, RowInv, Owned
  <2>3. \A m \in Machines : machine'[m].status = "IN_REPAIR" =>
                              machine'[m].wearAt <= machine'[m].repairEnds
    BY <1>4 DEF IInv, RowInv
  <2> QED
    BY <1>1, <2>1, <2>2, <2>3 DEF IInv, RowInv, RunningTasks, Running
<1>10. ReservationsAgree'
  <2>1. ReservationsAgree /\ NoTask \notin Tasks /\ task' = task /\ worker' = worker
    BY <1>1, HoldingAssumption DEF IInv
  <2>2. ASSUME NEW m \in Machines, machine[m].task # NoTask
        PROVE  Owned(m)' = Owned(m)
    <3>1. m \notin M
      BY <1>4, <2>2 DEF IdleMachine
    <3> QED
      BY <1>4, <3>1 DEF Owned
  <2>3. \A t \in RunningTasks : task[t].machines \subseteq Machines
    BY <1>3 DEF TypeOK, TaskRows, RunningTasks
  <2> QED
    BY <1>4, <2>1, <2>2, <2>3 DEF ReservationsAgree, RunningTasks, Running, Employed
<1>11. ClockInv'
  <2>1. RunningTasks' = RunningTasks /\ task' = task
    BY <1>1 DEF RunningTasks, Running
  <2> QED
    BY <1>1, <2>1, OtherEvents, TakeClock
<1> QED
  BY <1>2, <1>8, <1>9, <1>10, <1>11 DEF IInv

LEMMA RuinousSweepKeeps ==
  ASSUME IInv, NEW e, RuinousSweep(e)
  PROVE  IInv'
<1> DEFINE end == EndsFor(e.due)
           back == MachinesBack(RunningTasks, end)
           free == WorkersBack(RunningTasks)
           gone == {w \in Workers : Employed(w)}
<1>1. /\ Take(e) /\ e.kind # "task"
      /\ task' = TasksClosed(RunningTasks, "CANCELED", end)
      /\ machine' = [m \in Machines |-> IF m \in Idle
                       THEN [machine[m] EXCEPT !.disposed = EndFor(m, e.due)] ELSE back[m]]
      /\ worker' = [w \in Workers |-> IF w \in gone
                       THEN [free[w] EXCEPT !.terminated = EndFor(w, e.due)] ELSE free[w]]
      /\ Rewrite(Idle \cup RunningTasks \cup gone, e.due, mark')
  BY DEF RuinousSweep
<1>2. TypeOK' /\ RoomInv' /\ Booked
  BY <1>1, RuinousSweepType, TakeBooked
<1>3. /\ e.due \in Nat /\ game' = game /\ game \in Nat /\ game <= MaxGame /\ MaxGame \in Nat
      /\ mark' \in 0 .. game /\ TypeOK /\ ReservationsAgree /\ e.due <= mark'
  BY <1>1, TakeFacts, HoldingAssumption DEF IInv, TypeOK
<1>4. /\ end \in [Tasks -> Nat] /\ \A t \in Tasks : end[t] = EndFor(t, e.due)
      /\ RunningTasks \subseteq Tasks
  BY <1>3, EndsForType DEF EndsFor, RunningTasks
<1> HIDE DEF end
<1>5. ASSUME NEW w \in Workers
      PROVE  /\ worker'[w].hired = worker[w].hired
             /\ worker[w].task \in RunningTasks =>
                  worker'[w].status = "IDLE" /\ worker'[w].task = NoTask
             /\ worker[w].task \notin RunningTasks => /\ worker'[w].status = worker[w].status
                                                      /\ worker'[w].task = worker[w].task
             /\ worker'[w].task = NoTask
             /\ ~ Employed(w) => worker'[w] = worker[w]
             /\ Employed(w) => worker'[w].terminated = EndFor(w, e.due)
  <2>1. worker[w] \in WorkerRows
    BY <1>3 DEF TypeOK
  <2>2. /\ worker[w].task \in RunningTasks => Employed(w)
        /\ worker[w].task # NoTask => worker[w].task \in RunningTasks
    BY <1>3, <2>1 DEF ReservationsAgree, RunningTasks, WorkerRows
  <2>3. /\ free[w] \in WorkerRows
        /\ free[w].hired = worker[w].hired
        /\ worker[w].task \in RunningTasks => free[w].status = "IDLE" /\ free[w].task = NoTask
        /\ worker[w].task \notin RunningTasks => free[w] = worker[w]
    <3>1. CASE worker[w].task \in RunningTasks
      <4>1. free[w] = [worker[w] EXCEPT !.status = "IDLE", !.task = NoTask]
        BY <1>3, <3>1, FreeWorkers
      <4> QED
        BY <2>1, <3>1, <4>1 DEF WorkerRows
    <3>2. CASE worker[w].task \notin RunningTasks
      <4>1. free[w] = worker[w]
        BY <1>3, <3>2, FreeWorkers
      <4> QED
        BY <2>1, <3>2, <4>1
    <3> QED
      BY <3>1, <3>2
  <2>4. worker'[w] = IF Employed(w) THEN [free[w] EXCEPT !.terminated = EndFor(w, e.due)]
                     ELSE free[w]
    BY <1>1
  <2> HIDE DEF free
  <2> QED
    BY <2>1, <2>2, <2>3, <2>4 DEF WorkerRows
<1>6. ASSUME NEW m \in Machines
      PROVE  /\ machine'[m].acquired = machine[m].acquired
             /\ machine'[m].repairEnds = machine[m].repairEnds
             /\ machine[m].task \in RunningTasks =>
                  machine'[m].status = "IDLE" /\ machine'[m].task = NoTask
             /\ machine[m].task \notin RunningTasks => /\ machine'[m].status = machine[m].status
                                                       /\ machine'[m].task = machine[m].task
                                                       /\ machine'[m].wearAt = machine[m].wearAt
             /\ m \notin Idle => machine'[m].disposed = machine[m].disposed
             /\ m \in Idle => /\ machine'[m].disposed = EndFor(m, e.due)
                              /\ Owned(m) /\ machine'[m].task = NoTask
             /\ ~ Owned(m) => machine'[m] = machine[m]
  <2>1. machine[m] \in MachineRows
    BY <1>3 DEF TypeOK
  <2>2. machine[m].task \in RunningTasks => Owned(m)
    BY <1>3, <1>4 DEF ReservationsAgree
  <2>3. m \in Idle => Owned(m) /\ machine[m].task = NoTask /\ NoTask \notin RunningTasks
    BY <1>4, HoldingAssumption DEF Idle, IdleMachine
  <2>4. CASE m \in Idle
    <3>1. machine'[m] = [machine[m] EXCEPT !.disposed = EndFor(m, e.due)]
      BY <1>1, <2>4
    <3> QED
      BY <2>1, <2>3, <2>4, <3>1 DEF MachineRows
  <2>5. CASE m \notin Idle
    <3>1. machine'[m] = back[m]
      BY <1>1, <2>5
    <3> HIDE DEF back
    <3>2. /\ machine[m].task \in RunningTasks =>
               /\ back[m].status = "IDLE" /\ back[m].task = NoTask
               /\ back[m].repairEnds = machine[m].repairEnds
          /\ machine[m].task \notin RunningTasks => back[m] = machine[m]
          /\ back[m].acquired = machine[m].acquired /\ back[m].disposed = machine[m].disposed
      BY <1>3, <1>4, FreeMachines DEF back
    <3> QED
      BY <2>2, <2>5, <3>1, <3>2
  <2> QED
    BY <2>4, <2>5
<1>7. WorkersFreed(RunningTasks)
  BY <1>5 DEF WorkersFreed
<1>8. MachinesFreed(RunningTasks)
  BY <1>6 DEF MachinesFreed
<1>9. /\ RowInv' /\ ReservationsAgree'
      /\ \A s \in Sources : SameRow(s)
      /\ RunningTasks' = RunningTasks \ RunningTasks
      /\ \A t \in Tasks : /\ task'[t].scheduledEnd = task[t].scheduledEnd
                          /\ t \in RunningTasks => task'[t].ended = end[t]
                          /\ t \notin RunningTasks => task'[t] = task[t]
  BY <1>1, <1>2, <1>3, <1>4, <1>7, <1>8, ClosingRows
<1>10. /\ late \subseteq late' /\ late' \subseteq late \cup (Idle \cup RunningTasks \cup gone)
       /\ e.due < mark' => late' = late \cup (Idle \cup RunningTasks \cup gone)
  BY <1>1 DEF Rewrite
<1>11. ASSUME NEW s \in Sources \ late'
       PROVE  EndKept(s)
  <2>1. /\ mark' <= Never
        /\ s \in Idle \cup RunningTasks \cup gone => mark' <= e.due /\ mark' <= EndFor(s, e.due)
    BY <1>3, <1>10, <1>11, RowFacts DEF Never, EndFor, Larger
  <2>2. CASE s \in Workers
    <3>1. CASE Employed(s)
      <4>1. Until(s) = Never /\ Until(s)' = EndFor(s, e.due)
        BY <1>5, <2>2, <3>1 DEF Until, Employed
      <4> QED
        BY <2>1, <2>2, <3>1, <4>1 DEF EndKept
    <3>2. CASE ~ Employed(s)
      BY <1>5, <2>2, <3>2 DEF EndKept, Until
    <3> QED
      BY <3>1, <3>2
  <2>3. CASE s \in Machines
    <3>1. s \notin Workers
      BY <2>3, HoldingAssumption
    <3>2. CASE s \in Idle
      <4>1. Until(s) = Never /\ Until(s)' = EndFor(s, e.due)
        BY <1>6, <2>3, <3>1, <3>2 DEF Until, Owned
      <4> QED
        BY <2>1, <3>2, <4>1 DEF EndKept
    <3>3. CASE s \notin Idle
      BY <1>6, <2>3, <3>1, <3>3 DEF EndKept, Until
    <3> QED
      BY <3>2, <3>3
  <2>4. CASE s \in Tasks
    <3>1. s \notin Workers /\ s \notin Machines
      BY <2>4, HoldingAssumption
    <3>2. CASE s \in RunningTasks
      <4>1. task'[s].ended = EndFor(s, e.due) /\ task'[s].scheduledEnd = task[s].scheduledEnd
        BY <1>4, <1>9, <2>4, <3>2
      <4>2. Until(s) = task[s].scheduledEnd /\ task[s].scheduledEnd \in Nat
        BY <2>4, <3>1, <3>2 DEF IInv, RowInv, Until, TypeOK, TaskRows
      <4>3. Until(s)' \in {task[s].scheduledEnd, EndFor(s, e.due)}
        BY <3>1, <4>1 DEF Until
      <4>4. e.due <= task[s].scheduledEnd /\ mark' <= e.due
        BY <1>1, <2>1, <3>2, EventsInOrder
      <4>5. mark' <= task[s].scheduledEnd
        BY <1>3, <4>2, <4>4
      <4> QED
        BY <2>1, <3>2, <4>2, <4>3, <4>5 DEF EndKept
    <3>3. CASE s \notin RunningTasks
      BY <1>9, <2>4, <3>1, <3>3 DEF EndKept, Until
    <3> QED
      BY <3>2, <3>3
  <2> QED
    BY <2>2, <2>3, <2>4 DEF Sources
<1>12. AccountInv'
  <2>1. \A s \in Idle : s \in Sources /\ Exists(s)
    BY HoldingAssumption DEF Idle, IdleMachine, Owned, Exists, Sources
  <2>2. \A s \in RunningTasks : s \in Sources /\ Exists(s)
    BY HoldingAssumption DEF RunningTasks, Running, Exists, Sources
  <2>3. \A s \in gone : s \in Sources /\ Exists(s)
    BY DEF Employed, Exists, Sources
  <2>4. \A s \in late : s \in Sources /\ Exists(s)
    BY DEF IInv, AccountInv, TypeOK
  <2>5. \A s \in late' : Exists(s)'
    BY <1>9, <1>10, <2>1, <2>2, <2>3, <2>4 DEF SameRow
  <2> QED
    BY <1>2, <1>9, <1>10, <1>11, <2>5, Accounts
<1>13. ClockInv'
  BY <1>1, <1>9, TakeClock
<1> QED
  BY <1>2, <1>9, <1>12, <1>13 DEF IInv

-----------------------------------------------------------------------------
(* The theorems *)

LEMMA Initial == Init => IInv
<1> SUFFICES ASSUME Init
             PROVE  IInv
  OBVIOUS
<1>1. TypeOK /\ RoomInv
  BY InitTypeAndRoom
<1>2. RunningTasks = {}
  BY DEF Init, RunningTasks, Running, AbsentTask
<1>3. ClockInv
  BY <1>2 DEF Init, ClockInv
<1>4. ASSUME NEW s \in Sources
      PROVE  From(s) = 0
  BY <1>4 DEF Init, From, AbsentWorker, AbsentMachine, AbsentTask, Sources
<1>5. RowInv
  BY <1>2, <1>4 DEF Init, RowInv, AbsentMachine
<1>6. ReservationsAgree
  BY <1>2, HoldingAssumption
  DEF Init, ReservationsAgree, AbsentWorker, AbsentMachine, NoRepair
<1>7. AccountInv
  <2>1. ASSUME NEW s \in Sources
        PROVE  /\ paid[s] = Cost(s, 0, mark)
               /\ paid[s] <= Rate(s) * Larger(0, mark - From(s))
    <3>1. paid[s] = 0 /\ mark = 0 /\ From(s) = 0 /\ Until(s) \in Nat /\ Rate(s) \in Nat
      BY <1>1, <1>4, RowFacts DEF Init
    <3>2. /\ Larger(0, Smaller(0, Until(s)) - Larger(0, 0)) = 0
          /\ Larger(0, 0 - 0) = 0
      BY <3>1 DEF Larger, Smaller
    <3>3. Cost(s, 0, mark) = Rate(s) * 0
      BY <3>1, <3>2 DEF Cost
    <3> QED
      BY <3>1, <3>2, <3>3
  <2> QED
    BY <2>1 DEF Init, AccountInv, Recomputable, ChargedOnce
<1> QED
  BY <1>1, <1>3, <1>5, <1>6, <1>7 DEF IInv

LEMMA Stutter ==
  ASSUME IInv, UNCHANGED vars
  PROVE  IInv'
BY DEF IInv, TypeOK, RoomInv, Capacity, ClockInv, RunningTasks, Running, TaskEvent, RowInv, From,
  ReservationsAgree, Employed, Owned, AccountInv, Recomputable, ChargedOnce, Exists, Cost, Rate,
  Until, vars, clockVars, moneyVars, storeVars, rowVars

LEMMA Inductive == IInv /\ [Next]_vars => IInv'
<1> SUFFICES ASSUME IInv, [Next]_vars
             PROVE  IInv'
  OBVIOUS
<1>1. CASE Tick
  BY <1>1, TickKeeps
<1>2. CASE Begin
  BY <1>2, BeginKeeps
<1>3. CASE Tail
  BY <1>3, TailKeeps
<1>4. CASE Close \/ BuildSilo \/ DemolishSilo \/ \E n \in 1 .. Capacity : SellStock(n)
  BY <1>4, StoreKeeps
<1>5. CASE \E e \in batch : Skip(e) \/ CompleteTask(e) \/ CompleteRepair(e) \/ PlainSweep(e)
                            \/ RuinousSweep(e)
  BY <1>5, SkipKeeps, CompleteTaskKeeps, CompleteRepairKeeps, PlainSweepKeeps,
     RuinousSweepKeeps
<1>6. CASE \E e \in batch, M \in SUBSET Machines : SellingSweep(e, M)
  BY <1>6, SellingSweepKeeps
<1>7. CASE \E w \in Workers : HireCandidate(w) \/ DismissWorker(w)
  BY <1>7, HireCandidateKeeps, DismissWorkerKeeps
<1>8. CASE \E m \in Machines : BuyMachine(m) \/ SellMachine(m)
  BY <1>8, BuyMachineKeeps, SellMachineKeeps
<1>9. CASE \E m \in Machines, n \in 1 .. FullWear : RepairMachine(m, n)
  BY <1>9, RepairMachineKeeps
<1>10. CASE \E t \in Tasks, w \in Workers, M \in SUBSET Machines, y \in Yields :
              AssignTask(t, w, M, y)
  BY <1>10, AssignTaskKeeps
<1>11. CASE \E t \in Tasks : CancelTask(t)
  BY <1>11, CancelTaskKeeps
<1>12. CASE UNCHANGED vars
  BY <1>12, Stutter
<1> QED
  BY <1>1, <1>2, <1>3, <1>4, <1>5, <1>6, <1>7, <1>8, <1>9, <1>10, <1>11, <1>12 DEF Next

\* Every reachable state satisfies the inductive invariant.
THEOREM InductiveInvariant == Spec => []IInv
BY Initial, Inductive, PTL DEF Spec

\* The rows, the clock, the mark, the store and the accounts keep their types: in particular
\* stored and reserved room never go negative, and no mark is set past the clock.
THEOREM TypeCorrect == Spec => []TypeOK
<1>1. IInv => TypeOK
  BY DEF IInv
<1> QED
  BY <1>1, InductiveInvariant, PTL

\* A worker or a machine points at a task if and only if that task runs and names it, its
\* status agrees, and nobody who is held has been dismissed or sold, whatever completes,
\* cancels or liquidates (modules/tasks, economy/liquidation.ts).
THEOREM ReservationsHold == Spec => []ReservationsAgree
<1>1. IInv => ReservationsAgree
  BY DEF IInv
<1> QED
  BY <1>1, InductiveInvariant, PTL

\* However the time was cut into windows, a row that was not written behind the mark has paid
\* exactly one integration of its interval over [0, mark) (lib/accrual.ts, lib/ledger.ts).
THEOREM RecomputableHolds == Spec => []Recomputable
<1>1. IInv => Recomputable
  BY DEF IInv, AccountInv
<1> QED
  BY <1>1, InductiveInvariant, PTL

\* No hour of a row is charged twice, not even of a row written behind the mark
\* (settleAccruals).
THEOREM ChargedOnceHolds == Spec => []ChargedOnce
<1>1. IInv => ChargedOnce
  BY DEF IInv, AccountInv
<1> QED
  BY <1>1, InductiveInvariant, PTL

-----------------------------------------------------------------------------
(* Debt *)

\* Once the policy of an advance has run, a debt is marked until the next advance.
DebtInv == phase # "ADVANCE" /\ balance < 0 => status = "IN_DEBT"

\* A settlement that lowers the balance moves the mark.
LEMMA SettledBalance ==
  ASSUME IInv, NEW t \in Nat, Settle(t)
  PROVE  /\ BalanceAt(t) \in Int /\ mark' \in Nat /\ mark \in Nat
         /\ BalanceAt(t) < balance => mark' > mark
<1>1. TypeOK /\ mark \in Nat /\ balance \in Int
  BY HoldingAssumption DEF IInv, TypeOK
<1>2. BalanceAt(t) \in Int /\ (t <= mark => BalanceAt(t) = balance)
  BY <1>1, WindowType
<1>3. mark' = Larger(mark, t)
  BY DEF Settle
<1> QED
  BY <1>1, <1>2, <1>3 DEF Larger

\* What the steps that take an event do to the balance.
LEMMA EventBalance ==
  ASSUME IInv, NEW e,
         \/ Skip(e) \/ CompleteTask(e) \/ CompleteRepair(e) \/ PlainSweep(e) \/ RuinousSweep(e)
         \/ \E M \in SUBSET Machines : SellingSweep(e, M)
  PROVE  balance' < balance => mark' > mark
<1>1. Take(e)
  BY DEF Skip, CompleteTask, CompleteRepair, PlainSweep, RuinousSweep, SellingSweep
<1>2. e.due \in Nat /\ Settle(e.due) /\ TypeOK /\ stored \in Nat /\ balance \in Int
  BY <1>1, TakeFacts DEF IInv, TypeOK
<1>3. /\ BalanceAt(e.due) \in Int /\ mark' \in Nat /\ mark \in Nat
      /\ BalanceAt(e.due) < balance => mark' > mark
  BY <1>2, SettledBalance
<1>4. PICK gain \in Nat : balance' = BalanceAt(e.due) + gain
  <2>1. CASE Skip(e) \/ CompleteTask(e) \/ CompleteRepair(e) \/ PlainSweep(e)
    <3>1. balance' = BalanceAt(e.due)
      BY <2>1 DEF Skip, CompleteTask, CompleteRepair, PlainSweep
    <3> QED
      BY <1>3, <3>1
  <2>2. CASE RuinousSweep(e)
    <3>1. balance' = BalanceAt(e.due) + stored * Price.unit + Proceeds(Idle)
      BY <2>2 DEF RuinousSweep
    <3>2. Idle \in SUBSET Machines
      BY DEF Idle
    <3>3. stored * Price.unit \in Nat /\ Proceeds(Idle) \in Nat
      BY <1>2, <3>2, Prices, Scaled, ProceedsType
    <3>4. stored * Price.unit + Proceeds(Idle) \in Nat
      BY <3>3
    <3>5. balance' = BalanceAt(e.due) + (stored * Price.unit + Proceeds(Idle))
      BY <1>3, <3>1, <3>3
    <3> QED
      BY <3>4, <3>5
  <2>3. ASSUME NEW M \in SUBSET Machines, SellingSweep(e, M)
        PROVE  \E gain \in Nat : balance' = BalanceAt(e.due) + gain
    <3> DEFINE u == UnitsFor(BalanceAt(e.due))
    <3>1. balance' = BalanceAt(e.due) + u * Price.unit + Proceeds(M)
      BY <2>3 DEF SellingSweep
    <3>2. u \in Nat
      BY <1>2, <1>3, UnitsForType
    <3> HIDE DEF u
    <3>3. u * Price.unit \in Nat /\ Proceeds(M) \in Nat
      BY <1>2, <3>2, Prices, Scaled, ProceedsType
    <3>4. u * Price.unit + Proceeds(M) \in Nat
      BY <3>3
    <3>5. balance' = BalanceAt(e.due) + (u * Price.unit + Proceeds(M))
      BY <1>3, <3>1, <3>3
    <3> QED
      BY <3>4, <3>5
  <2> QED
    BY <2>1, <2>2, <2>3
<1> QED
  BY <1>2, <1>3, <1>4

\* What a request does to the balance: it never leaves a smaller one below zero.
LEMMA BodyBalance ==
  ASSUME IInv, Next, Body
  PROVE  balance' < 0 => balance <= balance' /\ balance < 0
<1>1. TypeOK /\ balance \in Int
  BY DEF IInv, TypeOK
<1>2. CASE UNCHANGED balance
  BY <1>1, <1>2
<1>3. ASSUME NEW amount \in Nat, Spend(amount)
      PROVE  ~ (balance' < 0)
  BY <1>1, <1>3 DEF Spend
<1>4. ASSUME NEW amount \in Nat, Earn(amount)
      PROVE  balance' < 0 => balance <= balance' /\ balance < 0
  BY <1>1, <1>4 DEF Earn
<1>5. phase = "BODY"
  BY DEF Body
<1>6. /\ ~ Tick /\ ~ Begin /\ ~ Tail
      /\ \A e : ~ Skip(e) /\ ~ CompleteTask(e) /\ ~ CompleteRepair(e) /\ ~ PlainSweep(e)
                /\ ~ RuinousSweep(e) /\ \A M : ~ SellingSweep(e, M)
  BY <1>5 DEF Tick, Begin, Tail, Take, Skip, CompleteTask, CompleteRepair, PlainSweep,
              RuinousSweep, SellingSweep
<1>7. CASE Close \/ \E w \in Workers : HireCandidate(w) \/ DismissWorker(w)
  BY <1>2, <1>7 DEF Close, HireCandidate, DismissWorker
<1>8. CASE \/ \E t \in Tasks, w \in Workers, M \in SUBSET Machines, y \in Yields :
                AssignTask(t, w, M, y)
           \/ \E t \in Tasks : CancelTask(t)
  BY <1>2, <1>8 DEF AssignTask, CancelTask
<1>9. CASE BuildSilo
  BY <1>3, <1>9, Prices DEF BuildSilo
<1>10. CASE DemolishSilo
  BY <1>4, <1>10, Prices DEF DemolishSilo
<1>11. ASSUME NEW m \in Machines, BuyMachine(m) \/ SellMachine(m)
       PROVE  balance' < 0 => balance <= balance' /\ balance < 0
  BY <1>1, <1>3, <1>4, <1>11, Prices, ResaleType DEF BuyMachine, SellMachine
<1>12. ASSUME NEW m \in Machines, NEW n \in 1 .. FullWear, RepairMachine(m, n)
       PROVE  balance' < 0 => balance <= balance' /\ balance < 0
  <2>1. n * Price.repair \in Nat
    BY HoldingAssumption, Prices, Scaled
  <2> QED
    BY <1>3, <1>12, <2>1 DEF RepairMachine
<1>13. ASSUME NEW n \in 1 .. Capacity, SellStock(n)
       PROVE  balance' < 0 => balance <= balance' /\ balance < 0
  <2>1. n * Price.unit \in Nat
    BY <1>1, CapacityType, Prices, Scaled
  <2> QED
    BY <1>4, <1>13, <2>1 DEF SellStock
<1> QED
  BY <1>6, <1>7, <1>8, <1>9, <1>10, <1>11, <1>12, <1>13 DEF Next

\* Every step is of the clock, of an advance, or a request.
LEMMA StepKinds ==
  ASSUME Next
  PROVE  \/ Body \/ Tick \/ Begin \/ Tail
         \/ \E e : \/ Skip(e) \/ CompleteTask(e) \/ CompleteRepair(e) \/ PlainSweep(e)
                   \/ RuinousSweep(e)
                   \/ \E M \in SUBSET Machines : SellingSweep(e, M)
<1>1. CASE \E e \in batch : Skip(e) \/ CompleteTask(e) \/ CompleteRepair(e) \/ PlainSweep(e)
                            \/ RuinousSweep(e)
  BY <1>1
<1>2. CASE \E e \in batch, M \in SUBSET Machines : SellingSweep(e, M)
  BY <1>2
<1>3. CASE Close \/ BuildSilo \/ DemolishSilo \/ \E n \in 1 .. Capacity : SellStock(n)
  BY <1>3 DEF Close, BuildSilo, DemolishSilo, SellStock
<1>4. CASE \/ \E w \in Workers : HireCandidate(w) \/ DismissWorker(w)
           \/ \E m \in Machines : BuyMachine(m) \/ SellMachine(m)
           \/ \E m \in Machines, n \in 1 .. FullWear : RepairMachine(m, n)
  BY <1>4 DEF HireCandidate, DismissWorker, BuyMachine, SellMachine, RepairMachine
<1>5. CASE \/ \E t \in Tasks, w \in Workers, M \in SUBSET Machines, y \in Yields :
                AssignTask(t, w, M, y)
           \/ \E t \in Tasks : CancelTask(t)
  BY <1>5 DEF AssignTask, CancelTask
<1> QED
  BY <1>1, <1>2, <1>3, <1>4, <1>5 DEF Next

LEMMA DebtStep == IInv /\ [Next]_vars => (balance' < 0 /\ balance' < balance => mark' > mark)
<1> SUFFICES ASSUME IInv, [Next]_vars, balance' < 0, balance' < balance
             PROVE  mark' > mark
  OBVIOUS
<1>1. balance \in Int
  BY DEF IInv, TypeOK
<1>2. CASE UNCHANGED vars \/ Tick \/ Begin
  <2>1. balance' = balance
    BY <1>2 DEF vars, moneyVars, Tick, Begin
  <2> QED
    BY <1>1, <2>1
<1>3. CASE Tail
  <2>1. now \in Nat /\ Settle(now) /\ balance' = BalanceAt(now)
    BY <1>3, TailFacts DEF Tail
  <2> QED
    BY <2>1, SettledBalance
<1>4. CASE Next /\ Body
  <2>1. balance' \in Int
    BY <1>4, Inductive DEF IInv, TypeOK
  <2> QED
    BY <1>1, <1>4, <2>1, BodyBalance
<1>5. ASSUME NEW e,
             \/ Skip(e) \/ CompleteTask(e) \/ CompleteRepair(e) \/ PlainSweep(e)
             \/ RuinousSweep(e) \/ \E M \in SUBSET Machines : SellingSweep(e, M)
      PROVE  mark' > mark
  BY <1>5, EventBalance
<1> QED
  BY <1>2, <1>3, <1>4, <1>5, StepKinds

LEMMA DebtInductive == IInv /\ DebtInv /\ [Next]_vars => DebtInv'
<1> SUFFICES ASSUME IInv, DebtInv, [Next]_vars
             PROVE  DebtInv'
  OBVIOUS
<1>1. CASE UNCHANGED vars \/ Tick
  BY <1>1 DEF DebtInv, vars, clockVars, moneyVars, Tick
<1>2. CASE Begin
  BY <1>2 DEF DebtInv, Begin
<1>3. CASE Tail
  BY <1>3 DEF DebtInv, Tail
<1>4. CASE Next /\ Body
  <2>1. balance' < 0 => balance < 0
    BY <1>4, BodyBalance
  <2> QED
    BY <1>4, <2>1 DEF DebtInv, Body
<1>5. ASSUME NEW e,
             \/ Skip(e) \/ CompleteTask(e) \/ CompleteRepair(e) \/ PlainSweep(e)
             \/ RuinousSweep(e) \/ \E M \in SUBSET Machines : SellingSweep(e, M)
      PROVE  DebtInv'
  <2>1. Take(e)
    BY <1>5 DEF Skip, CompleteTask, CompleteRepair, PlainSweep, RuinousSweep, SellingSweep
  <2>2. phase' = "ADVANCE"
    BY <2>1 DEF Take
  <2> QED
    BY <2>2 DEF DebtInv
<1> QED
  BY <1>1, <1>2, <1>3, <1>4, <1>5, StepKinds

\* "The balance only ever turns negative through the passage of time" (economy/debt.ts): a
\* step that leaves a lower balance, below zero, has settled time.
THEOREM DebtOnlyByTimeHolds == Spec => DebtOnlyByTime
<1>1. IInv /\ [Next]_vars => [balance' < 0 /\ balance' < balance => mark' > mark]_vars
  BY DebtStep
<1> QED
  BY <1>1, InductiveInvariant, PTL DEF Spec, DebtOnlyByTime

\* No request leaves a debt behind that the policy of its advance has not marked
\* (applyDebtPolicy).
THEOREM DebtIsMarkedHolds == Spec => []DebtIsMarked
<1>1. Init => DebtInv
  BY HoldingAssumption DEF Init, DebtInv
<1>2. DebtInv => DebtIsMarked
  BY DEF DebtInv, DebtIsMarked
<1> QED
  BY <1>1, <1>2, DebtInductive, InductiveInvariant, PTL DEF Spec

-----------------------------------------------------------------------------
(* The reserved room *)

Held == [t \in RunningTasks |-> task[t].reserved]
ReservedInv == reserved = Total(Held)

LEMMA HeldType ==
  ASSUME TypeOK
  PROVE  /\ Held \in [RunningTasks -> Nat] /\ IsFiniteSet(RunningTasks)
         /\ RunningTasks \subseteq Tasks
<1>1. RunningTasks \subseteq Tasks
  BY DEF RunningTasks
<1>2. \A t \in RunningTasks : task[t].reserved \in Nat
  BY <1>1 DEF TypeOK, TaskRows
<1> QED
  BY <1>1, <1>2, Finite, FS_Subset DEF Held

\* The sum without one of the running tasks.
LEMMA HeldWithout ==
  ASSUME TypeOK, NEW u \in RunningTasks
  PROVE  LET f == [t \in RunningTasks \ {u} |-> task[t].reserved]
         IN  Total(Held) = Total(f) + task[u].reserved /\ Total(f) \in Nat
<1> DEFINE S == RunningTasks \ {u}
           f == [t \in S |-> task[t].reserved]
<1>1. Held \in [RunningTasks -> Nat] /\ IsFiniteSet(S) /\ RunningTasks = S \cup {u} /\ u \notin S
  BY HeldType, FS_Subset
<1>2. f \in [S -> Nat] /\ \A t \in S : Held[t] = f[t]
  BY <1>1 DEF Held
<1>3. Held[u] = task[u].reserved
  BY DEF Held
<1>4. Held \in [S \cup {u} -> Nat]
  BY <1>1
<1> HIDE DEF f, S
<1>5. Total(f) \in Nat
  BY <1>1, <1>2, TotalType
<1>6. IsFiniteSet(S) /\ f \in [S -> Nat] /\ u \notin S /\ \A x \in S : Held[x] = f[x]
  BY <1>1, <1>2
<1>7. Total(Held) = Total(f) + Held[u]
  BY <1>4, <1>6, TotalAdds
<1> QED
  BY <1>3, <1>5, <1>7 DEF f, S

\* A step that closes one task and gives its reservation back.
LEMMA ReleasedOne ==
  ASSUME IInv, ReservedInv, NEW u \in RunningTasks, RunningTasks' = RunningTasks \ {u},
         \A t \in RunningTasks \ {u} : task'[t].reserved = task[t].reserved,
         reserved' = Larger(0, reserved - task[u].reserved)
  PROVE  ReservedInv'
<1> DEFINE f == [t \in RunningTasks \ {u} |-> task[t].reserved]
<1>1. Total(Held) = Total(f) + task[u].reserved /\ Total(f) \in Nat
  BY HeldWithout DEF IInv
<1>2. task[u].reserved \in Nat
  BY HeldType DEF IInv, TypeOK, TaskRows
<1>3. Held' = f
  BY DEF Held
<1> HIDE DEF f
<1>4. reserved' = Total(f)
  BY <1>1, <1>2 DEF ReservedInv, Larger
<1> QED
  BY <1>3, <1>4 DEF ReservedInv

LEMMA ReservedInductive == IInv /\ ReservedInv /\ [Next]_vars => ReservedInv'
<1> SUFFICES ASSUME IInv, ReservedInv, [Next]_vars
             PROVE  ReservedInv'
  OBVIOUS
<1>1. TypeOK /\ reserved \in Nat
  BY DEF IInv, TypeOK
<1>2. CASE UNCHANGED <<reserved, task>>
  BY <1>2 DEF ReservedInv, Held, RunningTasks, Running
<1>3. ASSUME NEW e, CompleteTask(e)
      PROVE  ReservedInv'
  <2>1. /\ e \in Pending /\ e.kind = "task"
        /\ task' = TasksClosed({e.ref}, "COMPLETED", [t \in Tasks |-> e.due])
        /\ reserved' = Larger(0, reserved - task[e.ref].reserved)
    BY <1>3 DEF CompleteTask, Deposit
  <2>2. e.ref \in RunningTasks
    BY <2>1, PendingEvents
  <2>3. \A t \in Tasks : t # e.ref => task'[t] = task[t]
    BY <2>1 DEF TasksClosed
  <2>4. task'[e.ref].status = "COMPLETED"
    <3>1. e.ref \in Tasks /\ task[e.ref] \in TaskRows
      BY <1>1, <2>2 DEF RunningTasks, TypeOK
    <3>2. task'[e.ref] = [task[e.ref] EXCEPT !.status = "COMPLETED", !.ended = e.due]
      BY <2>1, <3>1 DEF TasksClosed
    <3> QED
      BY <3>1, <3>2 DEF TaskRows
  <2>5. RunningTasks' = RunningTasks \ {e.ref}
    BY <2>3, <2>4 DEF RunningTasks, Running
  <2> QED
    BY <1>1, <2>1, <2>2, <2>3, <2>5, HeldType, ReleasedOne
<1>4. ASSUME NEW u \in Tasks, CancelTask(u)
      PROVE  ReservedInv'
  <2>1. /\ u \in RunningTasks
        /\ task' = TasksClosed({u}, "CANCELED", EndsFor(now))
        /\ reserved' = Larger(0, reserved - task[u].reserved)
    BY <1>4 DEF CancelTask, RunningTasks
  <2>2. \A t \in Tasks : t # u => task'[t] = task[t]
    BY <2>1 DEF TasksClosed
  <2>3. task'[u].status = "CANCELED"
    <3> DEFINE v == EndsFor(now)[u]
    <3>1. task[u] \in TaskRows
      BY <1>1 DEF TypeOK
    <3>2. task'[u] = [task[u] EXCEPT !.status = "CANCELED", !.ended = v]
      BY <2>1 DEF TasksClosed
    <3> HIDE DEF v
    <3> QED
      BY <3>1, <3>2 DEF TaskRows
  <2>4. RunningTasks' = RunningTasks \ {u}
    BY <2>2, <2>3 DEF RunningTasks, Running
  <2> QED
    BY <1>1, <2>1, <2>2, <2>4, HeldType, ReleasedOne
<1>5. ASSUME NEW e, RuinousSweep(e)
      PROVE  ReservedInv'
  <2>1. /\ task' = TasksClosed(RunningTasks, "CANCELED", EndsFor(e.due))
        /\ reserved' = Larger(0, reserved - Total(Held))
    BY <1>5 DEF RuinousSweep, Held
  <2>2. reserved' = 0
    BY <1>1, <2>1 DEF ReservedInv, Larger
  <2>3. RunningTasks' = {}
    <3>1. ASSUME NEW t \in Tasks
          PROVE  task'[t].status # "IN_PROGRESS"
      <4> DEFINE v == EndsFor(e.due)[t]
      <4>1. task[t] \in TaskRows
        BY <1>1 DEF TypeOK
      <4>2. task'[t] = IF t \in RunningTasks THEN [task[t] EXCEPT !.status = "CANCELED", !.ended = v]
                       ELSE task[t]
        BY <2>1 DEF TasksClosed
      <4> HIDE DEF v
      <4> QED
        BY <4>1, <4>2 DEF TaskRows, RunningTasks, Running
    <3> QED
      BY <3>1 DEF RunningTasks, Running
  <2>4. Held' \in [RunningTasks' -> Nat] /\ \A t \in RunningTasks' : Held'[t] = 0
    BY <2>3 DEF Held
  <2>5. Total(Held') = 0
    BY <2>4, TotalZero
  <2> QED
    BY <2>2, <2>5 DEF ReservedInv, Total
<1>6. ASSUME NEW u \in Tasks, NEW w \in Workers, NEW M \in SUBSET Machines, NEW y \in Yields,
             AssignTask(u, w, M, y)
      PROVE  ReservedInv'
  <2> DEFINE r == [status |-> "IN_PROGRESS", worker |-> w, machines |-> M, start |-> now,
                   scheduledEnd |-> now + WorkTime, ended |-> Never, units |-> y,
                   reserved |-> Reservation(y)]
  <2>1. /\ task[u].status = "ABSENT" /\ task' = [task EXCEPT ![u] = r]
        /\ reserved' = reserved + Reservation(y)
    BY <1>6 DEF AssignTask
  <2>2. r.status = "IN_PROGRESS" /\ r.reserved = Reservation(y)
    OBVIOUS
  <2> HIDE DEF r
  <2>3. \A t \in Tasks : task'[t] = IF t = u THEN r ELSE task[t]
    BY <1>1, <2>1 DEF TypeOK
  <2>4. RunningTasks' = RunningTasks \cup {u} /\ u \notin RunningTasks
    BY <2>1, <2>2, <2>3 DEF RunningTasks, Running
  <2>5. Reservation(y) \in Nat
    BY HoldingAssumption, ReservationType DEF IInv
  <2>6. Held' = [t \in RunningTasks \cup {u} |-> IF t = u THEN r.reserved ELSE task[t].reserved]
    BY <2>3, <2>4 DEF Held, RunningTasks
  <2>7. /\ Held \in [RunningTasks -> Nat] /\ IsFiniteSet(RunningTasks)
        /\ \A t \in RunningTasks : Held'[t] = Held[t]
        /\ Held'[u] = Reservation(y)
    BY <1>1, <2>2, <2>4, <2>6, HeldType DEF Held
  <2>8. Held' \in [RunningTasks \cup {u} -> Nat]
    <3>1. \A t \in RunningTasks : task[t].reserved \in Nat
      BY <1>1, HeldType DEF TypeOK, TaskRows
    <3> QED
      BY <2>2, <2>5, <2>6, <3>1
  <2>9. Total(Held') = Total(Held) + Held'[u]
    BY <2>4, <2>7, <2>8, TotalAdds
  <2>10. reserved' = Total(Held')
    BY <2>1, <2>7, <2>9 DEF ReservedInv
  <2> QED
    BY <2>10 DEF ReservedInv, Total
<1>7. \/ UNCHANGED <<reserved, task>>
      \/ \E e \in batch : CompleteTask(e) \/ RuinousSweep(e)
      \/ \E t \in Tasks, w \in Workers, M \in SUBSET Machines, y \in Yields :
           AssignTask(t, w, M, y)
      \/ \E t \in Tasks : CancelTask(t)
  BY DEF Next, vars, storeVars, rowVars, Tick, Begin, Tail, Close, BuildSilo, DemolishSilo, Skip,
    CompleteRepair, PlainSweep, SellingSweep, HireCandidate, DismissWorker, BuyMachine,
    SellMachine, RepairMachine, SellStock
<1> QED
  BY <1>2, <1>3, <1>4, <1>5, <1>6, <1>7

LEMMA ReservedInitially == Init => ReservedInv
<1> SUFFICES ASSUME Init
             PROVE  ReservedInv
  OBVIOUS
<1>1. RunningTasks = {}
  BY DEF Init, RunningTasks, Running, AbsentTask
<1>2. Held \in [RunningTasks -> Nat] /\ \A t \in RunningTasks : Held[t] = 0
  BY <1>1 DEF Held
<1>3. Total(Held) = 0
  BY <1>2, TotalZero
<1> QED
  BY <1>3 DEF Init, ReservedInv

\* The column of reserved room is the sum of what the running tasks reserved, and stock and
\* reservations never outgrow the silos (depositStorage, reserveStorage, silos/demolish).
THEOREM StorageHolds == Spec => []StorageAgrees
<1>1. IInv /\ ReservedInv => StorageAgrees
  BY DEF IInv, RoomInv, ReservedInv, Held, StorageAgrees
<1> QED
  BY <1>1, ReservedInitially, ReservedInductive, InductiveInvariant, PTL DEF Spec

\* No task reserves more than it will produce.
UnitsInv == \A t \in Tasks : task[t].reserved <= task[t].units

LEMMA UnitsInductive == IInv /\ UnitsInv /\ [Next]_vars => UnitsInv'
<1> SUFFICES ASSUME IInv, UnitsInv, [Next]_vars
             PROVE  UnitsInv'
  OBVIOUS
<1>1. task \in [Tasks -> TaskRows] /\ TypeOK /\ RoomInv
  BY DEF IInv, TypeOK
<1>2. CASE UNCHANGED task
  BY <1>2 DEF UnitsInv
<1>3. ASSUME NEW T, NEW st, NEW end, task' = TasksClosed(T, st, end)
      PROVE  UnitsInv'
  <2>1. ASSUME NEW t \in Tasks
        PROVE  task'[t].reserved <= task'[t].units
    <3> DEFINE v == end[t]
    <3>1. task'[t] = IF t \in T THEN [task[t] EXCEPT !.status = st, !.ended = v] ELSE task[t]
      BY <1>3 DEF TasksClosed
    <3>2. task[t] \in TaskRows
      BY <1>1
    <3> HIDE DEF v
    <3>3. task'[t].reserved = task[t].reserved /\ task'[t].units = task[t].units
      BY <3>1, <3>2 DEF TaskRows
    <3> QED
      BY <3>3 DEF UnitsInv
  <2> QED
    BY <2>1 DEF UnitsInv
<1>4. ASSUME NEW u \in Tasks, NEW w \in Workers, NEW M \in SUBSET Machines, NEW y \in Yields,
             AssignTask(u, w, M, y)
      PROVE  UnitsInv'
  <2> DEFINE r == [status |-> "IN_PROGRESS", worker |-> w, machines |-> M, start |-> now,
                   scheduledEnd |-> now + WorkTime, ended |-> Never, units |-> y,
                   reserved |-> Reservation(y)]
  <2>1. task' = [task EXCEPT ![u] = r]
    BY <1>4 DEF AssignTask
  <2>2. y \in Nat /\ Reservation(y) \in Nat
    BY <1>1, HoldingAssumption, ReservationType
  <2>3. Reservation(y) <= y
    <3>1. stored \in Nat /\ reserved \in Nat /\ Capacity \in Nat
      BY <1>1, CapacityType DEF TypeOK
    <3>2. Capacity - stored - reserved \in Int
      BY <3>1
    <3> QED
      BY <2>2, <3>2 DEF Reservation, Smaller
  <2>4. r.reserved = Reservation(y) /\ r.units = y
    OBVIOUS
  <2> HIDE DEF r
  <2> QED
    BY <1>1, <2>1, <2>3, <2>4 DEF UnitsInv
<1>5. \/ UNCHANGED task
      \/ \E e \in batch : CompleteTask(e) \/ RuinousSweep(e)
      \/ \E t \in Tasks, w \in Workers, M \in SUBSET Machines, y \in Yields :
           AssignTask(t, w, M, y)
      \/ \E t \in Tasks : CancelTask(t)
  BY DEF Next, vars, rowVars, Tick, Begin, Tail, Close, BuildSilo, DemolishSilo, Skip,
    CompleteRepair, PlainSweep, SellingSweep, HireCandidate, DismissWorker, BuyMachine,
    SellMachine, RepairMachine, SellStock
<1> QED
  BY <1>2, <1>3, <1>4, <1>5 DEF CompleteTask, RuinousSweep, CancelTask

\* A completion that finds its reservation in the sum finds the room as well.
LEMMA DepositKeeps ==
  ASSUME IInv, ReservedInv, UnitsInv, NEW t \in RunningTasks, Deposit(t)
  PROVE  stored' - stored >= task[t].reserved
<1> DEFINE o == task[t].reserved
           n == task[t].units
           rest == Total([x \in RunningTasks \ {t} |-> task[x].reserved])
<1>1. reserved = rest + o /\ rest \in Nat
  BY HeldWithout DEF IInv, ReservedInv
<1>2. o \in Nat /\ n \in Nat /\ o <= n
  BY HeldType DEF IInv, TypeOK, TaskRows, UnitsInv
<1>3. stored \in Nat /\ Capacity \in Nat /\ stored + reserved <= Capacity /\ reserved \in Nat
  BY CapacityType DEF IInv, TypeOK, RoomInv
<1>4. stored' = stored + Smaller(n, Larger(0, Capacity - stored - Larger(0, reserved - o)))
  BY DEF Deposit
<1> HIDE DEF rest, o, n
<1>5. Larger(0, reserved - o) = rest
  BY <1>1, <1>2 DEF Larger
<1>6. Larger(0, Capacity - stored - rest) >= o /\ Larger(0, Capacity - stored - rest) \in Nat
  <2>1. Capacity - stored - rest \in Int /\ Capacity - stored - rest >= o
    BY <1>1, <1>2, <1>3
  <2> QED
    BY <1>2, <2>1 DEF Larger
<1> DEFINE room == Larger(0, Capacity - stored - rest)
<1>7. stored' = stored + Smaller(n, room)
  BY <1>4, <1>5
<1>8. room \in Nat /\ o <= room
  BY <1>2, <1>6
<1> HIDE DEF room
<1>9. Smaller(n, room) \in Nat /\ o <= Smaller(n, room)
  BY <1>2, <1>8 DEF Smaller
<1>10. stored' - stored >= o
  BY <1>2, <1>3, <1>7, <1>9
<1> QED
  BY <1>10 DEF o

\* "The room the harvest reserved for itself is exactly the room it may now occupy"
\* (depositStorage): a completion stores at least what its task reserved.
THEOREM ReservedRoomHolds == Spec => ReservedRoomIsKept
<1> DEFINE Kept == \A t \in Tasks : Running(t) /\ task'[t].status = "COMPLETED" =>
                                      stored' - stored >= task[t].reserved
<1>1. IInv /\ ReservedInv /\ UnitsInv /\ [Next]_vars => [Kept]_vars
  <2> SUFFICES ASSUME IInv, ReservedInv, UnitsInv, Next, NEW t \in Tasks, Running(t),
                      task'[t].status = "COMPLETED"
               PROVE  stored' - stored >= task[t].reserved
    OBVIOUS
  <2>1. task \in [Tasks -> TaskRows] /\ task[t].status = "IN_PROGRESS" /\ t \in RunningTasks
    BY DEF IInv, TypeOK, Running, RunningTasks
  <2>2. CASE UNCHANGED task
    BY <2>1, <2>2
  <2>3. ASSUME NEW T, NEW end, task' = TasksClosed(T, "CANCELED", end)
        PROVE  FALSE
    <3> DEFINE v == end[t]
    <3>1. task'[t] = IF t \in T THEN [task[t] EXCEPT !.status = "CANCELED", !.ended = v]
                     ELSE task[t]
      BY <2>3 DEF TasksClosed
    <3>2. task[t] \in TaskRows
      BY <2>1
    <3> HIDE DEF v
    <3> QED
      BY <2>1, <3>1, <3>2 DEF TaskRows
  <2>4. ASSUME NEW e, CompleteTask(e)
        PROVE  stored' - stored >= task[t].reserved
    <3>1. /\ task' = TasksClosed({e.ref}, "COMPLETED", [x \in Tasks |-> e.due])
          /\ Deposit(e.ref)
      BY <2>4 DEF CompleteTask
    <3>2. t = e.ref
      BY <2>1, <3>1 DEF TasksClosed
    <3> QED
      BY <2>1, <3>1, <3>2, DepositKeeps
  <2>5. ASSUME NEW u \in Tasks, NEW w \in Workers, NEW M \in SUBSET Machines, NEW y \in Yields,
               AssignTask(u, w, M, y)
        PROVE  FALSE
    BY <2>1, <2>5 DEF AssignTask
  <2>6. \/ UNCHANGED task
        \/ \E e \in batch : CompleteTask(e) \/ RuinousSweep(e)
        \/ \E x \in Tasks, w \in Workers, M \in SUBSET Machines, y \in Yields :
             AssignTask(x, w, M, y)
        \/ \E x \in Tasks : CancelTask(x)
    BY DEF Next, rowVars, Tick, Begin, Tail, Close, BuildSilo, DemolishSilo, Skip,
      CompleteRepair, PlainSweep, SellingSweep, HireCandidate, DismissWorker, BuyMachine,
      SellMachine, RepairMachine, SellStock
  <2>7. ASSUME NEW e, RuinousSweep(e)
        PROVE  FALSE
    BY <2>3, <2>7 DEF RuinousSweep
  <2>8. ASSUME NEW u \in Tasks, CancelTask(u)
        PROVE  FALSE
    BY <2>3, <2>8 DEF CancelTask
  <2> QED
    BY <2>2, <2>4, <2>5, <2>6, <2>7, <2>8
<1>2. Init => UnitsInv
  BY DEF Init, UnitsInv, AbsentTask
<1>3. Spec => []ReservedInv
  BY ReservedInitially, ReservedInductive, InductiveInvariant, PTL DEF Spec
<1> QED
  BY <1>1, <1>2, <1>3, UnitsInductive, InductiveInvariant, PTL DEF Spec, ReservedRoomIsKept

-----------------------------------------------------------------------------
(* What a liquidation takes *)

\* Without the last unit it sells, step INVENTORY leaves a debt.
LEMMA LastUnit ==
  ASSUME TypeOK, NEW b \in Int, UnitsFor(b) > 0
  PROVE  b + UnitsFor(b) * Price.unit - Price.unit < 0
<1> DEFINE p == Price.unit
           q == (-b + p - 1) \div p
           u == UnitsFor(b)
<1>1. p \in Nat /\ p > 0 /\ stored \in Nat /\ u \in Nat
  BY Prices, UnitsForType DEF TypeOK
<1>2. b < 0
  BY DEF UnitsFor
<1>3. -b + p - 1 \in Nat
  BY <1>1, <1>2
<1>4. q \in Nat /\ p * q <= -b + p - 1
  <2> DEFINE n == -b + p - 1
  <2> HIDE DEF n, p
  <2>1. n \in Nat /\ n \div p \in Nat /\ p * (n \div p) <= n
    BY <1>1, <1>3, SMT DEF n
  <2> QED
    BY <2>1 DEF n
<1>5. u <= q
  BY <1>1, <1>2, <1>4 DEF UnitsFor, Smaller
<1> HIDE DEF p, q, u
<1>6. p * u <= p * q /\ p * u \in Nat /\ p * q \in Nat
  BY <1>1, <1>4, <1>5, Scaled
<1>7. b + p * u - p < 0
  BY <1>1, <1>4, <1>6
<1>8. p * u = u * p
  BY <1>1
<1> QED
  BY <1>7, <1>8 DEF p, u

\* One machine less.
LEMMA WithoutLast ==
  ASSUME TypeOK, NEW M \in SUBSET Machines, NEW l \in M
  PROVE  Proceeds(M) = Proceeds(M \ {l}) + Resale(l)
<1> DEFINE S == M \ {l}
           f == [m \in S |-> Resale(m)]
           h == [m \in M |-> Resale(m)]
<1>1. \A m \in M : Resale(m) \in Nat
  BY ResaleType
<1>2. f \in [S -> Nat] /\ h \in [S \cup {l} -> Nat] /\ IsFiniteSet(S) /\ l \notin S
  <2>1. S \cup {l} = M /\ S \subseteq Machines
    OBVIOUS
  <2> QED
    BY <1>1, <2>1, Finite, FS_Subset
<1>3. \A m \in S : h[m] = f[m]
  OBVIOUS
<1>4. h[l] = Resale(l) /\ Total(h) = Proceeds(M) /\ Total(f) = Proceeds(M \ {l})
  BY DEF Proceeds
<1> HIDE DEF S, f, h
<1> QED
  BY <1>2, <1>3, <1>4, TotalAdds

\* What a liquidation took that left the player solvent.
LEMMA SoldForDebt ==
  ASSUME IInv, NEW e, NEW M \in SUBSET Machines, SellingSweep(e, M)
  PROVE  LET gone == {m \in Machines : Owned(m) /\ machine'[m].disposed # Never}
             last == {Price.unit : n \in 1 .. stored - stored'} \cup {Resale(m) : m \in gone}
         IN last # {} =>
              \E p \in (IF gone = {} THEN last ELSE {Resale(m) : m \in gone}) : balance' - p < 0
<1> DEFINE b == BalanceAt(e.due)
           u == UnitsFor(b)
           gone == {m \in Machines : Owned(m) /\ machine'[m].disposed # Never}
           last == {Price.unit : n \in 1 .. stored - stored'} \cup {Resale(m) : m \in gone}
<1>1. /\ Take(e) /\ Triggered(b) /\ SoldFor(M, b + u * Price.unit)
      /\ balance' = b + u * Price.unit + Proceeds(M)
      /\ stored' = stored - u
      /\ machine' = [m \in Machines |-> IF m \in M
                       THEN [machine[m] EXCEPT !.disposed = EndFor(m, e.due)] ELSE machine[m]]
  BY DEF SellingSweep
<1>2. /\ b \in Int /\ e.due \in Nat /\ e.due <= game /\ TypeOK /\ game \in Nat /\ game <= MaxGame
      /\ MaxGame \in Nat /\ stored \in Nat /\ \A s \in Sources : From(s) <= game
  BY <1>1, TakeFacts, HoldingAssumption DEF IInv, TypeOK, RowInv
<1>3. u \in Nat /\ u <= stored /\ Price.unit \in Nat /\ u * Price.unit \in Nat
  BY <1>2, UnitsForType, Prices, Scaled
<1>4. gone = M
  <2>1. \A m \in M : Owned(m)
    BY <1>1 DEF SoldFor, Idle, IdleMachine
  <2>2. \A m \in Machines : EndFor(m, e.due) \in Nat /\ EndFor(m, e.due) <= game
    <3>1. \A m \in Machines : From(m) \in Nat /\ From(m) <= game
      BY <1>2, RowFacts DEF Sources
    <3> QED
      BY <1>2, <3>1 DEF EndFor, Larger
  <2>3. \A m \in Machines : EndFor(m, e.due) # Never
    BY <1>2, <2>2 DEF Never
  <2>4. \A m \in Machines : machine[m] \in MachineRows
    BY <1>2 DEF TypeOK
  <2>5. \A m \in M : machine'[m].disposed = EndFor(m, e.due)
    BY <1>1, <2>4 DEF MachineRows
  <2>6. \A m \in Machines \ M : machine'[m].disposed = machine[m].disposed
    BY <1>1
  <2> QED
    BY <2>1, <2>3, <2>5, <2>6 DEF Owned
<1>5. stored - stored' = u
  BY <1>1, <1>2, <1>3
<1> HIDE DEF b
<1>6. CASE M = {}
  <2>1. Proceeds(M) = 0
    <3>1. [m \in M |-> Resale(m)] \in [{} -> Nat]
      BY <1>6
    <3> QED
      BY <3>1, TotalZero DEF Proceeds
  <2>2. ASSUME last # {}
        PROVE  u > 0 /\ last = {Price.unit}
    BY <1>3, <1>4, <1>5, <1>6, <2>2
  <2>3. ASSUME u > 0
        PROVE  balance' - Price.unit < 0
    <3>1. b + u * Price.unit - Price.unit < 0
      BY <1>2, <2>3, LastUnit
    <3>2. balance' = b + u * Price.unit
      BY <1>1, <1>2, <1>3, <2>1
    <3> QED
      BY <1>2, <1>3, <3>1, <3>2
  <2> HIDE DEF u, last
  <2>4. last # {} => \E p \in last : balance' - p < 0
    BY <2>2, <2>3
  <2>5. gone = {}
    BY <1>4, <1>6
  <2> HIDE DEF gone
  <2>6. last # {} =>
          \E p \in (IF gone = {} THEN last ELSE {Resale(m) : m \in gone}) : balance' - p < 0
    BY <2>4, <2>5
  <2> QED
    BY <2>6 DEF gone, last
<1>7. CASE M # {}
  <2>1. PICK l \in M : b + u * Price.unit + Proceeds(M \ {l}) < 0
    BY <1>1, <1>7 DEF SoldFor
  <2>2. Proceeds(M) = Proceeds(M \ {l}) + Resale(l)
    BY <1>2, WithoutLast
  <2>3. Resale(l) \in Nat /\ Proceeds(M \ {l}) \in Nat
    <3>1. l \in Machines /\ M \ {l} \in SUBSET Machines
      OBVIOUS
    <3> QED
      BY <1>2, <3>1, ResaleType, ProceedsType
  <2> HIDE DEF u
  <2>4. balance' - Resale(l) < 0
    BY <1>1, <1>2, <1>3, <2>1, <2>2, <2>3
  <2>5. l \in gone /\ gone # {}
    BY <1>4
  <2> HIDE DEF gone
  <2> QED
    BY <2>4, <2>5 DEF gone
<1> QED
  BY <1>6, <1>7

LEMMA LiquidationStep ==
  IInv /\ [Next]_vars =>
      LET gone == {m \in Machines : Owned(m) /\ machine'[m].disposed # Never}
          last == {Price.unit : n \in 1 .. stored - stored'} \cup {Resale(m) : m \in gone}
      IN sweep' # sweep /\ balance' >= 0 /\ last # {} =>
             \E p \in (IF gone = {} THEN last ELSE {Resale(m) : m \in gone}) : balance' - p < 0
<1> DEFINE gone == {m \in Machines : Owned(m) /\ machine'[m].disposed # Never}
           last == {Price.unit : n \in 1 .. stored - stored'} \cup {Resale(m) : m \in gone}
<1> SUFFICES ASSUME IInv, [Next]_vars, sweep' # sweep, balance' >= 0, last # {}
             PROVE  \E p \in (IF gone = {} THEN last ELSE {Resale(m) : m \in gone}) : balance' - p < 0
  OBVIOUS
<1>1. CASE UNCHANGED vars \/ Body \/ Tick \/ Begin \/ Tail
  BY <1>1 DEF vars, Body, Tick, Begin, Tail
<1>2. ASSUME NEW e, Skip(e) \/ CompleteTask(e) \/ CompleteRepair(e)
      PROVE  FALSE
  BY <1>2 DEF Skip, CompleteTask, CompleteRepair
<1>3. ASSUME NEW e, PlainSweep(e)
      PROVE  FALSE
  <2>1. stored' = stored /\ machine' = machine /\ stored \in Nat
    BY <1>3 DEF PlainSweep, storeVars, rowVars, IInv, TypeOK
  <2>2. gone = {}
    BY <2>1 DEF Owned
  <2>3. 1 .. stored - stored' = {}
    BY <2>1
  <2> QED
    BY <2>2, <2>3
<1>4. ASSUME NEW e, RuinousSweep(e)
      PROVE  FALSE
  <2>1. balance' < 0 /\ balance' \in Int
    BY <1>4, RuinousSweepType DEF RuinousSweep, TypeOK
  <2> QED
    BY <2>1
<1>5. ASSUME NEW e, NEW M \in SUBSET Machines, SellingSweep(e, M)
      PROVE  \E p \in (IF gone = {} THEN last ELSE {Resale(m) : m \in gone}) : balance' - p < 0
  BY <1>5, SoldForDebt
<1> HIDE DEF gone, last
<1> QED
  BY <1>1, <1>2, <1>3, <1>4, <1>5, StepKinds

\* A forced liquidation that leaves the player solvent would not without the last unit or the
\* last machine it sold (economy/liquidation.ts).
THEOREM TakesNoMoreHolds == Spec => TakesNoMore
BY LiquidationStep, InductiveInvariant, PTL DEF Spec, TakesNoMore

-----------------------------------------------------------------------------
(* Wear *)

\* What settles before anything works: a request runs with the mark at its reading or past it,
\* no wear and no task begins past the mark, and the machines of a task written in time were
\* not worn after it began.
WearInv ==
    /\ phase = "BODY" => now <= mark
    /\ \A m \in Machines : machine[m].wearAt <= mark
    /\ \A t \in Tasks : task[t].start <= mark
    /\ \A t \in RunningTasks :
         /\ task[t].start < task[t].scheduledEnd
         /\ t \notin late => \A m \in task[t].machines : machine[m].wearAt <= task[t].start

\* A machine that a closing task gives back has the wear of that task's hours.
LEMMA WornBack ==
  ASSUME IInv, NEW T \in SUBSET RunningTasks, NEW end \in [Tasks -> Nat],
         NEW t \in T, NEW m \in task[t].machines
  PROVE  /\ m \in Machines /\ machine[m].task = t /\ t \in Tasks /\ task[t].start \in Nat
         /\ MachinesBack(T, end)[m].wear = Worn(machine[m], task[t].start, end[t]).wear
         /\ MachinesBack(T, end)[m].wearAt = Worn(machine[m], task[t].start, end[t]).wearAt
<1>1. t \in RunningTasks /\ t \in Tasks /\ T \subseteq Tasks
  BY DEF RunningTasks
<1>2. task[t] \in TaskRows /\ TypeOK /\ ReservationsAgree
  BY <1>1 DEF IInv, TypeOK
<1>3. m \in Machines /\ task[t].start \in Nat /\ end[t] \in Nat
  BY <1>1, <1>2 DEF TaskRows
<1>4. \A x \in T : m \in task[x].machines => machine[m].task = x
  BY <1>2 DEF ReservationsAgree
<1>5. MachinesBack(T, end)[m] = Back(m, t, end[t])
  BY <1>3, <1>4 DEF MachinesBack
<1> DEFINE r == Worn(machine[m], task[t].start, end[t])
<1>6. r \in MachineRows
  <2>1. machine[m] \in MachineRows
    BY <1>2, <1>3 DEF TypeOK
  <2> QED
    BY <1>3, <2>1, WornMachine
<1>7. Back(m, t, end[t]) = IF r.task = t THEN [r EXCEPT !.status = "IDLE", !.task = NoTask] ELSE r
  BY DEF Back
<1> HIDE DEF r
<1>8. Back(m, t, end[t]).wear = r.wear /\ Back(m, t, end[t]).wearAt = r.wearAt
  BY <1>6, <1>7 DEF MachineRows
<1> QED
  BY <1>1, <1>3, <1>4, <1>5, <1>8 DEF r

\* The instants of the rows.
LEMMA WearTypes ==
  ASSUME IInv
  PROVE  /\ mark \in Nat /\ now \in Nat /\ MaxGame \in Nat /\ game \in Nat
         /\ \A m \in Machines : machine[m].wearAt \in Nat /\ machine[m].wear \in 0 .. FullWear
         /\ \A t \in Tasks : task[t].start \in Nat /\ task[t].scheduledEnd \in Nat
                             /\ task[t].machines \subseteq Machines
BY HoldingAssumption DEF IInv, TypeOK, MachineRows, TaskRows

\* A step that begins no task and does not touch the machines of those that go on.
LEMMA WearKept ==
  ASSUME IInv, WearInv, mark' \in Nat, mark <= mark', late \subseteq late',
         phase' = "BODY" => now' <= mark',
         \A m \in Machines : machine'[m].wearAt \in {machine[m].wearAt} \cup 0 .. mark',
         \A t \in Tasks : task'[t].start = task[t].start,
         \A t \in RunningTasks' :
            /\ t \in RunningTasks /\ task'[t].machines = task[t].machines
            /\ task'[t].scheduledEnd = task[t].scheduledEnd
            /\ \A m \in task[t].machines : machine'[m].wearAt = machine[m].wearAt
  PROVE  WearInv'
<1>1. mark \in Nat /\ \A m \in Machines : machine[m].wearAt \in Nat
  BY WearTypes
<1>2. \A m \in Machines : machine'[m].wearAt <= mark'
  BY <1>1 DEF WearInv
<1>3. \A t \in Tasks : task[t].start \in Nat /\ task'[t].start <= mark'
  BY <1>1, WearTypes DEF WearInv
<1>4. ASSUME NEW t \in RunningTasks'
      PROVE  /\ task'[t].start < task'[t].scheduledEnd
             /\ t \notin late' => \A m \in task'[t].machines : machine'[m].wearAt <= task'[t].start
  <2>1. t \in RunningTasks /\ t \in Tasks
    BY DEF RunningTasks
  <2> QED
    BY <2>1 DEF WearInv
<1> QED
  BY <1>2, <1>3, <1>4 DEF WearInv

\* The tasks of T close, none of them past the mark.
LEMMA WearClosed ==
  ASSUME IInv, WearInv, NEW T \in SUBSET RunningTasks, NEW end \in [Tasks -> Nat],
         NEW st \in {"COMPLETED", "CANCELED"}, task' = TasksClosed(T, st, end),
         mark' \in Nat, mark <= mark', late \subseteq late',
         phase' = "BODY" => now' <= mark',
         \A t \in T : end[t] <= mark',
         \A m \in Machines : machine'[m].wearAt
             = (IF machine[m].task \in T THEN MachinesBack(T, end)[m].wearAt ELSE machine[m].wearAt)
  PROVE  WearInv'
<1>1. T \subseteq Tasks /\ task \in [Tasks -> TaskRows] /\ ReservationsAgree
  BY DEF RunningTasks, IInv, TypeOK
<1>2. \A t \in Tasks : /\ t \in T => task'[t].status = st
                       /\ task'[t].start = task[t].start
                       /\ task'[t].machines = task[t].machines
                       /\ task'[t].scheduledEnd = task[t].scheduledEnd
                       /\ t \notin T => task'[t] = task[t]
  BY <1>1 DEF TasksClosed, TaskRows
<1>3. ASSUME NEW m \in Machines
      PROVE  machine'[m].wearAt \in {machine[m].wearAt} \cup 0 .. mark'
  <2>1. CASE machine[m].task \notin T
    BY <2>1
  <2>2. CASE machine[m].task \in T
    <3>1. PICK t \in T : machine[m].task = t
      BY <2>2
    <3>2. m \in task[t].machines
      BY <1>1, <3>1 DEF ReservationsAgree
    <3>3. machine'[m].wearAt = Worn(machine[m], task[t].start, end[t]).wearAt
      BY <2>2, <3>2, WornBack
    <3>4. end[t] \in Nat /\ end[t] <= mark' /\ machine[m] \in MachineRows
      BY <1>1 DEF IInv, TypeOK
    <3>5. Worn(machine[m], task[t].start, end[t]).wearAt \in {machine[m].wearAt, end[t]}
      BY <3>4 DEF Worn, MachineRows
    <3> QED
      BY <3>3, <3>4, <3>5
  <2> QED
    BY <2>1, <2>2
<1>4. ASSUME NEW t \in RunningTasks'
      PROVE  /\ t \in RunningTasks /\ t \in Tasks
             /\ \A m \in task[t].machines : machine'[m].wearAt = machine[m].wearAt
  <2>1. t \in Tasks /\ task'[t].status = "IN_PROGRESS"
    BY DEF RunningTasks, Running
  <2>2. t \notin T
    BY <1>2, <2>1
  <2>3. t \in RunningTasks
    BY <1>2, <2>1, <2>2 DEF RunningTasks, Running
  <2>4. \A m \in task[t].machines : m \in Machines /\ machine[m].task = t
    BY <1>1, <2>1, <2>3, WearTypes DEF ReservationsAgree
  <2> QED
    BY <2>1, <2>2, <2>3, <2>4
<1> QED
  BY <1>2, <1>3, <1>4, WearKept

\* A task that closes has worn its machines for the hours it has paid.
LEMMA HoursPaid ==
  ASSUME IInv, IInv', WearInv, NEW T \in SUBSET RunningTasks, NEW end \in [Tasks -> Nat],
         NEW st \in {"COMPLETED", "CANCELED"}, task' = TasksClosed(T, st, end),
         late \subseteq late', NEW t \in T, t \notin late',
         task[t].start <= end[t], end[t] <= mark', end[t] <= MaxGame, NEW m \in task[t].machines,
         machine'[m].wear = MachinesBack(T, end)[m].wear
  PROVE  \/ machine'[m].wear = FullWear
         \/ (machine'[m].wear - machine[m].wear) * Rate(t) = paid'[t]
<1>1. /\ T \subseteq Tasks /\ t \in Tasks /\ t \in RunningTasks /\ t \in Sources
      /\ t \notin Workers /\ t \notin Machines /\ m \in Machines
  BY HoldingAssumption, WornBack DEF RunningTasks, Sources
<1> DEFINE f == task[t].start
           u == end[t]
           w == machine[m].wear
           R == Rate(t)
<1>2. f \in Nat /\ u \in Nat /\ f <= u /\ u <= mark' /\ w \in 0 .. FullWear /\ mark' \in Nat
      /\ FullWear \in Nat /\ MaxGame \in Nat /\ machine[m].wearAt \in Nat
  BY <1>1, HoldingAssumption, WearTypes DEF IInv, TypeOK
<1>3. machine[m].wearAt <= f
  <2>1. t \in RunningTasks /\ t \notin late /\ m \in task[t].machines
    BY <1>1
  <2> QED
    BY <2>1 DEF WearInv
<1>4. R \in Nat
  BY <1>1, RowFacts DEF IInv
<1>5. task'[t].start = f /\ task'[t].ended = u /\ task'[t].machines = task[t].machines
  <2>1. task[t] \in TaskRows
    BY <1>1 DEF IInv, TypeOK
  <2>2. task'[t] = [task[t] EXCEPT !.status = st, !.ended = end[t]]
    BY <1>1 DEF TasksClosed
  <2> QED
    BY <2>1, <2>2 DEF TaskRows
<1>6. paid'[t] = R * (u - f)
  <2>1. paid'[t] = Cost(t, 0, mark)'
    BY <1>1 DEF IInv, AccountInv, Recomputable
  <2>2. Rate(t)' = R
    BY <1>1, <1>5 DEF Rate
  <2>3. From(t)' = f
    <3>1. From(t)' = task'[t].start
      BY <1>1 DEF From
    <3> QED
      BY <1>5, <3>1
  <2>4. Until(t)' = u
    <3>1. u # Never
      BY <1>2 DEF Never
    <3>2. Until(t)' = IF task'[t].ended = Never THEN task'[t].scheduledEnd ELSE task'[t].ended
      BY <1>1 DEF Until
    <3> QED
      BY <1>5, <3>1, <3>2
  <2> HIDE DEF R, f, u
  <2>5. Cost(t, 0, mark)' = R * Larger(0, Smaller(mark', u) - Larger(0, f))
    BY <2>2, <2>3, <2>4 DEF Cost
  <2>6. Larger(0, Smaller(mark', u) - Larger(0, f)) = u - f
    <3>1. mark' \in Nat /\ u \in Nat /\ f \in Nat /\ f <= u /\ u <= mark'
      BY <1>2
    <3>2. Smaller(mark', u) = u /\ Larger(0, f) = f
      BY <3>1 DEF Smaller, Larger
    <3> QED
      BY <3>1, <3>2 DEF Larger
  <2> QED
    BY <2>1, <2>5, <2>6
<1>7. machine'[m].wear = Worn(machine[m], f, u).wear
  BY WornBack
<1>8. machine[m] \in MachineRows
  BY <1>1 DEF IInv, TypeOK
<1> HIDE DEF R, f, u
<1>9. machine'[m].wear = IF u > f THEN Smaller(FullWear, w + (u - f)) ELSE w
  <2>1. CASE u > f
    BY <1>2, <1>3, <1>7, <1>8, <2>1 DEF Worn, MachineRows
  <2>2. CASE ~ (u > f)
    BY <1>7, <1>8, <2>2 DEF Worn
  <2> QED
    BY <2>1, <2>2
<1> HIDE DEF w
<1>10. machine'[m].wear = FullWear \/ machine'[m].wear - w = u - f
  BY <1>2, <1>9 DEF Smaller
<1>11. (u - f) * R = R * (u - f)
  BY <1>2, <1>4
<1> QED
  BY <1>6, <1>10, <1>11 DEF w, R

\* A step that leaves the tasks alone, and the machines that work.
LEMMA WearElsewhere ==
  ASSUME IInv, WearInv, mark' \in Nat, mark <= mark', late \subseteq late', task' = task,
         phase' = "BODY" => now' <= mark',
         \A m \in Machines :
            \/ machine'[m].wearAt = machine[m].wearAt
            \/ machine[m].status # "WORKING" /\ machine'[m].wearAt \in 0 .. mark'
  PROVE  WearInv'
<1>1. \A t \in RunningTasks : \A m \in task[t].machines :
         m \in Machines /\ machine[m].status = "WORKING"
  <2>1. ReservationsAgree /\ NoTask \notin Tasks
    BY HoldingAssumption DEF IInv
  <2>2. ASSUME NEW t \in RunningTasks, NEW m \in task[t].machines
        PROVE  m \in Machines /\ machine[m].status = "WORKING"
    <3>1. t \in Tasks /\ m \in Machines
      BY WearTypes DEF RunningTasks
    <3> QED
      BY <2>1, <3>1 DEF ReservationsAgree
  <2> QED
    BY <2>2
<1>2. RunningTasks' = RunningTasks
  BY DEF RunningTasks, Running
<1> QED
  BY <1>1, <1>2, WearKept

LEMMA RequestMark ==
  ASSUME IInv, WearInv, Body
  PROVE  /\ mark' \in Nat /\ mark' = mark /\ now <= mark /\ now \in Nat /\ phase' # "BODY"
         /\ now \in 0 .. mark'
BY WearTypes DEF Body, WearInv

LEMMA EventMark ==
  ASSUME IInv, NEW e, Take(e)
  PROVE  /\ mark' \in Nat /\ mark <= mark' /\ phase' # "BODY" /\ e.due \in 0 .. mark'
         /\ mark' <= MaxGame
<1>1. /\ mark' \in 0 .. MaxGame /\ mark <= mark' /\ e.due <= mark' /\ e.due \in Nat
      /\ phase' = phase /\ phase = "ADVANCE"
  BY TakeFacts
<1> QED
  BY <1>1, HoldingAssumption

LEMMA WearOfEvents ==
  ASSUME IInv, WearInv, NEW e,
         \/ Skip(e) \/ CompleteRepair(e) \/ PlainSweep(e)
         \/ \E M \in SUBSET Machines : SellingSweep(e, M)
  PROVE  WearInv'
<1>1. Take(e) /\ task' = task /\ late \subseteq late'
  BY DEF Skip, CompleteRepair, PlainSweep, SellingSweep, rowVars, Rewrite
<1>2. mark' \in Nat /\ mark <= mark' /\ phase' # "BODY" /\ e.due \in 0 .. mark'
  BY <1>1, EventMark
<1>3. \A m \in Machines : machine[m] \in MachineRows
  BY DEF IInv, TypeOK
<1>4. CASE Skip(e) \/ PlainSweep(e)
  <2>1. machine' = machine
    BY <1>4 DEF Skip, PlainSweep, rowVars
  <2> QED
    BY <1>1, <1>2, <2>1, WearElsewhere
<1>5. CASE CompleteRepair(e)
  <2>1. e.ref \in Machines /\ machine[e.ref].status = "IN_REPAIR"
    BY <1>5, PendingEvents DEF CompleteRepair
  <2>2. machine'[e.ref].wearAt = e.due
    BY <1>3, <1>5, <2>1 DEF CompleteRepair, MachineRows, IInv, TypeOK
  <2>3. \A m \in Machines \ {e.ref} : machine'[m] = machine[m]
    BY <1>5 DEF CompleteRepair, IInv, TypeOK
  <2> QED
    BY <1>1, <1>2, <2>1, <2>2, <2>3, WearElsewhere
<1>6. ASSUME NEW M \in SUBSET Machines, SellingSweep(e, M)
      PROVE  WearInv'
  <2>1. \A m \in Machines : machine'[m] = IF m \in M
                       THEN [machine[m] EXCEPT !.disposed = EndFor(m, e.due)] ELSE machine[m]
    BY <1>6 DEF SellingSweep
  <2>2. \A m \in Machines : machine'[m].wearAt = machine[m].wearAt
    BY <1>3, <2>1 DEF MachineRows
  <2> QED
    BY <1>1, <1>2, <2>2, WearElsewhere
<1> QED
  BY <1>4, <1>5, <1>6

LEMMA WearOfOffice ==
  ASSUME IInv, WearInv, Body, task' = task, machine' = machine, late \subseteq late'
  PROVE  WearInv'
<1>1. mark' \in Nat /\ mark <= mark' /\ phase' # "BODY"
  BY RequestMark, WearTypes
<1> QED
  BY <1>1, WearElsewhere

LEMMA WearOfWorkshop ==
  ASSUME IInv, WearInv, NEW m \in Machines,
         \/ BuyMachine(m) \/ SellMachine(m) \/ \E n \in 1 .. FullWear : RepairMachine(m, n)
  PROVE  WearInv'
<1>1. Body /\ task' = task /\ late \subseteq late'
  BY DEF BuyMachine, SellMachine, RepairMachine, Rewrite
<1>2. mark' \in Nat /\ mark <= mark' /\ phase' # "BODY" /\ now \in 0 .. mark'
  BY <1>1, RequestMark, WearTypes
<1>3. \A x \in Machines : machine[x] \in MachineRows
  BY DEF IInv, TypeOK
<1>4. \A x \in Machines \ {m} : machine'[x] = machine[x]
  BY DEF BuyMachine, SellMachine, RepairMachine, IInv, TypeOK
<1>5. machine[m].status # "WORKING"
  BY DEF BuyMachine, SellMachine, RepairMachine, IdleMachine
<1>6. machine'[m].wearAt \in {now, machine[m].wearAt}
  <2>1. machine \in [Machines -> MachineRows]
    BY DEF IInv, TypeOK
  <2>2. CASE BuyMachine(m)
    BY <2>1, <2>2 DEF BuyMachine
  <2>3. CASE SellMachine(m)
    BY <1>3, <2>1, <2>3 DEF SellMachine, MachineRows
  <2>4. ASSUME NEW n \in 1 .. FullWear, RepairMachine(m, n)
        PROVE  machine'[m].wearAt \in {now, machine[m].wearAt}
    BY <1>3, <2>1, <2>4 DEF RepairMachine, MachineRows
  <2> QED
    BY <2>2, <2>3, <2>4
<1> QED
  BY <1>1, <1>2, <1>4, <1>5, <1>6, WearElsewhere

LEMMA WearOfAssignment ==
  ASSUME IInv, WearInv, NEW t \in Tasks, NEW w \in Workers, NEW M \in SUBSET Machines,
         NEW y \in Yields, AssignTask(t, w, M, y)
  PROVE  WearInv'
<1>1. /\ Body /\ Rewrite({t}, now, mark) /\ late \subseteq late'
      /\ task[t].status = "ABSENT" /\ \A m \in M : machine[m].task = NoTask
  BY DEF AssignTask, Rewrite, IdleMachine
<1>2. mark' \in Nat /\ mark' = mark /\ phase' # "BODY" /\ now \in Nat /\ now <= mark
      /\ WorkTime \in Nat \ {0} /\ NoTask \notin Tasks
  BY <1>1, RequestMark, HoldingAssumption
<1>3. /\ \A m \in Machines : machine[m] \in MachineRows
      /\ task \in [Tasks -> TaskRows] /\ ReservationsAgree
  BY DEF IInv, TypeOK
<1>4. \A m \in Machines : machine'[m].wearAt = machine[m].wearAt
  <2>1. \A m \in Machines : machine'[m] = IF m \in M
             THEN [machine[m] EXCEPT !.status = "WORKING", !.task = t] ELSE machine[m]
    BY DEF AssignTask
  <2> QED
    BY <1>3, <2>1 DEF MachineRows
<1>5. /\ task'[t].start = now /\ task'[t].scheduledEnd = now + WorkTime /\ task'[t].machines = M
      /\ \A x \in Tasks \ {t} : task'[x] = task[x]
  BY <1>3 DEF AssignTask
<1>6. \A m \in Machines : machine'[m].wearAt <= mark' /\ machine[m].wearAt \in Nat
  BY <1>2, <1>4, WearTypes DEF WearInv
<1>7. \A x \in Tasks : task'[x].start <= mark'
  BY <1>2, <1>5, WearTypes DEF WearInv
<1>8. ASSUME NEW x \in RunningTasks'
      PROVE  /\ task'[x].start < task'[x].scheduledEnd
             /\ x \notin late' => \A m \in task'[x].machines : machine'[m].wearAt <= task'[x].start
  <2>1. x \in Tasks
    BY DEF RunningTasks
  <2>2. CASE x = t
    <3>1. x \notin late' => now = mark
      BY <1>1, <1>2, <2>2, WearTypes DEF Rewrite
    <3>2. now < now + WorkTime
      BY <1>2
    <3>3. \A m \in M : machine'[m].wearAt <= mark
      BY <1>2, <1>6
    <3> QED
      BY <1>5, <2>2, <3>1, <3>2, <3>3
  <2>3. CASE x # t
    <3>1. x \in RunningTasks /\ task'[x] = task[x]
      BY <1>5, <2>1, <2>3 DEF RunningTasks, Running
    <3>2. task[x].machines \subseteq Machines /\ (x \notin late' => x \notin late)
      BY <1>1, <2>1, WearTypes
    <3> QED
      BY <1>4, <3>1, <3>2 DEF WearInv
  <2> QED
    BY <2>2, <2>3
<1> QED
  BY <1>2, <1>6, <1>7, <1>8 DEF WearInv

\* What the three steps that close tasks have in common.
Closing(T, end) ==
  /\ T \in SUBSET RunningTasks /\ end \in [Tasks -> Nat] /\ late \subseteq late'
  /\ \E st \in {"COMPLETED", "CANCELED"} : task' = TasksClosed(T, st, end)
  /\ mark' \in Nat /\ mark <= mark' /\ phase' # "BODY"
  /\ \A t \in T : task[t].start <= end[t] /\ end[t] <= mark' /\ end[t] <= MaxGame
  /\ \A m \in Machines : \/ machine'[m] = MachinesBack(T, end)[m]
                         \/ /\ machine[m].task \notin T
                            /\ machine'[m].wearAt = machine[m].wearAt
                            /\ machine'[m].wear = machine[m].wear

LEMMA WearAtClosing ==
  ASSUME IInv, WearInv, NEW T, NEW end, Closing(T, end)
  PROVE  WearInv'
<1>1. /\ T \in SUBSET RunningTasks /\ end \in [Tasks -> Nat] /\ late \subseteq late'
      /\ mark' \in Nat /\ mark <= mark' /\ phase' # "BODY" /\ \A t \in T : end[t] <= mark'
  BY DEF Closing
<1>2. PICK st \in {"COMPLETED", "CANCELED"} : task' = TasksClosed(T, st, end)
  BY DEF Closing
<1>3. \A m \in Machines : machine[m].task \notin T => MachinesBack(T, end)[m] = machine[m]
  BY <1>1, FreeMachines DEF IInv
<1>4. \A m \in Machines : machine'[m].wearAt
             = (IF machine[m].task \in T THEN MachinesBack(T, end)[m].wearAt ELSE machine[m].wearAt)
  BY <1>3 DEF Closing
<1> QED
  BY <1>1, <1>2, <1>4, WearClosed

LEMMA BilledAtClosing ==
  ASSUME IInv, IInv', WearInv, NEW T, NEW end, Closing(T, end),
         NEW t \in Tasks \ late', Running(t), task'[t].status # "IN_PROGRESS",
         NEW m \in task[t].machines
  PROVE  \/ machine'[m].wear = FullWear
         \/ (machine'[m].wear - machine[m].wear) * Rate(t) = paid'[t]
<1>1. T \in SUBSET RunningTasks /\ end \in [Tasks -> Nat] /\ late \subseteq late'
  BY DEF Closing
<1>2. PICK st \in {"COMPLETED", "CANCELED"} : task' = TasksClosed(T, st, end)
  BY DEF Closing
<1>3. t \in T
  BY <1>2 DEF TasksClosed, Running
<1>4. task[t].start <= end[t] /\ end[t] <= mark' /\ end[t] <= MaxGame /\ t \notin late'
  BY <1>3 DEF Closing
<1>5. m \in Machines /\ machine[m].task = t
  <2>1. m \in Machines
    BY WearTypes
  <2>2. t \in RunningTasks /\ ReservationsAgree
    BY <1>1, <1>3 DEF IInv
  <2> QED
    BY <2>1, <2>2 DEF ReservationsAgree
<1>6. machine'[m].wear = MachinesBack(T, end)[m].wear
  BY <1>3, <1>5 DEF Closing
<1> QED
  BY <1>1, <1>2, <1>3, <1>4, <1>6, HoursPaid

LEMMA CompletionCloses ==
  ASSUME IInv, WearInv, NEW e, CompleteTask(e)
  PROVE  Closing({e.ref}, [t \in Tasks |-> e.due])
<1> DEFINE end == [t \in Tasks |-> e.due]
<1>1. /\ Take(e) /\ e \in Pending /\ e.kind = "task" /\ late' = late
      /\ task' = TasksClosed({e.ref}, "COMPLETED", end)
      /\ machine' = MachinesBack({e.ref}, end)
  BY DEF CompleteTask
<1>2. /\ e.ref \in RunningTasks /\ e.ref \in Tasks /\ {e.ref} \in SUBSET RunningTasks
      /\ e.due = task[e.ref].scheduledEnd
  BY <1>1, PendingEvents DEF RunningTasks
<1>3. /\ e.due \in Nat /\ mark' \in Nat /\ mark <= mark' /\ phase' # "BODY" /\ e.due <= mark'
      /\ e.due <= MaxGame
  <2>1. mark' \in Nat /\ mark <= mark' /\ phase' # "BODY" /\ e.due \in 0 .. mark'
        /\ mark' <= MaxGame
    BY <1>1, EventMark
  <2> QED
    BY <2>1, HoldingAssumption
<1>4. end \in [Tasks -> Nat] /\ end[e.ref] = e.due
  BY <1>2, <1>3
<1>5. task[e.ref].start <= e.due
  <2>1. task[e.ref].start < task[e.ref].scheduledEnd
    BY <1>2 DEF WearInv
  <2> QED
    BY <1>2, <2>1, WearTypes
<1> HIDE DEF end
<1>6. Closing({e.ref}, end)
  BY <1>1, <1>2, <1>3, <1>4, <1>5 DEF Closing
<1> QED
  BY <1>6 DEF end

\* Ends that are written behind neither the mark nor the beginning.
LEMMA EndsAt ==
  ASSUME IInv, WearInv, NEW d \in Nat, d <= MaxGame, mark' \in Nat, mark <= mark', d <= mark',
         NEW t \in Tasks
  PROVE  /\ EndsFor(d) \in [Tasks -> Nat] /\ task[t].start <= EndsFor(d)[t]
         /\ EndsFor(d)[t] <= mark' /\ EndsFor(d)[t] <= MaxGame
<1>1. t \notin Workers /\ t \notin Machines /\ t \in Sources
  BY HoldingAssumption DEF Sources
<1>2. From(t) = task[t].start
  BY <1>1 DEF From
<1>3. EndsFor(d)[t] = Larger(task[t].start, d)
  BY <1>2 DEF EndsFor, EndFor
<1>4. task[t].start \in Nat /\ task[t].start <= mark /\ mark \in Nat /\ mark <= MaxGame
      /\ MaxGame \in Nat
  BY WearTypes DEF WearInv, IInv, TypeOK
<1>5. EndsFor(d) \in [Tasks -> Nat]
  BY EndsForType DEF IInv
<1> QED
  BY <1>3, <1>4, <1>5 DEF Larger

LEMMA CancellationCloses ==
  ASSUME IInv, WearInv, NEW u \in Tasks, CancelTask(u)
  PROVE  Closing({u}, EndsFor(now))
<1>1. /\ Body /\ late \subseteq late' /\ {u} \in SUBSET RunningTasks
      /\ task' = TasksClosed({u}, "CANCELED", EndsFor(now))
      /\ machine' = MachinesBack({u}, EndsFor(now))
  BY DEF CancelTask, RunningTasks
<1>2. mark' \in Nat /\ mark' = mark /\ now \in Nat /\ now <= mark /\ phase' # "BODY" /\ mark \in Nat
  BY <1>1, RequestMark, WearTypes
<1>3. now <= MaxGame
  BY HoldingAssumption DEF IInv, TypeOK
<1>4. /\ EndsFor(now) \in [Tasks -> Nat] /\ task[u].start <= EndsFor(now)[u]
      /\ EndsFor(now)[u] <= mark' /\ EndsFor(now)[u] <= MaxGame
  BY <1>2, <1>3, EndsAt
<1> QED
  BY <1>1, <1>2, <1>4 DEF Closing

LEMMA RuinCloses ==
  ASSUME IInv, WearInv, NEW e, RuinousSweep(e)
  PROVE  Closing(RunningTasks, EndsFor(e.due))
<1> DEFINE end == EndsFor(e.due)
<1>1. /\ Take(e) /\ late \subseteq late'
      /\ task' = TasksClosed(RunningTasks, "CANCELED", end)
      /\ machine' = [m \in Machines |-> IF m \in Idle
                             THEN [machine[m] EXCEPT !.disposed = EndFor(m, e.due)]
                             ELSE MachinesBack(RunningTasks, end)[m]]
  BY DEF RuinousSweep, Rewrite
<1>2. mark' \in Nat /\ mark <= mark' /\ phase' # "BODY" /\ e.due \in 0 .. mark' /\ mark' <= MaxGame
  BY <1>1, EventMark
<1>3. e.due \in Nat /\ e.due <= mark' /\ e.due <= MaxGame
  BY <1>2, HoldingAssumption
<1>4. \A t \in Tasks : /\ end \in [Tasks -> Nat] /\ task[t].start <= end[t]
                       /\ end[t] <= mark' /\ end[t] <= MaxGame
  BY <1>2, <1>3, EndsAt
<1>5. end \in [Tasks -> Nat]
  BY <1>3, EndsForType DEF IInv
<1> HIDE DEF end
<1>6. ASSUME NEW m \in Machines
      PROVE  \/ machine'[m] = MachinesBack(RunningTasks, end)[m]
             \/ /\ machine[m].task \notin RunningTasks
                /\ machine'[m].wearAt = machine[m].wearAt
                /\ machine'[m].wear = machine[m].wear
  <2>1. CASE m \in Idle
    <3>1. machine[m] \in MachineRows /\ NoTask \notin Tasks
      BY HoldingAssumption DEF IInv, TypeOK
    <3>2. machine[m].task = NoTask
      BY <2>1 DEF Idle, IdleMachine
    <3>3. machine'[m] = [machine[m] EXCEPT !.disposed = EndFor(m, e.due)]
      BY <1>1, <2>1
    <3> QED
      BY <3>1, <3>2, <3>3 DEF MachineRows, RunningTasks
  <2>2. CASE m \notin Idle
    BY <1>1, <2>2
  <2> QED
    BY <2>1, <2>2
<1>7. \A t \in RunningTasks : t \in Tasks
  BY DEF RunningTasks
<1>8. Closing(RunningTasks, end)
  BY <1>1, <1>2, <1>4, <1>5, <1>6, <1>7 DEF Closing
<1> QED
  BY <1>8 DEF end

LEMMA WearInductive == IInv /\ WearInv /\ [Next]_vars => WearInv'
<1> SUFFICES ASSUME IInv, WearInv, [Next]_vars
             PROVE  WearInv'
  OBVIOUS
<1>1. CASE UNCHANGED vars \/ Tick \/ Begin
  <2>1. /\ task' = task /\ machine' = machine /\ late' = late /\ mark' = mark
        /\ phase' = "BODY" => phase = "BODY" /\ now' = now
    BY <1>1 DEF vars, clockVars, moneyVars, rowVars, Tick, Begin
  <2> QED
    BY <2>1, WearTypes, WearElsewhere DEF WearInv
<1>2. CASE Tail
  <2>1. /\ task' = task /\ machine' = machine /\ late' = late /\ now' = now
    BY <1>2 DEF Tail, rowVars
  <2>2. mark' \in 0 .. MaxGame /\ mark <= mark' /\ now <= mark'
    BY <1>2, TailFacts
  <2>3. mark' \in Nat
    BY <2>2, HoldingAssumption
  <2> QED
    BY <2>1, <2>2, <2>3, WearElsewhere
<1>3. CASE Close \/ BuildSilo \/ DemolishSilo \/ \E n \in 1 .. Capacity : SellStock(n)
  <2>1. Body /\ task' = task /\ machine' = machine /\ late' = late
    BY <1>3 DEF Close, BuildSilo, DemolishSilo, SellStock, rowVars
  <2> QED
    BY <2>1, WearOfOffice
<1>4. CASE \E w \in Workers : HireCandidate(w) \/ DismissWorker(w)
  <2>1. Body /\ task' = task /\ machine' = machine /\ late \subseteq late'
    BY <1>4 DEF HireCandidate, DismissWorker, Rewrite
  <2> QED
    BY <2>1, WearOfOffice
<1>5. CASE \/ \E m \in Machines : BuyMachine(m) \/ SellMachine(m)
           \/ \E m \in Machines, n \in 1 .. FullWear : RepairMachine(m, n)
  BY <1>5, WearOfWorkshop
<1>6. CASE \E e \in batch : Skip(e) \/ CompleteRepair(e) \/ PlainSweep(e)
  BY <1>6, WearOfEvents
<1>7. CASE \E e \in batch, M \in SUBSET Machines : SellingSweep(e, M)
  BY <1>7, WearOfEvents
<1>8. CASE \E e \in batch : CompleteTask(e) \/ RuinousSweep(e)
  BY <1>8, CompletionCloses, RuinCloses, WearAtClosing
<1>9. CASE \E t \in Tasks : CancelTask(t)
  BY <1>9, CancellationCloses, WearAtClosing
<1>10. CASE \E t \in Tasks, w \in Workers, M \in SUBSET Machines, y \in Yields :
              AssignTask(t, w, M, y)
  BY <1>10, WearOfAssignment
<1> QED
  BY <1>1, <1>2, <1>3, <1>4, <1>5, <1>6, <1>7, <1>8, <1>9, <1>10 DEF Next

LEMMA WearStep ==
  IInv /\ WearInv /\ [Next]_vars =>
      \A t \in Tasks \ late' : Running(t) /\ task'[t].status # "IN_PROGRESS" =>
           \A m \in task[t].machines :
              \/ machine'[m].wear = FullWear
              \/ (machine'[m].wear - machine[m].wear) * Rate(t) = paid'[t]
<1> SUFFICES ASSUME IInv, WearInv, [Next]_vars, NEW t \in Tasks \ late', Running(t),
                    task'[t].status # "IN_PROGRESS", NEW m \in task[t].machines
             PROVE  \/ machine'[m].wear = FullWear
                    \/ (machine'[m].wear - machine[m].wear) * Rate(t) = paid'[t]
  OBVIOUS
<1>1. IInv'
  BY Inductive
<1>2. task' # task
  BY DEF Running
<1>3. CASE \E e \in batch : CompleteTask(e) \/ RuinousSweep(e)
  BY <1>1, <1>3, CompletionCloses, RuinCloses, BilledAtClosing
<1>4. CASE \E x \in Tasks : CancelTask(x)
  BY <1>1, <1>4, CancellationCloses, BilledAtClosing
<1>5. ASSUME NEW x \in Tasks, NEW w \in Workers, NEW M \in SUBSET Machines, NEW y \in Yields,
             AssignTask(x, w, M, y)
      PROVE  FALSE
  <2>1. task[x].status = "ABSENT"
    BY <1>5 DEF AssignTask
  <2>2. t # x
    BY <2>1 DEF Running
  <2>3. task'[t] = task[t]
    BY <1>5, <2>2 DEF AssignTask, IInv, TypeOK
  <2> QED
    BY <2>3 DEF Running
<1>6. CASE UNCHANGED vars \/ Tick \/ Begin \/ Tail
  BY <1>2, <1>6 DEF vars, rowVars, Tick, Begin, Tail
<1>7. CASE Close \/ BuildSilo \/ DemolishSilo \/ \E n \in 1 .. Capacity : SellStock(n)
  BY <1>2, <1>7 DEF Close, BuildSilo, DemolishSilo, SellStock, rowVars
<1>8. CASE \/ \E w \in Workers : HireCandidate(w) \/ DismissWorker(w)
           \/ \E x \in Machines : BuyMachine(x) \/ SellMachine(x)
           \/ \E x \in Machines, n \in 1 .. FullWear : RepairMachine(x, n)
  BY <1>2, <1>8 DEF HireCandidate, DismissWorker, BuyMachine, SellMachine, RepairMachine
<1>9. CASE \/ \E e \in batch : Skip(e) \/ CompleteRepair(e) \/ PlainSweep(e)
           \/ \E e \in batch, M \in SUBSET Machines : SellingSweep(e, M)
  BY <1>2, <1>9 DEF Skip, CompleteRepair, PlainSweep, SellingSweep, rowVars
<1> QED
  BY <1>3, <1>4, <1>5, <1>6, <1>7, <1>8, <1>9 DEF Next

\* When a task that was not written behind the mark closes, each of its machines has worn
\* exactly the hours the task has paid, unless the machine is worn out (wearAndRelease).
THEOREM WearIsBilledHolds == Spec => WearIsBilled
<1>1. Init => WearInv
  <2>1. ASSUME Init
        PROVE  WearInv
    <3>1. /\ \A m \in Machines : machine[m].wearAt = 0
          /\ \A t \in Tasks : task[t].start = 0 /\ task[t].status = "ABSENT"
          /\ mark = 0 /\ phase = "CLOSED"
      BY <2>1 DEF Init, AbsentMachine, AbsentTask
    <3> QED
      BY <3>1 DEF WearInv, RunningTasks, Running
  <2> QED
    BY <2>1
<1>2. /\ IInv /\ WearInv /\ [Next]_vars
      => [\A t \in Tasks \ late' : Running(t) /\ task'[t].status # "IN_PROGRESS" =>
           \A m \in task[t].machines :
              \/ machine'[m].wear = FullWear
              \/ (machine'[m].wear - machine[m].wear) * Rate(t) = paid'[t]]_vars
  BY WearStep
<1> QED
  BY <1>1, <1>2, WearInductive, InductiveInvariant, PTL DEF Spec, WearIsBilled

=============================================================================
