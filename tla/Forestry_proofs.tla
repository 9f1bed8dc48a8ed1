---------------------------- MODULE Forestry_proofs ----------------------------
(***************************************************************************)
(* Proofs about Forestry: that its one alarm per plot reaches every tree   *)
(* exactly once, that a task finds what it was assigned for, that rows,    *)
(* cells and trees agree, and that the wood store is never oversold.       *)
(***************************************************************************)
EXTENDS Forestry, FiniteSetTheorems, WellFoundedInduction, TLAPS

-------------------------------------------------------------------------------
(* Windows *)

Aligned(t) == \E k \in Int : t = k * Window

LEMMA TimesMonotone ==
    ASSUME NEW x \in Int, NEW y \in Int, NEW n \in Nat, x <= y
    PROVE  x * n <= y * n
  <1>1. PICK k \in Nat : y = x + k
    BY SMT
  <1>2. (x + k) * n = x * n + k * n
    BY SMT
  <1>3. k * n \in Nat
    BY SMT
  <1> QED
    BY <1>1, <1>2, <1>3, SMT

\* A window ends no earlier than its instants, and within its width of each.
LEMMA WindowEndFacts ==
    ASSUME NEW t \in Int
    PROVE  /\ WindowEnd(t) \in Int /\ Aligned(WindowEnd(t))
           /\ t <= WindowEnd(t) /\ WindowEnd(t) < t + Window
  <1> DEFINE k == (t + Window - 1) \div Window
  <1>1. Window \in Nat \ {0} /\ t + Window - 1 \in Int
    BY ForestryAssumption
  <1>2. /\ k \in Int /\ k * Window <= t + Window - 1
        /\ t + Window - 1 < k * Window + Window
    BY <1>1, SMT
  <1>3. WindowEnd(t) = k * Window
    BY DEF WindowEnd
  <1> HIDE DEF k
  <1>4. k * Window \in Int
    BY <1>1, <1>2, SMT
  <1> QED
    BY <1>1, <1>2, <1>3, <1>4, SMT DEF Aligned

LEMMA AlignedOrder ==
    ASSUME NEW d \in Int, NEW e \in Int, Aligned(d), Aligned(e), e < d + Window
    PROVE  e <= d
  <1>1. PICK k \in Int : d = k * Window
    BY DEF Aligned
  <1>2. PICK i \in Int : e = i * Window
    BY DEF Aligned
  <1>3. Window \in Nat
    BY ForestryAssumption
  <1>4. CASE i <= k
    BY <1>1, <1>2, <1>3, <1>4, TimesMonotone
  <1>5. CASE k + 1 <= i
    <2>1. (k + 1) * Window <= i * Window
      BY <1>3, <1>5, TimesMonotone
    <2>2. (k + 1) * Window = k * Window + Window
      BY <1>3, SMT
    <2> QED
      BY <1>1, <1>2, <1>3, <2>1, <2>2, SMT
  <1> QED
    BY <1>4, <1>5, SMT

\* The end of a window is the first of the aligned instants.
LEMMA WindowEndLeast ==
    ASSUME NEW t \in Int, NEW d \in Int, Aligned(d), t <= d
    PROVE  WindowEnd(t) <= d
  <1>1. Window \in Nat
    BY ForestryAssumption
  <1>2. WindowEnd(t) < d + Window
    BY <1>1, WindowEndFacts, SMT
  <1> QED
    BY <1>2, WindowEndFacts, AlignedOrder

LEMMA WindowEndMonotone ==
    ASSUME NEW t \in Int, NEW u \in Int, t <= u
    PROVE  WindowEnd(t) <= WindowEnd(u)
  <1>1. t <= WindowEnd(u)
    BY WindowEndFacts, SMT
  <1> QED
    BY <1>1, WindowEndFacts, WindowEndLeast

\* The window (d - Window, d] of an alarm holds the instants whose window ends at d.
LEMMA WindowOf ==
    ASSUME NEW t \in Int, NEW d \in Int, Aligned(d)
    PROVE  d - Window < t /\ t <= d <=> WindowEnd(t) = d
  <1>1. Window \in Nat \ {0}
    BY ForestryAssumption
  <1>2. ASSUME d - Window < t, t <= d PROVE WindowEnd(t) = d
    <2>1. WindowEnd(t) <= d
      BY <1>2, WindowEndLeast
    <2>2. d < WindowEnd(t) + Window
      BY <1>1, <1>2, WindowEndFacts, SMT
    <2>3. d <= WindowEnd(t)
      BY <2>2, WindowEndFacts, AlignedOrder
    <2> QED
      BY <2>1, <2>3, WindowEndFacts, SMT
  <1>3. ASSUME WindowEnd(t) = d PROVE d - Window < t /\ t <= d
    BY <1>1, <1>3, WindowEndFacts, SMT
  <1> QED
    BY <1>2, <1>3

-------------------------------------------------------------------------------
(* Totals *)

Units(f, S) == UNION {{x} \X (1 .. f[x]) : x \in S}

LEMMA UnitsOfOne ==
    ASSUME NEW x, NEW n \in Nat
    PROVE  /\ IsFiniteSet({x} \X (1 .. n)) /\ Cardinality({x} \X (1 .. n)) = n
  <1>1. IsFiniteSet({x}) /\ Cardinality({x}) = 1
    BY FS_Singleton
  <1>2. 1 \in Int /\ n \in Int
    OBVIOUS
  <1>3. IsFiniteSet(1 .. n) /\ Cardinality(1 .. n) = n
    BY <1>2, FS_Interval, SMT
  <1> DEFINE a == {x}
             b == 1 .. n
  <1> HIDE DEF a, b
  <1>4. IsFiniteSet(a \X b) /\ Cardinality(a \X b) = Cardinality(a) * Cardinality(b)
    BY <1>1, <1>3, FS_Product DEF a, b
  <1>5. Cardinality(a) = 1 /\ Cardinality(b) = n
    BY <1>1, <1>3 DEF a, b
  <1>6. IsFiniteSet(a \X b) /\ Cardinality(a \X b) = n
    BY <1>4, <1>5, SMT
  <1> QED
    BY <1>6 DEF a, b

LEMMA UnitsFinite ==
    ASSUME NEW S, IsFiniteSet(S), NEW f \in [S -> Nat], NEW A \in SUBSET S
    PROVE  IsFiniteSet(Units(f, A))
  <1> DEFINE g == [x \in A |-> {x} \X (1 .. f[x])]
             T == {{x} \X (1 .. f[x]) : x \in A}
  <1>1. IsFiniteSet(A)
    BY FS_Subset
  <1>2. g \in Surjection(A, T)
    BY DEF Surjection
  <1>3. IsFiniteSet(T)
    BY <1>1, <1>2, FS_Surjection
  <1>4. ASSUME NEW x \in A PROVE IsFiniteSet({x} \X (1 .. f[x]))
    <2> DEFINE n == f[x]
    <2>1. n \in Nat
      OBVIOUS
    <2> HIDE DEF n
    <2>2. IsFiniteSet({x} \X (1 .. n))
      BY <2>1, UnitsOfOne
    <2> QED
      BY <2>2 DEF n
  <1>6. \A t \in T : IsFiniteSet(t)
    BY <1>4
  <1> HIDE DEF T
  <1>5. IsFiniteSet(UNION T)
    BY <1>3, <1>6, FS_UNION
  <1> QED
    BY <1>5 DEF Units, T

LEMMA TotalType ==
    ASSUME NEW S, IsFiniteSet(S), NEW f \in [S -> Nat]
    PROVE  Total(f) \in Nat
  <1>1. Total(f) = Cardinality(Units(f, S))
    BY DEF Total, Units
  <1>2. IsFiniteSet(Units(f, S))
    BY UnitsFinite
  <1> QED
    BY <1>1, <1>2, FS_CardinalityType

LEMMA TotalSplits ==
    ASSUME NEW S, IsFiniteSet(S), NEW f \in [S -> Nat], NEW p \in S
    PROVE  /\ Total(f) = Cardinality(Units(f, S \ {p})) + f[p]
           /\ Cardinality(Units(f, S \ {p})) \in Nat
  <1> DEFINE R == Units(f, S \ {p})
             P == {p} \X (1 .. f[p])
  <1>1. IsFiniteSet(R) /\ IsFiniteSet(P) /\ Cardinality(P) = f[p]
    BY UnitsFinite, UnitsOfOne
  <1>2. Units(f, S) = R \cup P
    BY DEF Units
  <1>3. R \cap P = {}
    BY DEF Units
  <1>4. Total(f) = Cardinality(R \cup P)
    BY <1>2 DEF Total, Units
  <1> HIDE DEF R, P
  <1>5. Cardinality(R \cup P) = Cardinality(R) + Cardinality(P) - Cardinality(R \cap P)
    BY <1>1, FS_Union
  <1>6. Cardinality(R \cap P) = 0
    BY <1>3, FS_EmptySet
  <1>7. Cardinality(R) \in Nat /\ f[p] \in Nat
    BY <1>1, FS_CardinalityType
  <1> QED
    BY <1>1, <1>4, <1>5, <1>6, <1>7, SMT DEF R

\* One value that changes, changes the total by as much.
LEMMA TotalChanges ==
    ASSUME NEW S, IsFiniteSet(S), NEW f \in [S -> Nat], NEW g \in [S -> Nat], NEW p \in S,
           \A x \in S \ {p} : g[x] = f[x]
    PROVE  Total(g) = Total(f) - f[p] + g[p] /\ f[p] <= Total(f)
  <1>1. Units(g, S \ {p}) = Units(f, S \ {p})
    BY DEF Units
  <1>2. f[p] \in Nat /\ g[p] \in Nat
    OBVIOUS
  <1> QED
    BY <1>1, <1>2, TotalSplits, SMT

LEMMA CellsFinite ==
    ASSUME NEW S \in SUBSET Cells
    PROVE  IsFiniteSet(S) /\ Cardinality(S) \in Nat
  <1>1. 1 \in Int /\ Length \in Int
    BY ForestryAssumption
  <1>2. IsFiniteSet(Cells)
    BY <1>1, FS_Interval DEF Cells
  <1> QED
    BY <1>2, FS_Subset, FS_CardinalityType

-------------------------------------------------------------------------------
(* The next alarm *)

LEMMA EarliestOfNaturals ==
    ASSUME NEW S, S \subseteq Nat, S # {}
    PROVE  Earliest(S) \in S /\ \A u \in S : Earliest(S) <= u
  <1>1. PICK x \in S : \A y \in S : ~ (<<y, x>> \in OpToRel(<, Nat))
    BY NatLessThanWellFounded, WFMin
  <1>2. \A y \in S : ~ (y < x)
    BY <1>1 DEF OpToRel
  <1>3. \A y \in S : x <= y
    BY <1>2, SMT
  <1> QED
    BY <1>3 DEF Earliest

LEMMA MaturityType ==
    ASSUME NEW x \in Trees
    PROVE  x.planted \in Int /\ Maturity(x) = x.planted + MatureAt /\ Maturity(x) \in Int
           /\ MatureAt \in Nat \ {0}
  BY ForestryAssumption, SMT DEF Trees, Maturity

\* It is the window of a tree to come, and of none later than any other.
LEMMA NextMilestoneFacts ==
    ASSUME NEW T \in [Cells -> Trees], NEW S \in SUBSET Cells, NEW from \in Nat
    PROVE  /\ NextMilestone(T, S, from) \in Nat
           /\ \A c \in S : Maturity(T[c]) > from =>
                 /\ NextMilestone(T, S, from) # NoAlarm
                 /\ NextMilestone(T, S, from) <= WindowEnd(Maturity(T[c]))
           /\ NextMilestone(T, S, from) # NoAlarm =>
                 /\ NextMilestone(T, S, from) > from
                 /\ \E c \in S : NextMilestone(T, S, from) = WindowEnd(Maturity(T[c]))
  <1> DEFINE late == {d \in S : Maturity(T[d]) > from}
             ahead == {WindowEnd(Maturity(T[c])) : c \in late}
  <1>1. \A c \in late : WindowEnd(Maturity(T[c])) \in Nat /\ WindowEnd(Maturity(T[c])) > from
    <2> TAKE c \in late
    <2>1. Maturity(T[c]) \in Int /\ Maturity(T[c]) > from
      BY MaturityType
    <2> QED
      BY <2>1, WindowEndFacts, SMT
  <1>2. NextMilestone(T, S, from) = IF ahead = {} THEN NoAlarm ELSE Earliest(ahead)
    BY DEF NextMilestone
  <1>3. CASE ahead = {}
    BY <1>2, <1>3 DEF NoAlarm
  <1>4. CASE ahead # {}
    <2>1. ahead \subseteq Nat
      BY <1>1
    <2>2. Earliest(ahead) \in ahead /\ \A u \in ahead : Earliest(ahead) <= u
      BY <1>4, <2>1, EarliestOfNaturals
    <2>3. PICK c \in late : Earliest(ahead) = WindowEnd(Maturity(T[c]))
      BY <2>2
    <2>4. NextMilestone(T, S, from) = Earliest(ahead)
      BY <1>2, <1>4
    <2>5. Earliest(ahead) \in Nat /\ Earliest(ahead) > from /\ Earliest(ahead) # NoAlarm
      BY <1>1, <2>3 DEF NoAlarm
    <2> QED
      BY <2>2, <2>3, <2>4, <2>5
  <1> QED
    BY <1>3, <1>4

-------------------------------------------------------------------------------
(* The inductive invariant *)

\* A pending alarm is the end of a window, and not later than the window of a sapling
\* planted now, or by the task in progress.
AlarmOK(al, tk, now) ==
    /\ Aligned(al) /\ al <= WindowEnd(now + MatureAt)
    /\ tk # NoTask => al <= WindowEnd(tk.due + MatureAt)

\* A tree x with the news n, on a plot with the alarm al and the task tk: awaited trees are
\* in no window before the alarm, told ones in no window that is still to come.
TreeOK(x, n, al, tk, now) ==
    /\ x.planted <= now /\ (tk # NoTask => x.planted <= tk.due)
    /\ n = "AWAITED" => al # NoAlarm /\ al <= WindowEnd(Maturity(x))
    /\ n \in {"TOLD", "STALE"} =>
         /\ WindowEnd(Maturity(x)) <= now
         /\ tk # NoTask => WindowEnd(Maturity(x)) <= tk.due
         /\ al = NoAlarm \/ al > WindowEnd(Maturity(x))

RowAgrees(q) ==
    IF Live(q) THEN plot[q].cellCount = Cardinality(CellsOf(q)) /\ CellsOf(q) # {}
    ELSE CellsOf(q) = {}

MarksAgree(q) == Marked(q) = IF task[q].op = "FELL" THEN task[q].chosen ELSE {}

AreaAgrees(q) ==
    /\ task[q] # NoTask => Live(q) /\ plot[q].currentTask
    /\ task[q].op = "CLEAR_LAND" => EmptyCells(q) = task[q].chosen
    /\ task[q].op = "REPLANT" => /\ task[q].chosen \subseteq EmptyCells(q)
                                 /\ task[q].units = Cardinality(task[q].chosen)

PlotOK(q) ==
    /\ RowAgrees(q) /\ MarksAgree(q) /\ AreaAgrees(q)
    /\ plot[q].status = "ABSENT" => alarm[q] = NoAlarm
    /\ task[q].op # "FELL" => task[q].reserved = 0
    /\ AlarmOK(alarm[q], task[q], game)
    /\ \A c \in LiveTrees(q) : TreeOK(tree[c], news[c], alarm[q], task[q], game)

Ground ==
    /\ \A c \in Cells : owner[c] # NoPlot => c \in consumed \ grass
    /\ \A c \in LiveIn(tree) : owner[c] # NoPlot

NoneTwice == \A c \in Cells : news[c] # "TWICE"

\* No task in progress completes before an event of the batch, unless it is in the batch.
TaskEvent(q) == [kind |-> "task", plot |-> q, due |-> task[q].due]
BatchOK ==
    \A e \in batch :
      /\ e.due <= game
      /\ \A q \in Plots : task[q] # NoTask => e.due <= task[q].due \/ TaskEvent(q) \in batch

IInv ==
    /\ TypeOK /\ (\A q \in Plots : PlotOK(q)) /\ Ground /\ NoneTwice /\ BatchOK /\ WoodIsCommitted

-------------------------------------------------------------------------------
(* What happens to one tree *)

LEMMA TaskType ==
    ASSUME NEW k \in Tasks
    PROVE  /\ k.op \in Operations /\ k.units \in Nat /\ k.reserved \in Nat /\ k.due \in Nat
           /\ k.chosen \subseteq Cells
  BY DEF Tasks

LEMMA NoTaskFacts ==
    /\ NoTask \in Tasks /\ NoTask.op = "FELL" /\ NoTask.chosen = {} /\ NoTask.reserved = 0
  BY DEF NoTask, Tasks, Operations

LEMMA TreeAges ==
    ASSUME NEW x \in Trees, NEW n, NEW al \in Nat, NEW tk \in Tasks, NEW now \in Nat,
           NEW later \in Nat, now <= later, TreeOK(x, n, al, tk, now)
    PROVE  TreeOK(x, n, al, tk, later)
  <1>1. x.planted \in Int /\ WindowEnd(Maturity(x)) \in Int
    BY MaturityType, WindowEndFacts
  <1> QED
    BY <1>1, SMT DEF TreeOK

LEMMA AlarmAges ==
    ASSUME NEW al \in Nat, NEW tk \in Tasks, NEW now \in Nat,
           NEW later \in Nat, now <= later, AlarmOK(al, tk, now)
    PROVE  AlarmOK(al, tk, later)
  <1>1. MatureAt \in Nat
    BY ForestryAssumption
  <1>2. now + MatureAt \in Int /\ later + MatureAt \in Int /\ now + MatureAt <= later + MatureAt
    BY <1>1, SMT
  <1>3. WindowEnd(now + MatureAt) <= WindowEnd(later + MatureAt)
        /\ WindowEnd(now + MatureAt) \in Int /\ WindowEnd(later + MatureAt) \in Int
    BY <1>2, WindowEndMonotone, WindowEndFacts
  <1> QED
    BY <1>3, SMT DEF AlarmOK

\* An alarm is applied at d: the trees of its window are told, the next alarm is a later one.
LEMMA TreeIsTold ==
    ASSUME NEW x \in Trees, NEW n \in News \ {"TWICE"}, NEW tk \in Tasks, NEW now \in Nat,
           NEW d \in Nat, Aligned(d), d # NoAlarm, d <= now, tk # NoTask => d <= tk.due,
           TreeOK(x, n, d, tk, now), NEW al \in Nat,
           Maturity(x) > d => al # NoAlarm /\ al <= WindowEnd(Maturity(x)),
           al = NoAlarm \/ al > d,
           NEW m, m = IF d - Window < Maturity(x) /\ Maturity(x) <= d THEN Told(n) ELSE n
    PROVE  TreeOK(x, m, al, tk, now) /\ m # "TWICE"
  <1> DEFINE w == WindowEnd(Maturity(x))
  <1>1. Maturity(x) \in Int /\ w \in Int
    BY MaturityType, WindowEndFacts
  <1>2. m = IF w = d THEN Told(n) ELSE n
    BY <1>1, WindowOf
  <1>3. Maturity(x) <= d => w <= d
    BY <1>1, WindowEndLeast
  <1>4. tk.due \in Nat
    BY TaskType
  <1> HIDE DEF w
  <1>5. TreeOK(x, n, d, tk, now) <=>
          /\ x.planted <= now /\ (tk # NoTask => x.planted <= tk.due)
          /\ n = "AWAITED" => d # NoAlarm /\ d <= w
          /\ n \in {"TOLD", "STALE"} =>
               w <= now /\ (tk # NoTask => w <= tk.due) /\ (d = NoAlarm \/ d > w)
    BY DEF TreeOK, w
  <1>6. TreeOK(x, m, al, tk, now) <=>
          /\ x.planted <= now /\ (tk # NoTask => x.planted <= tk.due)
          /\ m = "AWAITED" => al # NoAlarm /\ al <= w
          /\ m \in {"TOLD", "STALE"} =>
               w <= now /\ (tk # NoTask => w <= tk.due) /\ (al = NoAlarm \/ al > w)
    BY DEF TreeOK, w
  <1>7. CASE w = d
    <2>1. n \in {"RIPE", "AWAITED"}
      BY <1>1, <1>5, <1>7 DEF News
    <2>2. m \in {"STALE", "TOLD"}
      BY <1>2, <1>7, <2>1 DEF Told
    <2> QED
      BY <1>1, <1>4, <1>5, <1>6, <1>7, <2>2
  <1>8. CASE w # d
    <2>1. m = n
      BY <1>2, <1>8
    <2>2. n = "AWAITED" => al # NoAlarm /\ al <= w
      BY <1>1, <1>3, <1>5, <1>8 DEF w
    <2>3. n \in {"TOLD", "STALE"} => d = NoAlarm \/ d > w
      BY <1>5
    <2> QED
      BY <1>1, <1>4, <1>5, <1>6, <2>1, <2>2, <2>3
  <1> QED
    BY <1>7, <1>8

\* A task completes at t: if no alarm was pending, one may be set, behind t.
LEMMA TreeIsKept ==
    ASSUME NEW x \in Trees, NEW n, NEW tk \in Tasks, tk # NoTask, NEW now \in Nat,
           NEW old \in Nat, NEW al \in Nat, TreeOK(x, n, old, tk, now),
           IF old # NoAlarm THEN al = old ELSE al = NoAlarm \/ al > tk.due
    PROVE  TreeOK(x, n, al, NoTask, now)
  <1>1. WindowEnd(Maturity(x)) \in Int /\ tk.due \in Nat
    BY MaturityType, WindowEndFacts, TaskType
  <1> QED
    BY <1>1 DEF TreeOK

-------------------------------------------------------------------------------
(* The plots that a step does not concern *)

LEMMA RowTypes ==
    ASSUME TypeOK, NEW p \in Plots
    PROVE  /\ alarm[p] \in Nat /\ task[p] \in Tasks /\ plot[p] \in Rows
           /\ CellsOf(p) \subseteq Cells /\ LiveTrees(p) \subseteq CellsOf(p)
           /\ EmptyCells(p) = CellsOf(p) \ LiveTrees(p) /\ Marked(p) \subseteq LiveTrees(p)
           /\ \A c \in LiveTrees(p) : c \in Cells /\ tree[c] \in Trees /\ news[c] \in News
  BY DEF TypeOK, CellsOf, LiveTrees, LiveIn, EmptyCells, Marked

LEMMA SameCells ==
    ASSUME NEW q \in Plots, \A c \in Cells : owner'[c] = q <=> owner[c] = q,
           \A c \in CellsOf(q) : tree'[c] = tree[c]
    PROVE  /\ CellsOf(q)' = CellsOf(q) /\ LiveTrees(q)' = LiveTrees(q)
           /\ EmptyCells(q)' = EmptyCells(q) /\ Marked(q)' = Marked(q)
  BY DEF CellsOf, LiveTrees, LiveIn, EmptyCells, Marked

LEMMA OtherPlot ==
    ASSUME TypeOK, TypeOK', NEW q \in Plots, PlotOK(q),
           \A c \in Cells : owner'[c] = q <=> owner[c] = q,
           \A c \in CellsOf(q) : tree'[c] = tree[c] /\ news'[c] = news[c],
           plot'[q] = plot[q], alarm'[q] = alarm[q], task'[q] = task[q], game <= game'
    PROVE  PlotOK(q)'
  <1>1. /\ CellsOf(q)' = CellsOf(q) /\ LiveTrees(q)' = LiveTrees(q)
        /\ EmptyCells(q)' = EmptyCells(q) /\ Marked(q)' = Marked(q)
    BY SameCells
  <1>2. (RowAgrees(q) /\ MarksAgree(q) /\ AreaAgrees(q))'
    BY <1>1 DEF PlotOK, RowAgrees, MarksAgree, AreaAgrees, Live
  <1>3. game \in Nat /\ game' \in Nat
    BY ForestryAssumption DEF TypeOK
  <1>4. AlarmOK(alarm'[q], task'[q], game')
    BY <1>3, RowTypes, AlarmAges DEF PlotOK
  <1>5. ASSUME NEW c \in LiveTrees(q)
        PROVE  TreeOK(tree'[c], news'[c], alarm'[q], task'[q], game')
    <2>1. c \in CellsOf(q) /\ tree[c] \in Trees /\ TreeOK(tree[c], news[c], alarm[q], task[q], game)
      BY RowTypes DEF PlotOK
    <2> QED
      BY <1>3, <2>1, RowTypes, TreeAges
  <1> QED
    BY <1>1, <1>2, <1>4, <1>5 DEF PlotOK

\* A step that leaves the plots alone.
LEMMA QuietStep ==
    ASSUME IInv, UNCHANGED storeVars, UNCHANGED news, TypeOK', BatchOK', game <= game'
    PROVE  IInv'
  <1>1. \A q \in Plots : PlotOK(q)'
    BY OtherPlot DEF IInv, storeVars, landVars
  <1>2. Ground' /\ NoneTwice'
    BY DEF IInv, Ground, NoneTwice, LiveIn, storeVars, landVars
  <1>3. WoodIsCommitted'
    BY DEF IInv, WoodIsCommitted, storeVars
  <1> QED
    BY <1>1, <1>2, <1>3 DEF IInv

LEMMA TickKeeps == IInv /\ Tick => IInv'
  <1> SUFFICES ASSUME IInv, Tick PROVE IInv'
    OBVIOUS
  <1>1. game \in Nat /\ MaxGame \in Nat /\ game < MaxGame /\ game' = game + 1
    BY ForestryAssumption DEF IInv, TypeOK, Tick
  <1>2. TypeOK'
    BY <1>1 DEF IInv, TypeOK, Tick, storeVars, landVars
  <1>3. BatchOK'
    <2>1. batch' = batch /\ task' = task /\ \A e \in batch : e.due \in Nat
      BY DEF Tick, storeVars, IInv, TypeOK, Events
    <2> QED
      BY <1>1, <2>1 DEF IInv, BatchOK, TaskEvent
  <1> QED
    BY <1>1, <1>2, <1>3, QuietStep DEF Tick

LEMMA PendingType == TypeOK => Pending \subseteq Events
  BY DEF TypeOK, Pending, Events, Tasks

LEMMA BeginKeeps == IInv /\ Begin => IInv'
  <1> SUFFICES ASSUME IInv, Begin PROVE IInv'
    OBVIOUS
  <1>1. PICK B \in SUBSET DueEvents : (\A e \in B, d \in DueEvents \ B : e.due <= d.due) /\ batch' = B
    BY DEF Begin
  <1>2. UNCHANGED <<game, storeVars, news>> /\ open' = TRUE
    BY DEF Begin
  <1>3. B \subseteq Events
    BY PendingType DEF IInv, DueEvents
  <1>4. TypeOK'
    BY <1>1, <1>2, <1>3 DEF IInv, TypeOK, storeVars, landVars
  <1>5. BatchOK'
    <2> SUFFICES ASSUME NEW e \in B, NEW q \in Plots, task[q] # NoTask
                 PROVE  e.due <= game /\ (e.due <= task[q].due \/ TaskEvent(q) \in B)
      <3>1. \A e \in B : e.due <= game
        BY DEF DueEvents
      <3> QED
        BY <1>1, <1>2, <3>1 DEF BatchOK, TaskEvent, storeVars
    <2>1. e.due <= game /\ e.due \in Nat /\ game \in Nat /\ task[q].due \in Nat
      BY <1>3, ForestryAssumption, TaskType DEF DueEvents, Events, IInv, TypeOK
    <2>2. TaskEvent(q) \in Pending /\ TaskEvent(q).due = task[q].due
      BY DEF TaskEvent, Pending
    <2>3. CASE task[q].due <= game
      BY <1>1, <2>1, <2>2, <2>3 DEF DueEvents
    <2>4. CASE game < task[q].due
      BY <2>1, <2>4
    <2> QED
      BY <2>1, <2>3, <2>4
  <1>6. game <= game'
    BY <1>2, ForestryAssumption DEF IInv, TypeOK
  <1> QED
    BY <1>2, <1>4, <1>5, <1>6, QuietStep

LEMMA CloseKeeps == IInv /\ Close => IInv'
  <1> SUFFICES ASSUME IInv, Close PROVE IInv'
    OBVIOUS
  <1>1. UNCHANGED <<game, storeVars, batch, news>> /\ open' = FALSE
    BY DEF Close
  <1>2. TypeOK' /\ BatchOK'
    BY <1>1 DEF IInv, TypeOK, BatchOK, TaskEvent, storeVars, landVars
  <1>3. game <= game'
    BY <1>1, ForestryAssumption DEF IInv, TypeOK
  <1> QED
    BY <1>1, <1>2, <1>3, QuietStep

-------------------------------------------------------------------------------
(* The events *)

LEMMA ClaimFacts ==
    ASSUME IInv, NEW e \in batch, Claim(e)
    PROVE  /\ e \in Events /\ e.plot \in Plots /\ e.due \in Nat /\ e.due <= game /\ game \in Nat
           /\ batch' = batch \ {e} /\ batch' \subseteq Events
           /\ \A q \in Plots : task[q] # NoTask => e.due <= task[q].due
           /\ e.kind = "milestone" => alarm[e.plot] = e.due /\ e.due # NoAlarm
           /\ e.kind = "task" => task[e.plot] # NoTask /\ task[e.plot].due = e.due
  <1>1. e \in Events /\ e.plot \in Plots /\ e.due \in Nat /\ e.due <= game
        /\ game \in Nat /\ batch \subseteq Events
    BY ForestryAssumption DEF IInv, TypeOK, BatchOK, Events
  <1>2. batch' = batch \ {e} /\ e \in Pending /\ \A d \in batch : e.due <= d.due
    BY DEF Claim
  <1>3. ASSUME NEW q \in Plots, task[q] # NoTask PROVE e.due <= task[q].due
    <2>1. TaskEvent(q).due = task[q].due
      BY DEF TaskEvent
    <2> QED
      BY <1>2, <1>3, <2>1 DEF IInv, BatchOK
  <1>4. e.kind = "milestone" => alarm[e.plot] = e.due /\ e.due # NoAlarm
    BY <1>2 DEF Pending
  <1>5. e.kind = "task" => task[e.plot] # NoTask /\ task[e.plot].due = e.due
    BY <1>2 DEF Pending
  <1> QED
    BY <1>1, <1>2, <1>3, <1>4, <1>5

\* What is left of the batch is still in order, if at most the task of e is gone.
LEMMA BatchShrinks ==
    ASSUME IInv, NEW e \in batch, Claim(e), game' = game,
           \A q \in Plots : task'[q] = task[q] \/ task'[q] = NoTask,
           e.kind = "task" => task'[e.plot] = NoTask
    PROVE  BatchOK'
  <1>1. batch' = batch \ {e}
    BY DEF Claim
  <1> SUFFICES ASSUME NEW d \in batch \ {e}, NEW q \in Plots, task'[q] # NoTask
               PROVE  d.due <= game /\ (d.due <= task'[q].due \/ TaskEvent(q)' \in batch \ {e})
    <2>1. \A d \in batch \ {e} : d.due <= game
      BY DEF IInv, BatchOK
    <2> QED
      BY <1>1, <2>1 DEF BatchOK
  <1>2. task'[q] = task[q] /\ d.due <= game /\ (d.due <= task[q].due \/ TaskEvent(q) \in batch)
    BY DEF IInv, BatchOK
  <1>3. TaskEvent(q)' = TaskEvent(q) /\ TaskEvent(q).kind = "task" /\ TaskEvent(q).plot = q
    BY <1>2 DEF TaskEvent
  <1> QED
    BY <1>2, <1>3

LEMMA NotifyMilestoneKeeps ==
    ASSUME IInv, NEW e \in batch, NotifyMilestone(e)
    PROVE  IInv'
  <1> DEFINE p == e.plot
             next == SyncMilestone(NoAlarm, tree, LiveTrees(p), e.due)
  <1>1. Claim(e) /\ e.kind = "milestone" /\ UNCHANGED <<game, landVars, tree, plot, task, wood, open>>
    BY DEF NotifyMilestone
  <1>2. /\ p \in Plots /\ e.due \in Nat /\ e.due <= game /\ game \in Nat /\ batch' \subseteq Events
        /\ alarm[p] = e.due /\ e.due # NoAlarm /\ \A q \in Plots : task[q] # NoTask => e.due <= task[q].due
    BY <1>1, ClaimFacts
  <1>3. LiveTrees(p) \subseteq Cells /\ tree \in [Cells -> Trees]
    BY <1>2, RowTypes DEF IInv, TypeOK
  <1>4. /\ next \in Nat
        /\ \A c \in LiveTrees(p) : Maturity(tree[c]) > e.due =>
              next # NoAlarm /\ next <= WindowEnd(Maturity(tree[c]))
        /\ next # NoAlarm => /\ next > e.due
                             /\ \E c \in LiveTrees(p) : next = WindowEnd(Maturity(tree[c]))
    BY <1>2, <1>3, NextMilestoneFacts DEF SyncMilestone
  <1> HIDE DEF next
  <1>5. PICK al \in Nat : /\ alarm' = [alarm EXCEPT ![p] = al]
                          /\ al = IF plot[p].status = "LIVE" THEN next ELSE NoAlarm
    BY <1>4 DEF NotifyMilestone, next, NoAlarm
  <1>6. news' = [c \in Cells |-> IF plot[p].status = "LIVE" /\ c \in Crossing(LiveTrees(p), e.due)
                                 THEN Told(news[c]) ELSE news[c]]
    BY DEF NotifyMilestone, IInv, TypeOK
  <1>7. Aligned(al) /\ AlarmOK(al, task[p], game)
    <2>1. CASE al = NoAlarm
      <3>1. Window \in Nat /\ MatureAt \in Nat /\ 0 = 0 * Window
        BY ForestryAssumption
      <3>2. Aligned(0)
        BY <3>1 DEF Aligned
      <3>3. /\ game + MatureAt \in Int /\ task[p].due + MatureAt \in Int
            /\ 0 <= game + MatureAt /\ 0 <= task[p].due + MatureAt
        BY <1>2, <3>1, RowTypes, TaskType DEF IInv
      <3>4. 0 <= WindowEnd(game + MatureAt) /\ 0 <= WindowEnd(task[p].due + MatureAt)
        BY <3>3, WindowEndFacts, SMT
      <3> QED
        BY <2>1, <3>2, <3>4 DEF AlarmOK, NoAlarm
    <2>2. CASE al # NoAlarm
      <3>1. PICK c \in LiveTrees(p) : al = WindowEnd(Maturity(tree[c]))
        BY <1>4, <1>5, <2>2
      <3>2. tree[c] \in Trees /\ TreeOK(tree[c], news[c], alarm[p], task[p], game)
        BY <1>2, <1>3 DEF IInv, PlotOK
      <3>3. Maturity(tree[c]) \in Int /\ Maturity(tree[c]) <= game + MatureAt
            /\ (task[p] # NoTask => Maturity(tree[c]) <= task[p].due + MatureAt)
            /\ task[p].due + MatureAt \in Int /\ game + MatureAt \in Int
        BY <1>2, <3>2, RowTypes, TaskType, MaturityType, SMT DEF TreeOK, IInv
      <3> QED
        BY <3>1, <3>3, WindowEndMonotone, WindowEndFacts DEF AlarmOK
    <2> QED
      BY <2>1, <2>2
  <1>8. ASSUME NEW c \in LiveTrees(p)
        PROVE  TreeOK(tree[c], news'[c], al, task[p], game) /\ news'[c] # "TWICE"
    <2>1. Live(p) /\ plot[p].status = "LIVE" /\ al = next
      BY <1>2, <1>5, RowTypes DEF IInv, PlotOK, RowAgrees, Live
    <2>2. /\ tree[c] \in Trees /\ news[c] \in News \ {"TWICE"} /\ c \in Cells
          /\ TreeOK(tree[c], news[c], e.due, task[p], game) /\ Aligned(e.due) /\ task[p] \in Tasks
      BY <1>2, RowTypes DEF IInv, PlotOK, NoneTwice, AlarmOK
    <2>3. news'[c] = IF e.due - Window < Maturity(tree[c]) /\ Maturity(tree[c]) <= e.due
                     THEN Told(news[c]) ELSE news[c]
      BY <1>6, <2>1, <2>2 DEF Crossing
    <2> QED
      BY <1>2, <1>4, <2>1, <2>2, <2>3, TreeIsTold
  <1>9. \A c \in Cells \ LiveTrees(p) : news'[c] = news[c]
    BY <1>6 DEF Crossing
  <1>10. NoneTwice'
    BY <1>8, <1>9 DEF IInv, NoneTwice
  <1>11. TypeOK'
    <2>1. news' \in [Cells -> News]
      BY <1>6 DEF IInv, TypeOK, Told, News
    <2>2. alarm' \in [Plots -> Nat]
      BY <1>5 DEF IInv, TypeOK
    <2> QED
      BY <1>1, <1>2, <2>1, <2>2 DEF IInv, TypeOK, landVars
  <1>12. ASSUME NEW q \in Plots PROVE PlotOK(q)'
    <2>1. CASE q = p
      <3>1. alarm'[p] = al
        BY <1>2, <1>5 DEF IInv, TypeOK
      <3>2. /\ CellsOf(p)' = CellsOf(p) /\ LiveTrees(p)' = LiveTrees(p)
            /\ EmptyCells(p)' = EmptyCells(p) /\ Marked(p)' = Marked(p)
        BY <1>1, <1>2, SameCells DEF landVars
      <3>3. (RowAgrees(p) /\ MarksAgree(p) /\ AreaAgrees(p))'
        BY <1>1, <1>2, <3>2 DEF IInv, PlotOK, RowAgrees, MarksAgree, AreaAgrees, Live
      <3>4. plot[p].status = "ABSENT" => al = NoAlarm
        BY <1>5
      <3>5. task[p].op # "FELL" => task[p].reserved = 0
        BY <1>2 DEF IInv, PlotOK
      <3> QED
        BY <1>1, <1>7, <1>8, <2>1, <3>1, <3>2, <3>3, <3>4, <3>5 DEF PlotOK
    <2>2. CASE q # p
      <3>1. alarm'[q] = alarm[q]
        BY <1>5, <2>2 DEF IInv, TypeOK
      <3>2. \A c \in CellsOf(q) : news'[c] = news[c]
        BY <1>2, <1>9, <2>2 DEF CellsOf, LiveTrees
      <3>3. game <= game'
        BY <1>1, <1>2
      <3> QED
        BY <1>1, <1>11, <3>1, <3>2, <3>3, OtherPlot DEF IInv, landVars
    <2> QED
      BY <2>1, <2>2
  <1>13. BatchOK'
    BY <1>1, BatchShrinks
  <1>14. Ground' /\ WoodIsCommitted'
    BY <1>1 DEF IInv, Ground, LiveIn, WoodIsCommitted, landVars
  <1> QED
    BY <1>10, <1>11, <1>12, <1>13, <1>14 DEF IInv

\* The alarm of a plot after its trees T on the cells S have changed at t.
LEMMA SyncFacts ==
    ASSUME NEW T \in [Cells -> Trees], NEW S \in SUBSET Cells, NEW t \in Nat, NEW now \in Nat,
           NEW old \in Nat, AlarmOK(old, NoTask, now), \A c \in S : T[c].planted <= now
    PROVE  /\ SyncMilestone(old, T, S, t) \in Nat /\ AlarmOK(SyncMilestone(old, T, S, t), NoTask, now)
           /\ IF old # NoAlarm THEN SyncMilestone(old, T, S, t) = old
              ELSE SyncMilestone(old, T, S, t) = NoAlarm \/ SyncMilestone(old, T, S, t) > t
           /\ \A c \in S : old = NoAlarm /\ Maturity(T[c]) > t =>
                 /\ SyncMilestone(old, T, S, t) # NoAlarm
                 /\ SyncMilestone(old, T, S, t) <= WindowEnd(Maturity(T[c]))
  <1> DEFINE al == SyncMilestone(old, T, S, t)
  <1>1. CASE old # NoAlarm
    BY <1>1 DEF SyncMilestone, AlarmOK
  <1>2. CASE old = NoAlarm
    <2>1. al = NextMilestone(T, S, t)
      BY <1>2 DEF SyncMilestone
    <2>2. /\ al \in Nat
          /\ \A c \in S : Maturity(T[c]) > t => al # NoAlarm /\ al <= WindowEnd(Maturity(T[c]))
          /\ al # NoAlarm => al > t /\ \E c \in S : al = WindowEnd(Maturity(T[c]))
      BY <2>1, NextMilestoneFacts
    <2>3. CASE al # NoAlarm
      <3>1. PICK c \in S : al = WindowEnd(Maturity(T[c]))
        BY <2>2, <2>3
      <3>2. T[c] \in Trees /\ T[c].planted <= now
        OBVIOUS
      <3>3. /\ Maturity(T[c]) \in Int /\ now + MatureAt \in Int /\ Maturity(T[c]) <= now + MatureAt
        BY <3>2, MaturityType, SMT
      <3>4. Aligned(al) /\ al <= WindowEnd(now + MatureAt)
        BY <3>1, <3>3, WindowEndFacts, WindowEndMonotone
      <3> QED
        BY <1>2, <2>2, <3>4 DEF AlarmOK
    <2>4. CASE al = NoAlarm
      BY <1>2, <2>2, <2>4 DEF AlarmOK
    <2> QED
      BY <2>3, <2>4
  <1> QED
    BY <1>1, <1>2

\* A task that starts now, or ends, leaves the tree and the alarm as they should be.
LEMMA TreeUnderTask ==
    ASSUME NEW x \in Trees, NEW y \in Trees, y.planted = x.planted, NEW n, NEW al \in Nat,
           NEW tk \in Tasks, NEW k \in Tasks, NEW now \in Nat,
           TreeOK(x, n, al, tk, now), k = NoTask \/ now <= k.due
    PROVE  TreeOK(y, n, al, k, now)
  <1>1. WindowEnd(Maturity(x)) \in Int /\ x.planted \in Int /\ Maturity(y) = Maturity(x)
    BY MaturityType, WindowEndFacts
  <1>2. k.due \in Nat
    BY TaskType
  <1> QED
    BY <1>1, <1>2 DEF TreeOK

LEMMA AlarmUnderTask ==
    ASSUME NEW al \in Nat, NEW tk \in Tasks, NEW k \in Tasks, NEW now \in Nat,
           AlarmOK(al, tk, now), k = NoTask \/ now <= k.due
    PROVE  AlarmOK(al, k, now)
  <1>1. MatureAt \in Nat /\ k.due \in Nat
    BY ForestryAssumption, TaskType
  <1>2. CASE now <= k.due
    <2>1. now + MatureAt \in Int /\ k.due + MatureAt \in Int /\ now + MatureAt <= k.due + MatureAt
      BY <1>1, <1>2, SMT
    <2>2. WindowEnd(now + MatureAt) <= WindowEnd(k.due + MatureAt)
          /\ WindowEnd(now + MatureAt) \in Int /\ WindowEnd(k.due + MatureAt) \in Int
      BY <2>1, WindowEndMonotone, WindowEndFacts
    <2> QED
      BY <2>2, SMT DEF AlarmOK
  <1>3. CASE k = NoTask
    BY <1>3 DEF AlarmOK
  <1> QED
    BY <1>2, <1>3

\* One plot's task changes: the reservations follow.
LEMMA ReservationChanges ==
    ASSUME IInv, NEW p \in Plots, NEW k \in Tasks, task' = [task EXCEPT ![p] = k]
    PROVE  /\ task' \in [Plots -> Tasks]
           /\ task[p].reserved \in Nat /\ k.reserved \in Nat /\ wood.reserved \in Nat
           /\ task[p].reserved <= wood.reserved
           /\ Total([q \in Plots |-> task'[q].reserved])
                 = wood.reserved - task[p].reserved + k.reserved
  <1> DEFINE f == [q \in Plots |-> task[q].reserved]
             g == [q \in Plots |-> task'[q].reserved]
  <1>1. task \in [Plots -> Tasks] /\ wood.reserved \in Nat
    BY DEF IInv, TypeOK
  <1>2. task' \in [Plots -> Tasks] /\ task'[p] = k /\ \A q \in Plots \ {p} : task'[q] = task[q]
    BY <1>1
  <1>3. f \in [Plots -> Nat] /\ g \in [Plots -> Nat]
    BY <1>1, <1>2, TaskType
  <1>4. \A q \in Plots \ {p} : g[q] = f[q]
    BY <1>2
  <1>5. f[p] = task[p].reserved /\ g[p] = k.reserved
    BY <1>2
  <1>6. wood.reserved = Total(f)
    BY DEF IInv, WoodIsCommitted
  <1>7. IsFiniteSet(Plots)
    BY ForestryAssumption
  <1> HIDE DEF f, g
  <1>8. Total(g) = Total(f) - f[p] + g[p] /\ f[p] <= Total(f)
    BY <1>3, <1>4, <1>7, TotalChanges
  <1>9. f[p] \in Nat /\ g[p] \in Nat
    BY <1>3
  <1>10. Total(g) = wood.reserved - task[p].reserved + k.reserved
         /\ task[p].reserved <= wood.reserved
         /\ task[p].reserved \in Nat /\ k.reserved \in Nat
    BY <1>5, <1>6, <1>8, <1>9
  <1> QED
    BY <1>1, <1>2, <1>10 DEF g

LEMMA VolumeType ==
    ASSUME TypeOK, NEW S \in SUBSET Cells, NEW t \in Nat
    PROVE  BatchVolume(S, t) \in Nat
  <1> DEFINE f == [c \in S |-> Volume(c, t)]
  <1>1. f \in [S -> Nat]
    BY ForestryAssumption DEF Volume
  <1>2. IsFiniteSet(S)
    BY CellsFinite
  <1> HIDE DEF f
  <1>3. Total(f) \in Nat
    BY <1>1, <1>2, TotalType
  <1> QED
    BY <1>3 DEF BatchVolume, f

\* The store never takes more than it holds, whatever comes for a reservation it had.
LEMMA DepositFacts ==
    ASSUME TypeOK, wood.stored + wood.reserved <= Capacity, NEW units \in Nat, NEW release \in Nat,
           release <= wood.reserved
    PROVE  /\ Deposit(units, release) \in [stored : Nat, reserved : Nat]
           /\ Deposit(units, release).reserved = wood.reserved - release
           /\ Deposit(units, release).stored + Deposit(units, release).reserved <= Capacity
  <1>1. wood.stored \in Nat /\ wood.reserved \in Nat /\ Capacity \in Nat
    BY ForestryAssumption DEF TypeOK
  <1> DEFINE kept == Larger(0, wood.reserved - release)
             room == Larger(0, Capacity - wood.stored - kept)
             s == wood.stored + Smaller(units, room)
  <1>2. kept = wood.reserved - release /\ kept \in Nat
    BY <1>1, SMT DEF Larger
  <1> HIDE DEF kept
  <1>3. room = Capacity - wood.stored - kept /\ room \in Nat
    BY <1>1, <1>2, SMT DEF Larger
  <1> HIDE DEF room
  <1>4. s \in Nat /\ s <= wood.stored + room
    BY <1>1, <1>3, SMT DEF Smaller
  <1> HIDE DEF s
  <1>5. Deposit(units, release) = [stored |-> s, reserved |-> kept]
    BY DEF Deposit, kept, room, s
  <1> QED
    BY <1>1, <1>2, <1>3, <1>4, <1>5, SMT

\* A task in progress: its plot is live, its instant is not before any of its trees.
LEMMA Working ==
    ASSUME IInv, NEW p \in Plots, task[p] # NoTask
    PROVE  /\ plot[p] \in Rows /\ plot[p].status = "LIVE" /\ Released(p)[p].status = "LIVE"
           /\ Released(p) \in [Plots -> Rows] /\ Released(p)[p].cellCount = plot[p].cellCount
           /\ \A q \in Plots \ {p} : Released(p)[q] = plot[q]
           /\ plot[p].cellCount = Cardinality(CellsOf(p)) /\ CellsOf(p) # {}
  <1>1. plot \in [Plots -> Rows] /\ plot[p].status = "LIVE" /\ RowAgrees(p)
    BY DEF IInv, TypeOK, PlotOK, AreaAgrees, Live
  <1>2. plot[p].cellCount = Cardinality(CellsOf(p)) /\ CellsOf(p) # {}
    BY <1>1 DEF RowAgrees, Live
  <1> QED
    BY <1>1, <1>2 DEF Released, Rows

\* A task that has completed: what there is to show of its plot, once the step is known to
\* have left the other plots alone.
LEMMA TaskIsDone ==
    ASSUME IInv, NEW e \in batch, Claim(e), e.kind = "task",
           task' = [task EXCEPT ![e.plot] = NoTask], UNCHANGED <<game, open>>, TypeOK',
           \A q \in Plots \ {e.plot} : plot'[q] = plot[q] /\ alarm'[q] = alarm[q],
           \A q \in Plots \ {e.plot} : \A c \in Cells : owner'[c] = q <=> owner[c] = q,
           \A c \in Cells : owner[c] # e.plot => tree'[c] = tree[c] /\ news'[c] = news[c],
           RowAgrees(e.plot)', Marked(e.plot)' = {}, plot'[e.plot].status # "ABSENT",
           AlarmOK(alarm'[e.plot], NoTask, game),
           \A c \in LiveTrees(e.plot)' : TreeOK(tree'[c], news'[c], alarm'[e.plot], NoTask, game),
           Ground', NoneTwice', WoodIsCommitted'
    PROVE  IInv'
  <1> DEFINE p == e.plot
  <1>1. p \in Plots /\ game' = game /\ game <= game'
    BY ClaimFacts
  <1>2. task'[p] = NoTask /\ \A q \in Plots \ {p} : task'[q] = task[q]
    BY <1>1 DEF IInv, TypeOK
  <1>3. BatchOK'
    BY <1>1, <1>2, BatchShrinks
  <1>4. PlotOK(p)'
    <2>1. MarksAgree(p)' /\ AreaAgrees(p)'
      BY <1>2, NoTaskFacts DEF MarksAgree, AreaAgrees
    <2> QED
      BY <1>1, <1>2, <2>1, NoTaskFacts DEF PlotOK
  <1>5. ASSUME NEW q \in Plots \ {p} PROVE PlotOK(q)'
    <2>1. \A c \in CellsOf(q) : tree'[c] = tree[c] /\ news'[c] = news[c]
      BY DEF CellsOf
    <2> QED
      BY <1>1, <1>2, <2>1, OtherPlot DEF IInv
  <1> QED
    BY <1>3, <1>4, <1>5 DEF IInv

LEMMA FellKeeps ==
    ASSUME IInv, NEW e \in batch, CompleteTask(e), task[e.plot].op = "FELL",
           CompleteFell(e.plot, e.due)
    PROVE  IInv'
  <1> DEFINE p == e.plot
             t == e.due
             rest == LiveTrees(p) \ Marked(p)
  <1>1. Claim(e) /\ e.kind = "task" /\ UNCHANGED <<game, open>>
        /\ task' = [task EXCEPT ![p] = NoTask]
    BY DEF CompleteTask
  <1>2. /\ p \in Plots /\ t \in Nat /\ game \in Nat /\ t <= game
        /\ task[p] # NoTask /\ task[p].due = t /\ batch' \subseteq Events
    BY <1>1, ClaimFacts
  <1>3. /\ alarm[p] \in Nat /\ task[p] \in Tasks /\ rest \subseteq Cells /\ PlotOK(p)
        /\ Marked(p) \subseteq Cells /\ tree \in [Cells -> Trees] /\ alarm \in [Plots -> Nat]
        /\ NoTask \in Tasks
    BY <1>2, RowTypes, NoTaskFacts DEF IInv, TypeOK, Marked, CellsOf
  <1>4. PICK al : al = SyncMilestone(alarm[p], tree, rest, t)
    OBVIOUS
  <1>5. /\ tree' = [c \in Cells |-> IF c \in Marked(p) THEN NoTree ELSE tree[c]]
        /\ wood' = Deposit(BatchVolume(Marked(p), t), task[p].reserved)
        /\ alarm' = [alarm EXCEPT ![p] = al]
        /\ plot' = Released(p) /\ UNCHANGED <<landVars, news>>
    BY <1>4 DEF CompleteFell
  <1>6. \A c \in LiveTrees(p) : tree[c] \in Trees /\ TreeOK(tree[c], news[c], alarm[p], task[p], game)
    BY <1>2, RowTypes DEF IInv, PlotOK
  <1>7. /\ al \in Nat /\ AlarmOK(al, NoTask, game)
        /\ IF alarm[p] # NoAlarm THEN al = alarm[p] ELSE al = NoAlarm \/ al > t
    <2>1. AlarmOK(alarm[p], NoTask, game) /\ \A c \in rest : tree[c].planted <= game
      BY <1>3, <1>6 DEF PlotOK, TreeOK, AlarmOK
    <2> HIDE DEF rest
    <2> QED
      BY <1>2, <1>3, <1>4, <2>1, SyncFacts, SMTT(60)
  <1>8. tree' \in [Cells -> Trees] /\ NoTree.status = "NONE"
    BY <1>3, <1>5 DEF NoTree, Trees
  <1>9. \A c \in LiveIn(tree)' : c \in LiveIn(tree) \ Marked(p) /\ tree'[c] = tree[c]
    BY <1>3, <1>5, <1>8 DEF LiveIn
  <1>10. alarm' \in [Plots -> Nat] /\ alarm'[p] = al /\ \A q \in Plots \ {p} : alarm'[q] = alarm[q]
    BY <1>2, <1>3, <1>5, <1>7
  <1>11. /\ BatchVolume(Marked(p), t) \in Nat /\ task[p].reserved \in Nat
         /\ task[p].reserved <= wood.reserved
         /\ Total([q \in Plots |-> task'[q].reserved]) = wood.reserved - task[p].reserved
         /\ task' \in [Plots -> Tasks]
    <2>1. Total([q \in Plots |-> task'[q].reserved]) = wood.reserved - task[p].reserved + NoTask.reserved
          /\ task[p].reserved <= wood.reserved /\ task[p].reserved \in Nat
          /\ task' \in [Plots -> Tasks] /\ wood.reserved \in Nat
      BY <1>1, <1>2, <1>3, ReservationChanges
    <2>2. BatchVolume(Marked(p), t) \in Nat
      BY <1>2, <1>3, VolumeType DEF IInv
    <2> QED
      BY <2>1, <2>2, NoTaskFacts
  <1>12. /\ wood' \in [stored : Nat, reserved : Nat]
         /\ wood'.reserved = wood.reserved - task[p].reserved
         /\ wood'.stored + wood'.reserved <= Capacity
    BY <1>5, <1>11, DepositFacts DEF IInv, WoodIsCommitted
  <1>13. WoodIsCommitted'
    BY <1>11, <1>12 DEF WoodIsCommitted
  <1>14. /\ Released(p)[p].status = "LIVE" /\ Released(p) \in [Plots -> Rows]
         /\ Released(p)[p].cellCount = Cardinality(CellsOf(p)) /\ CellsOf(p) # {}
         /\ \A q \in Plots \ {p} : Released(p)[q] = plot[q]
    BY <1>2, Working
  <1>15. TypeOK'
    BY <1>1, <1>2, <1>5, <1>8, <1>10, <1>11, <1>12, <1>14 DEF IInv, TypeOK, landVars
  <1>16. CellsOf(p)' = CellsOf(p)
    BY <1>5 DEF CellsOf, landVars
  <1>17. RowAgrees(p)' /\ plot'[p].status # "ABSENT"
    BY <1>5, <1>14, <1>16 DEF RowAgrees, Live
  <1>18. Marked(p)' = {}
    BY <1>5, <1>8, <1>16 DEF Marked, CellsOf
  <1>19. ASSUME NEW c \in LiveTrees(p)' PROVE TreeOK(tree'[c], news'[c], al, NoTask, game)
    <2>1. c \in LiveTrees(p) /\ tree'[c] = tree[c] /\ news'[c] = news[c]
      BY <1>5, <1>9, <1>16 DEF LiveTrees
    <2>2. TreeOK(tree[c], news[c], al, NoTask, game)
      BY <1>2, <1>3, <1>6, <1>7, <2>1, TreeIsKept
    <2> QED
      BY <2>1, <2>2
  <1>20. Ground' /\ NoneTwice'
    BY <1>5, <1>9 DEF IInv, Ground, NoneTwice, landVars
  <1>21. \A c \in Cells : owner[c] # p => tree'[c] = tree[c] /\ news'[c] = news[c]
    BY <1>5 DEF Marked, CellsOf
  <1>22. /\ owner' = owner /\ AlarmOK(alarm'[p], NoTask, game)
         /\ \A q \in Plots \ {p} : plot'[q] = plot[q] /\ alarm'[q] = alarm[q]
    BY <1>5, <1>7, <1>10, <1>14 DEF landVars
  <1> QED
    BY <1>1, <1>10, <1>13, <1>15, <1>17, <1>18, <1>19, <1>20, <1>21, <1>22, TaskIsDone

LEMMA ReplantKeeps ==
    ASSUME IInv, NEW e \in batch, CompleteTask(e), task[e.plot].op = "REPLANT",
           CompleteReplant(e.plot, e.due)
    PROVE  IInv'
  <1> DEFINE p == e.plot
             t == e.due
             S == FirstOf(EmptyCells(p), task[p].units)
             sapling == [status |-> "STANDING", planted |-> t]
             trees == LiveTrees(p) \cup S
  <1>1. Claim(e) /\ e.kind = "task" /\ UNCHANGED <<game, open>>
        /\ task' = [task EXCEPT ![p] = NoTask]
    BY DEF CompleteTask
  <1>2. /\ p \in Plots /\ t \in Nat /\ game \in Nat /\ t <= game
        /\ task[p] # NoTask /\ task[p].due = t /\ batch' \subseteq Events
    BY <1>1, ClaimFacts
  <1>3. /\ alarm[p] \in Nat /\ task[p] \in Tasks /\ PlotOK(p) /\ NoTask \in Tasks
        /\ S \subseteq EmptyCells(p) /\ EmptyCells(p) = CellsOf(p) \ LiveTrees(p)
        /\ LiveTrees(p) \subseteq CellsOf(p) /\ CellsOf(p) \subseteq Cells
        /\ tree \in [Cells -> Trees] /\ alarm \in [Plots -> Nat] /\ news \in [Cells -> News]
    BY <1>2, RowTypes, NoTaskFacts DEF IInv, TypeOK, FirstOf
  <1>4. sapling \in Trees /\ sapling.status = "STANDING" /\ sapling.planted = t
        /\ Maturity(sapling) = t + MatureAt /\ MatureAt \in Nat \ {0}
    <2>1. sapling \in Trees
      BY <1>2 DEF Trees
    <2> QED
      BY <2>1, MaturityType
  <1>5. FirstNews(sapling, t) = "AWAITED"
    BY <1>2, <1>4, SMT DEF FirstNews
  <1> HIDE DEF sapling, S
  <1>6. tree' = [c \in Cells |-> IF c \in S THEN sapling ELSE tree[c]]
    BY DEF CompleteReplant, S, sapling
  <1>7. PICK al : al = SyncMilestone(alarm[p], tree', trees, t)
    OBVIOUS
  <1>8. /\ news' = [c \in Cells |-> IF c \in S THEN "AWAITED" ELSE news[c]]
        /\ alarm' = [alarm EXCEPT ![p] = al]
        /\ plot' = Released(p) /\ UNCHANGED <<landVars, wood>>
    BY <1>5, <1>7 DEF CompleteReplant, S, sapling
  <1>9. tree' \in [Cells -> Trees] /\ news' \in [Cells -> News]
    BY <1>3, <1>4, <1>6, <1>8 DEF News
  <1>10. /\ \A c \in S : tree'[c] = sapling /\ news'[c] = "AWAITED"
         /\ \A c \in Cells \ S : tree'[c] = tree[c] /\ news'[c] = news[c]
    BY <1>3, <1>6, <1>8
  <1>11. \A c \in LiveTrees(p) : tree[c] \in Trees /\ TreeOK(tree[c], news[c], alarm[p], task[p], game)
    BY <1>2, RowTypes DEF IInv, PlotOK
  <1>12. AlarmOK(alarm[p], task[p], game)
    BY <1>3 DEF PlotOK
  <1>13. /\ al \in Nat /\ AlarmOK(al, NoTask, game)
         /\ IF alarm[p] # NoAlarm THEN al = alarm[p] ELSE al = NoAlarm \/ al > t
         /\ \A c \in trees : alarm[p] = NoAlarm /\ Maturity(tree'[c]) > t =>
               al # NoAlarm /\ al <= WindowEnd(Maturity(tree'[c]))
    <2>1. trees \subseteq Cells
      BY <1>3
    <2>2. ASSUME NEW c \in trees PROVE tree'[c].planted <= game
      <3>1. CASE c \in S
        BY <1>2, <1>4, <1>10, <3>1
      <3>2. CASE c \notin S
        BY <1>3, <1>10, <1>11, <3>2 DEF TreeOK
      <3> QED
        BY <3>1, <3>2
    <2>3. AlarmOK(alarm[p], NoTask, game)
      BY <1>12 DEF AlarmOK
    <2>4. PICK T \in [Cells -> Trees], C \in SUBSET Cells, old \in Nat :
             T = tree' /\ C = trees /\ old = alarm[p]
      BY <1>3, <1>9, <2>1
    <2>5. AlarmOK(old, NoTask, game) /\ \A c \in C : T[c].planted <= game
      BY <2>2, <2>3, <2>4
    <2>6. al = SyncMilestone(old, T, C, t)
      BY <1>7, <2>4
    <2>7. /\ al \in Nat /\ AlarmOK(al, NoTask, game)
          /\ IF old # NoAlarm THEN al = old ELSE al = NoAlarm \/ al > t
          /\ \A c \in C : old = NoAlarm /\ Maturity(T[c]) > t =>
                al # NoAlarm /\ al <= WindowEnd(Maturity(T[c]))
      BY <1>2, <2>5, <2>6, SyncFacts
    <2> HIDE DEF trees
    <2> QED
      BY <2>4, <2>7
  <1>14. alarm' \in [Plots -> Nat] /\ alarm'[p] = al /\ \A q \in Plots \ {p} : alarm'[q] = alarm[q]
    BY <1>2, <1>3, <1>8, <1>13
  <1>15. /\ Released(p)[p].status = "LIVE" /\ Released(p) \in [Plots -> Rows]
         /\ Released(p)[p].cellCount = Cardinality(CellsOf(p)) /\ CellsOf(p) # {}
         /\ \A q \in Plots \ {p} : Released(p)[q] = plot[q]
    BY <1>2, Working
  <1>16. /\ Total([q \in Plots |-> task'[q].reserved]) = wood.reserved /\ task' \in [Plots -> Tasks]
    <2>1. task[p].reserved = 0
      BY <1>3 DEF PlotOK
    <2>2. Total([q \in Plots |-> task'[q].reserved]) = wood.reserved - task[p].reserved + NoTask.reserved
          /\ task' \in [Plots -> Tasks] /\ wood.reserved \in Nat
      BY <1>1, <1>2, <1>3, ReservationChanges
    <2> QED
      BY <2>1, <2>2, NoTaskFacts
  <1>17. TypeOK'
    BY <1>1, <1>2, <1>8, <1>9, <1>14, <1>15, <1>16 DEF IInv, TypeOK, landVars
  <1>18. WoodIsCommitted'
    BY <1>8, <1>16 DEF IInv, WoodIsCommitted
  <1>19. CellsOf(p)' = CellsOf(p)
    BY <1>8 DEF CellsOf, landVars
  <1>20. RowAgrees(p)' /\ plot'[p].status # "ABSENT"
    BY <1>8, <1>15, <1>19 DEF RowAgrees, Live
  <1>21. Marked(p)' = {}
    <2>1. Marked(p) = {}
      BY <1>3 DEF PlotOK, MarksAgree
    <2> QED
      BY <1>3, <1>4, <1>10, <1>19, <2>1 DEF Marked
  <1>22. LiveTrees(p)' = trees
    <2>1. \A c \in Cells : c \in LiveIn(tree') <=> c \in LiveIn(tree) \/ c \in S
      BY <1>4, <1>10 DEF LiveIn
    <2> QED
      BY <1>3, <1>19, <2>1 DEF LiveTrees
  <1>23. ASSUME NEW c \in trees PROVE TreeOK(tree'[c], news'[c], al, NoTask, game)
    <2>1. CASE c \in S
      <3>1. tree'[c] = sapling /\ news'[c] = "AWAITED" /\ Maturity(sapling) > t
        BY <1>2, <1>4, <1>10, <2>1, SMT
      <3>2. al # NoAlarm /\ al <= WindowEnd(Maturity(sapling))
        <4>1. CASE alarm[p] # NoAlarm
          BY <1>2, <1>4, <1>12, <1>13, <4>1 DEF AlarmOK
        <4>2. CASE alarm[p] = NoAlarm
          BY <1>13, <3>1, <4>2
        <4> QED
          BY <4>1, <4>2
      <3> QED
        BY <1>2, <1>4, <3>1, <3>2 DEF TreeOK
    <2>2. CASE c \notin S
      <3>1. c \in LiveTrees(p) /\ tree'[c] = tree[c] /\ news'[c] = news[c]
        BY <1>3, <1>10, <2>2
      <3>2. TreeOK(tree[c], news[c], al, NoTask, game)
        BY <1>2, <1>3, <1>11, <1>13, <3>1, TreeIsKept
      <3> QED
        BY <3>1, <3>2
    <2> QED
      BY <2>1, <2>2
  <1>24. Ground'
    <2>1. \A c \in LiveIn(tree)' : c \in LiveIn(tree) \/ owner[c] = p
      BY <1>3, <1>10 DEF LiveIn, CellsOf
    <2>2. p # NoPlot
      BY <1>2, ForestryAssumption
    <2> QED
      BY <1>8, <2>1, <2>2 DEF IInv, Ground, landVars
  <1>25. NoneTwice'
    BY <1>10 DEF IInv, NoneTwice
  <1>26. \A c \in Cells : owner[c] # p => tree'[c] = tree[c] /\ news'[c] = news[c]
    BY <1>3, <1>10 DEF CellsOf
  <1> HIDE DEF trees
  <1> QED
    BY <1>1, <1>8, <1>13, <1>14, <1>15, <1>17, <1>18, <1>20, <1>21, <1>22, <1>23, <1>24, <1>25,
       <1>26, TaskIsDone DEF landVars

LEMMA ClearLandDoneKeeps ==
    ASSUME IInv, NEW e \in batch, CompleteTask(e), task[e.plot].op = "CLEAR_LAND",
           CompleteClearLand(e.plot)
    PROVE  IInv'
  <1> DEFINE p == e.plot
             gone == EmptyCells(p)
             left == LiveTrees(p)
  <1>1. Claim(e) /\ e.kind = "task" /\ UNCHANGED <<game, open>>
        /\ task' = [task EXCEPT ![p] = NoTask]
    BY DEF CompleteTask
  <1>2. /\ p \in Plots /\ game \in Nat /\ task[p] # NoTask /\ batch' \subseteq Events
        /\ p # NoPlot
    BY <1>1, ClaimFacts, ForestryAssumption
  <1>3. /\ alarm[p] \in Nat /\ task[p] \in Tasks /\ PlotOK(p) /\ NoTask \in Tasks
        /\ gone = CellsOf(p) \ left /\ left \subseteq CellsOf(p) /\ CellsOf(p) \subseteq Cells
        /\ owner \in [Cells -> Plots \cup {NoPlot}]
    BY <1>2, RowTypes, NoTaskFacts DEF IInv, TypeOK
  <1>4. /\ owner' = [c \in Cells |-> IF c \in gone THEN NoPlot ELSE owner[c]]
        /\ grass' = grass \cup gone /\ plot' = Shrunk(p)
        /\ UNCHANGED <<consumed, tree, alarm, wood, news>>
    BY DEF CompleteClearLand
  <1>5. IsFiniteSet(left) /\ Cardinality(left) \in Nat /\ (Cardinality(left) = 0 <=> left = {})
    BY <1>3, CellsFinite, FS_EmptySet
  <1>6. /\ Released(p)[p].status = "LIVE" /\ Released(p) \in [Plots -> Rows]
        /\ Released(p)[p].cellCount = Cardinality(CellsOf(p)) /\ CellsOf(p) # {}
        /\ \A q \in Plots \ {p} : Released(p)[q] = plot[q]
    BY <1>2, Working
  <1>7. CellsOf(p)' = left /\ LiveTrees(p)' = left
    BY <1>2, <1>3, <1>4 DEF CellsOf, EmptyCells, LiveTrees, LiveIn
  <1> HIDE DEF left, gone
  <1>8. /\ plot' \in [Plots -> Rows] /\ \A q \in Plots \ {p} : plot'[q] = plot[q]
        /\ IF left = {} THEN plot'[p].status = "DISPOSED"
           ELSE plot'[p].status = "LIVE" /\ plot'[p].cellCount = Cardinality(left)
    <2>1. CASE gone = {}
      <3>1. plot' = Released(p)
        BY <1>4, <2>1 DEF Shrunk, gone
      <3>2. left = CellsOf(p)
        BY <1>3, <2>1
      <3> QED
        BY <1>6, <3>1, <3>2
    <2>2. CASE gone # {} /\ left = {}
      <3>1. plot' = [Released(p) EXCEPT ![p].status = "DISPOSED"]
        BY <1>4, <1>5, <2>2 DEF Shrunk, gone, left
      <3> QED
        BY <1>2, <1>6, <2>2, <3>1 DEF Rows
    <2>3. CASE gone # {} /\ left # {}
      <3>1. plot' = [Released(p) EXCEPT ![p].cellCount = Cardinality(left)]
        BY <1>4, <1>5, <2>3 DEF Shrunk, gone, left
      <3> QED
        BY <1>2, <1>5, <1>6, <2>3, <3>1 DEF Rows
    <2> QED
      BY <2>1, <2>2, <2>3
  <1>9. RowAgrees(p)' /\ plot'[p].status # "ABSENT"
    BY <1>7, <1>8 DEF RowAgrees, Live
  <1>10. Marked(p)' = {}
    <2>1. Marked(p) = {}
      BY <1>3 DEF PlotOK, MarksAgree
    <2> QED
      BY <1>3, <1>4, <1>7, <2>1 DEF Marked
  <1>11. AlarmOK(alarm'[p], NoTask, game)
    BY <1>3, <1>4 DEF PlotOK, AlarmOK
  <1>12. ASSUME NEW c \in left PROVE TreeOK(tree'[c], news'[c], alarm'[p], NoTask, game)
    <2>1. tree[c] \in Trees /\ TreeOK(tree[c], news[c], alarm[p], task[p], game)
      BY <1>2, <1>3, RowTypes DEF IInv, PlotOK, left
    <2> QED
      BY <1>2, <1>3, <1>4, <2>1, TreeIsKept
  <1>13. /\ Total([q \in Plots |-> task'[q].reserved]) = wood.reserved /\ task' \in [Plots -> Tasks]
    <2>1. task[p].reserved = 0
      BY <1>3 DEF PlotOK
    <2>2. Total([q \in Plots |-> task'[q].reserved]) = wood.reserved - task[p].reserved + NoTask.reserved
          /\ task' \in [Plots -> Tasks] /\ wood.reserved \in Nat
      BY <1>1, <1>2, <1>3, ReservationChanges
    <2> QED
      BY <2>1, <2>2, NoTaskFacts
  <1>14. TypeOK'
    <2>1. owner' \in [Cells -> Plots \cup {NoPlot}] /\ grass' \in SUBSET Cells
      BY <1>3, <1>4 DEF IInv, TypeOK
    <2> QED
      BY <1>1, <1>2, <1>4, <1>8, <1>13, <2>1 DEF IInv, TypeOK
  <1>15. Ground'
    <2>1. \A c \in LiveIn(tree) : c \notin gone
      BY DEF gone, EmptyCells
    <2> QED
      BY <1>4, <2>1 DEF IInv, Ground, LiveIn
  <1>16. NoneTwice' /\ WoodIsCommitted'
    BY <1>4, <1>13 DEF IInv, NoneTwice, WoodIsCommitted
  <1>17. \A q \in Plots \ {p} : \A c \in Cells : owner'[c] = q <=> owner[c] = q
    BY <1>3, <1>4, ForestryAssumption DEF CellsOf
  <1> QED
    BY <1>1, <1>4, <1>7, <1>8, <1>9, <1>10, <1>11, <1>12, <1>14, <1>15, <1>16, <1>17, TaskIsDone

-------------------------------------------------------------------------------
(* The requests *)

\* A request that concerns the plot p only.
LEMMA RequestKeeps ==
    ASSUME IInv, Body, NEW p \in Plots, TypeOK', PlotOK(p)',
           \A q \in Plots \ {p} : plot'[q] = plot[q] /\ alarm'[q] = alarm[q] /\ task'[q] = task[q],
           \A q \in Plots \ {p} : \A c \in Cells : owner'[c] = q <=> owner[c] = q,
           \A c \in Cells : owner[c] \in Plots \ {p} => tree'[c] = tree[c] /\ news'[c] = news[c],
           Ground', NoneTwice', WoodIsCommitted'
    PROVE  IInv'
  <1>1. game' = game /\ game <= game' /\ BatchOK'
    BY ForestryAssumption DEF Body, BatchOK, IInv, TypeOK
  <1>2. ASSUME NEW q \in Plots \ {p} PROVE PlotOK(q)'
    <2>1. \A c \in CellsOf(q) : tree'[c] = tree[c] /\ news'[c] = news[c]
      BY DEF CellsOf
    <2> QED
      BY <1>1, <2>1, OtherPlot DEF IInv
  <1> QED
    BY <1>1, <1>2 DEF IInv

\* A task k starts on an idle plot; it may mark trees, which moves no tree and no age.
LEMMA WorkStarts ==
    ASSUME IInv, Body, NEW p \in Plots, Idle(p), NEW k \in Tasks, game <= k.due,
           task' = [task EXCEPT ![p] = k], plot' = [plot EXCEPT ![p].currentTask = TRUE],
           UNCHANGED <<landVars, alarm, news>>, tree' \in [Cells -> Trees],
           \A c \in Cells : /\ tree'[c].planted = tree[c].planted
                            /\ tree'[c].status = "NONE" <=> tree[c].status = "NONE"
                            /\ owner[c] # p => tree'[c] = tree[c],
           wood' \in [stored : Nat, reserved : Nat], wood'.reserved = wood.reserved + k.reserved,
           wood'.stored + wood'.reserved <= Capacity,
           k.op # "FELL" => k.reserved = 0,
           Marked(p)' = IF k.op = "FELL" THEN k.chosen ELSE {},
           k.op = "CLEAR_LAND" => EmptyCells(p) = k.chosen,
           k.op = "REPLANT" => k.chosen \subseteq EmptyCells(p) /\ k.units = Cardinality(k.chosen)
    PROVE  IInv'
  <1>1. /\ task[p] = NoTask /\ plot[p].status = "LIVE" /\ game \in Nat /\ PlotOK(p)
        /\ plot \in [Plots -> Rows] /\ alarm[p] \in Nat /\ task[p] \in Tasks
    BY RowTypes, ForestryAssumption DEF Idle, Live, IInv, TypeOK
  <1>2. /\ plot' \in [Plots -> Rows] /\ plot'[p].status = "LIVE" /\ plot'[p].currentTask = TRUE
        /\ plot'[p].cellCount = plot[p].cellCount /\ \A q \in Plots \ {p} : plot'[q] = plot[q]
    BY <1>1 DEF Rows
  <1>3. task' \in [Plots -> Tasks] /\ task'[p] = k /\ \A q \in Plots \ {p} : task'[q] = task[q]
    BY DEF IInv, TypeOK
  <1>4. WoodIsCommitted'
    <2>1. Total([q \in Plots |-> task'[q].reserved]) = wood.reserved - task[p].reserved + k.reserved
          /\ wood.reserved \in Nat /\ k.reserved \in Nat
      BY ReservationChanges
    <2> QED
      BY <1>1, <2>1, NoTaskFacts DEF WoodIsCommitted
  <1>5. TypeOK'
    BY <1>2, <1>3 DEF IInv, TypeOK, Body, landVars
  <1>6. /\ CellsOf(p)' = CellsOf(p) /\ LiveTrees(p)' = LiveTrees(p)
        /\ EmptyCells(p)' = EmptyCells(p) /\ LiveIn(tree)' = LiveIn(tree)
    BY DEF CellsOf, LiveTrees, EmptyCells, LiveIn, landVars
  <1>7. PlotOK(p)'
    <2>1. RowAgrees(p)'
      BY <1>1, <1>2, <1>6 DEF PlotOK, RowAgrees, Live
    <2>2. MarksAgree(p)' /\ AreaAgrees(p)'
      BY <1>2, <1>3, <1>6 DEF MarksAgree, AreaAgrees, Live
    <2>3. AlarmOK(alarm[p], k, game)
      BY <1>1, AlarmUnderTask DEF PlotOK
    <2>4. ASSUME NEW c \in LiveTrees(p) PROVE TreeOK(tree'[c], news[c], alarm[p], k, game)
      <3>1. tree[c] \in Trees /\ TreeOK(tree[c], news[c], alarm[p], task[p], game) /\ c \in Cells
        BY <1>1, RowTypes DEF IInv, PlotOK
      <3>2. tree'[c] \in Trees /\ tree'[c].planted = tree[c].planted
        BY <3>1
      <3> QED
        BY <1>1, <3>1, <3>2, TreeUnderTask
    <2>5. game' = game /\ alarm' = alarm /\ news' = news
      BY DEF Body
    <2> QED
      BY <1>2, <1>3, <1>6, <2>1, <2>2, <2>3, <2>4, <2>5 DEF PlotOK
  <1>8. Ground' /\ NoneTwice'
    BY <1>6 DEF IInv, Ground, NoneTwice, landVars
  <1> QED
    BY <1>2, <1>3, <1>4, <1>5, <1>7, <1>8, RequestKeeps DEF landVars

LEMMA NewTask ==
    ASSUME IInv, NEW p \in Plots, NEW op \in Operations, NEW units \in Nat, NEW reserved \in Nat,
           NEW chosen \in SUBSET Cells, WriteTask(p, op, units, reserved, chosen)
    PROVE  \E k \in Tasks : /\ k.op = op /\ k.units = units /\ k.reserved = reserved
                            /\ k.chosen = chosen /\ game <= k.due
                            /\ task' = [task EXCEPT ![p] = k]
                            /\ plot' = [plot EXCEPT ![p].currentTask = TRUE]
  <1> DEFINE k == [op |-> op, units |-> units, reserved |-> reserved,
                   due |-> game + WorkTime[op], chosen |-> chosen]
  <1>1. game \in Nat /\ WorkTime[op] \in Nat
    BY ForestryAssumption DEF IInv, TypeOK
  <1>2. k \in Tasks /\ game <= k.due
    BY <1>1 DEF Tasks
  <1> QED
    BY <1>2 DEF WriteTask

LEMMA AssignFellKeeps ==
    ASSUME IInv, NEW p \in Plots, NEW S \in SUBSET Cells, Fell(p, S)
    PROVE  IInv'
  <1> DEFINE trees == S \cap LiveTrees(p)
             lot == {c \in trees : Fellable(c, game)}
             volume == BatchVolume(lot, game)
  <1>1. /\ Body /\ Idle(p) /\ volume <= Capacity - wood.stored - wood.reserved
        /\ wood' = [wood EXCEPT !.reserved = @ + volume]
        /\ WriteTask(p, "FELL", Cardinality(trees), volume, lot)
        /\ tree' = [c \in Cells |-> IF c \in lot THEN [tree[c] EXCEPT !.status = "MARKED"]
                                    ELSE tree[c]]
        /\ UNCHANGED <<landVars, alarm, news>>
    BY DEF Fell
  <1>2. /\ lot \subseteq LiveTrees(p) /\ LiveTrees(p) \subseteq CellsOf(p) /\ trees \subseteq Cells
        /\ CellsOf(p) \subseteq Cells /\ tree \in [Cells -> Trees] /\ game \in Nat
        /\ wood \in [stored : Nat, reserved : Nat] /\ Capacity \in Nat
    BY RowTypes, ForestryAssumption DEF IInv, TypeOK
  <1>3. volume \in Nat /\ Cardinality(trees) \in Nat
    BY <1>2, VolumeType, CellsFinite DEF IInv
  <1> HIDE DEF lot, volume, trees
  <1>4. PICK k \in Tasks :
          /\ k.op = "FELL" /\ k.reserved = volume /\ k.chosen = lot /\ game <= k.due
          /\ task' = [task EXCEPT ![p] = k] /\ plot' = [plot EXCEPT ![p].currentTask = TRUE]
    <2>1. lot \in SUBSET Cells /\ "FELL" \in Operations
      BY <1>2 DEF Operations
    <2> QED
      BY <1>1, <1>3, <2>1, NewTask
  <1>5. ASSUME NEW c \in Cells
        PROVE  /\ tree'[c] \in Trees /\ tree'[c].planted = tree[c].planted
               /\ tree'[c].status = "NONE" <=> tree[c].status = "NONE"
               /\ owner[c] # p => tree'[c] = tree[c]
               /\ tree'[c].status = "MARKED" <=> c \in lot \/ tree[c].status = "MARKED"
    <2>1. tree[c] \in Trees /\ (c \in lot => owner[c] = p /\ tree[c].status # "NONE")
      BY <1>2 DEF LiveTrees, LiveIn, CellsOf
    <2>2. CASE c \in lot
      <3>1. tree'[c] = [tree[c] EXCEPT !.status = "MARKED"]
        BY <1>1, <2>2
      <3> QED
        BY <2>1, <2>2, <3>1 DEF Trees
    <2>3. CASE c \notin lot
      <3>1. tree'[c] = tree[c]
        BY <1>1, <2>3
      <3> QED
        BY <2>1, <2>3, <3>1
    <2> QED
      BY <2>2, <2>3
  <1>6. tree' \in [Cells -> Trees]
    BY <1>1, <1>5
  <1>7. Marked(p)' = lot
    <2>1. Marked(p) = {}
      BY <1>1, NoTaskFacts DEF Idle, IInv, PlotOK, MarksAgree
    <2> QED
      BY <1>1, <1>2, <1>5, <2>1 DEF Marked, CellsOf, landVars
  <1>8. /\ wood' \in [stored : Nat, reserved : Nat] /\ wood'.reserved = wood.reserved + volume
        /\ wood'.stored + wood'.reserved <= Capacity
    BY <1>1, <1>2, <1>3
  <1>9. Body /\ Idle(p) /\ UNCHANGED <<landVars, alarm, news>>
    BY <1>1
  <1>10. /\ k.op # "FELL" => k.reserved = 0
         /\ Marked(p)' = IF k.op = "FELL" THEN k.chosen ELSE {}
         /\ k.op # "CLEAR_LAND" /\ k.op # "REPLANT"
         /\ wood'.reserved = wood.reserved + k.reserved
    BY <1>4, <1>7, <1>8
  <1>11. \A c \in Cells : /\ tree'[c].planted = tree[c].planted
                          /\ tree'[c].status = "NONE" <=> tree[c].status = "NONE"
                          /\ owner[c] # p => tree'[c] = tree[c]
    BY <1>5
  <1> QED
    BY <1>4, <1>6, <1>8, <1>9, <1>10, <1>11, WorkStarts

LEMMA AssignOtherKeeps ==
    ASSUME IInv, NEW p \in Plots, NEW S \in SUBSET Cells, Replant(p, S) \/ ClearLand(p, S)
    PROVE  IInv'
  <1> DEFINE op == IF Replant(p, S) THEN "REPLANT" ELSE "CLEAR_LAND"
  <1>1. /\ Body /\ Idle(p) /\ WriteTask(p, op, Cardinality(S), 0, S)
        /\ UNCHANGED <<landVars, tree, alarm, wood, news>>
        /\ op = "CLEAR_LAND" => S = EmptyCells(p)
        /\ op = "REPLANT" => S \subseteq EmptyCells(p)
        /\ op \in {"REPLANT", "CLEAR_LAND"}
    BY DEF Replant, ClearLand, WholeClearedPart
  <1> HIDE DEF op
  <1>2. Cardinality(S) \in Nat /\ op \in Operations
    BY <1>1, CellsFinite DEF Operations
  <1>3. PICK k \in Tasks :
          /\ k.op = op /\ k.units = Cardinality(S) /\ k.reserved = 0 /\ k.chosen = S
          /\ game <= k.due
          /\ task' = [task EXCEPT ![p] = k] /\ plot' = [plot EXCEPT ![p].currentTask = TRUE]
    BY <1>1, <1>2, NewTask
  <1>4. Marked(p)' = {}
    <2>1. Marked(p) = {}
      BY <1>1, NoTaskFacts DEF Idle, IInv, PlotOK, MarksAgree
    <2> QED
      BY <1>1, <2>1 DEF Marked, CellsOf, landVars
  <1>5. /\ wood' \in [stored : Nat, reserved : Nat] /\ wood'.reserved = wood.reserved + k.reserved
        /\ wood'.stored + wood'.reserved <= Capacity /\ tree' \in [Cells -> Trees]
    BY <1>1, <1>3 DEF IInv, TypeOK, WoodIsCommitted
  <1>6. \A c \in Cells : /\ tree'[c].planted = tree[c].planted
                         /\ tree'[c].status = "NONE" <=> tree[c].status = "NONE"
                         /\ owner[c] # p => tree'[c] = tree[c]
    BY <1>1
  <1>7. /\ k.op # "FELL" /\ (k.op = "CLEAR_LAND" => EmptyCells(p) = k.chosen)
        /\ (k.op = "REPLANT" => k.chosen \subseteq EmptyCells(p) /\ k.units = Cardinality(k.chosen))
    BY <1>1, <1>3
  <1>8. UNCHANGED <<landVars, alarm, news>>
    BY <1>1
  <1> QED
    BY <1>1, <1>3, <1>4, <1>5, <1>6, <1>7, <1>8, WorkStarts

LEMMA CancelKeeps ==
    ASSUME IInv, NEW p \in Plots, Cancel(p)
    PROVE  IInv'
  <1>1. /\ Body /\ task[p] # NoTask /\ task' = [task EXCEPT ![p] = NoTask] /\ plot' = Released(p)
        /\ wood' = [wood EXCEPT !.reserved = @ - task[p].reserved]
        /\ tree' = [c \in Cells |-> IF c \in Marked(p) THEN [tree[c] EXCEPT !.status = "STANDING"]
                                    ELSE tree[c]]
        /\ UNCHANGED <<landVars, alarm, news>>
    BY DEF Cancel, Unmarked
  <1>2. /\ PlotOK(p) /\ game \in Nat /\ alarm[p] \in Nat /\ task[p] \in Tasks /\ NoTask \in Tasks
        /\ CellsOf(p) \subseteq Cells /\ LiveTrees(p) \subseteq CellsOf(p)
        /\ Marked(p) \subseteq LiveTrees(p) /\ tree \in [Cells -> Trees]
        /\ wood \in [stored : Nat, reserved : Nat]
    BY RowTypes, NoTaskFacts, ForestryAssumption DEF IInv, TypeOK
  <1>3. task' \in [Plots -> Tasks] /\ task'[p] = NoTask /\ \A q \in Plots \ {p} : task'[q] = task[q]
    BY <1>1, <1>2 DEF IInv, TypeOK
  <1>4. /\ Released(p)[p].status = "LIVE" /\ Released(p) \in [Plots -> Rows]
        /\ Released(p)[p].cellCount = Cardinality(CellsOf(p)) /\ CellsOf(p) # {}
        /\ \A q \in Plots \ {p} : Released(p)[q] = plot[q]
    BY <1>1, Working
  <1>5. ASSUME NEW c \in Cells
        PROVE  /\ tree'[c] \in Trees /\ tree'[c].planted = tree[c].planted
               /\ tree'[c].status = "NONE" <=> tree[c].status = "NONE"
               /\ owner[c] # p => tree'[c] = tree[c]
               /\ owner[c] = p => tree'[c].status # "MARKED"
    <2>1. tree[c] \in Trees
      BY <1>2
    <2>2. CASE c \in Marked(p)
      <3>1. tree'[c] = [tree[c] EXCEPT !.status = "STANDING"] /\ owner[c] = p
            /\ tree[c].status = "MARKED"
        BY <1>1, <2>2 DEF Marked, CellsOf
      <3> QED
        BY <2>1, <3>1 DEF Trees
    <2>3. CASE c \notin Marked(p)
      <3>1. tree'[c] = tree[c] /\ (owner[c] = p => tree[c].status # "MARKED")
        BY <1>1, <2>3 DEF Marked, CellsOf
      <3> QED
        BY <2>1, <3>1
    <2> QED
      BY <2>2, <2>3
  <1>6. tree' \in [Cells -> Trees]
    BY <1>1, <1>5
  <1>7. /\ wood' \in [stored : Nat, reserved : Nat] /\ WoodIsCommitted'
    <2>1. /\ Total([q \in Plots |-> task'[q].reserved]) = wood.reserved - task[p].reserved + NoTask.reserved
          /\ task[p].reserved \in Nat /\ wood.reserved \in Nat /\ task[p].reserved <= wood.reserved
      BY <1>1, <1>2, ReservationChanges
    <2>2. wood'.reserved = wood.reserved - task[p].reserved /\ wood'.stored = wood.stored
          /\ wood' \in [stored : Nat, reserved : Nat]
      BY <1>1, <1>2, <2>1
    <2>3. Total([q \in Plots |-> task'[q].reserved]) = wood.reserved - task[p].reserved
      BY <2>1, NoTaskFacts
    <2>4. wood.stored + wood.reserved <= Capacity /\ wood.stored \in Nat /\ Capacity \in Nat
      BY <1>2, ForestryAssumption DEF IInv, WoodIsCommitted
    <2>5. wood'.stored + wood'.reserved <= Capacity
      BY <2>1, <2>2, <2>4
    <2> QED
      BY <2>2, <2>3, <2>5 DEF WoodIsCommitted
  <1>8. TypeOK'
    BY <1>1, <1>3, <1>4, <1>6, <1>7 DEF IInv, TypeOK, Body, landVars
  <1>9. /\ CellsOf(p)' = CellsOf(p) /\ LiveTrees(p)' = LiveTrees(p) /\ LiveIn(tree)' = LiveIn(tree)
        /\ Marked(p)' = {}
    BY <1>1, <1>5 DEF CellsOf, LiveTrees, LiveIn, Marked, landVars
  <1>10. PlotOK(p)'
    <2>1. RowAgrees(p)' /\ plot'[p].status = "LIVE"
      BY <1>1, <1>4, <1>9 DEF RowAgrees, Live
    <2>2. MarksAgree(p)' /\ AreaAgrees(p)'
      BY <1>3, <1>9, NoTaskFacts DEF MarksAgree, AreaAgrees
    <2>3. AlarmOK(alarm[p], NoTask, game)
      BY <1>2 DEF PlotOK, AlarmOK
    <2>4. ASSUME NEW c \in LiveTrees(p) PROVE TreeOK(tree'[c], news[c], alarm[p], NoTask, game)
      <3>1. tree[c] \in Trees /\ TreeOK(tree[c], news[c], alarm[p], task[p], game) /\ c \in Cells
        BY <1>2 DEF PlotOK
      <3>2. tree'[c] \in Trees /\ tree'[c].planted = tree[c].planted
        BY <1>5, <3>1
      <3> QED
        BY <1>2, <3>1, <3>2, TreeUnderTask
    <2>5. game' = game /\ alarm' = alarm /\ news' = news
      BY <1>1 DEF Body
    <2> QED
      BY <1>3, <1>9, <2>1, <2>2, <2>3, <2>4, <2>5, NoTaskFacts DEF PlotOK
  <1>11. Ground' /\ NoneTwice'
    BY <1>1, <1>9 DEF IInv, Ground, NoneTwice, landVars
  <1>12. \A q \in Plots \ {p} : plot'[q] = plot[q] /\ alarm'[q] = alarm[q] /\ task'[q] = task[q]
    BY <1>1, <1>3, <1>4
  <1> QED
    BY <1>1, <1>5, <1>7, <1>8, <1>10, <1>11, <1>12, RequestKeeps DEF landVars

LEMMA SellKeeps ==
    ASSUME IInv, NEW units \in 1 .. wood.stored, Sell(units)
    PROVE  IInv'
  <1>1. /\ Body /\ units <= wood.stored /\ wood' = [wood EXCEPT !.stored = @ - units]
        /\ UNCHANGED <<landVars, tree, plot, alarm, task, news>>
    BY DEF Sell
  <1>2. /\ wood \in [stored : Nat, reserved : Nat] /\ units \in Nat /\ game \in Nat
        /\ wood.stored + wood.reserved <= Capacity /\ Capacity \in Nat
    BY ForestryAssumption DEF IInv, TypeOK, WoodIsCommitted
  <1>3. /\ wood' \in [stored : Nat, reserved : Nat] /\ wood'.reserved = wood.reserved
        /\ wood'.stored + wood'.reserved <= Capacity
    BY <1>1, <1>2
  <1>4. game' = game /\ open' \in BOOLEAN /\ batch' = batch
    BY <1>1 DEF Body
  <1>9. TypeOK'
    BY <1>1, <1>3, <1>4 DEF IInv, TypeOK, landVars
  <1>5. \A q \in Plots : PlotOK(q)'
    BY <1>1, <1>2, <1>4, <1>9, OtherPlot DEF IInv, landVars
  <1>6. Ground' /\ NoneTwice' /\ BatchOK'
    BY <1>1 DEF IInv, Ground, LiveIn, NoneTwice, BatchOK, Body, landVars
  <1>7. WoodIsCommitted'
    BY <1>1, <1>3 DEF IInv, WoodIsCommitted
  <1> QED
    BY <1>5, <1>6, <1>7, <1>9 DEF IInv

LEMMA CreatePlotKeeps ==
    ASSUME IInv, NEW p \in Plots, NEW S \in SUBSET Cells, CreatePlot(p, S)
    PROVE  IInv'
  <1> DEFINE grown == (S \ consumed) \cap Wooded
             wild(c) == [status |-> "STANDING", planted |-> game - Age[c]]
             row == [status |-> "LIVE", cellCount |-> Cardinality(S), currentTask |-> FALSE]
  <1>1. /\ Body /\ plot[p] = AbsentRow /\ S # {} /\ S \cap grass = {} /\ \A c \in S : owner[c] = NoPlot
        /\ plot' = [plot EXCEPT ![p] = row]
        /\ owner' = [c \in Cells |-> IF c \in S THEN p ELSE owner[c]]
        /\ consumed' = consumed \cup S
        /\ UNCHANGED <<grass, task, wood>>
    BY DEF CreatePlot
  <1>2. /\ tree' = [c \in Cells |-> IF c \in grown THEN wild(c) ELSE tree[c]]
        /\ news' = [c \in Cells |-> IF c \in grown THEN FirstNews(wild(c), game) ELSE news[c]]
        /\ alarm' = [alarm EXCEPT ![p] = SyncMilestone(@, tree', grown, game)]
    BY DEF CreatePlot
  <1>3. /\ PlotOK(p) /\ game \in Nat /\ task[p] \in Tasks /\ p # NoPlot
        /\ tree \in [Cells -> Trees] /\ news \in [Cells -> News] /\ alarm \in [Plots -> Nat]
        /\ plot \in [Plots -> Rows] /\ owner \in [Cells -> Plots \cup {NoPlot}]
        /\ consumed \subseteq Cells /\ task \in [Plots -> Tasks]
    BY RowTypes, ForestryAssumption DEF IInv, TypeOK
  <1>4. plot[p].status = "ABSENT" /\ ~Live(p)
    BY <1>1 DEF AbsentRow, Live
  <1>5. alarm[p] = NoAlarm /\ task[p] = NoTask /\ CellsOf(p) = {}
    BY <1>3, <1>4 DEF PlotOK, AreaAgrees, RowAgrees
  <1>6. grown \subseteq S /\ grown \subseteq Wooded /\ grown \subseteq Cells
    OBVIOUS
  <1>7. ASSUME NEW c \in grown
        PROVE  wild(c) \in Trees /\ wild(c).planted <= game /\ wild(c).status = "STANDING"
    <2>1. Age[c] \in Nat
      BY <1>6, ForestryAssumption
    <2> QED
      BY <1>3, <2>1 DEF Trees
  <1> HIDE DEF grown, wild
  <1>8. PICK al : al = SyncMilestone(NoAlarm, tree', grown, game)
    OBVIOUS
  <1>9. tree' \in [Cells -> Trees] /\ news' \in [Cells -> News]
    <2>1. \A c \in Cells : FirstNews(wild(c), game) \in News
      BY DEF FirstNews, News
    <2> QED
      BY <1>2, <1>3, <1>7, <2>1
  <1>10. /\ \A c \in grown : tree'[c] = wild(c) /\ news'[c] = FirstNews(wild(c), game)
         /\ \A c \in Cells \ grown : tree'[c] = tree[c] /\ news'[c] = news[c]
    BY <1>2, <1>6
  <1>11. /\ al \in Nat /\ AlarmOK(al, NoTask, game)
         /\ \A c \in grown : Maturity(tree'[c]) > game =>
               al # NoAlarm /\ al <= WindowEnd(Maturity(tree'[c]))
    <2>1. PICK T \in [Cells -> Trees], C \in SUBSET Cells : T = tree' /\ C = grown
      BY <1>6, <1>9
    <2>2. NoAlarm \in Nat /\ AlarmOK(NoAlarm, NoTask, game)
      BY <1>3, <1>5 DEF PlotOK, NoAlarm
    <2>3. \A c \in C : T[c].planted <= game
      BY <1>7, <1>10, <2>1
    <2>4. al = SyncMilestone(NoAlarm, T, C, game)
      BY <1>8, <2>1
    <2>5. /\ al \in Nat /\ AlarmOK(al, NoTask, game)
          /\ \A c \in C : Maturity(T[c]) > game => al # NoAlarm /\ al <= WindowEnd(Maturity(T[c]))
      BY <1>3, <2>2, <2>3, <2>4, SyncFacts
    <2> QED
      BY <2>1, <2>5
  <1>12. alarm' \in [Plots -> Nat] /\ alarm'[p] = al /\ \A q \in Plots \ {p} : alarm'[q] = alarm[q]
    BY <1>2, <1>3, <1>5, <1>8, <1>11
  <1>13. /\ plot' \in [Plots -> Rows] /\ plot'[p].status = "LIVE"
         /\ plot'[p].cellCount = Cardinality(S) /\ \A q \in Plots \ {p} : plot'[q] = plot[q]
    <2>1. row \in Rows
      BY CellsFinite DEF Rows
    <2> QED
      BY <1>1, <1>3, <2>1
  <1>14. owner' \in [Cells -> Plots \cup {NoPlot}] /\ consumed' \subseteq Cells
    BY <1>1, <1>3
  <1>15. TypeOK'
    BY <1>1, <1>3, <1>9, <1>12, <1>13, <1>14 DEF IInv, TypeOK, Body
  <1>16. CellsOf(p)' = S
    BY <1>1, <1>3, <1>5 DEF CellsOf
  <1>17. /\ LiveTrees(p)' = grown /\ Marked(p)' = {}
         /\ \A c \in LiveIn(tree)' : c \in LiveIn(tree) \/ c \in S
    <2>1. \A c \in S \ grown : tree'[c].status = "NONE"
      BY <1>1, <1>10 DEF IInv, Ground, LiveIn
    <2>2. \A c \in grown : tree'[c].status = "STANDING"
      BY <1>7, <1>10
    <2> QED
      BY <1>6, <1>10, <1>16, <2>1, <2>2 DEF LiveTrees, LiveIn, Marked
  <1>18. ASSUME NEW c \in grown PROVE TreeOK(tree'[c], news'[c], al, NoTask, game)
    <2>1. /\ tree'[c] \in Trees /\ tree'[c].planted <= game
          /\ news'[c] = IF Maturity(tree'[c]) <= game THEN "RIPE" ELSE "AWAITED"
      BY <1>6, <1>7, <1>9, <1>10 DEF FirstNews
    <2>2. Maturity(tree'[c]) \in Int
      BY <2>1, MaturityType
    <2>3. news'[c] = "AWAITED" => al # NoAlarm /\ al <= WindowEnd(Maturity(tree'[c]))
      BY <1>3, <1>11, <2>1, <2>2
    <2> QED
      BY <2>1, <2>3 DEF TreeOK
  <1>19. PlotOK(p)'
    <2>1. RowAgrees(p)'
      BY <1>1, <1>13, <1>16 DEF RowAgrees, Live
    <2>2. MarksAgree(p)' /\ AreaAgrees(p)'
      BY <1>1, <1>5, <1>17, NoTaskFacts DEF MarksAgree, AreaAgrees
    <2>3. game' = game /\ task'[p] = NoTask
      BY <1>1, <1>5 DEF Body
    <2> QED
      BY <1>11, <1>12, <1>13, <1>17, <1>18, <2>1, <2>2, <2>3, NoTaskFacts DEF PlotOK
  <1>20. Ground'
    <2>1. ASSUME NEW c \in Cells, owner'[c] # NoPlot PROVE c \in consumed' \ grass'
      <3>1. c \in S \/ owner[c] # NoPlot
        BY <1>1, <2>1
      <3> QED
        BY <1>1, <3>1 DEF IInv, Ground
    <2>2. ASSUME NEW c \in LiveIn(tree)' PROVE owner'[c] # NoPlot
      <3>1. c \in Cells /\ (c \in S \/ owner[c] # NoPlot)
        BY <1>17, <2>2 DEF IInv, Ground, LiveIn
      <3> QED
        BY <1>1, <1>3, <3>1
    <2> QED
      BY <2>1, <2>2 DEF Ground
  <1>21. NoneTwice'
    <2>1. \A c \in grown : news'[c] # "TWICE"
      BY <1>10 DEF FirstNews
    <2> QED
      BY <1>10, <2>1 DEF IInv, NoneTwice
  <1>22. /\ \A q \in Plots \ {p} : plot'[q] = plot[q] /\ alarm'[q] = alarm[q] /\ task'[q] = task[q]
         /\ \A q \in Plots \ {p} : \A c \in Cells : owner'[c] = q <=> owner[c] = q
    BY <1>1, <1>3, <1>12, <1>13, ForestryAssumption
  <1>23. \A c \in Cells : owner[c] \in Plots \ {p} => tree'[c] = tree[c] /\ news'[c] = news[c]
    BY <1>1, <1>6, <1>10, ForestryAssumption
  <1>24. WoodIsCommitted'
    BY <1>1 DEF IInv, WoodIsCommitted
  <1> QED
    BY <1>1, <1>15, <1>19, <1>20, <1>21, <1>22, <1>23, <1>24, RequestKeeps

-------------------------------------------------------------------------------
(* The invariant, and what follows from it *)

LEMMA InitHolds == Init => IInv
  <1> SUFFICES ASSUME Init PROVE IInv
    OBVIOUS
  <1> USE DEF Init
  <1>1. TypeOK
    <2>1. NoTree \in Trees /\ AbsentRow \in Rows /\ NoAlarm \in Nat /\ NoTask \in Tasks
      BY NoTaskFacts DEF Trees, NoTree, Rows, AbsentRow, NoAlarm
    <2>2. game \in 0 .. MaxGame /\ wood \in [stored : Nat, reserved : Nat]
      BY ForestryAssumption
    <2>3. \A c \in Cells : "RIPE" \in News
      BY DEF News
    <2> QED
      BY <2>1, <2>2, <2>3 DEF TypeOK
  <1>2. ASSUME NEW q \in Plots PROVE PlotOK(q)
    <2>1. CellsOf(q) = {} /\ LiveTrees(q) = {} /\ Marked(q) = {}
      BY ForestryAssumption DEF CellsOf, LiveTrees, Marked
    <2>2. /\ plot[q].status = "ABSENT" /\ ~Live(q) /\ task[q] = NoTask /\ alarm[q] = NoAlarm
      BY DEF AbsentRow, Live
    <2>3. AlarmOK(NoAlarm, NoTask, game)
      <3>1. Window \in Nat /\ MatureAt \in Int /\ 0 <= MatureAt /\ 0 = 0 * Window
        BY ForestryAssumption
      <3>2. Aligned(0)
        BY <3>1 DEF Aligned
      <3>3. 0 <= WindowEnd(0 + MatureAt)
        BY <3>1, WindowEndFacts, SMT
      <3> QED
        BY <3>2, <3>3 DEF AlarmOK, NoAlarm
    <2>4. RowAgrees(q) /\ MarksAgree(q) /\ AreaAgrees(q)
      BY <2>1, <2>2, NoTaskFacts DEF RowAgrees, MarksAgree, AreaAgrees
    <2> QED
      BY <2>1, <2>2, <2>3, <2>4, NoTaskFacts DEF PlotOK
  <1>3. Ground /\ NoneTwice /\ BatchOK
    BY DEF Ground, LiveIn, NoTree, NoneTwice, BatchOK
  <1>4. WoodIsCommitted
    <2> DEFINE f == [q \in Plots |-> task[q].reserved]
    <2>1. \A q \in Plots : f[q] = 0
      BY NoTaskFacts
    <2>2. Units(f, Plots) = {}
      BY <2>1 DEF Units
    <2>3. Total(f) = Cardinality({})
      BY <2>2 DEF Total, Units
    <2>4. Capacity \in Nat
      BY ForestryAssumption
    <2> QED
      BY <2>3, <2>4, FS_EmptySet DEF WoodIsCommitted
  <1> QED
    BY <1>1, <1>2, <1>3, <1>4 DEF IInv

LEMMA NextKeeps == IInv /\ [Next]_vars => IInv'
  <1> SUFFICES ASSUME IInv, [Next]_vars PROVE IInv'
    OBVIOUS
  <1>1. CASE Tick \/ Begin \/ Close
    BY <1>1, TickKeeps, BeginKeeps, CloseKeeps
  <1>2. ASSUME NEW e \in batch, NotifyMilestone(e) PROVE IInv'
    BY <1>2, NotifyMilestoneKeeps
  <1>3. ASSUME NEW e \in batch, CompleteTask(e) PROVE IInv'
    BY <1>3, FellKeeps, ReplantKeeps, ClearLandDoneKeeps DEF CompleteTask
  <1>4. CASE Request
    BY <1>4, CreatePlotKeeps, AssignFellKeeps, AssignOtherKeeps, CancelKeeps, SellKeeps DEF Request
  <1>5. CASE UNCHANGED vars
    <2>1. UNCHANGED <<game, storeVars, open, batch, news>>
      BY <1>5 DEF vars
    <2>2. TypeOK' /\ BatchOK' /\ game <= game'
      BY <2>1, ForestryAssumption DEF IInv, TypeOK, BatchOK, TaskEvent, storeVars, landVars
    <2> QED
      BY <2>1, <2>2, QuietStep
  <1> QED
    BY <1>1, <1>2, <1>3, <1>4, <1>5 DEF Next, Apply

LEMMA Invariance == Spec => []IInv
  BY InitHolds, NextKeeps, PTL DEF Spec

\* Every variable keeps to its kind, for any plots, forest, prices of work and batch size.
THEOREM TypeCorrect == Spec => []TypeOK
  <1>1. IInv => TypeOK
    BY DEF IInv
  <1> QED
    BY <1>1, Invariance, PTL

\* One alarm per plot, kept while it is pending, reaches every tree that comes of age, and
\* none of them twice, whatever is felled, planted or cleared and however late the alarms
\* are applied (forestry/service.ts, syncMilestoneSchedule and treesCrossingMilestone).
THEOREM ToldOnce == Spec => []EveryTreeIsToldOnce
  <1>1. IInv => EveryTreeIsToldOnce
    <2> SUFFICES ASSUME IInv PROVE EveryTreeIsToldOnce
      OBVIOUS
    <2>1. ASSUME NEW c \in LiveIn(tree), news[c] = "AWAITED"
          PROVE  alarm[owner[c]] # NoAlarm /\ alarm[owner[c]] <= WindowEnd(Maturity(tree[c]))
      <3>1. c \in Cells /\ owner[c] \in Plots
        BY DEF IInv, Ground, TypeOK, LiveIn
      <3>2. c \in LiveTrees(owner[c])
        BY <3>1 DEF LiveTrees, CellsOf
      <3>3. TreeOK(tree[c], news[c], alarm[owner[c]], task[owner[c]], game)
        BY <3>1, <3>2 DEF IInv, PlotOK
      <3> QED
        BY <2>1, <3>3 DEF TreeOK
    <2> QED
      BY <2>1 DEF IInv, NoneTwice, EveryTreeIsToldOnce
  <1> QED
    BY <1>1, Invariance, PTL

\* A task, which stores no cells, completes on those it was assigned for: the marks are the
\* lot of the felling in progress, and the empty cells those of the clearing or replanting
\* (forestry/tasks.ts, completeForestryTask and releaseForestryTask).
THEOREM TasksHold == Spec => []TasksStillTrue
  <1>1. IInv => TasksStillTrue
    BY DEF IInv, PlotOK, MarksAgree, AreaAgrees, TasksStillTrue, MarksAreTheLot, AreaStillTrue
  <1> QED
    BY <1>1, Invariance, PTL

\* The rows of the plots, the cells that point at them and the trees agree: a closed plot
\* has no cell left, and no tree stands on ground that was cleared.
THEOREM PlotsHold == Spec => []PlotsAgree
  <1>1. IInv => PlotsAgree
    BY DEF IInv, PlotOK, RowAgrees, Ground, PlotsAgree
  <1> QED
    BY <1>1, Invariance, PTL

\* The reservations of the store are those of the fellings in progress, and it is never
\* oversold, however much the marked trees grow before they fall (farms/service.ts,
\* depositStorage).
THEOREM WoodHolds == Spec => []WoodIsCommitted
  <1>1. IInv => WoodIsCommitted
    BY DEF IInv
  <1> QED
    BY <1>1, Invariance, PTL

===============================================================================
