------------------------------ MODULE Forestry ------------------------------
(***************************************************************************)
(* The forest plots of one player (modules/forestry): plots over forest    *)
(* cells, the trees on them, the three tasks that fell, replant and clear, *)
(* and the alarm that reports the trees that came of age.                  *)
(*                                                                         *)
(* A tree stores when it was planted and nothing else of its growth: its   *)
(* stage and its wood are derived from the clock.  A task stores its plot  *)
(* and not its cells: the completion rebuilds the area it works on from    *)
(* what it then finds (the marked trees, the empty cells).  The module is  *)
(* about whether what it finds is what the player chose, and about the one *)
(* alarm per plot that has to reach every tree.                            *)
(*                                                                         *)
(* Transactions of a player exclude each other, as in Fields: one opens,   *)
(* applies the due events it fetched, at their own instants, and then does *)
(* what its request asks.  Workers and machines are only counted here.     *)
(***************************************************************************)
EXTENDS Integers, FiniteSets

CONSTANTS
    Plots, NoPlot,  \* forest_plots; forestPlotId null
    Length,         \* the forest: a strip of cells 1 .. Length, in row major order
    Wooded,         \* cells where naturalTreeAt draws a tree ...
    Age,            \* ... and the age it draws there
    YoungAt,        \* stageStartGameHours of YOUNG: fellable from here
    MatureAt,       \* stageStartGameHours of MATURE
    YoungWood, MatureWood,  \* woodVolumeDm3ByStage
    Window,         \* MILESTONE_WINDOW_GAME_HOURS
    WorkTime,       \* game hours of each operation
    Crews,          \* idle workers, with their machines
    Capacity,       \* of the wood store
    MaxBatch,       \* MAX_EVENTS_PER_ADVANCE
    MaxGame         \* bound of the game clock

Operations == {"FELL", "REPLANT", "CLEAR_LAND"}

ASSUME ForestryAssumption ==
    /\ IsFiniteSet(Plots) /\ NoPlot \notin Plots
    /\ Length \in Nat /\ Wooded \subseteq 1 .. Length /\ Age \in [Wooded -> Nat]
    /\ YoungAt \in Nat /\ MatureAt \in Nat /\ 0 < YoungAt /\ YoungAt <= MatureAt
    /\ YoungWood \in Nat /\ MatureWood \in Nat /\ YoungWood <= MatureWood
    /\ Window \in Nat \ {0} /\ WorkTime \in [Operations -> Nat \ {0}]
    /\ Crews \in Nat /\ Capacity \in Nat /\ MaxBatch \in Nat \ {0} /\ MaxGame \in Nat

Cells == 1 .. Length
NoAlarm == 0      \* no pending FOREST_NOTIFY_MILESTONE; a window ends later than 0

\* The row of the live tree of a cell; a felled row is of no further use to this module.
Trees == [status : {"NONE", "STANDING", "MARKED"}, planted : Int]
NoTree == [status |-> "NONE", planted |-> 0]

Rows == [status : {"ABSENT", "LIVE", "DISPOSED"}, cellCount : Nat, currentTask : BOOLEAN]
AbsentRow == [status |-> "ABSENT", cellCount |-> 0, currentTask |-> FALSE]

\* The task in progress on a plot and its TASK_COMPLETE, pending at "due". "chosen" is no
\* column: the cells the player had in mind, kept to compare with what is worked on.
Tasks == [op : Operations, units : Nat, reserved : Nat, due : Nat, chosen : SUBSET Cells]
NoTask == [op |-> "FELL", units |-> 0, reserved |-> 0, due |-> 0, chosen |-> {}]

\* What the player was told of the tree on a cell: planted already mature, still to be
\* told, told, told again, told of one that was mature when it came.
News == {"RIPE", "AWAITED", "TOLD", "TWICE", "STALE"}

VARIABLES
    game,      \* game time, in hours
    owner,     \* world_cells: the plot of each cell
    grass,     \* cells whose terrainOverride is GRASS
    consumed,  \* cells whose naturalTreeConsumed is set
    tree,      \* per cell
    plot,      \* the rows
    alarm,     \* per plot: due instant of its pending milestone
    task,      \* per plot
    wood,      \* the store: units stored and reserved
    open,      \* a transaction holds the player row
    batch,     \* events it fetched and has not applied yet
    news       \* history, per cell

landVars == <<owner, grass, consumed>>
storeVars == <<landVars, tree, plot, alarm, task, wood>>
vars == <<game, storeVars, open, batch, news>>

Events == [kind : {"milestone", "task"}, plot : Plots, due : Nat]

TypeOK ==
    /\ game \in 0 .. MaxGame
    /\ owner \in [Cells -> Plots \cup {NoPlot}]
    /\ grass \in SUBSET Cells /\ consumed \in SUBSET Cells
    /\ tree \in [Cells -> Trees] /\ plot \in [Plots -> Rows]
    /\ alarm \in [Plots -> Nat] /\ task \in [Plots -> Tasks]
    /\ wood \in [stored : Nat, reserved : Nat]
    /\ open \in BOOLEAN /\ batch \in SUBSET Events
    /\ news \in [Cells -> News]

\* A player that bought the strip, untouched forest, and has no plot on it.
Init ==
    /\ game = 0
    /\ owner = [c \in Cells |-> NoPlot] /\ grass = {} /\ consumed = {}
    /\ tree = [c \in Cells |-> NoTree]
    /\ plot = [p \in Plots |-> AbsentRow]
    /\ alarm = [p \in Plots |-> NoAlarm] /\ task = [p \in Plots |-> NoTask]
    /\ wood = [stored |-> 0, reserved |-> 0]
    /\ open = FALSE /\ batch = {}
    /\ news = [c \in Cells |-> "RIPE"]

Tick ==
    /\ ~open /\ game < MaxGame
    /\ game' = game + 1
    /\ UNCHANGED <<storeVars, open, batch, news>>
-----------------------------------------------------------------------------
(* What is derived: ages, areas, windows *)

Smaller(a, b) == IF a < b THEN a ELSE b
Larger(a, b) == IF a > b THEN a ELSE b

\* The sum of the values of f, as the number of their units.
Total(f) == Cardinality(UNION {{x} \X (1 .. f[x]) : x \in DOMAIN f})

CellsOf(p) == {c \in Cells : owner[c] = p}
LiveIn(T) == {c \in Cells : T[c].status # "NONE"}
LiveTrees(p) == CellsOf(p) \cap LiveIn(tree)
Marked(p) == {c \in CellsOf(p) : tree[c].status = "MARKED"}
EmptyCells(p) == CellsOf(p) \ LiveIn(tree)

\* isFellable and batchWoodVolume: a sapling is passed by and gives nothing.
Fellable(c, t) == t - tree[c].planted >= YoungAt
Volume(c, t) == IF t - tree[c].planted >= MatureAt THEN MatureWood
                ELSE IF Fellable(c, t) THEN YoungWood ELSE 0
BatchVolume(S, t) == Total([c \in S |-> Volume(c, t)])

\* The instant tree x reaches the one milestone stage, and the window that falls in.
Maturity(x) == x.planted + MatureAt
WindowEnd(t) == ((t + Window - 1) \div Window) * Window

Earliest(S) == CHOOSE t \in S : \A u \in S : t <= u

\* nextMilestoneGameMs over the trees T of the cells S.
NextMilestone(T, S, from) ==
    LET ahead == {WindowEnd(Maturity(T[c])) : c \in {d \in S : Maturity(T[d]) > from}}
    IN IF ahead = {} THEN NoAlarm ELSE Earliest(ahead)

\* Mutant: the pending row is recomputed, as syncPhaseSchedule of the fields does.
Resync(pending, T, S, from) == NextMilestone(T, S, from)

\* syncMilestoneSchedule: a pending row is kept and never recomputed.
SyncMilestone(pending, T, S, from) ==
    IF pending # NoAlarm THEN pending ELSE NextMilestone(T, S, from)

\* treesCrossingMilestone.
Crossing(S, due) == {c \in S : due - Window < Maturity(tree[c]) /\ Maturity(tree[c]) <= due}

Told(n) == IF n = "AWAITED" THEN "TOLD" ELSE IF n = "RIPE" THEN "STALE" ELSE "TWICE"
FirstNews(x, t) == IF Maturity(x) <= t THEN "RIPE" ELSE "AWAITED"
-----------------------------------------------------------------------------
(* A transaction: the due events first *)

Pending ==
    {[kind |-> "milestone", plot |-> p, due |-> alarm[p]] : p \in {q \in Plots : alarm[q] # NoAlarm}}
    \cup {[kind |-> "task", plot |-> p, due |-> task[p].due] : p \in {q \in Plots : task[q] # NoTask}}
DueEvents == {e \in Pending : e.due <= game}

\* Fetched once, the earliest MaxBatch of them: what an event schedules behind the clock
\* waits for another transaction.
Begin ==
    /\ ~open
    /\ open' = TRUE
    /\ \E B \in SUBSET DueEvents :
         /\ Cardinality(B) = Smaller(MaxBatch, Cardinality(DueEvents))
         /\ \A e \in B, d \in DueEvents \ B : e.due <= d.due
         /\ batch' = B
    /\ UNCHANGED <<game, storeVars, news>>

Claim(e) ==
    /\ e \in batch /\ \A d \in batch : e.due <= d.due
    /\ e \in Pending
    /\ batch' = batch \ {e}

\* forestNotifyMilestoneHandler: the next alarm is set on the way out, whether or not
\* anything crossed. A plot cleared whole leaves an alarm behind that finds nothing.
NotifyMilestone(e) ==
    /\ Claim(e) /\ e.kind = "milestone"
    /\ LET p == e.plot
       IN IF plot[p].status # "LIVE"
          THEN /\ alarm' = [alarm EXCEPT ![p] = NoAlarm]
               /\ UNCHANGED news
          ELSE /\ alarm' = [alarm EXCEPT ![p] = SyncMilestone(NoAlarm, tree, LiveTrees(p), e.due)]
               /\ news' = [c \in Cells |-> IF c \in Crossing(LiveTrees(p), e.due)
                                           THEN Told(news[c]) ELSE news[c]]
    /\ UNCHANGED <<game, landVars, tree, plot, task, wood, open>>

\* Mutant: the store takes all that was felled.
DepositAll(units, release) ==
    [stored |-> wood.stored + units, reserved |-> Larger(0, wood.reserved - release)]

\* depositStorage: what the task reserved makes room first, what does not fit is wasted.
Deposit(units, release) ==
    LET kept == Larger(0, wood.reserved - release)
        room == Larger(0, Capacity - wood.stored - kept)
    IN [stored |-> wood.stored + Smaller(units, room), reserved |-> kept]

Released(p) == [plot EXCEPT ![p].currentTask = FALSE]

\* The marked trees fall, with the wood they have when they do.
CompleteFell(p, t) ==
    /\ tree' = [c \in Cells |-> IF c \in Marked(p) THEN NoTree ELSE tree[c]]
    /\ wood' = Deposit(BatchVolume(Marked(p), t), task[p].reserved)
    /\ alarm' = [alarm EXCEPT ![p] = SyncMilestone(@, tree, LiveTrees(p) \ Marked(p), t)]
    /\ plot' = Released(p)
    /\ UNCHANGED <<landVars, news>>

\* slice(0, n) of the cells in row major order.
FirstOf(S, n) == {c \in S : Cardinality({d \in S : d < c}) < n}

\* Saplings of age zero, on the first empty cells: as many as were asked for.
CompleteReplant(p, t) ==
    LET S == FirstOf(EmptyCells(p), task[p].units)
        sapling == [status |-> "STANDING", planted |-> t]
    IN /\ tree' = [c \in Cells |-> IF c \in S THEN sapling ELSE tree[c]]
       /\ news' = [c \in Cells |-> IF c \in S THEN FirstNews(sapling, t) ELSE news[c]]
       /\ alarm' = [alarm EXCEPT ![p] = SyncMilestone(@, tree', LiveTrees(p) \cup S, t)]
       /\ plot' = Released(p)
       /\ UNCHANGED <<landVars, wood>>

\* What is left of a plot that loses its empty cells; a plot of none is closed.
Shrunk(p) ==
    LET left == Cardinality(LiveTrees(p))
    IN IF EmptyCells(p) = {} THEN Released(p)
       ELSE IF left = 0 THEN [Released(p) EXCEPT ![p].status = "DISPOSED"]
       ELSE [Released(p) EXCEPT ![p].cellCount = left]

\* applyClearing over the cells with no live tree: arable ground, of no plot.
CompleteClearLand(p) ==
    /\ owner' = [c \in Cells |-> IF c \in EmptyCells(p) THEN NoPlot ELSE owner[c]]
    /\ grass' = grass \cup EmptyCells(p)
    /\ plot' = Shrunk(p)
    /\ UNCHANGED <<consumed, tree, alarm, wood, news>>

\* completeForestryTask: everything happens at the due instant.
CompleteTask(e) ==
    /\ Claim(e) /\ e.kind = "task"
    /\ \/ task[e.plot].op = "FELL" /\ CompleteFell(e.plot, e.due)
       \/ task[e.plot].op = "REPLANT" /\ CompleteReplant(e.plot, e.due)
       \/ task[e.plot].op = "CLEAR_LAND" /\ CompleteClearLand(e.plot)
    /\ task' = [task EXCEPT ![e.plot] = NoTask]
    /\ UNCHANGED <<game, open>>

\* A queue job asks for nothing else.
Close ==
    /\ open /\ batch = {}
    /\ open' = FALSE
    /\ UNCHANGED <<game, storeVars, batch, news>>
-----------------------------------------------------------------------------
(* The requests, after the advance of their own transaction *)

Body == open /\ batch = {} /\ open' = FALSE /\ UNCHANGED <<game, batch>>
Live(p) == plot[p].status = "LIVE"
Idle(p) == Live(p) /\ task[p] = NoTask
CrewFree == Cardinality({p \in Plots : task[p] # NoTask}) < Crews
Contiguous(S) == \A a, b \in S : a .. b \subseteq S

\* createForestPlot: the wild forest is drawn once per cell, and every cell of the plot
\* is marked as drawn, empty ones too.
CreatePlot(p, S) ==
    /\ Body /\ plot[p] = AbsentRow
    /\ S # {} /\ Contiguous(S) /\ S \cap grass = {} /\ \A c \in S : owner[c] = NoPlot
    /\ LET grown == (S \ consumed) \cap Wooded
           wild(c) == [status |-> "STANDING", planted |-> game - Age[c]]
       IN /\ tree' = [c \in Cells |-> IF c \in grown THEN wild(c) ELSE tree[c]]
          /\ news' = [c \in Cells |-> IF c \in grown THEN FirstNews(wild(c), game) ELSE news[c]]
          /\ alarm' = [alarm EXCEPT ![p] = SyncMilestone(@, tree', grown, game)]
    /\ plot' = [plot EXCEPT ![p] = [status |-> "LIVE", cellCount |-> Cardinality(S),
                                    currentTask |-> FALSE]]
    /\ owner' = [c \in Cells |-> IF c \in S THEN p ELSE owner[c]]
    /\ consumed' = consumed \cup S
    /\ UNCHANGED <<grass, task, wood>>

\* writeTask.
WriteTask(p, op, units, reserved, chosen) ==
    /\ CrewFree
    /\ task' = [task EXCEPT ![p] = [op |-> op, units |-> units, reserved |-> reserved,
                                    due |-> game + WorkTime[op], chosen |-> chosen]]
    /\ plot' = [plot EXCEPT ![p].currentTask = TRUE]

\* assignFellTask over the area S: every live tree costs work, only the fellable ones are
\* marked, and the wood they have now must fit in the store.
Fell(p, S) ==
    /\ Body /\ Idle(p) /\ S \subseteq CellsOf(p)
    /\ LET trees == S \cap LiveTrees(p)
           lot == {c \in trees : Fellable(c, game)}
           volume == BatchVolume(lot, game)
       IN /\ lot # {}
          /\ volume <= Capacity - wood.stored - wood.reserved
          /\ wood' = [wood EXCEPT !.reserved = @ + volume]
          /\ WriteTask(p, "FELL", Cardinality(trees), volume, lot)
          /\ tree' = [c \in Cells |-> IF c \in lot THEN [tree[c] EXCEPT !.status = "MARKED"]
                                      ELSE tree[c]]
    /\ UNCHANGED <<landVars, alarm, news>>

\* assignReplantTask names its cells one by one.
Replant(p, S) ==
    /\ Body /\ Idle(p) /\ S # {} /\ S \subseteq EmptyCells(p)
    /\ WriteTask(p, "REPLANT", Cardinality(S), 0, S)
    /\ UNCHANGED <<landVars, tree, alarm, wood, news>>

WholeClearedPart(p, S) == S = EmptyCells(p)

\* assignClearLandTask: the whole empty part of one plot, or nothing.
ClearLand(p, S) ==
    /\ Body /\ Idle(p) /\ S # {} /\ WholeClearedPart(p, S)
    /\ WriteTask(p, "CLEAR_LAND", Cardinality(S), 0, S)
    /\ UNCHANGED <<landVars, tree, alarm, wood, news>>

MarksKept(p) == tree      \* mutant: no release strategy is registered

\* releaseForestryTask: a cancelled felling gives its trees back.
Unmarked(p) == [c \in Cells |-> IF c \in Marked(p) THEN [tree[c] EXCEPT !.status = "STANDING"]
                                ELSE tree[c]]

\* cancelTask: the reservation, the plot and the pending TASK_COMPLETE go with the task.
Cancel(p) ==
    /\ Body /\ task[p] # NoTask
    /\ task' = [task EXCEPT ![p] = NoTask]
    /\ plot' = Released(p)
    /\ wood' = [wood EXCEPT !.reserved = @ - task[p].reserved]
    /\ tree' = Unmarked(p)
    /\ UNCHANGED <<landVars, alarm, news>>

\* sellStock, withdrawStorage.
Sell(units) ==
    /\ Body /\ units <= wood.stored
    /\ wood' = [wood EXCEPT !.stored = @ - units]
    /\ UNCHANGED <<landVars, tree, plot, alarm, task, news>>

Apply == \E e \in batch : NotifyMilestone(e) \/ CompleteTask(e)
Request ==
    \/ \E p \in Plots, S \in SUBSET Cells :
         CreatePlot(p, S) \/ Fell(p, S) \/ Replant(p, S) \/ ClearLand(p, S)
    \/ \E p \in Plots : Cancel(p)
    \/ \E units \in 1 .. wood.stored : Sell(units)

Next == Tick \/ Begin \/ Apply \/ Close \/ Request
Spec == Init /\ [][Next]_vars
-----------------------------------------------------------------------------
(* Properties *)

\* One alarm per plot reaches every tree, however late its events are applied: a live tree
\* that is still to be told of is in no window before the pending one, and no tree is told
\* of twice. "The schedule always points at the earliest window still in the future, so a
\* tree is reported once and only once" (treesCrossingMilestone).
EveryTreeIsToldOnce ==
    /\ \A c \in LiveIn(tree) : news[c] = "AWAITED" =>
         /\ alarm[owner[c]] # NoAlarm
         /\ alarm[owner[c]] <= WindowEnd(Maturity(tree[c]))
    /\ \A c \in Cells : news[c] # "TWICE"

\* The marks are the memory of which trees a felling is for: exactly the lot of the tasks
\* in progress is marked, so a completion fells what was chosen, and no tree outlives its
\* task "counted as neither alive nor felled" (releaseForestryTask).
MarksAreTheLot ==
    \A p \in Plots : Marked(p) = IF task[p].op = "FELL" THEN task[p].chosen ELSE {}

\* What a completion will rebuild is still what was asked: a clearing converts the cells
\* the request named, and a replanting finds as many empty cells as it was paid for,
\* because "nothing could fell or replant under it" (completeClearLand).
AreaStillTrue ==
    \A p \in Plots :
      /\ task[p] # NoTask => Live(p) /\ plot[p].currentTask
      /\ task[p].op = "CLEAR_LAND" => EmptyCells(p) = task[p].chosen
      /\ task[p].op = "REPLANT" => /\ task[p].chosen \subseteq EmptyCells(p)
                                   /\ task[p].units = Cardinality(task[p].chosen)

\* A running task keeps no cells of its own: what it was assigned for is what its completion finds.
TasksStillTrue == MarksAreTheLot /\ AreaStillTrue

\* A plot works, and is counted, by the cells that point at it: none once it is closed,
\* at least one before; forest all of them, and no tree stands on any other ground.
PlotsAgree ==
    /\ \A p \in Plots :
         IF Live(p) THEN plot[p].cellCount = Cardinality(CellsOf(p)) /\ CellsOf(p) # {}
         ELSE CellsOf(p) = {}
    /\ \A c \in Cells : owner[c] # NoPlot => c \in consumed \ grass
    /\ \A c \in LiveIn(tree) : owner[c] # NoPlot

\* The room of the store is committed to the fellings in progress and to nothing else, and
\* is never oversold, although every lot grows until it falls.
WoodIsCommitted ==
    /\ wood.reserved = Total([p \in Plots |-> task[p].reserved])
    /\ wood.stored + wood.reserved <= Capacity

\* "A tree that was already past the stage when the plot was created ... is therefore
\* never notified" (nextMilestoneGameMs).
RipeTreesAreNoNews == \A c \in Cells : news[c] # "STALE"

\* REPLANT(cellId): the saplings stand on the cells that were named.
PlantsTheCellsNamed ==
    [][\A p \in Plots :
         task[p] # NoTask /\ task[p].op = "REPLANT" /\ LiveIn(tree)' # LiveIn(tree) =>
           \A c \in LiveIn(tree)' \ LiveIn(tree) : owner[c] = p => c \in task[p].chosen]_vars
=============================================================================
