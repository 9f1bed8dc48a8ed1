------------------------------- MODULE Fields -------------------------------
(***************************************************************************)
(* The fields of one player (modules/fields): cells cut into fields, the   *)
(* crop cycle of each, and the tasks and alarms that move it.              *)
(*                                                                         *)
(* What a field is at an instant is projected from when it was sown; the   *)
(* row only follows.  A FIELD_ADVANCE_PHASE alarm per field brings the row *)
(* up to its next boundary, and any writer that needs the real state does  *)
(* the same first (materializeProjectedPhase).  The module is about the    *)
(* writers that meet a row which is behind.                                *)
(*                                                                         *)
(* Transactions of a player exclude each other (lib/advancePlayer.ts): one *)
(* opens, applies the due events it fetched when it opened, at their own   *)
(* instants, and then does what the request asks at the current one.       *)
(* Refused requests write nothing and are not steps.                       *)
(***************************************************************************)
EXTENDS Integers, FiniteSets

CONSTANTS
    FieldIds,      \* identifiers of field rows
    Length,        \* the land: a strip of cells 1 .. Length
    NoField,       \* fieldId null: the cell is plain owned land
    Crops, NoCrop, \* the catalogue; cropId null
    Cultivated,    \* crops with requiresCultivation
    Lasts,         \* phaseDurationsGameHours
    WorkTime,      \* game hours a task takes
    WeedMax,       \* WEED_LEVEL_MAX_BP; an hour of GROWING adds one
    MaxBatch,      \* MAX_EVENTS_PER_ADVANCE
    MaxGame        \* bound of the game clock

Timed == {"SEEDED", "GERMINATING", "GROWING"}
Sown == Timed \cup {"READY_TO_HARVEST"}
States == Sown \cup {"VIRGIN", "PLOWED", "CULTIVATED"}
Soils == {"UNTOUCHED", "PLOWED", "CULTIVATED"}
Operations == {"PLOW", "CULTIVATE", "SEED", "HARVEST"}

ASSUME FieldsAssumption ==
    /\ IsFiniteSet(FieldIds) /\ NoField \notin FieldIds
    /\ Length \in Nat \ {0}
    /\ NoCrop \notin Crops /\ Cultivated \subseteq Crops
    /\ Lasts \in [Crops -> [Timed -> Nat \ {0}]]
    /\ WorkTime \in Nat \ {0} /\ WeedMax \in Nat
    /\ MaxBatch \in Nat \ {0} /\ MaxGame \in Nat

Cells == 1 .. Length
NotSown == 0       \* seededAtGameMs null; a sowing takes WorkTime, so is later
NoAlarm == 0       \* no pending FIELD_ADVANCE_PHASE

Levels == 0 .. WeedMax
Rows == [status : {"ABSENT", "LIVE", "DISPOSED"}, cellCount : Nat,
         state : States, soil : Soils, crop : Crops \cup {NoCrop}, seeded : Nat,
         weed : Levels, weedAt : Nat]
AbsentRow == [status |-> "ABSENT", cellCount |-> 0, state |-> "VIRGIN",
              soil |-> "UNTOUCHED", crop |-> NoCrop, seeded |-> NotSown,
              weed |-> 0, weedAt |-> 0]

\* A task in progress and its pending TASK_COMPLETE, which is due at "due".
Tasks == [op : Operations, crop : Crops \cup {NoCrop}, units : Nat, due : Nat]
NoTask == [op |-> "PLOW", crop |-> NoCrop, units |-> 0, due |-> 0]

Events == [kind : {"phase", "task"}, field : FieldIds, due : Nat]

VARIABLES
    game,     \* game time, in hours
    cell,     \* world_cells: the field each cell belongs to
    field,    \* the rows
    alarm,    \* per field: due instant of its pending FIELD_ADVANCE_PHASE
    task,     \* per field: the task that reserves it
    open,     \* a transaction holds the player row
    batch,    \* events it fetched and has not applied yet
    true,     \* history: weed level and its instant, moved only by what changes it
    torn      \* history: fields a split wrote while their row was behind

rowVars == <<cell, field, alarm, task>>
historyVars == <<true, torn>>
vars == <<game, rowVars, open, batch, historyVars>>

TypeOK ==
    /\ game \in 0 .. MaxGame
    /\ cell \in [Cells -> FieldIds \cup {NoField}]
    /\ field \in [FieldIds -> Rows]
    /\ alarm \in [FieldIds -> Nat]
    /\ task \in [FieldIds -> Tasks]
    /\ open \in BOOLEAN /\ batch \in SUBSET Events
    /\ true \in [FieldIds -> [weed : Levels, at : Nat]]
    /\ torn \in SUBSET FieldIds

\* A player that owns the strip and has no field yet.
Init ==
    /\ game = 0
    /\ cell = [c \in Cells |-> NoField]
    /\ field = [f \in FieldIds |-> AbsentRow]
    /\ alarm = [f \in FieldIds |-> NoAlarm]
    /\ task = [f \in FieldIds |-> NoTask]
    /\ open = FALSE /\ batch = {}
    /\ true = [f \in FieldIds |-> [weed |-> 0, at |-> 0]]
    /\ torn = {}

Tick ==
    /\ ~open /\ game < MaxGame
    /\ game' = game + 1
    /\ UNCHANGED <<rowVars, open, batch, historyVars>>

Live(f) == field[f].status = "LIVE"
CellsOf(f) == {c \in Cells : cell[c] = f}
-----------------------------------------------------------------------------
(* Projection: what a row says the field is at an instant *)

\* The phases of crop k laid end to end from the sowing: where phase p ends.
Boundary(p, s, k) ==
    s + Lasts[k]["SEEDED"]
      + (IF p = "SEEDED" THEN 0 ELSE Lasts[k]["GERMINATING"])
      + (IF p = "GROWING" THEN Lasts[k]["GROWING"] ELSE 0)

\* Closed on the left: at its boundary a field is already in the next phase.
CropPhase(s, t, k) ==
    IF t < Boundary("SEEDED", s, k) THEN "SEEDED"
    ELSE IF t < Boundary("GERMINATING", s, k) THEN "GERMINATING"
    ELSE IF t < Boundary("GROWING", s, k) THEN "GROWING"
    ELSE "READY_TO_HARVEST"

Projected(r, t) == IF r.state \in Timed THEN CropPhase(r.seeded, t, r.crop) ELSE r.state

Smaller(a, b) == IF a < b THEN a ELSE b
Larger(a, b) == IF a > b THEN a ELSE b

\* Mutant: without the early return of accrueBasisPoints.
WeedUnclamped(r, w, a, t) ==
    Smaller(WeedMax, w + Smaller(t, Boundary("GROWING", r.seeded, r.crop))
                       - Larger(a, Boundary("GERMINATING", r.seeded, r.crop)))

\* The level w of instant a carried to t along the timeline of r: weeds grow only while
\* it is in GROWING, and saturate.
WeedAcross(r, w, a, t) ==
    LET from == Larger(a, Boundary("GERMINATING", r.seeded, r.crop))
        to == Smaller(t, Boundary("GROWING", r.seeded, r.crop))
    IN Smaller(WeedMax, w + Larger(0, to - from))
\* Mutant: the whole interval with the stored state.
SettledByState(r, t) ==
    IF r.state = "GROWING" THEN Smaller(WeedMax, r.weed + Larger(0, t - r.weedAt)) ELSE r.weed
SettledWeed(r, t) ==
    IF r.state \in Timed THEN WeedAcross(r, r.weed, r.weedAt, t) ELSE r.weed

\* r is the row as read, m the same row with the columns the caller changes.
WriteSettled(r, t, m) == [m EXCEPT !.weed = SettledWeed(r, t), !.weedAt = t]

NextTimed(p) == IF p = "SEEDED" THEN "GERMINATING"
                ELSE IF p = "GERMINATING" THEN "GROWING" ELSE "READY_TO_HARVEST"

\* Mutant: the boundary is not compared with the instant.
CrossEarly(r, p, t) ==
    IF r.state = p
    THEN WriteSettled(r, Boundary(p, r.seeded, r.crop), [r EXCEPT !.state = NextTimed(p)])
    ELSE r

\* One turn of the loop of materializeProjectedPhase: the boundary of phase p, at its
\* own instant, if the row stands in p and t has reached it.
Cross(r, p, t) ==
    IF r.state = p /\ Boundary(p, r.seeded, r.crop) <= t
    THEN WriteSettled(r, Boundary(p, r.seeded, r.crop), [r EXCEPT !.state = NextTimed(p)])
    ELSE r
Materialized(r, t) == Cross(Cross(Cross(r, "SEEDED", t), "GERMINATING", t), "GROWING", t)

\* Mutant: no alarm after the sowing one.
PhaseDueOnce(r) == IF r.state = "SEEDED" THEN Boundary("SEEDED", r.seeded, r.crop) ELSE NoAlarm

\* syncPhaseSchedule leaves one pending alarm, at the boundary of the stored state.
PhaseDue(r) == IF r.state \in Timed THEN Boundary(r.state, r.seeded, r.crop) ELSE NoAlarm
-----------------------------------------------------------------------------
(* A transaction: the due events first *)

Pending ==
    {[kind |-> "phase", field |-> f, due |-> alarm[f]] : f \in {g \in FieldIds : alarm[g] # NoAlarm}}
    \cup {[kind |-> "task", field |-> f, due |-> task[f].due] : f \in {g \in FieldIds : task[g] # NoTask}}
DueEvents == {e \in Pending : e.due <= game}

\* The events are fetched once, the earliest MaxBatch of them: what an event schedules
\* behind the clock waits for another transaction.
Begin ==
    /\ ~open
    /\ open' = TRUE
    /\ \E B \in SUBSET DueEvents :
         /\ Cardinality(B) = Smaller(MaxBatch, Cardinality(DueEvents))
         /\ \A e \in B, d \in DueEvents \ B : e.due <= d.due
         /\ batch' = B
    /\ UNCHANGED <<game, rowVars, historyVars>>

\* An event is claimed only while it is pending; nothing here cancels one that was fetched.
First(e) == e \in batch /\ \A d \in batch : e.due <= d.due

\* fieldAdvancePhaseHandler, at the due instant of the alarm. Its early return for a field
\* that is gone is no case of its own: only live fields have alarms (AlarmFollowsRow).
AdvancePhase(e) ==
    /\ First(e) /\ e \in Pending /\ e.kind = "phase"
    /\ LET f == e.field
           r == Materialized(field[f], e.due)
       IN /\ field' = [field EXCEPT ![f] = r]
          /\ alarm' = [alarm EXCEPT ![f] = PhaseDue(r)]
    /\ batch' = batch \ {e}
    /\ UNCHANGED <<game, cell, task, open, historyVars>>

\* OPERATION_REQUIREMENTS: the states an operation starts from.
FromStates(op) == IF op = "PLOW" THEN {"VIRGIN"}
                  ELSE IF op = "CULTIVATE" THEN {"PLOWED"}
                  ELSE IF op = "SEED" THEN {"CULTIVATED", "PLOWED"}
                  ELSE {"READY_TO_HARVEST"}

\* The row after the transition of operation op at t, from a row already materialised
\* and settled. A harvest does not rest in HARVESTED: it returns to virgin soil, with
\* its weeds; only cultivating clears them.
Worked(r, op, k, t) ==
    LET s == WriteSettled(r, t, r)
    IN IF op = "PLOW" THEN [s EXCEPT !.state = "PLOWED", !.soil = "PLOWED"]
       ELSE IF op = "CULTIVATE"
            THEN [s EXCEPT !.state = "CULTIVATED", !.soil = "CULTIVATED", !.weed = 0]
       ELSE IF op = "SEED" THEN [s EXCEPT !.state = "SEEDED", !.crop = k, !.seeded = t]
       ELSE [s EXCEPT !.state = "VIRGIN", !.soil = "UNTOUCHED",
                      !.crop = NoCrop, !.seeded = NotSown]

\* The level a field that was always brought up in time would have at t.
TrueWeed(f, t) ==
    IF field[f].state \in Sown THEN WeedAcross(field[f], true[f].weed, true[f].at, t)
    ELSE true[f].weed

\* completeTask and applyFieldOperation at the due instant. A refusal of the state
\* machine is caught: the task still ends, and the alarm is not synchronised.
CompleteTask(e) ==
    /\ First(e) /\ e \in Pending /\ e.kind = "task"
    /\ LET f == e.field
           op == task[f].op
           r == Materialized(field[f], e.due)
           w == Worked(r, op, task[f].crop, e.due)
       IN IF r.state \in FromStates(op)
          THEN /\ field' = [field EXCEPT ![f] = w]
               /\ alarm' = [alarm EXCEPT ![f] = PhaseDue(w)]
               /\ true' = [true EXCEPT ![f] =
                    [weed |-> IF op = "CULTIVATE" THEN 0 ELSE TrueWeed(f, e.due),
                     at |-> e.due]]
               /\ torn' = IF op = "CULTIVATE" THEN torn \ {f} ELSE torn
          ELSE /\ field' = [field EXCEPT ![f] = r]
               /\ UNCHANGED <<alarm, historyVars>>
    /\ task' = [task EXCEPT ![e.field] = NoTask]
    /\ batch' = batch \ {e}
    /\ UNCHANGED <<game, cell, open>>

\* The advance is over and the transaction writes nothing else: a queue job.
Close ==
    /\ open /\ batch = {}
    /\ open' = FALSE
    /\ UNCHANGED <<game, rowVars, batch, historyVars>>
-----------------------------------------------------------------------------
(* The requests, after the advance of their own transaction *)

Body == open /\ batch = {} /\ open' = FALSE
IdleOrNot(f) == Live(f)     \* mutant: requireIdleField forgotten
Idle(f) == Live(f) /\ task[f] = NoTask

\* Mutant: the state of the field is not asked.
AdmitsAnyState(f, op, k) == IF op = "SEED" THEN k \in Crops ELSE k = NoCrop

\* checkFieldTarget and checkCrop: the real state of the field admits the operation; the
\* crop is asked of a sowing alone, and may want the soil cultivated.
Admits(f, op, k) ==
    /\ Projected(field[f], game) \in FromStates(op)
    /\ IF op = "SEED" THEN /\ k \in Crops
                           /\ ~(k \in Cultivated /\ field[f].state = "PLOWED")
                      ELSE k = NoCrop

\* createTask, as far as the field goes.
AssignTask(f, op, k) ==
    /\ Body /\ Idle(f) /\ Admits(f, op, k)
    /\ task' = [task EXCEPT ![f] = [op |-> op, crop |-> k, units |-> field[f].cellCount,
                                    due |-> game + WorkTime]]
    /\ UNCHANGED <<game, cell, field, alarm, batch, historyVars>>

\* cancelTask: the field was never touched, so it is only given back.
CancelTask(f) ==
    /\ Body /\ task[f] # NoTask
    /\ task' = [task EXCEPT ![f] = NoTask]
    /\ UNCHANGED <<game, cell, field, alarm, batch, historyVars>>

Contiguous(S) == \A a, b \in S : \A c \in a .. b : c \in S
Anywhere(S, T) == TRUE      \* mutant
AdjacentTo(S, T) == \E a \in S, b \in T : a = b + 1 \/ b = a + 1
Plain(S) == \A c \in S : cell[c] = NoField

CreateField(f, S) ==
    /\ Body /\ field[f].status = "ABSENT"
    /\ S # {} /\ Contiguous(S) /\ Plain(S)
    /\ field' = [field EXCEPT ![f] =
         [AbsentRow EXCEPT !.status = "LIVE", !.cellCount = Cardinality(S), !.weedAt = game]]
    /\ cell' = [c \in Cells |-> IF c \in S THEN f ELSE cell[c]]
    /\ true' = [true EXCEPT ![f] = [weed |-> 0, at |-> game]]
    /\ UNCHANGED <<game, alarm, task, batch, torn>>

Extendable == {"VIRGIN", "PLOWED", "CULTIVATED"}

ExtendField(f, S) ==
    /\ Body /\ Idle(f)
    /\ Projected(field[f], game) \in Extendable
    /\ S # {} /\ Contiguous(S) /\ Plain(S) /\ AdjacentTo(S, CellsOf(f))
    /\ cell' = [c \in Cells |-> IF c \in S THEN f ELSE cell[c]]
    /\ field' = [field EXCEPT ![f] = WriteSettled(field[f], game,
         [field[f] EXCEPT !.cellCount = Cardinality(CellsOf(f)) + Cardinality(S)])]
    /\ UNCHANGED <<game, alarm, task, batch, historyVars>>

\* The row still stands before GROWING and the field no longer does.
Overtaken(f) ==
    /\ field[f].state \in {"SEEDED", "GERMINATING"}
    /\ Projected(field[f], game) \in {"GROWING", "READY_TO_HARVEST"}

\* The new half copies the row as it is stored; the original is settled to now. Neither
\* is materialised first.
SplitField(f, g, S) ==
    /\ Body /\ Idle(f) /\ field[g].status = "ABSENT"
    /\ LET rest == CellsOf(f) \ S
           half == [field[f] EXCEPT !.cellCount = Cardinality(S)]
           original == WriteSettled(field[f], game,
                                    [field[f] EXCEPT !.cellCount = Cardinality(rest)])
       IN /\ S # {} /\ S \subseteq CellsOf(f) /\ rest # {}
          /\ Contiguous(S) /\ Contiguous(rest)
          /\ cell' = [c \in Cells |-> IF c \in S THEN g ELSE cell[c]]
          /\ field' = [field EXCEPT ![f] = original, ![g] = half]
          /\ alarm' = [alarm EXCEPT ![f] = PhaseDue(original), ![g] = PhaseDue(half)]
    /\ true' = [true EXCEPT ![g] = true[f]]
    /\ torn' = torn \cup (IF Overtaken(f) THEN {f} ELSE {})
                    \cup (IF f \in torn THEN {g} ELSE {})
    /\ UNCHANGED <<game, task, batch>>

\* The sum of the values of w, as the number of their units.
Total(w) == Cardinality(UNION {{x} \X (1 .. w[x]) : x \in DOMAIN w})

\* weightedBp: m is the mean, truncated, of the levels w of the fields of F weighted by
\* their cells.
WeightedMean(F, w, m) ==
    LET weight == Total([f \in F |-> field[f].cellCount])
        total == Total([f \in F |-> w[f] * field[f].cellCount])
    IN m * weight <= total /\ total < (m + 1) * weight

\* latestInstant: l was sown last of the fields of F.
EarliestSown(F, l) == \A f \in F : field[l].seeded <= field[f].seeded     \* mutant
LatestSown(F, l) == \A f \in F : field[f].seeded <= field[l].seeded

\* Every part is brought up to now before the parts are compared; the survivor takes
\* the latest sowing of them, the mean of their weeds and all of their cells.
MergeFields(F, s, l) ==
    /\ Body /\ Cardinality(F) >= 2 /\ LatestSown(F, l)
    /\ \A f \in F : Idle(f)
    /\ LET part == [f \in F |-> Materialized(field[f], game)]
           cells == UNION {CellsOf(f) : f \in F}
       IN /\ \A f \in F : /\ part[f].state = part[s].state /\ part[f].crop = part[s].crop
                          /\ part[f].soil = part[s].soil
          /\ Contiguous(cells)
          /\ cell' = [c \in Cells |-> IF c \in cells THEN s ELSE cell[c]]
          /\ \E mean \in Levels :
               /\ WeightedMean(F, [f \in F |-> SettledWeed(part[f], game)], mean)
               /\ field' = [f \in FieldIds |->
                    IF f = s THEN [part[s] EXCEPT !.cellCount = Cardinality(cells),
                                                  !.seeded = field[l].seeded,
                                                  !.weed = mean, !.weedAt = game]
                    ELSE IF f \in F THEN [part[f] EXCEPT !.status = "DISPOSED"]
                    ELSE field[f]]
          /\ alarm' = [f \in FieldIds |-> IF f = s THEN PhaseDue(field'[s])
                                          ELSE IF f \in F THEN NoAlarm ELSE alarm[f]]
    /\ \E mean \in Levels :
         /\ WeightedMean(F, [f \in F |-> TrueWeed(f, game)], mean)
         /\ true' = [true EXCEPT ![s] = [weed |-> mean, at |-> game]]
    /\ torn' = IF F \cap torn = {} THEN torn ELSE (torn \ F) \cup {s}
    /\ UNCHANGED <<game, task, batch>>

Apply == \E e \in batch : AdvancePhase(e) \/ CompleteTask(e)
Request ==
    \/ \E f \in FieldIds, op \in Operations, k \in Crops \cup {NoCrop} : AssignTask(f, op, k)
    \/ \E f \in FieldIds : CancelTask(f)
    \/ \E f \in FieldIds, S \in SUBSET Cells : CreateField(f, S) \/ ExtendField(f, S)
    \/ \E f, g \in FieldIds, S \in SUBSET Cells : SplitField(f, g, S)
    \/ \E F \in SUBSET FieldIds : \E s, l \in F : MergeFields(F, s, l)

Next == Tick \/ Begin \/ Apply \/ Close \/ Request
Spec == Init /\ [][Next]_vars

-----------------------------------------------------------------------------
(* Properties *)

\* The count a field is worked, charged and harvested by is the number of cells that
\* point at it; a live field is one surface and nothing points at any other row.
\* claimCellsForField: "a field whose cellCount and geometry disagree".
GeometryAgrees ==
    \A f \in FieldIds :
      IF Live(f) THEN /\ field[f].cellCount = Cardinality(CellsOf(f))
                      /\ CellsOf(f) # {} /\ Contiguous(CellsOf(f))
      ELSE CellsOf(f) = {}

\* Every live field in the timed part of its cycle has its alarm, at the boundary of the
\* state its row is in, and no other row has one: what syncPhaseSchedule promises, over
\* every path that sows, harvests, splits, merges or advances.
AlarmFollowsRow ==
    \A f \in FieldIds :
      alarm[f] = IF Live(f) /\ field[f].state \in Timed
                 THEN Boundary(field[f].state, field[f].seeded, field[f].crop)
                 ELSE NoAlarm

\* When a sown row came into its state.
Entered(r) == IF r.state = "SEEDED" THEN r.seeded
              ELSE IF r.state = "GERMINATING" THEN Boundary("SEEDED", r.seeded, r.crop)
              ELSE IF r.state = "GROWING" THEN Boundary("GERMINATING", r.seeded, r.crop)
              ELSE Boundary("GROWING", r.seeded, r.crop)

\* The row may be behind the timeline of the field and is never ahead of it: a field
\* harvested or advanced early would be progress nobody waited for.
RowNotAhead ==
    \A f \in FieldIds : Live(f) /\ field[f].state \in Sown => Entered(field[f]) <= game

\* When a task comes due its field still admits the operation, whatever was late in
\* between: the refusal that applyTargetTransition catches is what its comment says,
\* unreachable.
RunningTaskApplies ==
    \A f \in FieldIds : task[f] # NoTask =>
      /\ Live(f)
      /\ Projected(field[f], task[f].due) \in FromStates(task[f].op)

\* The duration of a task was fixed by the cells of its field, and those are still the
\* cells it yields for: no extension, split or merge reaches a reserved field.
UnitsStillTrue ==
    \A f \in FieldIds : task[f] # NoTask => task[f].units = Cardinality(CellsOf(f))

\* However late its events are applied, and however often it is cut or joined, a field
\* has the weeds of one whose events ran in time, unless a split wrote it when the row
\* stood before GROWING and the field already grew.
WeedsPunctual ==
    \A f \in FieldIds \ torn : Live(f) => SettledWeed(field[f], game) = TrueWeed(f, game)

\* The claim of jobs.ts without the exception: late passes leave "the stored history
\* exactly where a punctual run would have left it".
StoredHistoryPunctual ==
    \A f \in FieldIds : Live(f) => SettledWeed(field[f], game) = TrueWeed(f, game)

\* Cutting and joining fields moves no cell through its cycle: each keeps the phase and
\* the crop it had and ripens no sooner, so progress is neither destroyed nor granted
\* (rules 1, 2 and 5 of mergeIncompatible).
PhaseOfCell(c) == Projected(field[cell[c]], game)
GeometryKeepsProgress ==
    [][\A c \in Cells :
         cell' # cell /\ cell[c] # NoField /\ cell'[c] # NoField =>
           /\ PhaseOfCell(c)' = PhaseOfCell(c)
           /\ field'[cell'[c]].crop = field[cell[c]].crop
           /\ field'[cell'[c]].seeded >= field[cell[c]].seeded]_vars
=============================================================================
