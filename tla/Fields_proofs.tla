---------------------------- MODULE Fields_proofs ----------------------------
(* Proofs about Fields, for every value of its constants. *)
EXTENDS Fields, FiniteSetTheorems, TLAPS

(* A row whose timeline can be computed: fields_growth_timeline_check of the schema. *)
Good(r) == r \in Rows /\ (r.state \in Sown => r.crop \in Crops)

\* s is r with another state and other weeds.
SameField(r, s) ==
    /\ s.status = r.status /\ s.cellCount = r.cellCount /\ s.soil = r.soil
    /\ s.crop = r.crop /\ s.seeded = r.seeded

LEMMA Boundaries ==
  ASSUME NEW s \in Nat, NEW k \in Crops
  PROVE  /\ \A p \in Timed : Boundary(p, s, k) \in Nat
         /\ s < Boundary("SEEDED", s, k)
         /\ Boundary("SEEDED", s, k) < Boundary("GERMINATING", s, k)
         /\ Boundary("GERMINATING", s, k) < Boundary("GROWING", s, k)
<1>1. /\ Lasts[k]["SEEDED"] \in Nat \ {0} /\ Lasts[k]["GERMINATING"] \in Nat \ {0}
      /\ Lasts[k]["GROWING"] \in Nat \ {0}
  BY FieldsAssumption DEF Timed
<1> QED
  BY <1>1 DEF Boundary, Timed

LEMMA PhaseReady ==
  ASSUME NEW s \in Nat, NEW k \in Crops, NEW t \in Nat
  PROVE  /\ CropPhase(s, t, k) \in Sown
         /\ CropPhase(s, t, k) = "READY_TO_HARVEST" <=> Boundary("GROWING", s, k) <= t
<1>1. /\ Boundary("SEEDED", s, k) \in Nat /\ Boundary("GERMINATING", s, k) \in Nat
      /\ Boundary("GROWING", s, k) \in Nat
  BY Boundaries DEF Timed
<1> QED
  BY <1>1, Boundaries DEF CropPhase, Sown, Timed

LEMMA SettledType ==
  ASSUME NEW r, Good(r), NEW t \in Nat
  PROVE  SettledWeed(r, t) \in Levels
<1>1. r.weed \in Levels /\ r.weedAt \in Nat /\ r.seeded \in Nat /\ WeedMax \in Nat
  BY FieldsAssumption DEF Good, Rows
<1>2. CASE r.state \in Timed
  <2>1. /\ Boundary("GERMINATING", r.seeded, r.crop) \in Nat
        /\ Boundary("GROWING", r.seeded, r.crop) \in Nat
    BY <1>1, <1>2, Boundaries DEF Good, Sown, Timed
  <2> QED
    BY <1>1, <1>2, <2>1 DEF SettledWeed, WeedAcross, Smaller, Larger, Levels
<1>3. CASE r.state \notin Timed
  BY <1>1, <1>3 DEF SettledWeed
<1> QED
  BY <1>2, <1>3

LEMMA WriteSettledRow ==
  ASSUME NEW r, Good(r), NEW t \in Nat, NEW m \in Rows
  PROVE  /\ WriteSettled(r, t, m) \in Rows
         /\ SameField(m, WriteSettled(r, t, m))
         /\ WriteSettled(r, t, m).state = m.state
  BY SettledType DEF WriteSettled, Rows, SameField

LEMMA CrossRow ==
  ASSUME NEW r, Good(r), NEW p \in Timed, NEW t \in Nat
  PROVE  LET s == Cross(r, p, t)
         IN /\ Good(s) /\ SameField(r, s)
            /\ r.state = p /\ Boundary(p, r.seeded, r.crop) <= t => s.state = NextTimed(p)
            /\ ~(r.state = p /\ Boundary(p, r.seeded, r.crop) <= t) => s = r
<1>1. CASE r.state = p /\ Boundary(p, r.seeded, r.crop) <= t
  <2> DEFINE b == Boundary(p, r.seeded, r.crop)
             m == [r EXCEPT !.state = NextTimed(p)]
  <2>1. r.seeded \in Nat /\ r.crop \in Crops
    BY <1>1 DEF Good, Rows, Sown
  <2>2. b \in Nat
    BY <2>1, Boundaries
  <2>3. NextTimed(p) \in Sown
    BY DEF NextTimed, Sown, Timed
  <2>4. m \in Rows /\ SameField(r, m) /\ m.state = NextTimed(p)
    BY <2>3 DEF Good, Rows, SameField, States
  <2>5. /\ WriteSettled(r, b, m) \in Rows /\ SameField(m, WriteSettled(r, b, m))
        /\ WriteSettled(r, b, m).state = m.state
    BY <2>2, <2>4, WriteSettledRow
  <2>6. Cross(r, p, t) = WriteSettled(r, b, m)
    BY <1>1 DEF Cross
  <2> QED
    BY <1>1, <2>1, <2>4, <2>5, <2>6 DEF Good, SameField
<1>2. CASE ~(r.state = p /\ Boundary(p, r.seeded, r.crop) <= t)
  BY <1>2 DEF Cross, SameField
<1> QED
  BY <1>1, <1>2

\* What bringing a row up to t does: nothing outside the timed phases, and inside them
\* no phase is entered before its boundary nor READY_TO_HARVEST missed once due.
LEMMA MaterializedRow ==
  ASSUME NEW r, Good(r), NEW t \in Nat
  PROVE  LET s == Materialized(r, t)
         IN /\ Good(s) /\ SameField(r, s)
            /\ r.state \notin Timed => s = r
            /\ r.state \in Timed => s.state \in Sown
            /\ r.state \in Timed => s.state = r.state \/ Entered(s) <= t
            /\ r.state \in Timed /\ Boundary("GROWING", r.seeded, r.crop) <= t
                 => s.state = "READY_TO_HARVEST"
<1> DEFINE r1 == Cross(r, "SEEDED", t)
           r2 == Cross(r1, "GERMINATING", t)
           r3 == Cross(r2, "GROWING", t)
           B(p) == Boundary(p, r.seeded, r.crop)
<1>0. "SEEDED" \in Timed /\ "GERMINATING" \in Timed /\ "GROWING" \in Timed
  BY DEF Timed
<1>1. /\ Good(r1) /\ SameField(r, r1)
      /\ r.state = "SEEDED" /\ B("SEEDED") <= t => r1.state = NextTimed("SEEDED")
      /\ ~(r.state = "SEEDED" /\ B("SEEDED") <= t) => r1 = r
  BY <1>0, CrossRow
<1>2. /\ Good(r2) /\ SameField(r1, r2)
      /\ r1.state = "GERMINATING" /\ B("GERMINATING") <= t => r2.state = NextTimed("GERMINATING")
      /\ ~(r1.state = "GERMINATING" /\ B("GERMINATING") <= t) => r2 = r1
  BY <1>0, <1>1, CrossRow DEF SameField
<1>3. /\ Good(r3) /\ SameField(r2, r3)
      /\ r2.state = "GROWING" /\ B("GROWING") <= t => r3.state = NextTimed("GROWING")
      /\ ~(r2.state = "GROWING" /\ B("GROWING") <= t) => r3 = r2
  BY <1>0, <1>1, <1>2, CrossRow DEF SameField
<1>4. Materialized(r, t) = r3
  BY DEF Materialized
<1>5. SameField(r, r3)
  BY <1>1, <1>2, <1>3 DEF SameField
<1>6. /\ NextTimed("SEEDED") = "GERMINATING" /\ NextTimed("GERMINATING") = "GROWING"
      /\ NextTimed("GROWING") = "READY_TO_HARVEST"
  BY DEF NextTimed
<1>7. CASE r.state \notin Timed
  BY <1>0, <1>1, <1>2, <1>3, <1>4, <1>5, <1>7
<1>8. CASE r.state \in Timed
  <2>1. r.seeded \in Nat /\ r.crop \in Crops
    BY <1>8 DEF Good, Rows, Sown
  <2>2. /\ B("SEEDED") \in Nat /\ B("GERMINATING") \in Nat /\ B("GROWING") \in Nat
        /\ B("SEEDED") < B("GERMINATING") /\ B("GERMINATING") < B("GROWING")
    BY <1>0, <2>1, Boundaries
  <2>3. /\ r3.state = "GERMINATING" => Entered(r3) = B("SEEDED")
        /\ r3.state = "GROWING" => Entered(r3) = B("GERMINATING")
        /\ r3.state = "READY_TO_HARVEST" => Entered(r3) = B("GROWING")
    BY <1>5 DEF Entered, SameField
  <2>4. CASE r.state = "SEEDED"
    BY <1>1, <1>2, <1>3, <1>4, <1>5, <1>6, <2>2, <2>3, <2>4 DEF Sown, Timed
  <2>5. CASE r.state = "GERMINATING"
    BY <1>1, <1>2, <1>3, <1>4, <1>5, <1>6, <2>2, <2>3, <2>5 DEF Sown, Timed
  <2>6. CASE r.state = "GROWING"
    BY <1>1, <1>2, <1>3, <1>4, <1>5, <1>6, <2>2, <2>3, <2>6 DEF Sown, Timed
  <2> QED
    BY <1>8, <2>4, <2>5, <2>6 DEF Timed
<1> QED
  BY <1>7, <1>8

(* What a boundary, a projection or an alarm of a readable row is. *)
LEMMA PhaseDueType ==
  ASSUME NEW r, Good(r)
  PROVE  PhaseDue(r) \in Nat
<1>1. CASE r.state \in Timed
  <2>1. r.seeded \in Nat /\ r.crop \in Crops
    BY <1>1 DEF Good, Rows, Sown
  <2> QED
    BY <1>1, <2>1, Boundaries DEF PhaseDue
<1>2. CASE r.state \notin Timed
  BY <1>2 DEF PhaseDue, NoAlarm
<1> QED
  BY <1>1, <1>2

LEMMA AcrossType ==
  ASSUME NEW r, Good(r), r.state \in Sown, NEW w \in Levels, NEW a \in Nat, NEW t \in Nat
  PROVE  WeedAcross(r, w, a, t) \in Levels
<1>1. r.seeded \in Nat /\ r.crop \in Crops /\ WeedMax \in Nat
  BY FieldsAssumption DEF Good, Rows
<1>2. /\ Boundary("GERMINATING", r.seeded, r.crop) \in Nat
      /\ Boundary("GROWING", r.seeded, r.crop) \in Nat
  BY <1>1, Boundaries DEF Timed
<1> QED
  BY <1>1, <1>2 DEF WeedAcross, Smaller, Larger, Levels

\* Of the timed states a task starts only from the last one, and a field that reached it
\* stays there.
LEMMA ReadyStays ==
  ASSUME NEW r, Good(r), NEW t \in Nat, NEW u \in Nat, t <= u, NEW op \in Operations,
         Projected(r, t) \in FromStates(op)
  PROVE  Projected(r, u) \in FromStates(op)
<1>1. CASE r.state \in Timed
  <2>1. r.seeded \in Nat /\ r.crop \in Crops
    BY <1>1 DEF Good, Rows, Sown
  <2>2. CropPhase(r.seeded, t, r.crop) \in Sown \cap FromStates(op)
    BY <1>1, <2>1, PhaseReady DEF Projected
  <2>3. CropPhase(r.seeded, t, r.crop) = "READY_TO_HARVEST"
    BY <2>2 DEF FromStates, Sown, Timed
  <2>4. Boundary("GROWING", r.seeded, r.crop) \in Nat
    BY <2>1, Boundaries DEF Timed
  <2>5. CropPhase(r.seeded, u, r.crop) = "READY_TO_HARVEST"
    BY <2>1, <2>3, <2>4, PhaseReady
  <2> QED
    BY <1>1, <2>2, <2>3, <2>5 DEF Projected
<1>2. CASE r.state \notin Timed
  BY <1>2 DEF Projected
<1> QED
  BY <1>1, <1>2

\* Bringing the row up, at any instant, takes nothing from what it admits at t; brought
\* up to t itself it stands in the state that was projected.
LEMMA MaterializedAdmits ==
  ASSUME NEW r, Good(r), NEW t \in Nat, NEW u \in Nat, NEW op \in Operations,
         Projected(r, t) \in FromStates(op)
  PROVE  /\ Projected(Materialized(r, u), t) \in FromStates(op)
         /\ Materialized(r, t).state \in FromStates(op)
<1>1. CASE r.state \in Timed
  <2> DEFINE m == Materialized(r, u)
             n == Materialized(r, t)
  <2>1. r.seeded \in Nat /\ r.crop \in Crops
    BY <1>1 DEF Good, Rows, Sown
  <2>2. CropPhase(r.seeded, t, r.crop) \in Sown \cap FromStates(op)
    BY <1>1, <2>1, PhaseReady DEF Projected
  <2>3. CropPhase(r.seeded, t, r.crop) = "READY_TO_HARVEST"
    BY <2>2 DEF FromStates, Sown, Timed
  <2>4. Boundary("GROWING", r.seeded, r.crop) <= t
    BY <2>1, <2>3, PhaseReady
  <2>5. n.state = "READY_TO_HARVEST"
    BY <1>1, <2>4, MaterializedRow
  <2>6. m.seeded = r.seeded /\ m.crop = r.crop /\ m.state \in Sown
    BY <1>1, MaterializedRow DEF SameField
  <2>7. Projected(m, t) = "READY_TO_HARVEST"
    BY <2>3, <2>6 DEF Projected, Sown, Timed
  <2> QED
    BY <2>2, <2>3, <2>5, <2>7
<1>2. CASE r.state \notin Timed
  <2>1. Materialized(r, u) = r /\ Materialized(r, t) = r
    BY <1>2, MaterializedRow
  <2> QED
    BY <1>2, <2>1 DEF Projected
<1> QED
  BY <1>1, <1>2

LEMMA CellsFinite ==
  ASSUME NEW S \in SUBSET Cells
  PROVE  IsFiniteSet(S) /\ Cardinality(S) \in Nat
<1>1. IsFiniteSet(Cells)
  BY FieldsAssumption, FS_Interval DEF Cells
<1> QED
  BY <1>1, FS_Subset, FS_CardinalityType
-----------------------------------------------------------------------------
(* The inductive invariant.  What one field, its alarm and its task owe to    *)
(* each other at game time t:                                                 *)
RowInv(r, a, k, t) ==
    /\ Good(r) /\ k \in Tasks
    /\ a = IF r.status = "LIVE" /\ r.state \in Timed
           THEN Boundary(r.state, r.seeded, r.crop) ELSE NoAlarm
    /\ r.status = "LIVE" /\ r.state \in Sown => Entered(r) <= t
    /\ k # NoTask => /\ r.status = "LIVE"
                     /\ Projected(r, k.due) \in FromStates(k.op)
                     /\ k.op = "SEED" => k.crop \in Crops

BatchInv ==
    /\ ~open => batch = {}
    /\ \A e \in batch : e.due <= game

IInv ==
    /\ TypeOK /\ BatchInv
    /\ \A f \in FieldIds : RowInv(field[f], alarm[f], task[f], game)

\* The alarm of a row that satisfies it is a number: what TypeOK asks of alarm.
LEMMA RowInvAlarm ==
  ASSUME NEW r, NEW a, NEW k, NEW t, RowInv(r, a, k, t)
  PROVE  a \in Nat
<1>1. CASE r.status = "LIVE" /\ r.state \in Timed
  BY <1>1, PhaseDueType DEF RowInv, PhaseDue
<1>2. CASE ~(r.status = "LIVE" /\ r.state \in Timed)
  BY <1>2 DEF RowInv, NoAlarm
<1> QED
  BY <1>1, <1>2

\* Time only helps it.
LEMMA RowInvLater ==
  ASSUME NEW r, NEW a, NEW k, NEW t \in Nat, NEW u \in Nat, t <= u, RowInv(r, a, k, t)
  PROVE  RowInv(r, a, k, u)
<1>1. CASE r.status = "LIVE" /\ r.state \in Sown
  <2>1. r.seeded \in Nat /\ r.crop \in Crops
    BY <1>1 DEF RowInv, Good, Rows
  <2>2. Entered(r) \in Nat
    BY <2>1, Boundaries DEF Entered, Timed
  <2> QED
    BY <1>1, <2>2 DEF RowInv
<1>2. CASE ~(r.status = "LIVE" /\ r.state \in Sown)
  BY <1>2 DEF RowInv
<1> QED
  BY <1>1, <1>2

LEMMA InitIInv ==
  ASSUME Init
  PROVE  IInv
<1>1. AbsentRow \in Rows /\ NoTask \in Tasks /\ 0 \in Levels
  BY FieldsAssumption DEF AbsentRow, Rows, NoTask, Tasks, Operations, States, Soils, NotSown, Levels
<1>2. TypeOK
  <2>1. game \in 0 .. MaxGame
    BY FieldsAssumption DEF Init
  <2>2. true \in [FieldIds -> [weed : Levels, at : Nat]]
    BY <1>1 DEF Init
  <2>3. alarm \in [FieldIds -> Nat] /\ task \in [FieldIds -> Tasks]
    BY <1>1 DEF Init, NoAlarm
  <2> QED
    BY <1>1, <2>1, <2>2, <2>3 DEF Init, TypeOK
<1>3. RowInv(AbsentRow, NoAlarm, NoTask, 0)
  BY <1>1 DEF RowInv, Good, AbsentRow, Sown, Timed
<1> QED
  BY <1>2, <1>3 DEF Init, IInv, BatchInv
-----------------------------------------------------------------------------
(* Each action preserves it.                                                   *)

LEMMA TickInv ==
  ASSUME IInv, Tick
  PROVE  IInv'
<1>1. game \in Nat /\ game' \in 0 .. MaxGame /\ game <= game'
  BY FieldsAssumption DEF IInv, TypeOK, Tick
<1>2. game' \in Nat
  BY <1>1
<1>3. TypeOK'
  BY <1>1 DEF IInv, TypeOK, Tick, rowVars, historyVars
<1>4. BatchInv'
  BY <1>1 DEF IInv, BatchInv, Tick, rowVars, historyVars
<1>5. \A f \in FieldIds : RowInv(field'[f], alarm'[f], task'[f], game')
  BY <1>1, <1>2, RowInvLater DEF IInv, Tick, rowVars
<1> QED
  BY <1>3, <1>4, <1>5 DEF IInv

LEMMA BeginInv ==
  ASSUME IInv, Begin
  PROVE  IInv'
<1>1. UNCHANGED <<game, cell, field, alarm, task, true, torn>> /\ open' = TRUE
  BY DEF Begin, rowVars, historyVars
<1>2. batch' \subseteq DueEvents
  BY DEF Begin
<1>3. DueEvents \subseteq Events /\ \A e \in DueEvents : e.due <= game
  BY DEF DueEvents, Pending, Events, IInv, TypeOK, Tasks
<1>4. TypeOK'
  BY <1>1, <1>2, <1>3 DEF IInv, TypeOK
<1> QED
  BY <1>1, <1>2, <1>3, <1>4 DEF IInv, BatchInv

\* What First and Pending say of the event that is applied.
LEMMA AppliedEvent ==
  ASSUME IInv, NEW e, First(e), e \in Pending
  PROVE  /\ e.field \in FieldIds /\ e.due \in Nat /\ e.due <= game /\ game \in Nat
         /\ e.kind = "phase" => alarm[e.field] # NoAlarm
         /\ e.kind = "task" => task[e.field] # NoTask /\ task[e.field].due = e.due
<1>1. e \in batch /\ e \in Events
  BY DEF First, IInv, TypeOK
<1>2. e.field \in FieldIds /\ e.due \in Nat
  BY <1>1 DEF Events
<1>3. e.due <= game /\ game \in Nat
  BY <1>1, FieldsAssumption DEF IInv, BatchInv, TypeOK
<1> QED
  BY <1>2, <1>3 DEF Pending

LEMMA AdvancePhaseInv ==
  ASSUME IInv, NEW e, AdvancePhase(e)
  PROVE  IInv'
<1> DEFINE f == e.field
           r == field[f]
           m == Materialized(r, e.due)
<1>1. /\ f \in FieldIds /\ e.due \in Nat /\ e.due <= game /\ game \in Nat
      /\ alarm[f] # NoAlarm
  BY AppliedEvent DEF AdvancePhase
<1>2. /\ field' = [field EXCEPT ![f] = m] /\ alarm' = [alarm EXCEPT ![f] = PhaseDue(m)]
      /\ batch' = batch \ {e} /\ UNCHANGED <<game, cell, task, open, true, torn>>
  BY DEF AdvancePhase, historyVars
<1>3. RowInv(r, alarm[f], task[f], game)
  BY <1>1 DEF IInv
<1>4. Good(r) /\ r.status = "LIVE" /\ r.state \in Timed
  BY <1>1, <1>3 DEF RowInv
<1>5. /\ Good(m) /\ SameField(r, m) /\ m.state \in Sown
      /\ m.state = r.state \/ Entered(m) <= e.due
  BY <1>1, <1>4, MaterializedRow
<1>6. Entered(m) <= game
  <2>1. CASE m.state = r.state
    <3>1. Entered(m) = Entered(r)
      BY <1>5, <2>1 DEF Entered, SameField
    <3> QED
      BY <1>3, <1>4, <3>1 DEF RowInv, Sown
  <2>2. CASE m.state # r.state
    <3>1. m.seeded \in Nat /\ m.crop \in Crops
      BY <1>5 DEF Good, Rows
    <3>2. Entered(m) \in Nat
      BY <3>1, Boundaries DEF Entered, Timed
    <3> QED
      BY <1>1, <1>5, <2>2, <3>2
  <2> QED
    BY <2>1, <2>2
<1>7. task[f] # NoTask => Projected(m, task[f].due) \in FromStates(task[f].op)
  <2> SUFFICES ASSUME task[f] # NoTask
               PROVE  Projected(m, task[f].due) \in FromStates(task[f].op)
    OBVIOUS
  <2>1. task[f].due \in Nat /\ task[f].op \in Operations
    BY <1>3 DEF RowInv, Tasks
  <2>2. Projected(r, task[f].due) \in FromStates(task[f].op)
    BY <1>3 DEF RowInv
  <2> QED
    BY <1>1, <1>4, <2>1, <2>2, MaterializedAdmits
<1>8. RowInv(m, PhaseDue(m), task[f], game)
  BY <1>3, <1>4, <1>5, <1>6, <1>7 DEF RowInv, PhaseDue, SameField
<1>9. \A g \in FieldIds : RowInv(field'[g], alarm'[g], task'[g], game')
  BY <1>2, <1>8 DEF IInv, TypeOK
<1>10. TypeOK'
  BY <1>2, <1>5, PhaseDueType DEF IInv, TypeOK, Good
<1>11. BatchInv'
  BY <1>2 DEF IInv, BatchInv
<1> QED
  BY <1>9, <1>10, <1>11 DEF IInv

\* The row that the operation of a task leaves.
LEMMA WorkedRow ==
  ASSUME NEW r, Good(r), NEW t \in Nat, NEW op \in Operations, NEW k \in Crops \cup {NoCrop},
         op = "SEED" => k \in Crops
  PROVE  LET w == Worked(r, op, k, t)
         IN /\ Good(w) /\ w.status = r.status /\ w.cellCount = r.cellCount
            /\ w.state \in Sown => w.state = "SEEDED" /\ w.seeded = t
<1> DEFINE s == WriteSettled(r, t, r)
<1>1. s \in Rows /\ s.status = r.status /\ s.cellCount = r.cellCount
  BY WriteSettledRow DEF Good, SameField
<1>2. 0 \in Levels
  BY FieldsAssumption DEF Levels
<1>3. CASE op = "PLOW"
  BY <1>1, <1>3 DEF Worked, Good, Rows, States, Soils, Sown, Timed
<1>4. CASE op = "CULTIVATE"
  BY <1>1, <1>2, <1>4 DEF Worked, Good, Rows, States, Soils, Sown, Timed
<1>5. CASE op = "SEED"
  BY <1>1, <1>5 DEF Worked, Good, Rows, States, Soils, Sown, Timed
<1>6. CASE op = "HARVEST"
  BY <1>1, <1>6 DEF Worked, Good, Rows, States, Soils, Sown, Timed, NotSown
<1> QED
  BY <1>3, <1>4, <1>5, <1>6 DEF Operations

\* The refusal that applyTargetTransition catches does not happen.
LEMMA TaskNotRefused ==
  ASSUME IInv, NEW e, CompleteTask(e)
  PROVE  Materialized(field[e.field], e.due).state \in FromStates(task[e.field].op)
<1> DEFINE f == e.field
<1>1. f \in FieldIds /\ e.due \in Nat /\ task[f] # NoTask /\ task[f].due = e.due
  BY AppliedEvent DEF CompleteTask
<1>2. /\ Good(field[f]) /\ task[f].op \in Operations
      /\ Projected(field[f], e.due) \in FromStates(task[f].op)
  BY <1>1 DEF IInv, RowInv, Tasks
<1> QED
  BY <1>1, <1>2, MaterializedAdmits

LEMMA CompleteTaskInv ==
  ASSUME IInv, NEW e, CompleteTask(e)
  PROVE  IInv'
<1> DEFINE f == e.field
           op == task[f].op
           r == Materialized(field[f], e.due)
           w == Worked(r, op, task[f].crop, e.due)
<1>1. /\ f \in FieldIds /\ e.due \in Nat /\ e.due <= game /\ game \in Nat
      /\ task[f] # NoTask
  BY AppliedEvent DEF CompleteTask
<1>2. r.state \in FromStates(op)
  BY TaskNotRefused
<1>3. /\ field' = [field EXCEPT ![f] = w] /\ alarm' = [alarm EXCEPT ![f] = PhaseDue(w)]
      /\ task' = [task EXCEPT ![f] = NoTask] /\ batch' = batch \ {e}
      /\ UNCHANGED <<game, cell, open>>
      /\ true' = [true EXCEPT ![f] = [weed |-> IF op = "CULTIVATE" THEN 0 ELSE TrueWeed(f, e.due),
                                      at |-> e.due]]
      /\ torn' = IF op = "CULTIVATE" THEN torn \ {f} ELSE torn
  BY <1>2 DEF CompleteTask
<1>4. RowInv(field[f], alarm[f], task[f], game)
  BY <1>1 DEF IInv
<1>5. /\ Good(field[f]) /\ field[f].status = "LIVE" /\ op \in Operations
      /\ task[f].crop \in Crops \cup {NoCrop}
      /\ op = "SEED" => task[f].crop \in Crops
  BY <1>1, <1>4 DEF RowInv, Tasks
<1>6. Good(r) /\ r.status = "LIVE"
  BY <1>1, <1>5, MaterializedRow DEF SameField
<1>7. /\ Good(w) /\ w.status = "LIVE"
      /\ w.state \in Sown => w.state = "SEEDED" /\ w.seeded = e.due
  BY <1>1, <1>5, <1>6, WorkedRow
<1>8. NoTask \in Tasks
  BY DEF NoTask, Tasks, Operations
<1>10. RowInv(w, PhaseDue(w), NoTask, game)
  BY <1>1, <1>7, <1>8 DEF RowInv, PhaseDue, Entered
<1>11. \A g \in FieldIds : RowInv(field'[g], alarm'[g], task'[g], game')
  BY <1>3, <1>10 DEF IInv, TypeOK
<1>12. TrueWeed(f, e.due) \in Levels
  BY <1>1, <1>5, AcrossType DEF TrueWeed, IInv, TypeOK
<1>13. 0 \in Levels
  BY FieldsAssumption DEF Levels
<1>14. true' \in [FieldIds -> [weed : Levels, at : Nat]]
  BY <1>1, <1>3, <1>12, <1>13 DEF IInv, TypeOK
<1>15. TypeOK'
  BY <1>1, <1>3, <1>7, <1>8, <1>14, PhaseDueType DEF IInv, TypeOK, Good
<1>16. BatchInv'
  BY <1>3 DEF IInv, BatchInv
<1> QED
  BY <1>11, <1>15, <1>16 DEF IInv

LEMMA CloseInv ==
  ASSUME IInv, Close
  PROVE  IInv'
<1>1. TypeOK'
  BY DEF IInv, TypeOK, Close, rowVars, historyVars
<1> QED
  BY <1>1 DEF IInv, BatchInv, Close, rowVars

LEMMA AssignTaskInv ==
  ASSUME IInv, NEW f \in FieldIds, NEW op \in Operations, NEW k \in Crops \cup {NoCrop},
         AssignTask(f, op, k)
  PROVE  IInv'
<1> DEFINE j == [op |-> op, crop |-> k, units |-> field[f].cellCount, due |-> game + WorkTime]
<1>1. /\ task' = [task EXCEPT ![f] = j] /\ batch = {} /\ open' = FALSE
      /\ UNCHANGED <<game, cell, field, alarm, batch, true, torn>>
      /\ field[f].status = "LIVE" /\ Projected(field[f], game) \in FromStates(op)
      /\ op = "SEED" => k \in Crops
  BY DEF AssignTask, Body, Idle, Live, Admits, historyVars
<1>2. /\ RowInv(field[f], alarm[f], task[f], game) /\ game \in Nat /\ game + WorkTime \in Nat
      /\ game <= game + WorkTime
  BY FieldsAssumption DEF IInv, TypeOK
<1>3. Good(field[f]) /\ field[f].cellCount \in Nat
  BY <1>2 DEF RowInv, Good, Rows
<1>4. j \in Tasks
  BY <1>2, <1>3 DEF Tasks
<1>5. Projected(field[f], game + WorkTime) \in FromStates(op)
  BY <1>1, <1>2, <1>3, ReadyStays
<1>6. RowInv(field[f], alarm[f], j, game)
  BY <1>1, <1>2, <1>4, <1>5 DEF RowInv
<1>7. \A g \in FieldIds : RowInv(field'[g], alarm'[g], task'[g], game')
  BY <1>1, <1>6 DEF IInv, TypeOK
<1>8. TypeOK'
  BY <1>1, <1>4 DEF IInv, TypeOK
<1> QED
  BY <1>1, <1>7, <1>8 DEF IInv, BatchInv

LEMMA CancelTaskInv ==
  ASSUME IInv, NEW f \in FieldIds, CancelTask(f)
  PROVE  IInv'
<1>1. /\ task' = [task EXCEPT ![f] = NoTask] /\ batch = {} /\ open' = FALSE
      /\ UNCHANGED <<game, cell, field, alarm, batch, true, torn>>
  BY DEF CancelTask, Body, historyVars
<1>2. NoTask \in Tasks
  BY DEF NoTask, Tasks, Operations
<1>3. RowInv(field[f], alarm[f], NoTask, game)
  BY <1>2 DEF IInv, RowInv
<1>4. \A g \in FieldIds : RowInv(field'[g], alarm'[g], task'[g], game')
  BY <1>1, <1>3 DEF IInv, TypeOK
<1>5. TypeOK'
  BY <1>1, <1>2 DEF IInv, TypeOK
<1> QED
  BY <1>1, <1>4, <1>5 DEF IInv, BatchInv

LEMMA CreateFieldInv ==
  ASSUME IInv, NEW f \in FieldIds, NEW S \in SUBSET Cells, CreateField(f, S)
  PROVE  IInv'
<1> DEFINE r == [AbsentRow EXCEPT !.status = "LIVE", !.cellCount = Cardinality(S), !.weedAt = game]
<1>1. /\ field' = [field EXCEPT ![f] = r] /\ cell' = [c \in Cells |-> IF c \in S THEN f ELSE cell[c]]
      /\ true' = [true EXCEPT ![f] = [weed |-> 0, at |-> game]]
      /\ UNCHANGED <<game, alarm, task, batch, torn>> /\ batch = {} /\ open' = FALSE
      /\ field[f].status = "ABSENT"
  BY DEF CreateField, Body
<1>2. RowInv(field[f], alarm[f], task[f], game) /\ game \in Nat
  BY FieldsAssumption DEF IInv, TypeOK
<1>3. alarm[f] = NoAlarm /\ task[f] = NoTask /\ task[f] \in Tasks
  BY <1>1, <1>2 DEF RowInv
<1>4. 0 \in Levels /\ Cardinality(S) \in Nat
  BY CellsFinite, FieldsAssumption DEF Levels
<1>5. Good(r) /\ r.state = "VIRGIN"
  BY <1>2, <1>4 DEF Good, AbsentRow, Rows, States, Soils, Sown, Timed, NotSown
<1>6. RowInv(r, alarm[f], task[f], game)
  BY <1>3, <1>5 DEF RowInv, Sown, Timed
<1>7. \A g \in FieldIds : RowInv(field'[g], alarm'[g], task'[g], game')
  BY <1>1, <1>6 DEF IInv, TypeOK
<1>8. TypeOK'
  BY <1>1, <1>2, <1>4, <1>5 DEF IInv, TypeOK, Good
<1> QED
  BY <1>1, <1>7, <1>8 DEF IInv, BatchInv

\* A row with other cells and the weeds settled is the same field.
LEMMA ResizedRow ==
  ASSUME NEW r, NEW a, NEW k, NEW t \in Nat, RowInv(r, a, k, t), NEW n \in Nat
  PROVE  LET m == [r EXCEPT !.cellCount = n]
         IN /\ RowInv(m, a, k, t) /\ PhaseDue(m) = PhaseDue(r)
            /\ RowInv(WriteSettled(r, t, m), a, k, t)
            /\ PhaseDue(WriteSettled(r, t, m)) = PhaseDue(r)
<1> DEFINE m == [r EXCEPT !.cellCount = n]
           s == WriteSettled(r, t, m)
<1>1. Good(r)
  BY DEF RowInv
<1>2. m \in Rows
  BY <1>1 DEF Good, Rows
<1>3. s \in Rows /\ SameField(m, s) /\ s.state = m.state
  BY <1>1, <1>2, WriteSettledRow
<1>4. /\ m.status = r.status /\ m.state = r.state /\ m.crop = r.crop /\ m.seeded = r.seeded
      /\ s.status = r.status /\ s.state = r.state /\ s.crop = r.crop /\ s.seeded = r.seeded
  BY <1>1, <1>2, <1>3 DEF SameField, Good, Rows
<1>5. Good(m) /\ Good(s)
  BY <1>1, <1>2, <1>3, <1>4 DEF Good
<1>6. /\ PhaseDue(m) = PhaseDue(r) /\ PhaseDue(s) = PhaseDue(r)
      /\ Entered(m) = Entered(r) /\ Entered(s) = Entered(r)
  BY <1>4 DEF PhaseDue, Entered
<1>7. \A u : Projected(m, u) = Projected(r, u) /\ Projected(s, u) = Projected(r, u)
  BY <1>4 DEF Projected
<1> HIDE DEF m, s
<1> QED
  BY <1>4, <1>5, <1>6, <1>7 DEF RowInv, m, s

LEMMA ExtendFieldInv ==
  ASSUME IInv, NEW f \in FieldIds, NEW S \in SUBSET Cells, ExtendField(f, S)
  PROVE  IInv'
<1> DEFINE n == Cardinality(CellsOf(f)) + Cardinality(S)
           r == WriteSettled(field[f], game, [field[f] EXCEPT !.cellCount = n])
<1>1. /\ field' = [field EXCEPT ![f] = r] /\ cell' = [c \in Cells |-> IF c \in S THEN f ELSE cell[c]]
      /\ UNCHANGED <<game, alarm, task, batch, true, torn>> /\ batch = {} /\ open' = FALSE
  BY DEF ExtendField, Body, historyVars
<1>2. RowInv(field[f], alarm[f], task[f], game) /\ game \in Nat
  BY FieldsAssumption DEF IInv, TypeOK
<1>3. n \in Nat
  <2>1. CellsOf(f) \in SUBSET Cells
    BY DEF CellsOf
  <2> QED
    BY <2>1, CellsFinite
<1>4. RowInv(r, alarm[f], task[f], game)
  BY <1>2, <1>3, ResizedRow
<1>5. \A g \in FieldIds : RowInv(field'[g], alarm'[g], task'[g], game')
  BY <1>1, <1>4 DEF IInv, TypeOK
<1>6. TypeOK'
  BY <1>1, <1>4 DEF IInv, TypeOK, RowInv, Good
<1> QED
  BY <1>1, <1>5, <1>6 DEF IInv, BatchInv

LEMMA SplitFieldInv ==
  ASSUME IInv, NEW f \in FieldIds, NEW g \in FieldIds, NEW S \in SUBSET Cells, SplitField(f, g, S)
  PROVE  IInv'
<1> DEFINE rest == CellsOf(f) \ S
           half == [field[f] EXCEPT !.cellCount = Cardinality(S)]
           original == WriteSettled(field[f], game, [field[f] EXCEPT !.cellCount = Cardinality(rest)])
<1>1. /\ field' = [field EXCEPT ![f] = original, ![g] = half]
      /\ alarm' = [alarm EXCEPT ![f] = PhaseDue(original), ![g] = PhaseDue(half)]
      /\ cell' = [c \in Cells |-> IF c \in S THEN g ELSE cell[c]]
      /\ true' = [true EXCEPT ![g] = true[f]]
      /\ torn' = torn \cup (IF Overtaken(f) THEN {f} ELSE {}) \cup (IF f \in torn THEN {g} ELSE {})
      /\ UNCHANGED <<game, task, batch>> /\ batch = {} /\ open' = FALSE
      /\ field[f].status = "LIVE" /\ task[f] = NoTask /\ field[g].status = "ABSENT"
  BY DEF SplitField, Body, Idle, Live
<1>2. /\ RowInv(field[f], alarm[f], task[f], game) /\ RowInv(field[g], alarm[g], task[g], game)
      /\ game \in Nat
  BY FieldsAssumption DEF IInv, TypeOK
<1>3. task[g] = NoTask /\ alarm[f] = PhaseDue(field[f])
  BY <1>1, <1>2 DEF RowInv, PhaseDue
<1>4. Cardinality(S) \in Nat /\ Cardinality(rest) \in Nat
  BY CellsFinite DEF CellsOf
<1>5. /\ RowInv(half, alarm[f], task[f], game) /\ PhaseDue(half) = PhaseDue(field[f])
      /\ RowInv(original, alarm[f], task[f], game) /\ PhaseDue(original) = PhaseDue(field[f])
  BY <1>2, <1>4, ResizedRow
<1>6. /\ RowInv(half, PhaseDue(half), task[g], game)
      /\ RowInv(original, PhaseDue(original), task[f], game)
  BY <1>1, <1>3, <1>5
<1>7. \A h \in FieldIds : RowInv(field'[h], alarm'[h], task'[h], game')
  BY <1>1, <1>6 DEF IInv, TypeOK
<1>8. TypeOK'
  <2>1. half \in Rows /\ original \in Rows /\ PhaseDue(half) \in Nat /\ PhaseDue(original) \in Nat
    BY <1>6, RowInvAlarm DEF RowInv, Good
  <2> QED
    BY <1>1, <2>1 DEF IInv, TypeOK
<1> QED
  BY <1>1, <1>7, <1>8 DEF IInv, BatchInv

\* The survivor of a merge: row q, brought up, with the sowing of row r of the same
\* state and crop.
LEMMA SurvivorRow ==
  ASSUME NEW q, Good(q), NEW r, Good(r), NEW t \in Nat, q.status = "LIVE",
         r.state = q.state, r.crop = q.crop,
         r.state \in Sown => Entered(r) <= t,
         NEW n \in Nat, NEW w \in Levels
  PROVE  LET m == [q EXCEPT !.cellCount = n, !.seeded = r.seeded, !.weed = w, !.weedAt = t]
         IN RowInv(m, PhaseDue(m), NoTask, t)
<1> DEFINE m == [q EXCEPT !.cellCount = n, !.seeded = r.seeded, !.weed = w, !.weedAt = t]
<1>1. r.seeded \in Nat
  BY DEF Good, Rows
<1>2. m \in Rows /\ m.status = "LIVE" /\ m.state = r.state /\ m.crop = r.crop /\ m.seeded = r.seeded
  BY <1>1 DEF Good, Rows
<1>3. Good(m)
  BY <1>2 DEF Good
<1>4. Entered(m) = Entered(r)
  BY <1>2 DEF Entered
<1>5. NoTask \in Tasks
  BY DEF NoTask, Tasks, Operations
<1> HIDE DEF m
<1>6. RowInv(m, PhaseDue(m), NoTask, t)
  BY <1>2, <1>3, <1>4, <1>5 DEF RowInv, PhaseDue
<1> QED
  BY <1>6 DEF m

\* A row brought up to now is entered by now.
LEMMA BroughtUp ==
  ASSUME NEW r, NEW a, NEW k, NEW t \in Nat, RowInv(r, a, k, t), r.status = "LIVE"
  PROVE  LET m == Materialized(r, t)
         IN /\ Good(m) /\ SameField(r, m)
            /\ m.state \in Sown => Entered(m) <= t
<1> DEFINE m == Materialized(r, t)
<1>1. Good(r)
  BY DEF RowInv
<1>2. CASE r.state \in Timed
  <2>1. /\ Good(m) /\ SameField(r, m)
        /\ m.state = r.state \/ Entered(m) <= t
    BY <1>1, <1>2, MaterializedRow
  <2>2. Entered(r) <= t
    BY <1>2 DEF RowInv, Sown
  <2> HIDE DEF m
  <2>3. m.state = r.state => Entered(m) = Entered(r)
    BY <2>1 DEF Entered, SameField
  <2>4. Good(m) /\ SameField(r, m) /\ Entered(m) <= t
    BY <2>1, <2>2, <2>3
  <2> QED
    BY <2>4 DEF m
<1>3. CASE r.state \notin Timed
  <2>1. m = r
    BY <1>1, <1>3, MaterializedRow
  <2> QED
    BY <1>1, <2>1 DEF RowInv, SameField
<1> QED
  BY <1>2, <1>3

LEMMA MergeFieldsInv ==
  ASSUME IInv, NEW F \in SUBSET FieldIds, NEW s \in F, NEW l \in F, MergeFields(F, s, l)
  PROVE  IInv'
<1> DEFINE part == [f \in F |-> Materialized(field[f], game)]
           cells == UNION {CellsOf(f) : f \in F}
           Merged(mean) == [part[s] EXCEPT !.cellCount = Cardinality(cells), !.seeded = field[l].seeded,
                                           !.weed = mean, !.weedAt = game]
<1>1. /\ \A f \in F : field[f].status = "LIVE" /\ task[f] = NoTask
      /\ \A f \in F : part[f].state = part[s].state /\ part[f].crop = part[s].crop
      /\ cell' = [c \in Cells |-> IF c \in cells THEN s ELSE cell[c]]
      /\ UNCHANGED <<game, task, batch>> /\ batch = {} /\ open' = FALSE
      /\ torn' = IF F \cap torn = {} THEN torn ELSE (torn \ F) \cup {s}
      /\ alarm' = [f \in FieldIds |-> IF f = s THEN PhaseDue(field'[s])
                                      ELSE IF f \in F THEN NoAlarm ELSE alarm[f]]
  BY DEF MergeFields, Body, Idle, Live
<1>2. PICK mean \in Levels :
        field' = [f \in FieldIds |-> IF f = s THEN Merged(mean)
                                    ELSE IF f \in F THEN [part[f] EXCEPT !.status = "DISPOSED"]
                                    ELSE field[f]]
  BY DEF MergeFields
<1>3. PICK level \in Levels : true' = [true EXCEPT ![s] = [weed |-> level, at |-> game]]
  BY DEF MergeFields
<1>4. game \in Nat /\ F \subseteq FieldIds
  BY FieldsAssumption DEF IInv, TypeOK
<1>5. \A f \in F : /\ Good(part[f]) /\ SameField(field[f], part[f])
                   /\ part[f].state \in Sown => Entered(part[f]) <= game
  <2>1. TAKE f \in F
  <2>2. RowInv(field[f], alarm[f], task[f], game) /\ field[f].status = "LIVE"
    BY <1>1, <1>4 DEF IInv
  <2> QED
    BY <1>4, <2>2, BroughtUp
<1>6. Cardinality(cells) \in Nat
  BY CellsFinite DEF CellsOf
<1>7. part[l].seeded = field[l].seeded /\ part[s].status = "LIVE"
  <2> HIDE DEF part
  <2> QED
    BY <1>1, <1>5 DEF SameField
<1>8. RowInv(Merged(mean), PhaseDue(Merged(mean)), NoTask, game)
  <2>1. /\ Good(part[s]) /\ Good(part[l]) /\ part[l].state = part[s].state
        /\ part[l].crop = part[s].crop
        /\ part[l].state \in Sown => Entered(part[l]) <= game
    <3> HIDE DEF part
    <3> QED
      BY <1>1, <1>5
  <2> HIDE DEF part, cells
  <2> QED
    BY <1>4, <1>6, <1>7, <2>1, SurvivorRow
<1>9. \A f \in F : RowInv([part[f] EXCEPT !.status = "DISPOSED"], NoAlarm, NoTask, game)
  <2>1. TAKE f \in F
  <2> HIDE DEF part
  <2>2. Good(part[f])
    BY <1>5
  <2>3. NoTask \in Tasks
    BY DEF NoTask, Tasks, Operations
  <2> QED
    BY <2>2, <2>3 DEF RowInv, Good, Rows
<1>10. s \in FieldIds /\ field'[s] = Merged(mean) /\ task[s] = NoTask
  BY <1>1, <1>2, <1>4
<1>11. \A f \in FieldIds : RowInv(field'[f], alarm'[f], task'[f], game')
  <2>1. TAKE f \in FieldIds
  <2> HIDE DEF part, cells, Merged
  <2>2. CASE f = s
    BY <1>1, <1>8, <1>10, <2>2
  <2>3. CASE f \in F /\ f # s
    BY <1>1, <1>2, <1>9, <2>3
  <2>4. CASE f \notin F
    BY <1>1, <1>2, <2>4 DEF IInv
  <2> QED
    BY <2>2, <2>3, <2>4
<1>12. TypeOK'
  <2>1. \A f \in FieldIds : field'[f] \in Rows /\ alarm'[f] \in Nat
    BY <1>11, RowInvAlarm DEF RowInv, Good
  <2>2. field' \in [FieldIds -> Rows] /\ alarm' \in [FieldIds -> Nat]
    <3> HIDE DEF Merged, part
    <3> QED
      BY <1>1, <1>2, <2>1
  <2>3. cell' \in [Cells -> FieldIds \cup {NoField}] /\ torn' \in SUBSET FieldIds
    BY <1>1, <1>4 DEF IInv, TypeOK
  <2>4. true' \in [FieldIds -> [weed : Levels, at : Nat]]
    BY <1>3, <1>4 DEF IInv, TypeOK
  <2>5. UNCHANGED <<game, task, batch>> /\ open' = FALSE
    BY <1>1
  <2> QED
    BY <2>2, <2>3, <2>4, <2>5 DEF IInv, TypeOK
<1> QED
  BY <1>1, <1>11, <1>12 DEF IInv, BatchInv

LEMMA NextIInv ==
  ASSUME IInv, [Next]_vars
  PROVE  IInv'
<1>1. CASE Tick
  BY <1>1, TickInv
<1>2. CASE Begin
  BY <1>2, BeginInv
<1>3. CASE Apply
  BY <1>3, AdvancePhaseInv, CompleteTaskInv DEF Apply
<1>4. CASE Close
  BY <1>4, CloseInv
<1>5. CASE Request
  <2>1. CASE \E f \in FieldIds, op \in Operations, k \in Crops \cup {NoCrop} : AssignTask(f, op, k)
    BY <2>1, AssignTaskInv
  <2>2. CASE \E f \in FieldIds : CancelTask(f)
    BY <2>2, CancelTaskInv
  <2>3. CASE \E f \in FieldIds, S \in SUBSET Cells : CreateField(f, S) \/ ExtendField(f, S)
    BY <2>3, CreateFieldInv, ExtendFieldInv
  <2>4. CASE \E f, g \in FieldIds, S \in SUBSET Cells : SplitField(f, g, S)
    BY <2>4, SplitFieldInv
  <2>5. CASE \E F \in SUBSET FieldIds : \E s, l \in F : MergeFields(F, s, l)
    BY <2>5, MergeFieldsInv
  <2> QED
    BY <1>5, <2>1, <2>2, <2>3, <2>4, <2>5 DEF Request
<1>6. CASE UNCHANGED vars
  <2>1. TypeOK'
    BY <1>6 DEF IInv, TypeOK, vars, rowVars, historyVars
  <2> QED
    BY <1>6, <2>1 DEF IInv, BatchInv, vars, rowVars, historyVars
<1> QED
  BY <1>1, <1>2, <1>3, <1>4, <1>5, <1>6 DEF Next
-----------------------------------------------------------------------------
(* Geometry: the cells of a row are its surface.                               *)

LEMMA Joined ==
  ASSUME NEW S \in SUBSET Cells, NEW T \in SUBSET Cells,
         Contiguous(S), Contiguous(T), AdjacentTo(S, T)
  PROVE  Contiguous(S \cup T)
<1>1. PICK x \in S, y \in T : x = y + 1 \/ y = x + 1
  BY DEF AdjacentTo
<1>2. S \subseteq Int /\ T \subseteq Int
  BY FieldsAssumption DEF Cells
<1>3. ASSUME NEW a \in S \cup T, NEW b \in S \cup T, NEW c \in a .. b
      PROVE  c \in S \cup T
  <2>1. a \in Int /\ b \in Int /\ c \in Int /\ x \in Int /\ y \in Int /\ a <= c /\ c <= b
    BY <1>2, <1>3
  <2>2. CASE a \in S /\ b \in S
    BY <1>3, <2>2 DEF Contiguous
  <2>3. CASE a \in T /\ b \in T
    BY <1>3, <2>3 DEF Contiguous
  <2>4. CASE a \in S /\ b \in T
    <3>1. c \in a .. x \/ c \in y .. b
      BY <1>1, <2>1
    <3> QED
      BY <2>4, <3>1 DEF Contiguous
  <2>5. CASE a \in T /\ b \in S
    <3>1. c \in a .. y \/ c \in x .. b
      BY <1>1, <2>1
    <3> QED
      BY <2>5, <3>1 DEF Contiguous
  <2> QED
    BY <2>2, <2>3, <2>4, <2>5
<1> QED
  BY <1>3 DEF Contiguous

LEMMA JoinedCount ==
  ASSUME NEW S, NEW T, IsFiniteSet(S), IsFiniteSet(T), S \cap T = {}
  PROVE  Cardinality(S \cup T) = Cardinality(S) + Cardinality(T)
<1>1. Cardinality(S \cup T) = Cardinality(S) + Cardinality(T) - Cardinality(S \cap T)
  BY FS_Union
<1>2. Cardinality(S) \in Nat /\ Cardinality(T) \in Nat /\ Cardinality(S \cap T) = 0
  BY FS_CardinalityType, FS_EmptySet
<1> QED
  BY <1>1, <1>2

\* A step that moves no cell and changes neither the life nor the count of a row.
LEMMA SameGeometry ==
  ASSUME GeometryAgrees, cell' = cell,
         \A f \in FieldIds : field'[f].status = field[f].status /\ field'[f].cellCount = field[f].cellCount
  PROVE  GeometryAgrees'
<1>1. \A f \in FieldIds : CellsOf(f)' = CellsOf(f) /\ (Live(f)' <=> Live(f))
  BY DEF CellsOf, Live
<1> QED
  BY <1>1 DEF GeometryAgrees

LEMMA AdvancePhaseGeometry ==
  ASSUME IInv, GeometryAgrees, NEW e, AdvancePhase(e)
  PROVE  GeometryAgrees'
<1> DEFINE m == Materialized(field[e.field], e.due)
<1>1. e.field \in FieldIds /\ e.due \in Nat
  BY AppliedEvent DEF AdvancePhase
<1>2. field' = [field EXCEPT ![e.field] = m] /\ cell' = cell
  BY DEF AdvancePhase
<1>3. Good(field[e.field])
  BY <1>1 DEF IInv, RowInv
<1>4. m.status = field[e.field].status /\ m.cellCount = field[e.field].cellCount
  BY <1>1, <1>3, MaterializedRow DEF SameField
<1> QED
  BY <1>1, <1>2, <1>4, SameGeometry DEF IInv, TypeOK

LEMMA CompleteTaskGeometry ==
  ASSUME IInv, GeometryAgrees, NEW e, CompleteTask(e)
  PROVE  GeometryAgrees'
<1> DEFINE f == e.field
           r == Materialized(field[f], e.due)
           w == Worked(r, task[f].op, task[f].crop, e.due)
<1>1. f \in FieldIds /\ e.due \in Nat /\ task[f] # NoTask
  BY AppliedEvent DEF CompleteTask
<1>2. field' = [field EXCEPT ![f] = w] /\ cell' = cell
  BY TaskNotRefused DEF CompleteTask
<1>3. /\ Good(field[f]) /\ task[f].op \in Operations /\ task[f].crop \in Crops \cup {NoCrop}
      /\ task[f].op = "SEED" => task[f].crop \in Crops
  BY <1>1 DEF IInv, RowInv, Tasks
<1>4. Good(r) /\ r.status = field[f].status /\ r.cellCount = field[f].cellCount
  BY <1>1, <1>3, MaterializedRow DEF SameField
<1>5. w.status = field[f].status /\ w.cellCount = field[f].cellCount
  BY <1>1, <1>3, <1>4, WorkedRow
<1> QED
  BY <1>1, <1>2, <1>5, SameGeometry DEF IInv, TypeOK

LEMMA CreateFieldGeometry ==
  ASSUME IInv, GeometryAgrees, NEW f \in FieldIds, NEW S \in SUBSET Cells, CreateField(f, S)
  PROVE  GeometryAgrees'
<1>1. /\ field[f].status = "ABSENT" /\ S # {} /\ Contiguous(S) /\ \A c \in S : cell[c] = NoField
      /\ cell' = [c \in Cells |-> IF c \in S THEN f ELSE cell[c]]
      /\ field' = [field EXCEPT ![f] =
           [AbsentRow EXCEPT !.status = "LIVE", !.cellCount = Cardinality(S), !.weedAt = game]]
  BY DEF CreateField, Plain
<1>2. CellsOf(f) = {} /\ f # NoField
  BY <1>1, FieldsAssumption DEF GeometryAgrees, Live
<1>3. CellsOf(f)' = S
  BY <1>1, <1>2 DEF CellsOf
<1>4. field'[f].status = "LIVE" /\ field'[f].cellCount = Cardinality(S)
  BY <1>1 DEF IInv, TypeOK, AbsentRow
<1>5. \A g \in FieldIds \ {f} : CellsOf(g)' = CellsOf(g) /\ field'[g] = field[g]
  BY <1>1, FieldsAssumption DEF CellsOf, IInv, TypeOK
<1> QED
  BY <1>1, <1>3, <1>4, <1>5 DEF GeometryAgrees, Live

LEMMA ExtendFieldGeometry ==
  ASSUME IInv, GeometryAgrees, NEW f \in FieldIds, NEW S \in SUBSET Cells, ExtendField(f, S)
  PROVE  GeometryAgrees'
<1> DEFINE n == Cardinality(CellsOf(f)) + Cardinality(S)
           m == [field[f] EXCEPT !.cellCount = n]
           r == WriteSettled(field[f], game, m)
<1>1. /\ Live(f) /\ S # {} /\ Contiguous(S) /\ \A c \in S : cell[c] = NoField
      /\ AdjacentTo(S, CellsOf(f)) /\ field' = [field EXCEPT ![f] = r]
      /\ cell' = [c \in Cells |-> IF c \in S THEN f ELSE cell[c]]
  BY DEF ExtendField, Idle, Plain
<1>2. Contiguous(CellsOf(f)) /\ CellsOf(f) \in SUBSET Cells /\ f # NoField
  BY <1>1, FieldsAssumption DEF GeometryAgrees, CellsOf
<1>3. CellsOf(f)' = CellsOf(f) \cup S /\ CellsOf(f) \cap S = {}
  BY <1>1, <1>2 DEF CellsOf
<1>4. Cardinality(CellsOf(f) \cup S) = n
  <2>1. IsFiniteSet(CellsOf(f)) /\ IsFiniteSet(S)
    BY <1>2, CellsFinite
  <2>2. Cardinality({}) = 0
    BY FS_EmptySet
  <2>3. Cardinality(CellsOf(f)) \in Nat /\ Cardinality(S) \in Nat
    BY <2>1, FS_CardinalityType
  <2> QED
    BY <1>3, <2>1, <2>2, <2>3, JoinedCount
<1>5. Contiguous(S \cup CellsOf(f)) /\ S \cup CellsOf(f) = CellsOf(f) \cup S
  BY <1>1, <1>2, Joined
<1>6. r.status = "LIVE" /\ r.cellCount = n
  <2>1. n \in Nat
    BY <1>2, CellsFinite
  <2>2. Good(field[f]) /\ game \in Nat
    BY FieldsAssumption DEF IInv, RowInv, TypeOK
  <2>3. m \in Rows /\ m.status = "LIVE" /\ m.cellCount = n
    BY <1>1, <2>1, <2>2 DEF Good, Rows, Live
  <2> HIDE DEF m, n
  <2> QED
    BY <2>2, <2>3, WriteSettledRow DEF SameField
<1>7. \A g \in FieldIds \ {f} : CellsOf(g)' = CellsOf(g) /\ field'[g] = field[g]
  BY <1>1, FieldsAssumption DEF CellsOf, IInv, TypeOK
<1>8. field'[f].status = "LIVE" /\ field'[f].cellCount = n
  BY <1>1, <1>6 DEF IInv, TypeOK
<1> QED
  BY <1>1, <1>3, <1>4, <1>5, <1>7, <1>8 DEF GeometryAgrees, Live

LEMMA SplitFieldGeometry ==
  ASSUME IInv, GeometryAgrees, NEW f \in FieldIds, NEW g \in FieldIds, NEW S \in SUBSET Cells,
         SplitField(f, g, S)
  PROVE  GeometryAgrees'
<1> DEFINE rest == CellsOf(f) \ S
           half == [field[f] EXCEPT !.cellCount = Cardinality(S)]
           m == [field[f] EXCEPT !.cellCount = Cardinality(rest)]
           original == WriteSettled(field[f], game, m)
<1>1. /\ Live(f) /\ field[g].status = "ABSENT" /\ S # {} /\ S \subseteq CellsOf(f) /\ rest # {}
      /\ Contiguous(S) /\ Contiguous(rest)
      /\ field' = [field EXCEPT ![f] = original, ![g] = half]
      /\ cell' = [c \in Cells |-> IF c \in S THEN g ELSE cell[c]]
  BY DEF SplitField, Idle
<1>2. f # g /\ CellsOf(g) = {}
  BY <1>1 DEF GeometryAgrees, Live
<1>3. CellsOf(f)' = rest /\ CellsOf(g)' = S
  BY <1>1, <1>2 DEF CellsOf
<1>4. Cardinality(S) \in Nat /\ Cardinality(rest) \in Nat
  BY CellsFinite DEF CellsOf
<1>5. Good(field[f]) /\ game \in Nat
  BY FieldsAssumption DEF IInv, RowInv, TypeOK
<1>6. original.status = "LIVE" /\ original.cellCount = Cardinality(rest)
  <2>1. m \in Rows /\ m.status = "LIVE" /\ m.cellCount = Cardinality(rest)
    BY <1>1, <1>4, <1>5 DEF Good, Rows, Live
  <2> HIDE DEF m
  <2> QED
    BY <1>5, <2>1, WriteSettledRow DEF SameField
<1>7. half.status = "LIVE" /\ half.cellCount = Cardinality(S)
  BY <1>1, <1>5 DEF Good, Rows, Live
<1>8. field'[f] = original /\ field'[g] = half
  BY <1>1, <1>2 DEF IInv, TypeOK
<1>9. \A h \in FieldIds \ {f, g} : CellsOf(h)' = CellsOf(h) /\ field'[h] = field[h]
  BY <1>1 DEF CellsOf, IInv, TypeOK
<1> QED
  BY <1>1, <1>3, <1>6, <1>7, <1>8, <1>9 DEF GeometryAgrees, Live

\* The rows a merge leaves: the survivor has the cells of all, the others are gone.
LEMMA MergedRows ==
  ASSUME IInv, NEW F \in SUBSET FieldIds, NEW s \in F, NEW l \in F, MergeFields(F, s, l)
  PROVE  /\ field'[s].status = "LIVE" /\ field'[s].seeded = field[l].seeded
         /\ field'[s].cellCount = Cardinality(UNION {CellsOf(f) : f \in F})
         /\ field'[s].state = Materialized(field[s], game).state
         /\ field'[s].crop = field[s].crop /\ Good(field'[s]) /\ field'[s].weedAt = game
         /\ \A f \in F \ {s} : field'[f].status = "DISPOSED"
         /\ \A f \in FieldIds \ F : field'[f] = field[f]
<1> DEFINE part == [f \in F |-> Materialized(field[f], game)]
           n == Cardinality(UNION {CellsOf(f) : f \in F})
           Merged(mean) == [part[s] EXCEPT !.cellCount = n, !.seeded = field[l].seeded,
                                           !.weed = mean, !.weedAt = game]
<1>1. PICK mean \in Levels :
        field' = [f \in FieldIds |-> IF f = s THEN Merged(mean)
                                    ELSE IF f \in F THEN [part[f] EXCEPT !.status = "DISPOSED"]
                                    ELSE field[f]]
  BY DEF MergeFields
<1>2. game \in Nat /\ s \in FieldIds /\ l \in FieldIds
  BY FieldsAssumption DEF IInv, TypeOK
<1>3. \A f \in F : Good(field[f]) /\ field[f].status = "LIVE"
  BY DEF IInv, RowInv, MergeFields, Idle, Live
<1>4. \A f \in F : Good(part[f]) /\ SameField(field[f], part[f])
  BY <1>2, <1>3, MaterializedRow
<1>5. part[s].state = Materialized(field[s], game).state
  OBVIOUS
<1> HIDE DEF part
<1>6. n \in Nat /\ field[l].seeded \in Nat
  BY <1>3, CellsFinite DEF CellsOf, Good, Rows
<1>7. field'[s] = Merged(mean)
  BY <1>1, <1>2
<1>8. /\ Merged(mean) \in Rows /\ Merged(mean).status = "LIVE" /\ Merged(mean).seeded = field[l].seeded
      /\ Merged(mean).cellCount = n /\ Merged(mean).state = part[s].state
      /\ Merged(mean).crop = field[s].crop /\ Merged(mean).weedAt = game
  BY <1>2, <1>3, <1>4, <1>6 DEF Good, Rows, SameField
<1>9. part[s].state \in Sown => field[s].crop \in Crops
  BY <1>4 DEF Good, SameField
<1>10. \A f \in F \ {s} : field'[f].status = "DISPOSED"
  BY <1>1, <1>4 DEF Good, Rows
<1>11. \A f \in FieldIds \ F : field'[f] = field[f]
  BY <1>1
<1>12. Good(field'[s])
  <2> HIDE DEF Merged
  <2> QED
    BY <1>7, <1>8, <1>9 DEF Good
<1> HIDE DEF Merged
<1> QED
  BY <1>5, <1>7, <1>8, <1>10, <1>11, <1>12

LEMMA Survivor ==
  ASSUME IInv, NEW F \in SUBSET FieldIds, NEW s \in F, NEW l \in F, MergeFields(F, s, l)
  PROVE  /\ field'[s].seeded = field[l].seeded
         /\ field'[s].state = Materialized(field[s], game).state
         /\ field'[s].crop = field[s].crop /\ Good(field'[s]) /\ field'[s].weedAt = game
<1> DEFINE n == Cardinality(UNION {CellsOf(f) : f \in F})
<1>1. /\ field'[s].status = "LIVE" /\ field'[s].seeded = field[l].seeded
      /\ field'[s].cellCount = n
      /\ field'[s].state = Materialized(field[s], game).state
      /\ field'[s].crop = field[s].crop /\ Good(field'[s]) /\ field'[s].weedAt = game
      /\ \A f \in F \ {s} : field'[f].status = "DISPOSED"
      /\ \A f \in FieldIds \ F : field'[f] = field[f]
  BY MergedRows
<1> HIDE DEF n
<1> QED
  BY <1>1

LEMMA MergeFieldsGeometry ==
  ASSUME IInv, GeometryAgrees, NEW F \in SUBSET FieldIds, NEW s \in F, NEW l \in F,
         MergeFields(F, s, l)
  PROVE  GeometryAgrees'
<1> DEFINE cells == UNION {CellsOf(f) : f \in F}
<1>1. /\ cell' = [c \in Cells |-> IF c \in cells THEN s ELSE cell[c]]
      /\ Contiguous(cells) /\ Live(s)
  BY DEF MergeFields, Idle
<1>2. CellsOf(s) # {} /\ CellsOf(s) \subseteq cells
  BY <1>1 DEF GeometryAgrees
<1>3. /\ CellsOf(s)' = cells /\ \A f \in F \ {s} : CellsOf(f)' = {}
      /\ \A f \in FieldIds \ F : CellsOf(f)' = CellsOf(f)
  BY <1>1 DEF CellsOf
<1>4. /\ field'[s].status = "LIVE" /\ field'[s].cellCount = Cardinality(cells)
      /\ \A f \in F \ {s} : field'[f].status = "DISPOSED"
      /\ \A f \in FieldIds \ F : field'[f] = field[f]
  BY MergedRows
<1> HIDE DEF cells
<1> QED
  BY <1>1, <1>2, <1>3, <1>4 DEF GeometryAgrees, Live

LEMMA GeometryNext ==
  ASSUME IInv, GeometryAgrees, [Next]_vars
  PROVE  GeometryAgrees'
<1>1. CASE UNCHANGED <<cell, field>>
  BY <1>1, SameGeometry
<1>2. CASE Apply
  BY <1>2, AdvancePhaseGeometry, CompleteTaskGeometry DEF Apply
<1>3. CASE \E f \in FieldIds, S \in SUBSET Cells : CreateField(f, S) \/ ExtendField(f, S)
  BY <1>3, CreateFieldGeometry, ExtendFieldGeometry
<1>4. CASE \E f, g \in FieldIds, S \in SUBSET Cells : SplitField(f, g, S)
  BY <1>4, SplitFieldGeometry
<1>5. CASE \E F \in SUBSET FieldIds : \E s, l \in F : MergeFields(F, s, l)
  BY <1>5, MergeFieldsGeometry
<1>6. Tick \/ Begin \/ Close \/ UNCHANGED vars => UNCHANGED <<cell, field>>
  BY DEF Tick, Begin, Close, vars, rowVars
<1>7. ASSUME NEW f \in FieldIds, CancelTask(f) \/ \E op \in Operations, k \in Crops \cup {NoCrop} : AssignTask(f, op, k)
      PROVE  UNCHANGED <<cell, field>>
  BY <1>7 DEF CancelTask, AssignTask
<1> QED
  BY <1>1, <1>2, <1>3, <1>4, <1>5, <1>6, <1>7 DEF Next, Request

LEMMA GeometryInit ==
  ASSUME Init
  PROVE  GeometryAgrees
  BY FieldsAssumption DEF Init, GeometryAgrees, Live, CellsOf, AbsentRow

-----------------------------------------------------------------------------
(* Progress: where a field stands in its cycle.                                *)

LEMMA PhaseAt ==
  ASSUME NEW s \in Nat, NEW k \in Crops, NEW t \in Nat
  PROVE  /\ CropPhase(s, t, k) = "SEEDED" <=> t < Boundary("SEEDED", s, k)
         /\ CropPhase(s, t, k) = "GERMINATING"
              <=> Boundary("SEEDED", s, k) <= t /\ t < Boundary("GERMINATING", s, k)
         /\ CropPhase(s, t, k) = "GROWING"
              <=> Boundary("GERMINATING", s, k) <= t /\ t < Boundary("GROWING", s, k)
         /\ CropPhase(s, t, k) = "READY_TO_HARVEST" <=> Boundary("GROWING", s, k) <= t
<1>1. /\ Boundary("SEEDED", s, k) \in Nat /\ Boundary("GERMINATING", s, k) \in Nat
      /\ Boundary("GROWING", s, k) \in Nat
      /\ Boundary("SEEDED", s, k) < Boundary("GERMINATING", s, k)
      /\ Boundary("GERMINATING", s, k) < Boundary("GROWING", s, k)
  BY Boundaries DEF Timed
<1> QED
  BY <1>1 DEF CropPhase

\* A row that is not ahead, brought up to t, stands in the phase that is projected at t
\* and has its boundary still before it.
LEMMA UpToDate ==
  ASSUME NEW r, Good(r), NEW t \in Nat, r.state \in Sown => Entered(r) <= t
  PROVE  LET m == Materialized(r, t)
         IN /\ m.state = Projected(r, t)
            /\ m.state \in Timed => r.state \in Timed /\ t < Boundary(m.state, m.seeded, m.crop)
<1> DEFINE r1 == Cross(r, "SEEDED", t)
           r2 == Cross(r1, "GERMINATING", t)
           r3 == Cross(r2, "GROWING", t)
           B(p) == Boundary(p, r.seeded, r.crop)
<1>0. "SEEDED" \in Timed /\ "GERMINATING" \in Timed /\ "GROWING" \in Timed
  BY DEF Timed
<1>1. /\ Good(r1) /\ SameField(r, r1)
      /\ r.state = "SEEDED" /\ B("SEEDED") <= t => r1.state = NextTimed("SEEDED")
      /\ ~(r.state = "SEEDED" /\ B("SEEDED") <= t) => r1 = r
  BY <1>0, CrossRow
<1>2. /\ Good(r2) /\ SameField(r1, r2)
      /\ r1.state = "GERMINATING" /\ B("GERMINATING") <= t => r2.state = NextTimed("GERMINATING")
      /\ ~(r1.state = "GERMINATING" /\ B("GERMINATING") <= t) => r2 = r1
  BY <1>0, <1>1, CrossRow DEF SameField
<1>3. /\ Good(r3) /\ SameField(r2, r3)
      /\ r2.state = "GROWING" /\ B("GROWING") <= t => r3.state = NextTimed("GROWING")
      /\ ~(r2.state = "GROWING" /\ B("GROWING") <= t) => r3 = r2
  BY <1>0, <1>1, <1>2, CrossRow DEF SameField
<1>4. Materialized(r, t) = r3
  BY DEF Materialized
<1>5. r3.seeded = r.seeded /\ r3.crop = r.crop
  BY <1>1, <1>2, <1>3 DEF SameField
<1>6. /\ NextTimed("SEEDED") = "GERMINATING" /\ NextTimed("GERMINATING") = "GROWING"
      /\ NextTimed("GROWING") = "READY_TO_HARVEST"
  BY DEF NextTimed
<1>7. CASE r.state \notin Timed
  BY <1>0, <1>1, <1>2, <1>3, <1>4, <1>7 DEF Projected
<1>8. CASE r.state \in Timed
  <2>1. r.seeded \in Nat /\ r.crop \in Crops
    BY <1>8 DEF Good, Rows, Sown
  <2>2. /\ B("SEEDED") \in Nat /\ B("GERMINATING") \in Nat /\ B("GROWING") \in Nat
        /\ B("SEEDED") < B("GERMINATING") /\ B("GERMINATING") < B("GROWING")
    BY <1>0, <2>1, Boundaries
  <2>3. /\ r.state = "GERMINATING" => B("SEEDED") <= t
        /\ r.state = "GROWING" => B("GERMINATING") <= t
    BY <1>8 DEF Entered, Sown
  <2>4. Projected(r, t) = CropPhase(r.seeded, t, r.crop)
    BY <1>8 DEF Projected
  <2> HIDE DEF r1, r2, r3, B
  <2>5. /\ r3.state = "SEEDED" => t < B("SEEDED")
        /\ r3.state = "GERMINATING" => B("SEEDED") <= t /\ t < B("GERMINATING")
        /\ r3.state = "GROWING" => B("GERMINATING") <= t /\ t < B("GROWING")
        /\ r3.state = "READY_TO_HARVEST" => B("GROWING") <= t
        /\ r3.state \in {"SEEDED", "GERMINATING", "GROWING", "READY_TO_HARVEST"}
    <3>1. CASE r.state = "SEEDED"
      BY <1>1, <1>2, <1>3, <1>6, <2>2, <3>1
    <3>2. CASE r.state = "GERMINATING"
      BY <1>1, <1>2, <1>3, <1>6, <2>2, <2>3, <3>2
    <3>3. CASE r.state = "GROWING"
      BY <1>1, <1>2, <1>3, <1>6, <2>2, <2>3, <3>3
    <3> QED
      BY <1>8, <3>1, <3>2, <3>3 DEF Timed
  <2>6. r3.state = CropPhase(r.seeded, t, r.crop)
    BY <2>1, <2>5, PhaseAt DEF B
  <2>7. r3.state \in Timed => t < Boundary(r3.state, r3.seeded, r3.crop)
    BY <1>5, <2>5 DEF B, Timed
  <2> QED
    BY <1>4, <1>8, <2>4, <2>6, <2>7
<1> QED
  BY <1>7, <1>8

\* The phase a merge leaves its cells in is the one each of its fields was in.
LEMMA MergedPhase ==
  ASSUME IInv, NEW F \in SUBSET FieldIds, NEW s \in F, NEW l \in F, MergeFields(F, s, l),
         NEW f \in F
  PROVE  /\ Projected(field'[s], game) = Projected(field[f], game)
         /\ field'[s].crop = field[f].crop /\ field'[s].seeded >= field[f].seeded
         /\ field'[s].state = Materialized(field[f], game).state
         /\ field'[s].state \in Timed => game < Boundary(field'[s].state, field'[s].seeded, field'[s].crop)
         /\ field'[s].state \in Sown => Entered(field'[s]) <= game
<1>1. game \in Nat /\ f \in FieldIds /\ l \in FieldIds /\ s \in FieldIds
  BY FieldsAssumption DEF IInv, TypeOK
<1>2. \A g \in F : /\ Live(g) /\ field[g].seeded <= field[l].seeded
                   /\ Materialized(field[g], game).state = Materialized(field[s], game).state
                   /\ Materialized(field[g], game).crop = Materialized(field[s], game).crop
  BY DEF MergeFields, Idle, LatestSown
<1>3. \A g \in F : /\ Good(field[g]) /\ (field[g].state \in Sown => Entered(field[g]) <= game)
                   /\ SameField(field[g], Materialized(field[g], game))
                   /\ Materialized(field[g], game).state \in Sown
                        => Entered(Materialized(field[g], game)) <= game
  <2>1. TAKE g \in F
  <2>2. RowInv(field[g], alarm[g], task[g], game) /\ field[g].status = "LIVE"
    BY <1>2 DEF IInv, Live
  <2> QED
    BY <1>1, <2>2, BroughtUp DEF RowInv
<1>4. \A g \in F : LET m == Materialized(field[g], game)
                   IN /\ m.state = Projected(field[g], game)
                      /\ m.state \in Timed =>
                           field[g].state \in Timed /\ game < Boundary(m.state, m.seeded, m.crop)
  BY <1>1, <1>3, UpToDate
<1> DEFINE m == Materialized(field[l], game)
           v == field'[s]
<1>5. /\ v.state = m.state /\ v.crop = field[s].crop /\ v.seeded = field[l].seeded
  <2> HIDE DEF m, v
  <2>1. /\ field'[s].state = Materialized(field[s], game).state /\ field'[s].crop = field[s].crop
        /\ field'[s].seeded = field[l].seeded
    BY Survivor
  <2> QED
    BY <1>2, <2>1 DEF m, v
<1>6. \A g \in F : field[g].crop = field[s].crop
  BY <1>2, <1>3 DEF SameField
<1>7. v.crop = m.crop /\ v.seeded = m.seeded /\ m.crop = field[l].crop /\ m.seeded = field[l].seeded
  BY <1>3, <1>5, <1>6 DEF SameField
<1>8. Projected(v, game) = m.state
  <2>1. CASE v.state \in Timed
    <3>1. Projected(field[l], game) = CropPhase(field[l].seeded, game, field[l].crop)
      BY <1>4, <1>5, <2>1 DEF Projected
    <3> QED
      BY <1>4, <1>5, <1>7, <2>1, <3>1 DEF Projected
  <2>2. CASE v.state \notin Timed
    BY <1>5, <2>2 DEF Projected
  <2> QED
    BY <2>1, <2>2
<1>9. m.state = Materialized(field[f], game).state /\ m.state = Projected(field[f], game)
  BY <1>2, <1>4
<1>10. field[l].seeded \in Nat /\ field[f].seeded \in Nat /\ field[f].seeded <= field[l].seeded
  BY <1>2, <1>3 DEF Good, Rows
<1>11. v.state \in Timed => game < Boundary(v.state, v.seeded, v.crop)
  BY <1>4, <1>5, <1>7
<1>12. v.state \in Sown => Entered(v) <= game
  BY <1>3, <1>5, <1>7 DEF Entered
<1> HIDE DEF m, v
<1> QED
  BY <1>5, <1>6, <1>8, <1>9, <1>10, <1>11, <1>12 DEF v

\* A row resized in place: another count, and its weeds settled or not.
LEMMA ResizedProgress ==
  ASSUME NEW r, Good(r), NEW t \in Nat, NEW n \in Nat
  PROVE  LET m == [r EXCEPT !.cellCount = n]
             s == WriteSettled(r, t, m)
         IN /\ m.state = r.state /\ m.crop = r.crop /\ m.seeded = r.seeded /\ m.status = r.status
            /\ s.state = r.state /\ s.crop = r.crop /\ s.seeded = r.seeded /\ s.status = r.status
            /\ m.weed = r.weed /\ m.weedAt = r.weedAt
            /\ s.weed = SettledWeed(r, t) /\ s.weedAt = t
<1>1. [r EXCEPT !.cellCount = n] \in Rows
  BY DEF Good, Rows
<1> QED
  BY <1>1 DEF WriteSettled, Good, Rows

LEMMA SamePhase ==
  ASSUME NEW r, NEW s, s.state = r.state, s.crop = r.crop, s.seeded = r.seeded, NEW t
  PROVE  Projected(s, t) = Projected(r, t)
  BY DEF Projected

Progress ==
  \A c \in Cells :
    cell' # cell /\ cell[c] # NoField /\ cell'[c] # NoField =>
      /\ PhaseOfCell(c)' = PhaseOfCell(c)
      /\ field'[cell'[c]].crop = field[cell[c]].crop
      /\ field'[cell'[c]].seeded >= field[cell[c]].seeded

LEMMA ProgressNext ==
  ASSUME IInv, GeometryAgrees, [Next]_vars
  PROVE  Progress
<1>1. CASE cell' = cell
  BY <1>1 DEF Progress
<1>2. /\ game \in Nat /\ cell \in [Cells -> FieldIds \cup {NoField}] /\ field \in [FieldIds -> Rows]
      /\ \A g \in FieldIds : field[g].seeded \in Nat /\ Good(field[g])
  BY FieldsAssumption DEF IInv, TypeOK, RowInv, Rows
<1>3. ASSUME NEW f \in FieldIds, NEW S \in SUBSET Cells, CreateField(f, S)
      PROVE  Progress
  <2>1. /\ field[f].status = "ABSENT" /\ \A c \in S : cell[c] = NoField
        /\ cell' = [c \in Cells |-> IF c \in S THEN f ELSE cell[c]]
        /\ \A g \in FieldIds \ {f} : field'[g] = field[g]
        /\ game' = game
    BY <1>2, <1>3 DEF CreateField, Plain
  <2>2. \A c \in Cells : cell[c] # f
    BY <2>1 DEF GeometryAgrees, Live, CellsOf
  <2>3. \A c \in Cells : cell[c] # NoField => cell'[c] = cell[c] /\ field'[cell[c]] = field[cell[c]]
    BY <1>2, <2>1, <2>2
  <2>4. \A c \in Cells : cell[c] # NoField => field[cell[c]].seeded \in Nat
    BY <1>2
  <2> QED
    BY <2>1, <2>3, <2>4 DEF Progress, PhaseOfCell
<1>4. ASSUME NEW f \in FieldIds, NEW S \in SUBSET Cells, ExtendField(f, S)
      PROVE  Progress
  <2> DEFINE n == Cardinality(CellsOf(f)) + Cardinality(S)
             r == WriteSettled(field[f], game, [field[f] EXCEPT !.cellCount = n])
  <2>1. /\ \A c \in S : cell[c] = NoField /\ game' = game
        /\ cell' = [c \in Cells |-> IF c \in S THEN f ELSE cell[c]]
        /\ field' = [field EXCEPT ![f] = r]
    BY <1>4 DEF ExtendField, Plain
  <2>2. n \in Nat
    BY CellsFinite DEF CellsOf
  <2>3. r.state = field[f].state /\ r.crop = field[f].crop /\ r.seeded = field[f].seeded
    BY <1>2, <2>2, ResizedProgress
  <2> HIDE DEF r
  <2>4. \A g \in FieldIds : /\ field'[g].state = field[g].state /\ field'[g].crop = field[g].crop
                            /\ field'[g].seeded = field[g].seeded
    BY <1>2, <2>1, <2>3
  <2>5. \A c \in Cells : cell[c] # NoField => cell'[c] = cell[c] /\ cell[c] \in FieldIds
    BY <1>2, <2>1
  <2>6. game' = game
    BY <1>4 DEF ExtendField
  <2> QED
    BY <1>2, <2>4, <2>5, <2>6, SamePhase DEF Progress, PhaseOfCell
<1>5. ASSUME NEW f \in FieldIds, NEW g \in FieldIds, NEW S \in SUBSET Cells, SplitField(f, g, S)
      PROVE  Progress
  <2> DEFINE rest == CellsOf(f) \ S
             half == [field[f] EXCEPT !.cellCount = Cardinality(S)]
             original == WriteSettled(field[f], game, [field[f] EXCEPT !.cellCount = Cardinality(rest)])
  <2>1. /\ field[f].status = "LIVE" /\ field[g].status = "ABSENT" /\ S \subseteq CellsOf(f) /\ game' = game
        /\ cell' = [c \in Cells |-> IF c \in S THEN g ELSE cell[c]]
        /\ field' = [field EXCEPT ![f] = original, ![g] = half]
    BY <1>5 DEF SplitField, Idle, Live
  <2>2. Cardinality(S) \in Nat /\ Cardinality(rest) \in Nat
    BY CellsFinite DEF CellsOf
  <2>3. /\ half.state = field[f].state /\ half.crop = field[f].crop /\ half.seeded = field[f].seeded
        /\ original.state = field[f].state /\ original.crop = field[f].crop
        /\ original.seeded = field[f].seeded
    BY <1>2, <2>2, ResizedProgress
  <2> HIDE DEF half, original
  <2>4. f # g /\ field'[f] = original /\ field'[g] = half
        /\ \A h \in FieldIds \ {f, g} : field'[h] = field[h]
    BY <1>2, <2>1
  <2>5. \A c \in Cells : cell[c] # g
    BY <2>1 DEF GeometryAgrees, Live, CellsOf
  <2>6. \A c \in Cells : cell[c] # NoField =>
          /\ field'[cell'[c]].state = field[cell[c]].state /\ field'[cell'[c]].crop = field[cell[c]].crop
          /\ field'[cell'[c]].seeded = field[cell[c]].seeded
    <3> TAKE c \in Cells
    <3>1. CASE c \in S
      <4>1. cell[c] = f /\ cell'[c] = g
        BY <2>1, <3>1 DEF CellsOf
      <4> QED
        BY <2>3, <2>4, <4>1
    <3>2. CASE c \notin S
      <4>1. cell'[c] = cell[c]
        BY <2>1, <3>2
      <4> QED
        BY <1>2, <2>3, <2>4, <2>5, <4>1
    <3> QED
      BY <3>1, <3>2
  <2>7. \A c \in Cells : cell[c] # NoField => field[cell[c]].seeded \in Nat
    BY <1>2
  <2>8. \A c \in Cells : cell[c] # NoField =>
          Projected(field'[cell'[c]], game) = Projected(field[cell[c]], game)
    BY <2>6, SamePhase
  <2>9. game' = game
    BY <2>1
  <2> QED
    BY <2>6, <2>7, <2>8, <2>9 DEF Progress, PhaseOfCell
<1>6. ASSUME NEW F \in SUBSET FieldIds, NEW s \in F, NEW l \in F, MergeFields(F, s, l)
      PROVE  Progress
  <2>1. /\ cell' = [c \in Cells |-> IF c \in UNION {CellsOf(f) : f \in F} THEN s ELSE cell[c]]
        /\ game' = game
    BY <1>6 DEF MergeFields
  <2>2. \A f \in FieldIds \ F : field'[f] = field[f]
    BY <1>6, MergedRows
  <2>3. \A f \in F : /\ Projected(field'[s], game) = Projected(field[f], game)
                     /\ field'[s].crop = field[f].crop /\ field'[s].seeded >= field[f].seeded
    BY <1>6, MergedPhase
  <2>4. ASSUME NEW c \in Cells, cell[c] # NoField
        PROVE  /\ Projected(field'[cell'[c]], game) = Projected(field[cell[c]], game)
               /\ field'[cell'[c]].crop = field[cell[c]].crop
               /\ field'[cell'[c]].seeded >= field[cell[c]].seeded
    <3>1. CASE cell[c] \in F
      <4>1. cell'[c] = s
        BY <2>1, <3>1 DEF CellsOf
      <4> QED
        BY <2>3, <3>1, <4>1
    <3>2. CASE cell[c] \notin F
      <4>1. cell'[c] = cell[c]
        BY <2>1, <3>2 DEF CellsOf
      <4> QED
        BY <1>2, <2>2, <2>4, <3>2, <4>1
    <3> QED
      BY <3>1, <3>2
  <2> QED
    BY <2>1, <2>4 DEF Progress, PhaseOfCell
<1>7. \/ cell' = cell
      \/ \E f \in FieldIds, S \in SUBSET Cells : CreateField(f, S) \/ ExtendField(f, S)
      \/ \E f, g \in FieldIds, S \in SUBSET Cells : SplitField(f, g, S)
      \/ \E F \in SUBSET FieldIds : \E s, l \in F : MergeFields(F, s, l)
  <2>1. ASSUME NEW e \in batch, AdvancePhase(e) \/ CompleteTask(e) PROVE cell' = cell
    BY <2>1 DEF AdvancePhase, CompleteTask
  <2>2. ASSUME NEW f \in FieldIds, CancelTask(f) \/ \E op \in Operations, k \in Crops \cup {NoCrop} : AssignTask(f, op, k)
        PROVE  cell' = cell
    BY <2>2 DEF CancelTask, AssignTask
  <2>3. Tick \/ Begin \/ Close \/ UNCHANGED vars => cell' = cell
    BY DEF Tick, Begin, Close, vars, rowVars
  <2> QED
    BY <2>1, <2>2, <2>3 DEF Next, Apply, Request
<1> QED
  BY <1>1, <1>3, <1>4, <1>5, <1>6, <1>7

-----------------------------------------------------------------------------
(* Weeds: what a row owes to the history of its field.                         *)

\* The level of a row r of a live field is what level w of instant a became on the way to
\* the instant the row was last settled at, which is behind the clock t; a row still
\* before GROWING was settled before weeds began to grow.
PunctualRow(r, w, a, t) ==
    /\ r.state \notin Sown => r.weed = w
    /\ r.state = "READY_TO_HARVEST" =>
         r.weed = WeedAcross(r, w, a, Boundary("GROWING", r.seeded, r.crop))
    /\ r.state \in Timed =>
         /\ a <= r.weedAt /\ r.weedAt <= t /\ a <= Boundary(r.state, r.seeded, r.crop)
         /\ r.weed = WeedAcross(r, w, a, r.weedAt)
         /\ r.state # "GROWING" => r.weedAt <= Boundary("GERMINATING", r.seeded, r.crop)

\* The task over a sown field is a harvest that is due after the crop came of age.
HarvestAfter(r, k) ==
    k # NoTask /\ r.state \in Sown => Boundary("GROWING", r.seeded, r.crop) <= k.due

\* What a field owes: row r, task k, true level h, the field written behind or not.
FieldHistory(r, k, h, behind, t) ==
    r.status = "LIVE" =>
      /\ HarvestAfter(r, k)
      /\ ~behind => PunctualRow(r, h.weed, h.at, t)
WeedsInv ==
    \A f \in FieldIds : FieldHistory(field[f], task[f], true[f], f \in torn, game)

Accrued(m, lo, hi, v, b, c) == Smaller(m, v + Larger(0, Smaller(c, hi) - Larger(b, lo)))

LEMMA AcrossFacts ==
  ASSUME NEW r, Good(r), r.state \in Sown, NEW w \in Levels, NEW a \in Nat, NEW t \in Nat, NEW u \in Nat
  PROVE  /\ a <= t /\ t <= u => WeedAcross(r, WeedAcross(r, w, a, t), t, u) = WeedAcross(r, w, a, u)
         /\ u <= t => WeedAcross(r, w, t, u) = w
         /\ t <= Boundary("GERMINATING", r.seeded, r.crop) => WeedAcross(r, w, a, t) = w
         /\ Boundary("GROWING", r.seeded, r.crop) <= t =>
              WeedAcross(r, w, a, t) = WeedAcross(r, w, a, Boundary("GROWING", r.seeded, r.crop))
<1> DEFINE lo == Boundary("GERMINATING", r.seeded, r.crop)
           hi == Boundary("GROWING", r.seeded, r.crop)
<1>1. r.seeded \in Nat /\ r.crop \in Crops /\ WeedMax \in Nat /\ w \in 0 .. WeedMax
  BY FieldsAssumption DEF Good, Rows, Levels
<1>2. lo \in Nat /\ hi \in Nat /\ lo <= hi
  BY <1>1, Boundaries DEF Timed
<1>3. \A v, b, c : WeedAcross(r, v, b, c) = Accrued(WeedMax, lo, hi, v, b, c)
  BY DEF WeedAcross, Accrued
<1> HIDE DEF lo, hi
<1>4. /\ a <= t /\ t <= u =>
           Accrued(WeedMax, lo, hi, Accrued(WeedMax, lo, hi, w, a, t), t, u)
             = Accrued(WeedMax, lo, hi, w, a, u)
      /\ u <= t => Accrued(WeedMax, lo, hi, w, t, u) = w
      /\ t <= lo => Accrued(WeedMax, lo, hi, w, a, t) = w
      /\ hi <= t => Accrued(WeedMax, lo, hi, w, a, t) = Accrued(WeedMax, lo, hi, w, a, hi)
  BY <1>1, <1>2 DEF Accrued, Smaller, Larger
<1>5. /\ a <= t /\ t <= u => WeedAcross(r, WeedAcross(r, w, a, t), t, u) = WeedAcross(r, w, a, u)
      /\ u <= t => WeedAcross(r, w, t, u) = w
      /\ t <= lo => WeedAcross(r, w, a, t) = w
      /\ hi <= t => WeedAcross(r, w, a, t) = WeedAcross(r, w, a, hi)
  BY <1>3, <1>4
<1> QED
  BY <1>5 DEF lo, hi

\* The timeline of a row is its sowing and its crop.
LEMMA SameTimeline ==
  ASSUME NEW r, NEW s, s.seeded = r.seeded, s.crop = r.crop
  PROVE  \A w, a, t : WeedAcross(s, w, a, t) = WeedAcross(r, w, a, t)
  BY DEF WeedAcross

\* Crossing a boundary at its own instant, however late, keeps a row punctual.
LEMMA CrossPunctual ==
  ASSUME NEW r, Good(r), NEW w \in Levels, NEW a \in Nat, NEW p \in Timed,
         NEW t \in Nat, NEW g \in Nat, t <= g, PunctualRow(r, w, a, g)
  PROVE  PunctualRow(Cross(r, p, t), w, a, g)
<1>1. CASE ~(r.state = p /\ Boundary(p, r.seeded, r.crop) <= t)
  <2>1. Cross(r, p, t) = r
    BY <1>1, CrossRow
  <2> QED
    BY <2>1
<1>2. CASE r.state = p /\ Boundary(p, r.seeded, r.crop) <= t
  <2> DEFINE b == Boundary(p, r.seeded, r.crop)
             lo == Boundary("GERMINATING", r.seeded, r.crop)
             hi == Boundary("GROWING", r.seeded, r.crop)
             s == Cross(r, p, t)
  <2> SUFFICES PunctualRow(s, w, a, g)
    OBVIOUS
  <2>1. r.state \in Sown /\ r.seeded \in Nat /\ r.crop \in Crops /\ r.weed \in Levels /\ r.weedAt \in Nat
    BY <1>2 DEF Good, Rows, Sown
  <2>2. /\ b \in Nat /\ lo \in Nat /\ hi \in Nat /\ lo < hi
        /\ Boundary("SEEDED", r.seeded, r.crop) \in Nat /\ Boundary("SEEDED", r.seeded, r.crop) < lo
    BY <2>1, Boundaries DEF Timed
  <2>3. /\ s.state = NextTimed(p) /\ s.seeded = r.seeded /\ s.crop = r.crop
        /\ s.weed = WeedAcross(r, r.weed, r.weedAt, b) /\ s.weedAt = b
    <3>1. s = WriteSettled(r, b, [r EXCEPT !.state = NextTimed(p)])
      BY <1>2 DEF Cross
    <3>2. SettledWeed(r, b) = WeedAcross(r, r.weed, r.weedAt, b)
      BY <1>2 DEF SettledWeed
    <3> HIDE DEF s, b
    <3> QED
      BY <3>1, <3>2 DEF WriteSettled, Good, Rows
  <2>4. /\ a <= r.weedAt /\ r.weedAt <= g /\ a <= b /\ r.weed = WeedAcross(r, w, a, r.weedAt)
        /\ p # "GROWING" => r.weedAt <= lo
    BY <1>2 DEF PunctualRow
  <2>5. b <= g /\ (p = "GERMINATING" => b = lo) /\ (p = "GROWING" => b = hi)
        /\ (p = "SEEDED" => b < lo)
    BY <1>2, <2>2
  <2> HIDE DEF b, lo, hi, s
  <2>6. WeedAcross(r, r.weed, r.weedAt, b) = WeedAcross(r, w, a, b)
    <3>1. CASE r.weedAt <= b
      BY <2>1, <2>2, <2>4, <3>1, AcrossFacts
    <3>2. CASE b < r.weedAt
      <4>1. WeedAcross(r, r.weed, r.weedAt, b) = r.weed
        BY <2>1, <2>2, <3>2, AcrossFacts
      <4>2. CASE p = "SEEDED"
        <5>1. WeedAcross(r, w, a, r.weedAt) = w /\ WeedAcross(r, w, a, b) = w
          BY <2>1, <2>2, <2>4, <2>5, <4>2, AcrossFacts DEF lo
        <5> QED
          BY <2>4, <4>1, <5>1
      <4>3. CASE p = "GERMINATING"
        BY <2>1, <2>2, <2>4, <2>5, <3>2, <4>3
      <4>4. CASE p = "GROWING"
        <5>1. hi <= r.weedAt
          BY <2>1, <2>2, <2>5, <3>2, <4>4
        <5>2. WeedAcross(r, w, a, r.weedAt) = WeedAcross(r, w, a, hi)
          BY <2>1, <2>2, <5>1, AcrossFacts DEF hi
        <5> QED
          BY <2>4, <2>5, <4>1, <4>4, <5>2
      <4> QED
        BY <4>2, <4>3, <4>4 DEF Timed
    <3> QED
      BY <2>1, <2>2, <3>1, <3>2
  <2>7. /\ s.weed = WeedAcross(s, w, a, s.weedAt) /\ s.weedAt = b
        /\ WeedAcross(s, w, a, b) = WeedAcross(r, w, a, b)
        /\ Boundary("GERMINATING", s.seeded, s.crop) = lo /\ Boundary("GROWING", s.seeded, s.crop) = hi
    BY <2>3, <2>6, SameTimeline DEF lo, hi
  <2>8. CASE p = "SEEDED"
    <3>1. s.state = "GERMINATING" /\ a <= lo /\ b <= lo
      BY <2>2, <2>3, <2>4, <2>5, <2>8 DEF NextTimed
    <3> QED
      BY <2>4, <2>5, <2>7, <3>1 DEF PunctualRow, Sown, Timed
  <2>9. CASE p = "GERMINATING"
    <3>1. s.state = "GROWING" /\ a <= hi
      BY <2>2, <2>3, <2>4, <2>5, <2>9 DEF NextTimed
    <3> QED
      BY <2>4, <2>5, <2>7, <3>1 DEF PunctualRow, Sown, Timed
  <2>10. CASE p = "GROWING"
    <3>1. s.state = "READY_TO_HARVEST" /\ b = hi
      BY <2>3, <2>5, <2>10 DEF NextTimed
    <3> QED
      BY <2>7, <3>1 DEF PunctualRow, Sown, Timed
  <2> QED
    BY <2>8, <2>9, <2>10 DEF Timed
<1> QED
  BY <1>1, <1>2

LEMMA MaterializedPunctual ==
  ASSUME NEW r, Good(r), NEW w \in Levels, NEW a \in Nat, NEW t \in Nat, NEW g \in Nat, t <= g,
         PunctualRow(r, w, a, g)
  PROVE  PunctualRow(Materialized(r, t), w, a, g)
<1> DEFINE r1 == Cross(r, "SEEDED", t)
           r2 == Cross(r1, "GERMINATING", t)
<1>0. "SEEDED" \in Timed /\ "GERMINATING" \in Timed /\ "GROWING" \in Timed
  BY DEF Timed
<1>1. Good(r1) /\ PunctualRow(r1, w, a, g)
  BY <1>0, CrossRow, CrossPunctual
<1> HIDE DEF r1
<1>2. Good(r2) /\ PunctualRow(r2, w, a, g)
  BY <1>0, <1>1, CrossRow, CrossPunctual
<1> HIDE DEF r2
<1>3. PunctualRow(Cross(r2, "GROWING", t), w, a, g)
  BY <1>0, <1>2, CrossPunctual
<1> QED
  BY <1>3 DEF Materialized, r1, r2

\* Settled at an instant u it was not settled after, a punctual row has the true level.
LEMMA SettledPunctual ==
  ASSUME NEW r, Good(r), NEW w \in Levels, NEW a \in Nat, NEW u \in Nat, NEW g \in Nat,
         PunctualRow(r, w, a, g),
         r.state \in Timed => r.weedAt <= u,
         r.state = "READY_TO_HARVEST" => Boundary("GROWING", r.seeded, r.crop) <= u
  PROVE  SettledWeed(r, u) = IF r.state \in Sown THEN WeedAcross(r, w, a, u) ELSE w
<1>1. r.weed \in Levels /\ r.weedAt \in Nat
  BY DEF Good, Rows
<1>2. CASE r.state \in Timed
  <2>1. r.state \in Sown
    BY <1>2 DEF Sown
  <2>2. a <= r.weedAt /\ r.weed = WeedAcross(r, w, a, r.weedAt)
    BY <1>2 DEF PunctualRow
  <2>3. WeedAcross(r, r.weed, r.weedAt, u) = WeedAcross(r, w, a, u)
    BY <1>1, <1>2, <2>1, <2>2, AcrossFacts
  <2> QED
    BY <1>2, <2>1, <2>3 DEF SettledWeed
<1>3. CASE r.state = "READY_TO_HARVEST"
  <2>1. r.state \in Sown /\ r.state \notin Timed
    BY <1>3 DEF Sown, Timed
  <2>2. r.weed = WeedAcross(r, w, a, u)
    BY <1>3, <2>1, AcrossFacts DEF PunctualRow
  <2> QED
    BY <2>1, <2>2 DEF SettledWeed
<1>4. CASE r.state \notin Sown
  BY <1>4 DEF SettledWeed, PunctualRow, Sown
<1> QED
  BY <1>2, <1>3, <1>4 DEF Sown

LEMMA RowTypes ==
  ASSUME IInv
  PROVE  /\ game \in Nat /\ field \in [FieldIds -> Rows] /\ task \in [FieldIds -> Tasks]
         /\ true \in [FieldIds -> [weed : Levels, at : Nat]] /\ torn \subseteq FieldIds
         /\ \A f \in FieldIds : /\ Good(field[f]) /\ true[f].weed \in Levels /\ true[f].at \in Nat
                                /\ field[f].status = "LIVE" /\ field[f].state \in Sown
                                     => Entered(field[f]) <= game
                                /\ RowInv(field[f], alarm[f], task[f], game)
  BY FieldsAssumption DEF IInv, TypeOK, RowInv

\* Steps that write no field: time passes, or a task ends unworked.
LEMMA WeedsWait ==
  ASSUME IInv, WeedsInv, UNCHANGED <<field, true, torn>>, game' \in Nat, game <= game',
         \A f \in FieldIds : task'[f] \in {task[f], NoTask}
  PROVE  WeedsInv'
<1>1. ASSUME NEW f \in FieldIds PROVE FieldHistory(field'[f], task'[f], true'[f], f \in torn', game')
  <2>1. /\ FieldHistory(field[f], task[f], true[f], f \in torn, game)
        /\ field[f].weedAt \in Nat /\ game \in Nat
    BY RowTypes DEF WeedsInv, Good, Rows
  <2>2. \A w, a : PunctualRow(field[f], w, a, game) => PunctualRow(field[f], w, a, game')
    BY <2>1 DEF PunctualRow
  <2> QED
    BY <2>1, <2>2 DEF FieldHistory, HarvestAfter
<1> QED
  BY <1>1 DEF WeedsInv

\* A step that writes one field and leaves the others.
LEMMA WeedsOfOne ==
  ASSUME WeedsInv, NEW f \in FieldIds, game' = game,
         FieldHistory(field'[f], task'[f], true'[f], f \in torn', game),
         \A g \in FieldIds \ {f} : /\ field'[g] = field[g] /\ task'[g] = task[g]
                                   /\ true'[g] = true[g] /\ (g \in torn' <=> g \in torn)
  PROVE  WeedsInv'
<1>1. ASSUME NEW g \in FieldIds \ {f} PROVE FieldHistory(field'[g], task'[g], true'[g], g \in torn', game')
  <2>1. FieldHistory(field[g], task[g], true[g], g \in torn, game)
    BY DEF WeedsInv
  <2> QED
    BY <2>1 DEF FieldHistory
<1> QED
  BY <1>1 DEF WeedsInv

LEMMA AdvancePhaseWeeds ==
  ASSUME IInv, WeedsInv, NEW e, AdvancePhase(e)
  PROVE  WeedsInv'
<1> DEFINE f == e.field
           r == field[f]
           m == Materialized(r, e.due)
<1>1. f \in FieldIds /\ e.due \in Nat /\ e.due <= game
  BY AppliedEvent DEF AdvancePhase
<1>2. field' = [field EXCEPT ![f] = m] /\ UNCHANGED <<game, task, true, torn>>
  BY DEF AdvancePhase, historyVars
<1>3. /\ game \in Nat /\ Good(r) /\ true[f].weed \in Levels /\ true[f].at \in Nat
      /\ field \in [FieldIds -> Rows] /\ FieldHistory(r, task[f], true[f], f \in torn, game)
  BY <1>1, RowTypes DEF WeedsInv
<1>4. /\ SameField(r, m) /\ (r.state \notin Timed => m = r)
  BY <1>1, <1>3, MaterializedRow
<1>5. PunctualRow(r, true[f].weed, true[f].at, game) => PunctualRow(m, true[f].weed, true[f].at, game)
  BY <1>1, <1>3, MaterializedPunctual
<1> HIDE DEF m
<1>6. HarvestAfter(r, task[f]) => HarvestAfter(m, task[f])
  BY <1>4 DEF HarvestAfter, SameField, Sown
<1>7. FieldHistory(m, task[f], true[f], f \in torn, game)
  BY <1>3, <1>4, <1>5, <1>6 DEF FieldHistory, SameField
<1>8. field'[f] = m /\ \A g \in FieldIds \ {f} : field'[g] = field[g]
  BY <1>1, <1>2, <1>3
<1> QED
  BY <1>1, <1>2, <1>7, <1>8, WeedsOfOne

\* The row an operation leaves, and its weeds.
LEMMA WorkedWeeds ==
  ASSUME NEW r, Good(r), NEW t \in Nat, NEW op \in Operations, NEW k \in Crops \cup {NoCrop},
         op = "SEED" => k \in Crops, r.state \notin Timed
  PROVE  LET w == Worked(r, op, k, t)
         IN /\ op = "CULTIVATE" => w.state = "CULTIVATED" /\ w.weed = 0
            /\ op # "CULTIVATE" => w.weed = r.weed
            /\ op = "SEED" => w.state = "SEEDED" /\ w.seeded = t /\ w.weedAt = t
            /\ op # "SEED" => w.state \notin Sown
<1> DEFINE s == WriteSettled(r, t, r)
<1>1. s \in Rows /\ s.weed = r.weed /\ s.weedAt = t
  <2>1. SettledWeed(r, t) = r.weed
    BY DEF SettledWeed
  <2>2. s \in Rows
    BY WriteSettledRow DEF Good
  <2> QED
    BY <2>1, <2>2 DEF WriteSettled, Good, Rows
<1>2. 0 \in Levels
  BY FieldsAssumption DEF Levels
<1> HIDE DEF s
<1>3. CASE op = "PLOW"
  <2>1. Worked(r, op, k, t) = [s EXCEPT !.state = "PLOWED", !.soil = "PLOWED"]
    BY <1>3 DEF Worked, s
  <2> QED
    BY <1>1, <1>3, <2>1 DEF Rows, Sown, Timed
<1>4. CASE op = "CULTIVATE"
  <2>1. Worked(r, op, k, t) = [s EXCEPT !.state = "CULTIVATED", !.soil = "CULTIVATED", !.weed = 0]
    BY <1>4 DEF Worked, s
  <2> QED
    BY <1>1, <1>4, <2>1 DEF Rows, Sown, Timed
<1>5. CASE op = "SEED"
  <2>1. Worked(r, op, k, t) = [s EXCEPT !.state = "SEEDED", !.crop = k, !.seeded = t]
    BY <1>5 DEF Worked, s
  <2> QED
    BY <1>1, <1>5, <2>1 DEF Rows, Sown, Timed
<1>6. CASE op = "HARVEST"
  <2>1. Worked(r, op, k, t) = [s EXCEPT !.state = "VIRGIN", !.soil = "UNTOUCHED",
                                        !.crop = NoCrop, !.seeded = NotSown]
    BY <1>6 DEF Worked, s
  <2> QED
    BY <1>1, <1>6, <2>1 DEF Rows, Sown, Timed
<1> QED
  BY <1>3, <1>4, <1>5, <1>6 DEF Operations

LEMMA CompleteTaskWeeds ==
  ASSUME IInv, WeedsInv, NEW e, CompleteTask(e)
  PROVE  WeedsInv'
<1> DEFINE f == e.field
           op == task[f].op
           k == task[f].crop
           r == Materialized(field[f], e.due)
           w == Worked(r, op, k, e.due)
           level == IF op = "CULTIVATE" THEN 0 ELSE TrueWeed(f, e.due)
<1>1. /\ f \in FieldIds /\ e.due \in Nat /\ e.due <= game /\ game \in Nat
      /\ task[f] # NoTask /\ task[f].due = e.due
  BY AppliedEvent DEF CompleteTask
<1>2. r.state \in FromStates(op)
  BY TaskNotRefused
<1>3. /\ field' = [field EXCEPT ![f] = w] /\ task' = [task EXCEPT ![f] = NoTask] /\ game' = game
      /\ true' = [true EXCEPT ![f] = [weed |-> level, at |-> e.due]]
      /\ torn' = IF op = "CULTIVATE" THEN torn \ {f} ELSE torn
  BY <1>2 DEF CompleteTask
<1>4. /\ Good(field[f]) /\ op \in Operations /\ k \in Crops \cup {NoCrop} /\ (op = "SEED" => k \in Crops)
      /\ field[f].status = "LIVE" /\ true[f].weed \in Levels /\ true[f].at \in Nat
      /\ field \in [FieldIds -> Rows] /\ task \in [FieldIds -> Tasks]
      /\ true \in [FieldIds -> [weed : Levels, at : Nat]]
      /\ FieldHistory(field[f], task[f], true[f], f \in torn, game)
  <2>1. RowInv(field[f], alarm[f], task[f], game)
    BY <1>1, RowTypes
  <2> QED
    BY <1>1, <2>1, RowTypes DEF RowInv, Tasks, WeedsInv
<1>5. /\ Good(r) /\ SameField(field[f], r) /\ r.state \notin Timed
      /\ (field[f].state \notin Timed => r = field[f]) /\ (field[f].state \in Timed => r.state \in Sown)
  <2>1. \A o \in Operations : FromStates(o) \cap Timed = {}
    BY DEF FromStates, Timed
  <2> QED
    BY <1>1, <1>2, <1>4, <2>1, MaterializedRow
<1>6. /\ op = "CULTIVATE" => w.state = "CULTIVATED" /\ w.weed = 0
      /\ op # "CULTIVATE" => w.weed = r.weed
      /\ op = "SEED" => w.state = "SEEDED" /\ w.seeded = e.due /\ w.weedAt = e.due
      /\ op # "SEED" => w.state \notin Sown
  BY <1>1, <1>4, <1>5, WorkedWeeds
<1>7. Good(w)
  BY <1>1, <1>4, <1>5, WorkedRow
<1>8. f \notin torn => PunctualRow(r, true[f].weed, true[f].at, game)
  BY <1>1, <1>4, MaterializedPunctual DEF FieldHistory
<1>9. TrueWeed(f, e.due) \in Levels
  BY <1>1, <1>4, AcrossType DEF TrueWeed
<1>10. f \notin torn => r.weed = TrueWeed(f, e.due)
  <2> HIDE DEF r, w
  <2> SUFFICES ASSUME f \notin torn PROVE r.weed = TrueWeed(f, e.due)
    OBVIOUS
  <2>1. r.state = "READY_TO_HARVEST" => Boundary("GROWING", r.seeded, r.crop) <= e.due
    BY <1>1, <1>4, <1>5 DEF FieldHistory, HarvestAfter, SameField, Sown
  <2>2. SettledWeed(r, e.due) = IF r.state \in Sown THEN WeedAcross(r, true[f].weed, true[f].at, e.due)
                                ELSE true[f].weed
    BY <1>1, <1>4, <1>5, <1>8, <2>1, SettledPunctual
  <2>3. SettledWeed(r, e.due) = r.weed
    BY <1>5 DEF SettledWeed
  <2>4. WeedAcross(r, true[f].weed, true[f].at, e.due) = WeedAcross(field[f], true[f].weed, true[f].at, e.due)
    BY <1>5, SameTimeline DEF SameField
  <2>5. r.state \in Sown <=> field[f].state \in Sown
    BY <1>5 DEF Sown
  <2> QED
    BY <2>2, <2>3, <2>4, <2>5 DEF TrueWeed
<1> HIDE DEF w, r, level
<1>11. f \notin torn \/ op = "CULTIVATE" => PunctualRow(w, level, e.due, game)
  <2> SUFFICES ASSUME f \notin torn \/ op = "CULTIVATE" PROVE PunctualRow(w, level, e.due, game)
    OBVIOUS
  <2>1. w.weed = level
    BY <1>6, <1>10 DEF level
  <2>2. CASE op # "SEED"
    BY <1>6, <2>1, <2>2 DEF PunctualRow, Sown
  <2>3. CASE op = "SEED"
    <3>1. w.state \in Sown /\ w.state = "SEEDED" /\ w.crop \in Crops /\ w.seeded = e.due /\ w.weedAt = e.due
      BY <1>6, <1>7, <2>3 DEF Good, Sown, Timed
    <3>2. level \in Levels
      BY <1>9, <2>3 DEF level
    <3>3. WeedAcross(w, level, e.due, e.due) = level
      BY <1>1, <1>7, <3>1, <3>2, AcrossFacts
    <3>4. /\ e.due <= Boundary("SEEDED", w.seeded, w.crop)
          /\ e.due <= Boundary("GERMINATING", w.seeded, w.crop)
      <4>1. /\ Boundary("SEEDED", e.due, w.crop) \in Nat /\ Boundary("GERMINATING", e.due, w.crop) \in Nat
            /\ e.due < Boundary("SEEDED", e.due, w.crop)
            /\ Boundary("SEEDED", e.due, w.crop) < Boundary("GERMINATING", e.due, w.crop)
        BY <1>1, <3>1, Boundaries DEF Timed
      <4> QED
        BY <1>1, <3>1, <4>1
    <3> QED
      BY <1>1, <2>1, <3>1, <3>3, <3>4 DEF PunctualRow
  <2> QED
    BY <2>2, <2>3
<1>12. /\ field'[f] = w /\ task'[f] = NoTask /\ true'[f].weed = level /\ true'[f].at = e.due
       /\ (f \notin torn' => f \notin torn \/ op = "CULTIVATE")
  BY <1>1, <1>3, <1>4
<1>13. FieldHistory(field'[f], task'[f], true'[f], f \in torn', game)
  BY <1>11, <1>12 DEF FieldHistory, HarvestAfter
<1>14. \A g \in FieldIds \ {f} : /\ field'[g] = field[g] /\ task'[g] = task[g]
                                 /\ true'[g] = true[g] /\ (g \in torn' <=> g \in torn)
  BY <1>1, <1>3, <1>4
<1> QED
  BY <1>1, <1>3, <1>13, <1>14, WeedsOfOne

LEMMA AssignTaskWeeds ==
  ASSUME IInv, WeedsInv, NEW f \in FieldIds, NEW op \in Operations, NEW k \in Crops \cup {NoCrop},
         AssignTask(f, op, k)
  PROVE  WeedsInv'
<1> DEFINE r == field[f]
           j == [op |-> op, crop |-> k, units |-> r.cellCount, due |-> game + WorkTime]
<1>1. /\ task' = [task EXCEPT ![f] = j] /\ UNCHANGED <<game, field, true, torn>>
      /\ r.status = "LIVE" /\ Projected(r, game) \in FromStates(op)
  BY DEF AssignTask, Body, Idle, Live, Admits, historyVars
<1>2. /\ game \in Nat /\ Good(r) /\ (r.state \in Sown => Entered(r) <= game)
      /\ task \in [FieldIds -> Tasks] /\ WorkTime \in Nat
      /\ FieldHistory(r, task[f], true[f], f \in torn, game)
  BY <1>1, RowTypes, FieldsAssumption DEF WeedsInv
<1>3. r.state \in Sown => Boundary("GROWING", r.seeded, r.crop) <= game
  <2> SUFFICES ASSUME r.state \in Sown PROVE Boundary("GROWING", r.seeded, r.crop) <= game
    OBVIOUS
  <2>1. r.seeded \in Nat /\ r.crop \in Crops
    BY <1>2 DEF Good, Rows
  <2>2. CASE r.state \in Timed
    <3>1. Projected(r, game) = CropPhase(r.seeded, game, r.crop) /\ Projected(r, game) \in Sown
      BY <1>2, <2>1, <2>2, PhaseReady DEF Projected
    <3>2. Projected(r, game) = "READY_TO_HARVEST"
      BY <1>1, <3>1 DEF FromStates, Sown, Timed
    <3> QED
      BY <1>2, <2>1, <3>1, <3>2, PhaseReady
  <2>3. CASE r.state \notin Timed
    BY <1>2, <2>3 DEF Entered, Sown, Timed
  <2> QED
    BY <2>2, <2>3
<1>4. HarvestAfter(r, j)
  <2>1. r.state \in Sown => Boundary("GROWING", r.seeded, r.crop) \in Nat
    BY <1>2, Boundaries DEF Good, Rows, Timed
  <2> QED
    BY <1>2, <1>3, <2>1 DEF HarvestAfter
<1>5. task'[f] = j /\ \A g \in FieldIds \ {f} : task'[g] = task[g]
  BY <1>1, <1>2
<1> HIDE DEF j
<1>6. FieldHistory(field'[f], task'[f], true'[f], f \in torn', game)
  BY <1>1, <1>2, <1>4, <1>5 DEF FieldHistory
<1> QED
  BY <1>1, <1>5, <1>6, WeedsOfOne

LEMMA CreateFieldWeeds ==
  ASSUME IInv, WeedsInv, NEW f \in FieldIds, NEW S \in SUBSET Cells, CreateField(f, S)
  PROVE  WeedsInv'
<1> DEFINE r == [AbsentRow EXCEPT !.status = "LIVE", !.cellCount = Cardinality(S), !.weedAt = game]
<1>1. /\ field' = [field EXCEPT ![f] = r] /\ true' = [true EXCEPT ![f] = [weed |-> 0, at |-> game]]
      /\ UNCHANGED <<game, task, torn>>
  BY DEF CreateField
<1>2. r.state = "VIRGIN" /\ r.weed = 0
  BY DEF AbsentRow
<1>3. r.state \notin Sown
  BY <1>2 DEF Sown, Timed
<1> HIDE DEF r
<1>4. field'[f] = r /\ true'[f].weed = 0 /\ \A g \in FieldIds \ {f} : field'[g] = field[g] /\ true'[g] = true[g]
  BY <1>1, RowTypes
<1>5. FieldHistory(field'[f], task'[f], true'[f], f \in torn', game)
  BY <1>2, <1>3, <1>4 DEF FieldHistory, HarvestAfter, PunctualRow, Sown
<1> QED
  BY <1>1, <1>4, <1>5, WeedsOfOne

LEMMA ExtendFieldWeeds ==
  ASSUME IInv, WeedsInv, NEW f \in FieldIds, NEW S \in SUBSET Cells, ExtendField(f, S)
  PROVE  WeedsInv'
<1> DEFINE r == field[f]
           n == Cardinality(CellsOf(f)) + Cardinality(S)
           v == WriteSettled(r, game, [r EXCEPT !.cellCount = n])
<1>1. /\ field' = [field EXCEPT ![f] = v] /\ UNCHANGED <<game, task, true, torn>>
      /\ r.status = "LIVE" /\ Projected(r, game) \in Extendable
  BY DEF ExtendField, Idle, Live, historyVars
<1>2. /\ game \in Nat /\ Good(r) /\ FieldHistory(r, task[f], true[f], f \in torn, game)
      /\ field \in [FieldIds -> Rows]
  BY RowTypes DEF WeedsInv
<1>3. r.state \notin Sown
  <2>1. r.state \in Timed => Projected(r, game) \in Sown
    BY <1>2, PhaseReady DEF Projected, Good, Rows, Sown
  <2> QED
    BY <1>1, <2>1 DEF Projected, Extendable, Sown, Timed
<1>4. n \in Nat
  BY CellsFinite DEF CellsOf
<1>5. v.state = r.state /\ v.weed = SettledWeed(r, game)
  BY <1>2, <1>4, ResizedProgress
<1>6. SettledWeed(r, game) = r.weed
  BY <1>3 DEF SettledWeed, Sown
<1> HIDE DEF v
<1>7. field'[f] = v /\ \A g \in FieldIds \ {f} : field'[g] = field[g]
  BY <1>1, <1>2
<1>8. FieldHistory(v, task[f], true[f], f \in torn, game)
  BY <1>1, <1>2, <1>3, <1>5, <1>6 DEF FieldHistory, HarvestAfter, PunctualRow, Sown
<1> QED
  BY <1>1, <1>7, <1>8, WeedsOfOne

LEMMA SamePunctual ==
  ASSUME NEW r, NEW s, s.state = r.state, s.crop = r.crop, s.seeded = r.seeded,
         s.weed = r.weed, s.weedAt = r.weedAt, NEW w, NEW a, NEW t, PunctualRow(r, w, a, t)
  PROVE  PunctualRow(s, w, a, t)
  BY DEF PunctualRow, WeedAcross

\* Settled to now: harmless where the row and its field are on the same side of GROWING.
LEMMA SettledNow ==
  ASSUME NEW r, Good(r), NEW s, NEW w \in Levels, NEW a \in Nat, NEW t \in Nat, PunctualRow(r, w, a, t),
         s.state = r.state, s.crop = r.crop, s.seeded = r.seeded,
         s.weed = SettledWeed(r, t), s.weedAt = t,
         r.state \in {"SEEDED", "GERMINATING"} => Projected(r, t) \notin {"GROWING", "READY_TO_HARVEST"}
  PROVE  PunctualRow(s, w, a, t)
<1>1. CASE r.state \notin Timed
  BY <1>1 DEF PunctualRow, SettledWeed, WeedAcross, Timed
<1>2. CASE r.state \in Timed
  <2>1. r.state \in Sown /\ r.seeded \in Nat /\ r.crop \in Crops /\ r.weedAt \in Nat
    BY <1>2 DEF Good, Rows, Sown
  <2>2. a <= r.weedAt /\ r.weedAt <= t /\ a <= Boundary(r.state, r.seeded, r.crop)
    BY <1>2 DEF PunctualRow
  <2>3. SettledWeed(r, t) = WeedAcross(r, w, a, t)
    <3>1. r.state # "READY_TO_HARVEST"
      BY <1>2 DEF Timed
    <3> QED
      BY <2>1, <2>2, <3>1, SettledPunctual
  <2>4. WeedAcross(s, w, a, t) = WeedAcross(r, w, a, t)
    BY SameTimeline
  <2>5. Boundary("GERMINATING", r.seeded, r.crop) \in Nat
    BY <2>1, Boundaries DEF Timed
  <2>6. r.state # "GROWING" => t <= Boundary("GERMINATING", r.seeded, r.crop)
    <3>1. r.state # "GROWING" => CropPhase(r.seeded, t, r.crop) \notin {"GROWING", "READY_TO_HARVEST"}
      BY <1>2 DEF Projected, Timed
    <3>2. CropPhase(r.seeded, t, r.crop) \in Sown
      BY <2>1, PhaseReady
    <3>3. r.state # "GROWING" => CropPhase(r.seeded, t, r.crop) \in {"SEEDED", "GERMINATING"}
      BY <3>1, <3>2 DEF Sown, Timed
    <3>4. Boundary("SEEDED", r.seeded, r.crop) < Boundary("GERMINATING", r.seeded, r.crop)
          /\ Boundary("SEEDED", r.seeded, r.crop) \in Nat
      BY <2>1, Boundaries DEF Timed
    <3> QED
      BY <2>1, <2>5, <3>3, <3>4, PhaseAt
  <2>7. a <= t
    BY <2>1, <2>2
  <2> QED
    BY <1>2, <2>1, <2>2, <2>3, <2>4, <2>6, <2>7 DEF PunctualRow, Timed
<1> QED
  BY <1>1, <1>2

LEMMA SplitFieldWeeds ==
  ASSUME IInv, WeedsInv, NEW f \in FieldIds, NEW g \in FieldIds, NEW S \in SUBSET Cells,
         SplitField(f, g, S)
  PROVE  WeedsInv'
<1> DEFINE r == field[f]
           rest == CellsOf(f) \ S
           half == [r EXCEPT !.cellCount = Cardinality(S)]
           original == WriteSettled(r, game, [r EXCEPT !.cellCount = Cardinality(rest)])
<1>1. /\ field' = [field EXCEPT ![f] = original, ![g] = half] /\ true' = [true EXCEPT ![g] = true[f]]
      /\ torn' = torn \cup (IF Overtaken(f) THEN {f} ELSE {}) \cup (IF f \in torn THEN {g} ELSE {})
      /\ UNCHANGED <<game, task>>
      /\ r.status = "LIVE" /\ task[f] = NoTask /\ field[g].status = "ABSENT"
  BY DEF SplitField, Idle, Live
<1>2. /\ game \in Nat /\ Good(r) /\ true[f].weed \in Levels /\ true[f].at \in Nat
      /\ field \in [FieldIds -> Rows] /\ true \in [FieldIds -> [weed : Levels, at : Nat]]
      /\ FieldHistory(r, task[f], true[f], f \in torn, game) /\ f # g
  BY <1>1, RowTypes DEF WeedsInv
<1>3. task[g] = NoTask
  BY <1>1, RowTypes DEF RowInv
<1>4. Cardinality(S) \in Nat /\ Cardinality(rest) \in Nat
  BY CellsFinite DEF CellsOf
<1>5. /\ half.state = r.state /\ half.crop = r.crop /\ half.seeded = r.seeded
      /\ half.weed = r.weed /\ half.weedAt = r.weedAt
      /\ original.state = r.state /\ original.crop = r.crop /\ original.seeded = r.seeded
      /\ original.weed = SettledWeed(r, game) /\ original.weedAt = game
  BY <1>2, <1>4, ResizedProgress
<1> HIDE DEF half, original
<1>6. f \notin torn => PunctualRow(half, true[f].weed, true[f].at, game)
  BY <1>1, <1>2, <1>5, SamePunctual DEF FieldHistory
<1>7. f \notin torn /\ ~Overtaken(f) => PunctualRow(original, true[f].weed, true[f].at, game)
  BY <1>1, <1>2, <1>5, SettledNow DEF FieldHistory, Overtaken
<1>8. /\ field'[f] = original /\ field'[g] = half /\ true'[f] = true[f] /\ true'[g] = true[f]
      /\ f \notin torn' => f \notin torn /\ ~Overtaken(f)
      /\ g \notin torn' => f \notin torn
  BY <1>1, <1>2
<1>9. FieldHistory(field'[f], task'[f], true'[f], f \in torn', game')
  BY <1>1, <1>7, <1>8 DEF FieldHistory, HarvestAfter
<1>10. FieldHistory(field'[g], task'[g], true'[g], g \in torn', game')
  BY <1>1, <1>3, <1>6, <1>8 DEF FieldHistory, HarvestAfter
<1>11. ASSUME NEW h \in FieldIds \ {f, g} PROVE FieldHistory(field'[h], task'[h], true'[h], h \in torn', game')
  <2>1. field'[h] = field[h] /\ true'[h] = true[h] /\ (h \notin torn' => h \notin torn) /\ task' = task /\ game' = game
    BY <1>1, <1>2
  <2>2. FieldHistory(field[h], task[h], true[h], h \in torn, game)
    BY DEF WeedsInv
  <2> QED
    BY <2>1, <2>2 DEF FieldHistory
<1> QED
  BY <1>9, <1>10, <1>11 DEF WeedsInv

(* A weighted mean exists once. *)

LEMMA UnitsOfOne ==
  ASSUME NEW x, NEW n \in Nat
  PROVE  IsFiniteSet({x} \X (1 .. n)) /\ Cardinality({x} \X (1 .. n)) = n
<1>1. IsFiniteSet({x}) /\ Cardinality({x}) = 1
  BY FS_Singleton
<1>2. 1 \in Int /\ n \in Int
  OBVIOUS
<1>3. IsFiniteSet(1 .. n) /\ Cardinality(1 .. n) = n
  BY <1>2, FS_Interval, SMT
<1> DEFINE a == {x}
           b == 1 .. n
<1> HIDE DEF a, b
<1>4. IsFiniteSet(a \X b) /\ Cardinality(a \X b) = Cardinality(a) * Cardinality(b)
  BY <1>1, <1>3, FS_Product DEF a, b
<1>5. Cardinality(a) = 1 /\ Cardinality(b) = n
  BY <1>1, <1>3 DEF a, b
<1>6. IsFiniteSet(a \X b) /\ Cardinality(a \X b) = n
  BY <1>4, <1>5, SMT
<1> QED
  BY <1>6 DEF a, b

LEMMA TotalType ==
  ASSUME NEW F, IsFiniteSet(F), NEW w \in [F -> Nat]
  PROVE  Total(w) \in Nat /\ \A x \in F : w[x] <= Total(w)
<1> DEFINE One(x) == {x} \X (1 .. w[x])
           T == {One(x) : x \in F}
<1>1. \A x \in F : IsFiniteSet(One(x)) /\ Cardinality(One(x)) = w[x]
  <2>1. TAKE x \in F
  <2>2. PICK n \in Nat : n = w[x]
    OBVIOUS
  <2>3. IsFiniteSet({x} \X (1 .. n)) /\ Cardinality({x} \X (1 .. n)) = n
    BY UnitsOfOne
  <2> QED
    BY <2>2, <2>3
<1> HIDE DEF One
<1>2. IsFiniteSet(T)
  <2> DEFINE g == [x \in F |-> One(x)]
  <2>1. g \in Surjection(F, T)
    BY DEF Surjection
  <2> HIDE DEF g, T
  <2> QED
    BY <2>1, FS_Surjection
<1>3. \A t \in T : IsFiniteSet(t)
  BY <1>1
<1>4. \A x \in F : One(x) \subseteq UNION T
  OBVIOUS
<1>5. Total(w) = Cardinality(UNION T)
  BY DEF Total, One
<1> HIDE DEF T
<1>6. IsFiniteSet(UNION T)
  BY <1>2, <1>3, FS_UNION
<1>7. Total(w) \in Nat
  BY <1>5, <1>6, FS_CardinalityType
<1>8. ASSUME NEW x \in F PROVE w[x] <= Total(w)
  <2>1. Cardinality(One(x)) <= Cardinality(UNION T)
    BY <1>4, <1>6, FS_Subset
  <2> QED
    BY <1>1, <1>5, <2>1
<1> QED
  BY <1>7, <1>8

LEMMA MeanOnce ==
  ASSUME NEW m \in Nat, NEW n \in Nat, NEW weight \in Nat, weight > 0, NEW total \in Nat,
         m * weight <= total, total < (m + 1) * weight, n * weight <= total, total < (n + 1) * weight
  PROVE  m = n
<1>1. ASSUME NEW i \in Nat, NEW j \in Nat, i < j PROVE (i + 1) * weight <= j * weight
  <2>1. PICK d \in Nat : j = (i + 1) + d
    <3>1. j - (i + 1) \in Nat /\ j = (i + 1) + (j - (i + 1))
      BY <1>1
    <3> QED
      BY <3>1
  <2>2. j * weight = (i + 1) * weight + d * weight /\ d * weight >= 0
    BY <2>1
  <2>3. (i + 1) * weight \in Int /\ d * weight \in Int
    OBVIOUS
  <2> QED
    BY <2>2, <2>3
<1>2. m * weight \in Int /\ n * weight \in Int /\ (m + 1) * weight \in Int /\ (n + 1) * weight \in Int
  OBVIOUS
<1>3. ~(m < n)
  <2>1. m < n => (m + 1) * weight <= n * weight
    BY <1>1
  <2> QED
    BY <1>2, <2>1
<1>4. ~(n < m)
  <2>1. n < m => (n + 1) * weight <= m * weight
    BY <1>1
  <2> QED
    BY <1>2, <2>1
<1> QED
  BY <1>3, <1>4

LEMMA WeightedMeanOnce ==
  ASSUME GeometryAgrees, IInv, NEW F \in SUBSET FieldIds, NEW s \in F, \A f \in F : Live(f),
         NEW w \in [F -> Levels], NEW m \in Levels, NEW n \in Levels,
         WeightedMean(F, w, m), WeightedMean(F, w, n)
  PROVE  m = n
<1> DEFINE count == [f \in F |-> field[f].cellCount]
           load == [f \in F |-> w[f] * field[f].cellCount]
           weight == Total(count)
           total == Total(load)
<1>1. IsFiniteSet(F)
  BY FieldsAssumption, FS_Subset
<1>2. Levels \subseteq Nat
  BY FieldsAssumption DEF Levels
<1>3. \A f \in F : field[f].cellCount \in Nat
  BY RowTypes DEF Good, Rows
<1>4. count \in [F -> Nat]
  BY <1>3
<1>5. load \in [F -> Nat]
  <2>1. \A i, j \in Nat : i * j \in Nat
    OBVIOUS
  <2>2. \A f \in F : w[f] \in Nat
    BY <1>2
  <2>3. \A f \in F : w[f] * field[f].cellCount \in Nat
    BY <1>3, <2>1, <2>2
  <2> QED
    BY <2>3
<1>6. field[s].cellCount > 0
  <2>1. field[s].cellCount = Cardinality(CellsOf(s)) /\ CellsOf(s) # {}
    BY DEF GeometryAgrees
  <2>2. IsFiniteSet(CellsOf(s)) /\ Cardinality(CellsOf(s)) \in Nat
    BY CellsFinite DEF CellsOf
  <2>3. Cardinality(CellsOf(s)) # 0
    BY <2>1, <2>2, FS_EmptySet
  <2> QED
    BY <2>1, <2>2, <2>3
<1>7. m * weight <= total /\ total < (m + 1) * weight /\ n * weight <= total /\ total < (n + 1) * weight
  BY DEF WeightedMean
<1>8. count[s] = field[s].cellCount
  OBVIOUS
<1> HIDE DEF count, load
<1>9. weight \in Nat /\ count[s] <= weight /\ total \in Nat
  BY <1>1, <1>4, <1>5, TotalType
<1>10. weight > 0
  BY <1>3, <1>6, <1>8, <1>9
<1> HIDE DEF weight, total
<1> QED
  BY <1>2, <1>7, <1>9, <1>10, MeanOnce

LEMMA MergeFieldsWeeds ==
  ASSUME IInv, GeometryAgrees, WeedsInv, NEW F \in SUBSET FieldIds, NEW s \in F, NEW l \in F,
         MergeFields(F, s, l)
  PROVE  WeedsInv'
<1> DEFINE part == [f \in F |-> Materialized(field[f], game)]
           v == field'[s]
           stored == [f \in F |-> SettledWeed(part[f], game)]
           real == [f \in F |-> TrueWeed(f, game)]
<1>1. /\ \A f \in F : Live(f) /\ task[f] = NoTask
      /\ UNCHANGED <<game, task>>
      /\ torn' = IF F \cap torn = {} THEN torn ELSE (torn \ F) \cup {s}
  BY DEF MergeFields, Idle
<1>2. PICK mean \in Levels : WeightedMean(F, stored, mean) /\ v.weed = mean
  <2>1. PICK mean \in Levels :
          /\ WeightedMean(F, stored, mean)
          /\ field' = [f \in FieldIds |->
               IF f = s THEN [part[s] EXCEPT !.cellCount = Cardinality(UNION {CellsOf(f1) : f1 \in F}),
                                             !.seeded = field[l].seeded,
                                             !.weed = mean, !.weedAt = game]
               ELSE IF f \in F THEN [part[f] EXCEPT !.status = "DISPOSED"]
               ELSE field[f]]
    BY DEF MergeFields
  <2>2. part[s] \in Rows
    <3>1. Good(field[s]) /\ game \in Nat
      BY RowTypes
    <3> QED
      BY <3>1, MaterializedRow DEF Good
  <2> HIDE DEF part, stored
  <2>3. v.weed = mean
    BY <2>1, <2>2 DEF Rows
  <2> QED
    BY <2>1, <2>3
<1>3. PICK level \in Levels :
        WeightedMean(F, real, level) /\ true' = [true EXCEPT ![s] = [weed |-> level, at |-> game]]
  BY DEF MergeFields
<1>4. /\ game \in Nat /\ s \in FieldIds
      /\ v.weedAt = game /\ Good(v)
  BY RowTypes, Survivor
<1>5. /\ v.state \in Timed => game < Boundary(v.state, v.seeded, v.crop)
      /\ v.state \in Sown => Entered(v) <= game
  BY MergedPhase
<1>6. ASSUME NEW f \in F
      PROVE  stored[f] \in Levels /\ (f \notin torn => stored[f] = real[f])
  <2> DEFINE r == field[f]
             m == Materialized(r, game)
  <2>1. /\ Good(r) /\ true[f].weed \in Levels /\ true[f].at \in Nat /\ RowInv(r, alarm[f], task[f], game)
        /\ r.status = "LIVE" /\ (f \notin torn => PunctualRow(r, true[f].weed, true[f].at, game))
    BY <1>1, RowTypes DEF WeedsInv, FieldHistory, Live
  <2>2. Good(m) /\ SameField(r, m) /\ (m.state \in Sown => Entered(m) <= game)
    BY <1>4, <2>1, BroughtUp
  <2>3. r.state \notin Timed => m = r
    BY <1>4, <2>1, MaterializedRow
  <2>4. r.state \in Timed => m.state \in Sown
    BY <1>4, <2>1, MaterializedRow
  <2>5. f \notin torn => PunctualRow(m, true[f].weed, true[f].at, game)
    BY <1>4, <2>1, MaterializedPunctual
  <2>6. stored[f] = SettledWeed(m, game) /\ real[f] = TrueWeed(f, game)
    OBVIOUS
  <2> HIDE DEF m, stored, real
  <2>7. f \notin torn => SettledWeed(m, game) = IF m.state \in Sown
                                               THEN WeedAcross(m, true[f].weed, true[f].at, game)
                                               ELSE true[f].weed
    <3>1. m.state = "READY_TO_HARVEST" => Boundary("GROWING", m.seeded, m.crop) <= game
      BY <2>2 DEF Entered, Sown
    <3>2. f \notin torn => (m.state \in Timed => m.weedAt <= game)
      BY <2>5 DEF PunctualRow
    <3> QED
      BY <1>4, <2>1, <2>2, <2>5, <3>1, <3>2, SettledPunctual
  <2>8. WeedAcross(m, true[f].weed, true[f].at, game) = WeedAcross(r, true[f].weed, true[f].at, game)
    BY <2>2, SameTimeline DEF SameField
  <2>9. m.state \in Sown <=> r.state \in Sown
    BY <2>3, <2>4 DEF Sown
  <2>10. SettledWeed(m, game) \in Levels
    BY <1>4, <2>2, SettledType
  <2> QED
    BY <2>6, <2>7, <2>8, <2>9, <2>10 DEF TrueWeed
<1>7. F \cap torn = {} => mean = level
  <2> SUFFICES ASSUME F \cap torn = {} PROVE mean = level
    OBVIOUS
  <2>1. stored \in [F -> Levels] /\ stored = real
    BY <1>6
  <2> HIDE DEF stored, real
  <2> QED
    BY <1>1, <1>2, <1>3, <2>1, WeightedMeanOnce
<1>8. F \cap torn = {} => PunctualRow(v, level, game, game)
  <2> SUFFICES ASSUME F \cap torn = {} PROVE PunctualRow(v, level, game, game)
    OBVIOUS
  <2> HIDE DEF v
  <2>1. v.weed = level /\ level \in Levels
    BY <1>2, <1>7
  <2>2. CASE v.state \notin Sown
    BY <2>1, <2>2 DEF PunctualRow, Sown
  <2>3. CASE v.state = "READY_TO_HARVEST"
    <3>1. v.state \in Sown /\ v.state \notin Timed /\ v.seeded \in Nat /\ v.crop \in Crops
      BY <1>4, <2>3 DEF Good, Rows, Sown, Timed
    <3>2. Boundary("GROWING", v.seeded, v.crop) \in Nat
          /\ Boundary("GROWING", v.seeded, v.crop) <= game
      BY <1>5, <2>3, <3>1, Boundaries DEF Entered, Timed
    <3>3. WeedAcross(v, level, game, Boundary("GROWING", v.seeded, v.crop)) = level
      BY <1>4, <2>1, <3>1, <3>2, AcrossFacts
    <3> QED
      BY <2>1, <3>1, <3>3 DEF PunctualRow
  <2>4. CASE v.state \in Timed
    <3>1. v.state \in Sown /\ v.seeded \in Nat /\ v.crop \in Crops
      BY <1>4, <2>4 DEF Good, Rows, Sown
    <3>2. /\ Boundary("SEEDED", v.seeded, v.crop) \in Nat /\ Boundary("GERMINATING", v.seeded, v.crop) \in Nat
          /\ Boundary("SEEDED", v.seeded, v.crop) < Boundary("GERMINATING", v.seeded, v.crop)
          /\ Boundary(v.state, v.seeded, v.crop) \in Nat
      BY <2>4, <3>1, Boundaries DEF Timed
    <3>3. WeedAcross(v, level, game, game) = level
      BY <1>4, <2>1, <3>1, AcrossFacts
    <3>4. game <= Boundary(v.state, v.seeded, v.crop)
      BY <1>4, <1>5, <2>4, <3>2
    <3>5. v.state # "GROWING" => game <= Boundary("GERMINATING", v.seeded, v.crop)
      <4>1. v.state \in {"SEEDED", "GERMINATING", "GROWING"}
        BY <2>4 DEF Timed
      <4> QED
        BY <1>4, <3>2, <3>4, <4>1
    <3> QED
      BY <1>4, <2>1, <2>4, <3>1, <3>3, <3>4, <3>5 DEF PunctualRow, Timed
  <2> QED
    BY <2>2, <2>3, <2>4 DEF Sown
<1>9. /\ true'[s].weed = level /\ true'[s].at = game /\ task'[s] = NoTask
      /\ \A f \in FieldIds \ {s} : true'[f] = true[f]
  BY <1>1, <1>3, <1>4, RowTypes
<1>10. FieldHistory(field'[s], task'[s], true'[s], s \in torn', game')
  <2> HIDE DEF v
  <2>1. s \notin torn' => F \cap torn = {}
    BY <1>1
  <2> QED
    BY <1>1, <1>8, <1>9, <2>1 DEF FieldHistory, HarvestAfter, v
<1>11. \A f \in F \ {s} : FieldHistory(field'[f], task'[f], true'[f], f \in torn', game')
  <2>1. \A f \in F \ {s} : field'[f].status = "DISPOSED"
    BY MergedRows
  <2> QED
    BY <2>1 DEF FieldHistory
<1>12. ASSUME NEW f \in FieldIds \ F PROVE FieldHistory(field'[f], task'[f], true'[f], f \in torn', game')
  <2>1. field'[f] = field[f]
    BY MergedRows
  <2>2. true'[f] = true[f] /\ task'[f] = task[f] /\ (f \notin torn' => f \notin torn)
    BY <1>1, <1>9
  <2>3. FieldHistory(field[f], task[f], true[f], f \in torn, game)
    BY DEF WeedsInv
  <2> QED
    BY <1>1, <2>1, <2>2, <2>3 DEF FieldHistory
<1> QED
  BY <1>10, <1>11, <1>12 DEF WeedsInv

LEMMA WeedsInit ==
  ASSUME Init
  PROVE  WeedsInv
  BY DEF Init, WeedsInv, FieldHistory, AbsentRow

LEMMA WeedsNext ==
  ASSUME IInv, GeometryAgrees, WeedsInv, [Next]_vars
  PROVE  WeedsInv'
<1>2. CASE Tick \/ Begin \/ Close \/ UNCHANGED vars
  <2>1. UNCHANGED <<field, task, true, torn>> /\ game' \in Nat /\ game <= game'
    BY <1>2, RowTypes DEF Tick, Begin, Close, vars, rowVars, historyVars
  <2> QED
    BY <2>1, WeedsWait
<1>3. CASE Apply
  BY <1>3, AdvancePhaseWeeds, CompleteTaskWeeds DEF Apply
<1>4. CASE Request
  <2>1. CASE \E f \in FieldIds, op \in Operations, k \in Crops \cup {NoCrop} : AssignTask(f, op, k)
    BY <2>1, AssignTaskWeeds
  <2>2. ASSUME NEW f \in FieldIds, CancelTask(f) PROVE WeedsInv'
    <3>1. UNCHANGED <<game, field, true, torn>> /\ task' = [task EXCEPT ![f] = NoTask]
      BY <2>2 DEF CancelTask, historyVars
    <3>2. task \in [FieldIds -> Tasks] /\ game' \in Nat /\ game <= game'
      BY <3>1, RowTypes
    <3>3. \A g \in FieldIds : task'[g] \in {task[g], NoTask}
      BY <3>1, <3>2
    <3> QED
      BY <3>1, <3>2, <3>3, WeedsWait
  <2>3. CASE \E f \in FieldIds, S \in SUBSET Cells : CreateField(f, S) \/ ExtendField(f, S)
    BY <2>3, CreateFieldWeeds, ExtendFieldWeeds
  <2>4. CASE \E f, g \in FieldIds, S \in SUBSET Cells : SplitField(f, g, S)
    BY <2>4, SplitFieldWeeds
  <2>5. CASE \E F \in SUBSET FieldIds : \E s, l \in F : MergeFields(F, s, l)
    BY <2>5, MergeFieldsWeeds
  <2> QED
    BY <1>4, <2>1, <2>2, <2>3, <2>4, <2>5 DEF Request
<1> QED
  BY <1>2, <1>3, <1>4 DEF Next

LEMMA WeedsFollow ==
  ASSUME IInv, WeedsInv
  PROVE  WeedsPunctual
<1> SUFFICES ASSUME NEW f \in FieldIds \ torn, Live(f)
             PROVE  SettledWeed(field[f], game) = TrueWeed(f, game)
  BY DEF WeedsPunctual
<1>1. /\ game \in Nat /\ Good(field[f]) /\ true[f].weed \in Levels /\ true[f].at \in Nat
      /\ field[f].state \in Sown => Entered(field[f]) <= game
  BY RowTypes DEF Live
<1>2. PunctualRow(field[f], true[f].weed, true[f].at, game)
  BY DEF WeedsInv, FieldHistory, Live
<1>3. field[f].state \in Timed => field[f].weedAt <= game
  BY <1>2 DEF PunctualRow
<1>4. field[f].state = "READY_TO_HARVEST" => Boundary("GROWING", field[f].seeded, field[f].crop) <= game
  BY <1>1 DEF Entered, Sown
<1> QED
  BY <1>1, <1>2, <1>3, <1>4, SettledPunctual DEF TrueWeed

(* A field with a task keeps its cells. *)

LEMMA UnitsNext ==
  ASSUME IInv, GeometryAgrees, UnitsStillTrue, [Next]_vars
  PROVE  UnitsStillTrue'
<1>1. ASSUME \A f \in FieldIds : task'[f] # NoTask => task'[f] = task[f] /\ CellsOf(f)' = CellsOf(f)
      PROVE  UnitsStillTrue'
  BY <1>1 DEF UnitsStillTrue
<1>2. ASSUME cell' = cell, \A f \in FieldIds : task'[f] \in {task[f], NoTask}
      PROVE  UnitsStillTrue'
  <2>1. \A f \in FieldIds : CellsOf(f)' = CellsOf(f)
    BY <1>2 DEF CellsOf
  <2> QED
    BY <1>1, <1>2, <2>1
<1>3. task \in [FieldIds -> Tasks]
  BY RowTypes
<1>4. CASE Tick \/ Begin \/ Close \/ UNCHANGED vars
  BY <1>2, <1>4 DEF Tick, Begin, Close, vars, rowVars
<1>5. ASSUME NEW e \in batch, AdvancePhase(e) PROVE UnitsStillTrue'
  BY <1>2, <1>5 DEF AdvancePhase
<1>6. ASSUME NEW e \in batch, CompleteTask(e) PROVE UnitsStillTrue'
  <2>1. e.field \in FieldIds /\ task' = [task EXCEPT ![e.field] = NoTask] /\ cell' = cell
    BY <1>6, AppliedEvent DEF CompleteTask
  <2> QED
    BY <1>2, <1>3, <2>1
<1>7. ASSUME NEW f \in FieldIds, CancelTask(f) PROVE UnitsStillTrue'
  BY <1>2, <1>3, <1>7 DEF CancelTask
<1>8. ASSUME NEW f \in FieldIds, NEW op \in Operations, NEW k \in Crops \cup {NoCrop}, AssignTask(f, op, k)
      PROVE  UnitsStillTrue'
  <2>1. /\ Live(f) /\ cell' = cell
        /\ task' = [task EXCEPT ![f] = [op |-> op, crop |-> k, units |-> field[f].cellCount,
                                        due |-> game + WorkTime]]
    BY <1>8 DEF AssignTask, Idle
  <2>2. field[f].cellCount = Cardinality(CellsOf(f))
    BY <2>1 DEF GeometryAgrees
  <2>3. \A g \in FieldIds : CellsOf(g)' = CellsOf(g)
    BY <2>1 DEF CellsOf
  <2>4. task'[f].units = Cardinality(CellsOf(f)) /\ \A g \in FieldIds \ {f} : task'[g] = task[g]
    BY <1>3, <2>1, <2>2
  <2> QED
    BY <2>3, <2>4 DEF UnitsStillTrue
<1>9. ASSUME NEW f \in FieldIds, NEW S \in SUBSET Cells, CreateField(f, S) PROVE UnitsStillTrue'
  <2>1. /\ field[f].status = "ABSENT" /\ Plain(S) /\ task' = task
        /\ cell' = [c \in Cells |-> IF c \in S THEN f ELSE cell[c]]
    BY <1>9 DEF CreateField
  <2>2. task[f] = NoTask
    BY <2>1, RowTypes DEF RowInv
  <2>3. \A g \in FieldIds \ {f} : CellsOf(g)' = CellsOf(g)
    BY <2>1, FieldsAssumption DEF CellsOf, Plain
  <2> QED
    BY <1>1, <2>1, <2>2, <2>3
<1>10. ASSUME NEW f \in FieldIds, NEW S \in SUBSET Cells, ExtendField(f, S) PROVE UnitsStillTrue'
  <2>1. /\ task[f] = NoTask /\ Plain(S) /\ task' = task
        /\ cell' = [c \in Cells |-> IF c \in S THEN f ELSE cell[c]]
    BY <1>10 DEF ExtendField, Idle
  <2>2. \A g \in FieldIds \ {f} : CellsOf(g)' = CellsOf(g)
    BY <2>1, FieldsAssumption DEF CellsOf, Plain
  <2> QED
    BY <1>1, <2>1, <2>2
<1>11. ASSUME NEW f \in FieldIds, NEW g \in FieldIds, NEW S \in SUBSET Cells, SplitField(f, g, S)
       PROVE  UnitsStillTrue'
  <2>1. /\ task[f] = NoTask /\ field[g].status = "ABSENT" /\ S \subseteq CellsOf(f) /\ task' = task
        /\ cell' = [c \in Cells |-> IF c \in S THEN g ELSE cell[c]]
    BY <1>11 DEF SplitField, Idle
  <2>2. task[g] = NoTask
    BY <2>1, RowTypes DEF RowInv
  <2>3. \A h \in FieldIds \ {f, g} : CellsOf(h)' = CellsOf(h)
    BY <2>1 DEF CellsOf
  <2> QED
    BY <1>1, <2>1, <2>2, <2>3
<1>12. ASSUME NEW F \in SUBSET FieldIds, NEW s \in F, NEW l \in F, MergeFields(F, s, l)
       PROVE  UnitsStillTrue'
  <2>1. /\ \A f \in F : task[f] = NoTask /\ task' = task
        /\ cell' = [c \in Cells |-> IF c \in UNION {CellsOf(f) : f \in F} THEN s ELSE cell[c]]
    BY <1>12 DEF MergeFields, Idle
  <2>2. \A g \in FieldIds \ F : CellsOf(g)' = CellsOf(g)
    BY <2>1 DEF CellsOf
  <2> QED
    BY <1>1, <2>1, <2>2
<1> QED
  BY <1>4, <1>5, <1>6, <1>7, <1>8, <1>9, <1>10, <1>11, <1>12 DEF Next, Apply, Request

LEMMA UnitsInit ==
  ASSUME Init
  PROVE  UnitsStillTrue
  BY DEF Init, UnitsStillTrue

-----------------------------------------------------------------------------
(* What follows for every behaviour, whatever the crops, the land, the number *)
(* of fields and how far behind the clock the events are applied.              *)

LEMMA Inductive == Spec => []IInv
<1>1. Init => IInv
  BY InitIInv
<1>2. IInv /\ [Next]_vars => IInv'
  BY NextIInv
<1> QED
  BY <1>1, <1>2, PTL DEF Spec

\* Every row keeps the shape its columns have: the type invariant.
THEOREM TypeCorrect == Spec => []TypeOK
<1>1. IInv => TypeOK
  BY DEF IInv
<1> QED
  BY <1>1, Inductive, PTL

\* syncPhaseSchedule: a live field in the timed part of its cycle has its alarm, at its
\* own boundary, and nothing else has one.
THEOREM AlarmsFollowRows == Spec => []AlarmFollowsRow
<1>1. IInv => AlarmFollowsRow
  BY DEF IInv, RowInv, AlarmFollowsRow, Live
<1> QED
  BY <1>1, Inductive, PTL

\* materializeProjectedPhase and mergeFields: no row is ever ahead of its timeline.
THEOREM RowsNotAhead == Spec => []RowNotAhead
<1>1. IInv => RowNotAhead
  BY DEF IInv, RowInv, RowNotAhead, Live
<1> QED
  BY <1>1, Inductive, PTL

\* A task that comes due finds its field ready for it: applyTargetTransition never has a
\* refusal to catch.
THEOREM TasksApply == Spec => []RunningTaskApplies
<1>1. IInv => RunningTaskApplies
  BY DEF IInv, RowInv, RunningTaskApplies, Live
<1> QED
  BY <1>1, Inductive, PTL

\* The count of a live field is its cells, and they are one surface.
THEOREM GeometryHolds == Spec => []GeometryAgrees
<1>1. Init => GeometryAgrees
  BY GeometryInit
<1>2. IInv /\ GeometryAgrees /\ [Next]_vars => GeometryAgrees'
  BY GeometryNext
<1> QED
  BY <1>1, <1>2, Inductive, PTL DEF Spec

\* Cutting and joining fields neither destroys progress nor grants it (mergeFields,
\* splitField, extendField).
THEOREM ProgressIsKept == Spec => GeometryKeepsProgress
<1>1. Init => GeometryAgrees
  BY GeometryInit
<1>2. IInv /\ GeometryAgrees /\ [Next]_vars => GeometryAgrees'
  BY GeometryNext
<1>3. IInv /\ GeometryAgrees /\ [Next]_vars => Progress
  BY ProgressNext
<1> QED
  BY <1>1, <1>2, <1>3, Inductive, PTL DEF Spec, GeometryKeepsProgress, Progress

\* However late the phase events are applied, and through every cut and joint, the weeds
\* of a field are those of one whose events ran in time, unless splitField wrote its row
\* while it was behind (fields/jobs.ts, settleWeedLevel).
THEOREM WeedsAreTrue == Spec => []WeedsPunctual
<1>1. Init => GeometryAgrees /\ WeedsInv
  BY GeometryInit, WeedsInit
<1>2. IInv /\ GeometryAgrees /\ WeedsInv /\ [Next]_vars => GeometryAgrees' /\ WeedsInv'
  BY GeometryNext, WeedsNext
<1>3. IInv /\ WeedsInv => WeedsPunctual
  BY WeedsFollow
<1> QED
  BY <1>1, <1>2, <1>3, Inductive, PTL DEF Spec

\* The surface a task was timed and paid by is still the surface it completes on
\* (createTask, completeTask): nothing extends, cuts or joins a reserved field.
THEOREM UnitsHold == Spec => []UnitsStillTrue
<1>1. Init => GeometryAgrees /\ UnitsStillTrue
  BY GeometryInit, UnitsInit
<1>2. IInv /\ GeometryAgrees /\ UnitsStillTrue /\ [Next]_vars => GeometryAgrees' /\ UnitsStillTrue'
  BY GeometryNext, UnitsNext
<1> QED
  BY <1>1, <1>2, Inductive, PTL DEF Spec
=============================================================================
