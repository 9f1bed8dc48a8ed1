----------------------- MODULE EventSchedule_proofs -----------------------
(* Proofs about EventSchedule, for every value of its constants. *)
EXTENDS EventSchedule, FiniteSetTheorems, TLAPS

LEMMA Domains ==
    /\ Sweeps \subseteq Events /\ Tasks \subseteq Events
    /\ Sweeps \cap Tasks = {}
    /\ Sweeps \subseteq Nat /\ Events \subseteq Nat
    /\ 1 \in Sweeps /\ 1 \in Epochs /\ Epochs \subseteq Nat /\ NoJob \notin Epochs
  BY ScheduleAssumption DEF Sweeps, Tasks, Events, Epochs, NoJob

(* What a scheduling or a cancellation returns is again a table of rows. *)
LEMMA InsertType ==
  ASSUME NEW v \in [Events -> Rows], NEW e \in Events, NEW due \in Nat
  PROVE  Insert(v, e, due) \in [Events -> Rows]
  BY DEF Insert, Rows, AbsentRow, Statuses, Terminal, NoJob

LEMMA CancelType ==
  ASSUME NEW v \in [Events -> Rows], NEW C
  PROVE  CancelAll(v, C) \in [Events -> Rows]
  BY DEF CancelAll, Rows, Statuses, Terminal

LEMMA ClaimType ==
  ASSUME TypeOK, NEW e \in Events
  PROVE  Claim(e) \in [Events -> Rows]
  BY DEF TypeOK, Claim, Rows, Statuses, Terminal

(* The effects of a scheduling and of a cancellation are sequences of effects. *)
LEMMA EffectTypes ==
  ASSUME TypeOK, NEW e \in Events, NEW k \in Epochs
  PROVE  /\ Enqueue(e, k) \in Effects
         /\ \A v : InsertFx(v, e, k) \in Seq(Effects)
         /\ RemoveFx(e) \in Seq(Effects)
<1>1. Enqueue(e, k) \in Effects
  BY Domains DEF Enqueue, Effect, Effects
<1>2. \A v : InsertFx(v, e, k) \in Seq(Effects)
  BY <1>1 DEF InsertFx
<1>3. rows[e].job # NoJob => Remove(e, rows[e].job) \in Effects
  BY Domains DEF TypeOK, Rows, Remove, Effect, Effects
<1> QED
  BY <1>1, <1>2, <1>3 DEF RemoveFx

LEMMA QueueTypes ==
  ASSUME TypeOK, NEW p \in Procs, NEW s \in JobStates
  PROVE  JobBecomes(p, s) \in [Jobs -> JobStates]
  BY DEF TypeOK, JobBecomes

LEMMA AlarmTypes ==
  /\ NoAlarm \in JobStates /\ Completed \in JobStates
  BY Domains DEF NoAlarm, Completed, JobStates, Live, Retained

LEMMA StampType ==
  ASSUME TypeOK, NEW e \in Events, NEW k \in Epochs \cup {NoJob}, NEW b \in BOOLEAN
  PROVE  [rows EXCEPT ![e].job = k, ![e].stamped = b] \in [Events -> Rows]
<1>1. rows \in [Events -> Rows] /\ rows[e] \in Rows
  BY DEF TypeOK
<1>2. [[rows[e] EXCEPT !.job = k] EXCEPT !.stamped = b] \in Rows
  BY <1>1 DEF Rows
<1> QED
  BY <1>1, <1>2

LEMMA RestType ==
  ASSUME TypeOK, NEW p \in Procs, Rest(p)
  PROVE  /\ pc' \in [Procs -> {"idle", "early", "woken", "read", "advance", "commit", "flush", "retimed"}]
         /\ job' \in [Procs -> Jobs \cup {IdleJob}]
         /\ reading' \in [Procs -> [game : 0 .. MaxGame, epoch : Epochs]]
  BY Domains, ScheduleAssumption DEF TypeOK, Rest, NoReading

LEMMA InitType == Init => TypeOK
<1> SUFFICES ASSUME Init PROVE TypeOK
  OBVIOUS
<1> USE Domains, ScheduleAssumption
<1>1. AbsentRow \in Rows /\ [AbsentRow EXCEPT !.status = "PENDING", !.due = Period] \in Rows
  BY DEF AbsentRow, Rows, Statuses, Terminal, NoJob
<1>2. rows \in [Events -> Rows] /\ view \in [Events -> Rows]
  BY <1>1 DEF Init, NoView
<1>3. queue \in [Jobs -> JobStates]
  BY AlarmTypes DEF Init
<1>4. Enqueue(1, 1) \in Effects
  BY DEF Enqueue, Effect, Effects
<1>5. fx \in [Procs -> Seq(Effects)] /\ pc \in [Procs -> {"idle", "flush"}]
  BY <1>4 DEF Init
<1> QED
  BY <1>2, <1>3, <1>5 DEF Init, TypeOK, NoReading, Procs

LEMMA ClockType == ASSUME TypeOK, Tick \/ Retime PROVE TypeOK'
<1> USE Domains, ScheduleAssumption
<1>1. CASE Tick
  BY <1>1 DEF Tick, TypeOK, txVars, procVars
<1>2. CASE Retime
  BY <1>2 DEF Retime, TypeOK, txVars, Epochs, Procs
<1> QED
  BY <1>1, <1>2

LEMMA AdvanceType == ASSUME TypeOK, NEW p \in Procs, Advance(p) \/ ReadClock(p) PROVE TypeOK'
<1> USE Domains, ScheduleAssumption
<1>1. CASE ReadClock(p)
  BY <1>1 DEF ReadClock, TypeOK, clockVars, txVars
<1>2. CASE LockPlayer(p)
  BY <1>2 DEF LockPlayer, TypeOK, clockVars, DueBy
<1>3. ASSUME NEW e \in Events, SkipEvent(p, e) PROVE TypeOK'
  BY <1>3 DEF SkipEvent, TypeOK, clockVars, procVars
<1>4. ASSUME NEW e \in Events, ApplyTask(p, e) PROVE TypeOK'
  <2>1. view' \in [Events -> Rows]
    BY <1>4, ClaimType DEF ApplyTask
  <2> QED
    BY <1>4, <2>1 DEF ApplyTask, TypeOK, clockVars, procVars
<1>5. ASSUME NEW e \in Events, ApplySweep(p, e) PROVE TypeOK'
  <2>1. PICK s \in Liquidations :
          /\ view' = Insert(CancelAll(Claim(e), {s[i] : i \in DOMAIN s}), e + 1, view[e].due + Period)
          /\ fx' = [fx EXCEPT ![p] = @ \o CancelFx(s)
                      \o InsertFx(CancelAll(Claim(e), {s[i] : i \in DOMAIN s}), e + 1, reading[p].epoch)]
    BY <1>5 DEF ApplySweep
  <2>2. CancelAll(Claim(e), {s[i] : i \in DOMAIN s}) \in [Events -> Rows]
    BY ClaimType, CancelType
  <2>3. e + 1 \in Events /\ view[e].due + Period \in Nat /\ reading[p].epoch \in Epochs
    BY <1>5 DEF ApplySweep, TypeOK, Rows
  <2>4. view' \in [Events -> Rows]
    BY <2>1, <2>2, <2>3, InsertType
  <2>5. CancelFx(s) \in Seq(Effects)
    <3>1. CASE s = <<>>
      BY <3>1 DEF CancelFx
    <3>2. ASSUME NEW t \in Tasks, s = <<t>> PROVE CancelFx(s) \in Seq(Effects)
      BY <3>2, EffectTypes DEF CancelFx
    <3> QED
      BY <3>1, <3>2 DEF Liquidations, PendingTasks
  <2>6. InsertFx(CancelAll(Claim(e), {s[i] : i \in DOMAIN s}), e + 1, reading[p].epoch) \in Seq(Effects)
    BY <2>3, EffectTypes
  <2>7. fx' \in [Procs -> Seq(Effects)]
    BY <2>1, <2>5, <2>6 DEF TypeOK
  <2> QED
    BY <1>5, <2>4, <2>7 DEF ApplySweep, TypeOK, clockVars
<1>6. CASE Body(p)
  <2>1. view' \in [Events -> Rows] /\ fx' \in [Procs -> Seq(Effects)]
    <3>1. ASSUME NEW t \in Tasks, NEW d \in Durations,
                 view' = Insert(view, t, reading[p].game + d),
                 fx' = [fx EXCEPT ![p] = @ \o InsertFx(view, t, reading[p].epoch)]
          PROVE  view' \in [Events -> Rows] /\ fx' \in [Procs -> Seq(Effects)]
      <4>1. reading[p].game + d \in Nat /\ reading[p].epoch \in Epochs
        BY DEF TypeOK
      <4>2. InsertFx(view, t, reading[p].epoch) \in Seq(Effects)
        BY <4>1, EffectTypes
      <4>3. fx' \in [Procs -> Seq(Effects)]
        BY <3>1, <4>2 DEF TypeOK
      <4>4. view \in [Events -> Rows] /\ t \in Events
        BY DEF TypeOK
      <4> QED
        BY <3>1, <4>1, <4>3, <4>4, InsertType
    <3>2. ASSUME NEW t \in PendingTasks(view),
                 view' = CancelAll(view, {t}),
                 fx' = [fx EXCEPT ![p] = @ \o RemoveFx(t)]
          PROVE  view' \in [Events -> Rows] /\ fx' \in [Procs -> Seq(Effects)]
      <4>1. RemoveFx(t) \in Seq(Effects)
        BY EffectTypes DEF PendingTasks
      <4>2. fx' \in [Procs -> Seq(Effects)]
        BY <3>2, <4>1 DEF TypeOK
      <4>3. view \in [Events -> Rows]
        BY DEF TypeOK
      <4> QED
        BY <3>2, <4>2, <4>3, CancelType
    <3> QED
      BY <1>6, <3>1, <3>2 DEF Body, TypeOK
  <2> QED
    BY <1>6, <2>1 DEF Body, TypeOK, clockVars
<1>7. CASE Commit(p)
  <2>1. rows' \in [Events -> Rows]
    <3>1. ASSUME NEW e \in Events
          PROVE  [view[e] EXCEPT !.job = rows[e].job, !.stamped = rows[e].stamped] \in Rows
      <4>1. view[e] \in Rows /\ rows[e] \in Rows
        BY DEF TypeOK
      <4> QED
        BY <4>1 DEF Rows
    <3> QED
      BY <1>7, <3>1 DEF Commit
  <2>2. view' \in [Events -> Rows]
    BY <1>7 DEF Commit, NoView, AbsentRow, Rows, Statuses, NoJob
  <2> QED
    BY <1>7, <2>1, <2>2 DEF Commit, TypeOK, clockVars
<1> QED
  BY <1>1, <1>2, <1>3, <1>4, <1>5, <1>6, <1>7 DEF Advance

LEMMA FlushType == ASSUME TypeOK, NEW p \in Procs, Flush(p) PROVE TypeOK'
<1> USE Domains, ScheduleAssumption
<1>1. ASSUME fx[p] # <<>>
      PROVE  Head(fx[p]) \in Effects /\ Tail(fx[p]) \in Seq(Effects) /\ Drop(p) \in [Procs -> Seq(Effects)]
  BY <1>1 DEF TypeOK, Drop
<1>2. CASE FlushRead(p)
  <2>1. fx[p] # <<>>
    BY <1>2 DEF FlushRead, NextEffect
  <2>2. [Head(fx[p]) EXCEPT !.op = "add", !.set = epoch] \in Effects
    BY <1>1, <2>1 DEF Effects, TypeOK
  <2>3. <<[Head(fx[p]) EXCEPT !.op = "add", !.set = epoch]>> \o Tail(fx[p]) \in Seq(Effects)
    BY <1>1, <2>1, <2>2
  <2>4. fx' \in [Procs -> Seq(Effects)]
    BY <1>1, <1>2, <2>1, <2>3 DEF FlushRead, TypeOK
  <2>5. Head(fx[p]).ev \in Events
    BY <1>1, <2>1 DEF Effects
  <2>6. passedOver' \in SUBSET Events
    BY <1>2, <2>5 DEF FlushRead, TypeOK
  <2> QED
    BY <1>2, <2>4, <2>6 DEF FlushRead, TypeOK, txVars
<1>3. CASE FlushAdd(p)
  <2>1. fx[p] # <<>>
    BY <1>3 DEF FlushAdd, NextEffect
  <2>2. [Head(fx[p]) EXCEPT !.op = "stamp", !.set = 1] \in Effects
    BY <1>1, <2>1 DEF Effects, TypeOK
  <2>3. <<[Head(fx[p]) EXCEPT !.op = "stamp", !.set = 1]>> \o Tail(fx[p]) \in Seq(Effects)
    BY <1>1, <2>1, <2>2
  <2>4. fx' \in [Procs -> Seq(Effects)]
    BY <1>3, <2>3 DEF FlushAdd, TypeOK
  <2>5. Head(fx[p]).set \in Epochs
    BY <1>1, <2>1 DEF Effects
  <2>6. [NoAlarm EXCEPT !.state = "delayed", !.set = Head(fx[p]).set] \in JobStates
    BY <2>5 DEF NoAlarm, JobStates, Live, Retained
  <2>7. queue' \in [Jobs -> JobStates]
    BY <1>3, <2>6 DEF FlushAdd, TypeOK
  <2> QED
    BY <1>3, <2>4, <2>7 DEF FlushAdd, TypeOK, clockVars, txVars
<1>4. CASE FlushStamp(p)
  <2>1. fx[p] # <<>>
    BY <1>4 DEF FlushStamp, NextEffect
  <2>2. Head(fx[p]).ep \in Epochs \cup {NoJob}
    BY <1>1, <2>1 DEF Effects
  <2>3. rows' \in [Events -> Rows]
    <3>1. Head(fx[p]).ev \in Events /\ rows \in [Events -> Rows]
      BY <1>1, <2>1 DEF Effects, TypeOK
    <3> QED
      BY <1>4, <2>2, <3>1, StampType DEF FlushStamp
  <2> QED
    BY <1>1, <1>4, <2>1, <2>3 DEF FlushStamp, TypeOK, clockVars, txVars
<1>5. CASE FlushRemove(p)
  <2>1. fx[p] # <<>>
    BY <1>5 DEF FlushRemove, NextEffect
  <2>2. queue' \in [Jobs -> JobStates]
    BY <1>5, AlarmTypes DEF FlushRemove, TypeOK
  <2> QED
    BY <1>1, <1>5, <2>1, <2>2 DEF FlushRemove, TypeOK, clockVars, txVars
<1>6. CASE Finish(p)
  <2>1. queue' \in [Jobs -> JobStates]
    BY <1>6, QueueTypes, AlarmTypes DEF Finish
  <2> QED
    BY <1>6, <2>1, RestType DEF Finish, TypeOK, clockVars, txVars
<1> QED
  BY <1>2, <1>3, <1>4, <1>5, <1>6 DEF Flush

LEMMA WakeType == ASSUME TypeOK, NEW p \in Procs, Wake(p) PROVE TypeOK'
<1> USE Domains, ScheduleAssumption
<1>1. CASE ParkEarly(p)
  <2>1. rows' \in [Events -> Rows]
    <3>1. rows \in [Events -> Rows]
      BY DEF TypeOK
    <3>2. job[p][1] \in Events => rows' \in [Events -> Rows]
      BY <1>1, <3>1, StampType DEF ParkEarly
    <3>3. job[p][1] \notin Events => rows' = rows
      BY <1>1, <3>1 DEF ParkEarly
    <3> QED
      BY <3>1, <3>2, <3>3
  <2>2. queue' \in [Jobs -> JobStates]
    BY <1>1, QueueTypes, AlarmTypes DEF ParkEarly
  <2> QED
    BY <1>1, <2>1, <2>2, RestType DEF ParkEarly, TypeOK, clockVars, txVars
<1>2. ASSUME NEW e \in Events, NEW k \in Epochs, Ring(p, e, k) PROVE TypeOK'
  <2>1. <<e, k>> \in Jobs
    BY DEF Jobs
  <2>2. queue' \in [Jobs -> JobStates]
    BY <1>2, <2>1 DEF Ring, TypeOK, JobStates, Live
  <2>3. job' \in [Procs -> Jobs \cup {IdleJob}]
    BY <1>2, <2>1 DEF Ring, TypeOK
  <2>4. pc' \in [Procs -> {"idle", "early", "woken", "read", "advance", "commit", "flush", "retimed"}]
    BY <1>2 DEF Ring, TypeOK
  <2> QED
    BY <1>2, <2>2, <2>3, <2>4 DEF Ring, TypeOK, clockVars, txVars
<1> QED
  BY <1>1, <1>2 DEF Wake

LEMMA EventsFinite ==
  ASSUME NEW S \in SUBSET Events
  PROVE  IsFiniteSet(S) /\ Cardinality(S) \in Nat
<1>1. IsFiniteSet(Events)
  BY ScheduleAssumption, FS_Interval DEF Events
<1> QED
  BY <1>1, FS_Subset, FS_CardinalityType

LEMMA EnqueueAllType ==
  ASSUME TypeOK, NEW S \in SUBSET Events, NEW s \in ByDue(S)
  PROVE  /\ EnqueueAll(s) \in Seq(Effects)
         /\ \A i \in DOMAIN EnqueueAll(s) : EnqueueAll(s)[i].ev \in S
<1>1. s \in [1 .. Cardinality(S) -> S] /\ Cardinality(S) \in Nat
  BY EventsFinite DEF ByDue
<1>2. \A i \in 1 .. Cardinality(S) : Enqueue(s[i], epoch) \in Effects
  BY <1>1, EffectTypes DEF TypeOK
<1> QED
  BY <1>1, <1>2 DEF EnqueueAll, Enqueue, Effect

LEMMA SweeperType == ASSUME TypeOK, Reconcile \/ Reschedule PROVE TypeOK'
<1> USE Domains, ScheduleAssumption
<1>1. CASE Reconcile
  <2>1. Overdue \in SUBSET Events /\ Soon \in SUBSET Events
    BY DEF Overdue, Soon, DueBy
  <2>2. PICK s \in ByDue(Overdue), t \in ByDue(Soon) :
          fx' = [fx EXCEPT ![Sweeper] = EnqueueAll(s) \o EnqueueAll(t)]
    BY <1>1 DEF Reconcile
  <2>3. EnqueueAll(s) \in Seq(Effects) /\ EnqueueAll(t) \in Seq(Effects)
    BY <2>1, EnqueueAllType
  <2>4. fx' \in [Procs -> Seq(Effects)]
    BY <2>2, <2>3 DEF TypeOK, Procs
  <2> QED
    BY <1>1, <2>4 DEF Reconcile, TypeOK, clockVars, txVars
<1>2. CASE Reschedule
  <2> DEFINE n == Cardinality(Pending)
  <2>1. Pending \in SUBSET Events /\ n \in Nat
    BY EventsFinite DEF Pending
  <2>2. PICK s \in ByDue(Pending) :
          fx' = [fx EXCEPT ![Operator] =
                  [i \in 1 .. 2 * n |->
                     IF i % 2 = 1 THEN Remove(s[(i + 1) \div 2], rows[s[(i + 1) \div 2]].job)
                                  ELSE Enqueue(s[i \div 2], epoch)]]
    BY <1>2 DEF Reschedule
  <2>3. ASSUME NEW e \in Events
        PROVE  Remove(e, rows[e].job) \in Effects /\ Enqueue(e, epoch) \in Effects
    <3>1. rows[e].job \in Epochs \cup {NoJob} /\ epoch \in Epochs
      BY DEF TypeOK, Rows
    <3> QED
      BY <3>1 DEF Remove, Enqueue, Effect, Effects
  <2>4. s \in [1 .. n -> Events]
    BY <2>1 DEF ByDue
  <2>5. ASSUME NEW i \in 1 .. 2 * n
        PROVE  (IF i % 2 = 1 THEN Remove(s[(i + 1) \div 2], rows[s[(i + 1) \div 2]].job)
                             ELSE Enqueue(s[i \div 2], epoch)) \in Effects
    <3>1. CASE i % 2 = 1
      <4>1. (i + 1) \div 2 \in 1 .. n
        BY <2>1, <3>1
      <4> QED
        BY <2>3, <2>4, <3>1, <4>1
    <3>2. CASE i % 2 # 1
      <4>1. i \div 2 \in 1 .. n
        BY <2>1, <3>2
      <4> QED
        BY <2>3, <2>4, <3>2, <4>1
    <3> QED
      BY <3>1, <3>2
  <2>6. [i \in 1 .. 2 * n |->
           IF i % 2 = 1 THEN Remove(s[(i + 1) \div 2], rows[s[(i + 1) \div 2]].job)
                        ELSE Enqueue(s[i \div 2], epoch)] \in Seq(Effects)
    BY <2>1, <2>5
  <2>7. fx' \in [Procs -> Seq(Effects)]
    BY <2>2, <2>6 DEF TypeOK, Procs
  <2> QED
    BY <1>2, <2>7 DEF Reschedule, TypeOK, clockVars, txVars
<1> QED
  BY <1>1, <1>2

LEMMA AbortType ==
  ASSUME TypeOK, NEW p \in Procs, Abort(p), queue' \in [Jobs -> JobStates], faults' \in Nat
  PROVE  TypeOK'
<1>1. NoView \in [Events -> Rows]
  BY DEF NoView, AbsentRow, Rows, Statuses, NoJob
<1>2. view' \in [Events -> Rows]
  BY <1>1 DEF Abort, TypeOK
<1> QED
  BY <1>2, RestType DEF Abort, TypeOK, clockVars

LEMMA FaultType ==
  ASSUME TypeOK, NEW p \in Procs, RollBack(p) \/ Crash(p) \/ FlushFails(p)
  PROVE  TypeOK'
<1>0. job[p] # IdleJob => queue[job[p]] \in JobStates
  BY DEF TypeOK
<1>1. CASE RollBack(p)
  <2>1. job[p] # IdleJob => Retry(job[p]) \in JobStates
    <3>1. ASSUME NEW j \in JobStates, NEW n \in Nat
          PROVE  [j EXCEPT !.state = IF n < MaxAttempts THEN "delayed" ELSE "failed",
                           !.tries = n] \in JobStates
      BY DEF JobStates, Live, Retained
    <3>2. job[p] # IdleJob => queue[job[p]].tries + 1 \in Nat
      BY <1>0 DEF JobStates
    <3> QED
      BY <1>0, <3>1, <3>2 DEF Retry
  <2>2. queue' \in [Jobs -> JobStates]
    BY <1>1, <2>1 DEF RollBack, JobBecomes, TypeOK
  <2> QED
    BY <1>1, <2>2, AbortType DEF RollBack, Fault, TypeOK
<1>2. CASE Crash(p)
  <2>1. job[p] # IdleJob => [queue[job[p]] EXCEPT !.state = "delayed"] \in JobStates
    BY <1>0 DEF JobStates, Live
  <2>2. queue' \in [Jobs -> JobStates]
    BY <1>2, <2>1 DEF Crash, JobBecomes, TypeOK
  <2>3. Abort(p) /\ faults' \in Nat
    BY <1>2 DEF Crash, Fault, TypeOK
  <2> QED
    BY <2>2, <2>3, AbortType
<1>3. CASE FlushFails(p)
  BY <1>3 DEF FlushFails, Fault, Drop, TypeOK, clockVars, txVars
<1> QED
  BY <1>1, <1>2, <1>3

LEMMA NextType == ASSUME TypeOK, [Next]_vars PROVE TypeOK'
<1>1. CASE UNCHANGED vars
  BY <1>1 DEF TypeOK, vars, clockVars, txVars, procVars
<1>2. CASE RedisLoss
  BY <1>2, AlarmTypes DEF RedisLoss, Fault, TypeOK, clockVars, txVars, procVars
<1>3. ASSUME NEW j \in Jobs, Purge(j) PROVE TypeOK'
  BY <1>3, AlarmTypes DEF Purge, TypeOK, clockVars, txVars, procVars
<1> QED
  BY <1>1, <1>2, <1>3, ClockType, AdvanceType, FlushType, WakeType, SweeperType, FaultType DEF Next

(* Type correctness of the schedule, its queue and its transactions. *)
THEOREM TypeCorrect == Spec => []TypeOK
<1>1. Init => TypeOK
  BY InitType
<1>2. TypeOK /\ [Next]_vars => TypeOK'
  BY NextType
<1> QED
  BY <1>1, <1>2, PTL DEF Spec
-----------------------------------------------------------------------------
(* The inductive invariant: what the open transaction knows of the table. *)

\* One link of the chain is pending, those before it ran, those after do not exist.
Chain(v) ==
    \E e \in Sweeps :
        /\ v[e].status = "PENDING"
        /\ \A f \in Sweeps : /\ f < e => v[f].status = "PROCESSED"
                             /\ f > e => v[f].status = "ABSENT"

\* The open transaction only adds to what is committed.
Extends ==
    \A e \in Events :
        /\ rows[e].status \in Terminal => view[e].status = rows[e].status
        /\ rows[e].status # "ABSENT" => view[e].status # "ABSENT"

\* A sweep of the batch is still pending: no handler cancels one.
BatchSweeps == \A e \in batch \cap Sweeps : view[e].status = "PENDING"

TxInv == lock # NoProc => Chain(view) /\ Extends /\ BatchSweeps

ScheduleInv == Chain(rows) /\ TxInv

\* Steps that neither open, write nor close a transaction of the player.
StampsOnly ==
    \A e \in Events : rows'[e].status = rows[e].status /\ rows'[e].due = rows[e].due
Quiet == StampsOnly /\ UNCHANGED txVars

LEMMA QuietSteps ==
  ASSUME TypeOK, NEW p \in Procs,
         \/ Tick \/ Retime \/ Reschedule \/ Reconcile
         \/ ReadClock(p) \/ Flush(p) \/ Wake(p) \/ FlushFails(p)
         \/ RedisLoss \/ \E j \in Jobs : Purge(j)
         \/ UNCHANGED vars
  PROVE  Quiet
<1>1. CASE FlushStamp(p)
  BY <1>1 DEF FlushStamp, Quiet, StampsOnly, TypeOK, Rows
<1>2. CASE ParkEarly(p)
  BY <1>2 DEF ParkEarly, Quiet, StampsOnly, TypeOK, Rows
<1>3. ASSUME UNCHANGED <<rows, txVars>> PROVE Quiet
  BY <1>3 DEF Quiet, StampsOnly
<1>4. CASE Tick \/ Retime \/ Reschedule \/ Reconcile
  BY <1>3, <1>4 DEF Tick, Retime, Reschedule, Reconcile
<1>5. CASE ReadClock(p) \/ FlushFails(p) \/ RedisLoss \/ \E j \in Jobs : Purge(j)
  BY <1>3, <1>5 DEF ReadClock, FlushFails, RedisLoss, Purge
<1>6. CASE FlushRead(p) \/ FlushAdd(p) \/ FlushRemove(p) \/ Finish(p)
  BY <1>3, <1>6 DEF FlushRead, FlushAdd, FlushRemove, Finish
<1>7. CASE \E e \in Events, k \in Epochs : Ring(p, e, k)
  BY <1>3, <1>7 DEF Ring
<1>8. CASE UNCHANGED vars
  BY <1>3, <1>8 DEF vars
<1> QED
  BY <1>1, <1>2, <1>4, <1>5, <1>6, <1>7, <1>8 DEF Flush, Wake

(* Every step is one of a handful of kinds, as far as the rows are concerned. *)
LEMMA StepKinds ==
  ASSUME TypeOK, [Next]_vars
  PROVE  \/ Quiet
         \/ \E p \in Procs :
              \/ LockPlayer(p) \/ Body(p) \/ Commit(p) \/ Abort(p)
              \/ \E e \in Events : SkipEvent(p, e) \/ ApplyTask(p, e) \/ ApplySweep(p, e)
<1>1. \E p \in Procs : TRUE
  BY DEF Procs
<1>2. ASSUME NEW p \in Procs, RollBack(p) \/ Crash(p) PROVE Abort(p)
  BY <1>2 DEF RollBack, Crash
<1> QED
  BY <1>1, <1>2, QuietSteps DEF Next, Advance

(* What a sweep does to the rows: its own is processed, the next link is pending,
   and of the others at most pending tasks are cancelled. *)
LEMMA SweepEffect ==
  ASSUME TypeOK, Chain(view), NEW p \in Procs, NEW e \in Events, ApplySweep(p, e)
  PROVE  /\ e \in Sweeps /\ e + 1 \in Sweeps /\ e + 1 \in Events
         /\ view[e].status = "PENDING" /\ view[e + 1].status = "ABSENT"
         /\ view'[e].status = "PROCESSED" /\ view'[e].due = view[e].due
         /\ view'[e + 1].status = "PENDING" /\ view'[e + 1].due = view[e].due + Period
         /\ \A f \in Events \ {e, e + 1} :
              /\ view'[f].due = view[f].due
              /\ \/ view'[f].status = view[f].status
                 \/ f \in Tasks /\ view[f].status = "PENDING" /\ view'[f].status = "CANCELED"
<1>1. e \in Sweeps /\ e + 1 \in Sweeps /\ e + 1 \in Events /\ e # e + 1 /\ view[e].status = "PENDING"
  BY Domains DEF ApplySweep
<1>2. view[e + 1].status = "ABSENT"
  BY <1>1, Domains DEF Chain
<1>3. PICK s \in Liquidations :
        view' = Insert(CancelAll(Claim(e), {s[i] : i \in DOMAIN s}), e + 1, view[e].due + Period)
  BY DEF ApplySweep
<1> DEFINE C == {s[i] : i \in DOMAIN s}
           v == CancelAll(Claim(e), C)
<1>4. C \subseteq PendingTasks(view)
  BY DEF Liquidations
<1>5. \A f \in Events : /\ f \notin C \cup {e} => v[f] = view[f]
                        /\ f \in C => v[f] = [view[f] EXCEPT !.status = "CANCELED"]
  BY <1>1, <1>4, Domains DEF CancelAll, Claim, PendingTasks, TypeOK
<1>6. v[e].status = "PROCESSED" /\ v[e].due = view[e].due
  BY <1>1, <1>4, Domains DEF CancelAll, Claim, PendingTasks, TypeOK, Rows
<1>7. e + 1 \notin C /\ v[e + 1] = view[e + 1]
  BY <1>1, <1>4, <1>5, Domains DEF PendingTasks
<1>8. view' = [v EXCEPT ![e + 1] = [AbsentRow EXCEPT !.status = "PENDING",
                                                     !.due = view[e].due + Period]]
  BY <1>2, <1>3, <1>7 DEF Insert
<1>9. v \in [Events -> Rows]
  BY ClaimType, CancelType
<1>10. \A f \in Events \ {e + 1} : view'[f] = v[f]
  BY <1>8, <1>9
<1>11. view'[e + 1].status = "PENDING" /\ view'[e + 1].due = view[e].due + Period
  BY <1>1, <1>8, <1>9 DEF AbsentRow
<1>12. ASSUME NEW f \in Events \ {e, e + 1}
       PROVE  /\ view'[f].due = view[f].due
              /\ \/ view'[f].status = view[f].status
                 \/ f \in Tasks /\ view[f].status = "PENDING" /\ view'[f].status = "CANCELED"
  <2>1. CASE f \in C
    <3>1. view'[f] = [view[f] EXCEPT !.status = "CANCELED"]
      BY <1>5, <1>10, <2>1
    <3>2. view[f] \in Rows
      BY DEF TypeOK
    <3>3. f \in Tasks /\ view[f].status = "PENDING"
      BY <1>4, <2>1 DEF PendingTasks
    <3> QED
      BY <3>1, <3>2, <3>3 DEF Rows
  <2>2. CASE f \notin C
    BY <1>5, <1>10, <2>2
  <2> QED
    BY <2>1, <2>2
<1> QED
  BY <1>1, <1>2, <1>6, <1>10, <1>11, <1>12

(* What the body of a request does: at most one task is scheduled or cancelled. *)
LEMMA BodyEffect ==
  ASSUME TypeOK, NEW p \in Procs, Body(p)
  PROVE  \A f \in Events :
            \/ view'[f] = view[f]
            \/ f \in Tasks /\ view[f].status = "ABSENT" /\ view'[f].status = "PENDING"
            \/ /\ f \in Tasks /\ view[f].status = "PENDING" /\ view'[f].status = "CANCELED"
               /\ view'[f].due = view[f].due
<1> SUFFICES ASSUME NEW f \in Events
             PROVE  \/ view'[f] = view[f]
                    \/ f \in Tasks /\ view[f].status = "ABSENT" /\ view'[f].status = "PENDING"
                    \/ /\ f \in Tasks /\ view[f].status = "PENDING" /\ view'[f].status = "CANCELED"
                       /\ view'[f].due = view[f].due
  OBVIOUS
<1>1. ASSUME NEW t \in Tasks, NEW due, view[t].status = "ABSENT", view' = Insert(view, t, due)
      PROVE  view'[f] = view[f] \/ (f = t /\ view'[f].status = "PENDING")
  BY <1>1, Domains DEF Insert, TypeOK, AbsentRow
<1>2. ASSUME NEW t \in PendingTasks(view), view' = CancelAll(view, {t})
      PROVE  view'[f] = view[f] \/ (f = t /\ view'[f] = [view[f] EXCEPT !.status = "CANCELED"])
  BY <1>2, Domains DEF CancelAll, PendingTasks, TypeOK
<1>3. [view[f] EXCEPT !.status = "CANCELED"].status = "CANCELED"
      /\ [view[f] EXCEPT !.status = "CANCELED"].due = view[f].due
  BY DEF TypeOK, Rows
<1> QED
  BY <1>1, <1>2, <1>3 DEF Body, PendingTasks

(* A commit publishes what the transaction decided, stamps apart. *)
LEMMA CommitEffect ==
  ASSUME TypeOK, NEW p \in Procs, Commit(p), NEW e \in Events
  PROVE  rows'[e].status = view[e].status /\ rows'[e].due = view[e].due
<1>1. rows'[e] = [view[e] EXCEPT !.job = rows[e].job, !.stamped = rows[e].stamped]
  BY DEF Commit
<1>2. view[e] \in Rows
  BY DEF TypeOK
<1> QED
  BY <1>1, <1>2 DEF Rows

(* A table whose sweeps keep their statuses keeps its chain. *)
LEMMA ChainFrame ==
  ASSUME NEW v, NEW w, Chain(v), \A f \in Sweeps : w[f].status = v[f].status
  PROVE  Chain(w)
  BY DEF Chain

LEMMA ChainStep ==
  ASSUME TypeOK, TypeOK', ScheduleInv, [Next]_vars
  PROVE  ScheduleInv'
<1> USE DEF ScheduleInv
<1>1. CASE Quiet
  <2>1. Chain(rows')
    BY <1>1, Domains, ChainFrame DEF Quiet, StampsOnly
  <2>2. TxInv'
    BY <1>1, <2>1 DEF Quiet, StampsOnly, TxInv, txVars, Chain, Extends, BatchSweeps
  <2> QED
    BY <2>1, <2>2 DEF Chain
<1>2. ASSUME NEW p \in Procs, LockPlayer(p) PROVE ScheduleInv'
  <2>1. rows' = rows /\ view' = rows /\ batch' \subseteq DueBy(reading[p].game)
    BY <1>2 DEF LockPlayer
  <2>2. Extends' /\ BatchSweeps'
    BY <2>1 DEF Extends, BatchSweeps, DueBy
  <2> QED
    BY <2>1, <2>2 DEF TxInv, Chain
<1>3. ASSUME NEW p \in Procs, NEW e \in Events, SkipEvent(p, e) PROVE ScheduleInv'
  <2>1. rows' = rows /\ view' = view /\ lock' = lock /\ batch' \subseteq batch
    BY <1>3 DEF SkipEvent
  <2> QED
    BY <2>1 DEF TxInv, Chain, Extends, BatchSweeps
<1>4. ASSUME NEW p \in Procs, NEW e \in Events, ApplyTask(p, e) PROVE ScheduleInv'
  <2>1. /\ rows' = rows /\ lock' = lock /\ lock # NoProc /\ batch' \subseteq batch
        /\ e \in Tasks /\ view[e].status = "PENDING"
        /\ view' = [view EXCEPT ![e].status = "PROCESSED"]
    BY <1>4, ScheduleAssumption DEF ApplyTask, Claim, Procs
  <2>2. /\ \A f \in Events \ {e} : view'[f] = view[f]
        /\ view'[e].status = "PROCESSED"
    BY <2>1 DEF TypeOK, Rows
  <2>3. \A f \in Sweeps : view'[f] = view[f]
    BY <2>1, <2>2, Domains
  <2>4. Chain(view')
    <3>1. Chain(view)
      BY <2>1 DEF TxInv
    <3> QED
      BY <2>3, <3>1, ChainFrame
  <2>5. Extends'
    BY <2>1, <2>2 DEF TxInv, Extends, Terminal
  <2>6. BatchSweeps'
    BY <2>1, <2>3 DEF TxInv, BatchSweeps
  <2> QED
    BY <2>1, <2>4, <2>5, <2>6 DEF TxInv, Chain
<1>5. ASSUME NEW p \in Procs, NEW e \in Events, ApplySweep(p, e) PROVE ScheduleInv'
  <2>1. rows' = rows /\ lock' = lock /\ lock # NoProc /\ batch' = batch \ {e}
    BY <1>5, ScheduleAssumption DEF ApplySweep, Procs
  <2>2. Chain(view) /\ Extends /\ BatchSweeps
    BY <2>1 DEF TxInv
  <2>3. /\ e \in Sweeps /\ e + 1 \in Sweeps /\ e + 1 \in Events
        /\ view[e].status = "PENDING" /\ view[e + 1].status = "ABSENT"
        /\ view'[e].status = "PROCESSED" /\ view'[e + 1].status = "PENDING"
        /\ \A f \in Events \ {e, e + 1} :
             \/ view'[f].status = view[f].status
             \/ f \in Tasks /\ view[f].status = "PENDING" /\ view'[f].status = "CANCELED"
    BY <1>5, <2>2, SweepEffect
  <2>4. \A f \in Sweeps \ {e, e + 1} : view'[f].status = view[f].status
    BY <2>3, Domains
  <2>5. \A f \in Sweeps : /\ f < e => view[f].status = "PROCESSED"
                          /\ f > e => view[f].status = "ABSENT"
    BY <2>2, <2>3, Domains DEF Chain
  <2>6. Chain(view')
    <3>1. \A f \in Sweeps : /\ f < e + 1 => view'[f].status = "PROCESSED"
                            /\ f > e + 1 => view'[f].status = "ABSENT"
      BY <2>3, <2>4, <2>5, Domains
    <3> QED
      BY <2>3, <3>1 DEF Chain
  <2>7. Extends'
    BY <2>1, <2>2, <2>3 DEF Extends, Terminal
  <2>8. BatchSweeps'
    BY <2>1, <2>2, <2>3, <2>4 DEF BatchSweeps
  <2> QED
    BY <2>1, <2>6, <2>7, <2>8 DEF TxInv, Chain
<1>6. ASSUME NEW p \in Procs, Body(p) PROVE ScheduleInv'
  <2>1. rows' = rows /\ lock' = lock /\ lock # NoProc /\ batch' = batch
    BY <1>6, ScheduleAssumption DEF Body, Procs
  <2>2. \A f \in Sweeps : view'[f] = view[f]
    BY <1>6, BodyEffect, Domains
  <2>3. Chain(view')
    BY <2>1, <2>2, ChainFrame DEF TxInv
  <2>4. Extends'
    BY <1>6, <2>1, BodyEffect DEF TxInv, Extends, Terminal
  <2> QED
    BY <2>1, <2>2, <2>3, <2>4 DEF TxInv, Chain, BatchSweeps
<1>7. ASSUME NEW p \in Procs, Commit(p) PROVE ScheduleInv'
  <2>1. lock = p /\ p # NoProc /\ lock' = NoProc
    BY <1>7, ScheduleAssumption DEF Commit, Procs
  <2>2. \A e \in Events : rows'[e].status = view[e].status
    BY <1>7, CommitEffect
  <2>3. Chain(rows')
    BY <2>1, <2>2, Domains, ChainFrame DEF TxInv
  <2> QED
    BY <2>1, <2>3 DEF TxInv, Chain
<1>8. ASSUME NEW p \in Procs, Abort(p) PROVE ScheduleInv'
  <2>1. rows' = rows
    BY <1>8 DEF Abort
  <2>2. CASE lock = p
    BY <1>8, <2>1, <2>2 DEF Abort, TxInv, Chain
  <2>3. CASE lock # p
    BY <1>8, <2>1, <2>3 DEF Abort, TxInv, Chain, Extends, BatchSweeps
  <2> QED
    BY <2>2, <2>3
<1> QED
  BY <1>1, <1>2, <1>3, <1>4, <1>5, <1>6, <1>7, <1>8, StepKinds

LEMMA ChainInit == Init => ScheduleInv
<1> SUFFICES ASSUME Init PROVE ScheduleInv
  OBVIOUS
<1>1. rows[1].status = "PENDING" /\ \A f \in Sweeps : f > 1 => rows[f].status = "ABSENT"
  BY Domains DEF Init, AbsentRow
<1>2. Chain(rows)
  BY <1>1, Domains, ScheduleAssumption DEF Chain, Sweeps
<1> QED
  BY <1>2 DEF ScheduleInv, TxInv, Init

LEMMA ScheduleInvariant == Spec => [](TypeOK /\ ScheduleInv)
<1>1. Init => TypeOK /\ ScheduleInv
  BY InitType, ChainInit
<1>2. TypeOK /\ ScheduleInv /\ [Next]_vars => (TypeOK /\ ScheduleInv)'
  BY NextType, ChainStep
<1> QED
  BY <1>1, <1>2, PTL DEF Spec

(* The settlement sweep of a player neither dies nor forks. *)
THEOREM SweepChainHolds == Spec => []SweepChain
<1>1. TypeOK /\ ScheduleInv => SweepChain
  BY Domains DEF ScheduleInv, Chain, SweepChain
<1> QED
  BY <1>1, ScheduleInvariant, PTL

LEMMA TerminalStep ==
  ASSUME TypeOK, TypeOK', ScheduleInv, [Next]_vars
  PROVE  \A e \in Events :
           /\ rows[e].status \in Terminal => rows'[e].status = rows[e].status
           /\ lock # NoProc /\ lock' = lock /\ view[e].status \in Terminal
                 => view'[e].status = view[e].status
<1> SUFFICES ASSUME NEW e \in Events
             PROVE  /\ rows[e].status \in Terminal => rows'[e].status = rows[e].status
                    /\ lock # NoProc /\ lock' = lock /\ view[e].status \in Terminal
                          => view'[e].status = view[e].status
  OBVIOUS
<1> USE DEF ScheduleInv, Terminal
<1>1. CASE Quiet
  BY <1>1 DEF Quiet, StampsOnly, txVars
<1>2. ASSUME NEW p \in Procs, LockPlayer(p) \/ \E f \in Events : SkipEvent(p, f)
      PROVE  rows' = rows /\ (lock = NoProc \/ view' = view)
  BY <1>2 DEF LockPlayer, SkipEvent
<1>3. ASSUME NEW p \in Procs, NEW f \in Events, ApplyTask(p, f)
      PROVE  rows' = rows /\ (view[e].status # "PENDING" => view'[e] = view[e])
  BY <1>3 DEF ApplyTask, Claim, TypeOK
<1>4. ASSUME NEW p \in Procs, NEW f \in Events, ApplySweep(p, f)
      PROVE  rows' = rows /\ (view[e].status \in Terminal => view'[e].status = view[e].status)
  <2>1. Chain(view)
    BY <1>4, ScheduleAssumption DEF ApplySweep, TxInv, Procs
  <2> QED
    BY <1>4, <2>1, SweepEffect DEF ApplySweep
<1>5. ASSUME NEW p \in Procs, Body(p)
      PROVE  rows' = rows /\ (view[e].status \in Terminal => view'[e].status = view[e].status)
  BY <1>5, BodyEffect DEF Body
<1>6. ASSUME NEW p \in Procs, Commit(p)
      PROVE  /\ lock' # lock
             /\ rows[e].status \in Terminal => rows'[e].status = rows[e].status
  <2>1. lock = p /\ lock # NoProc /\ lock' = NoProc
    BY <1>6, ScheduleAssumption DEF Commit, Procs
  <2>2. rows'[e].status = view[e].status
    BY <1>6, CommitEffect
  <2> QED
    BY <2>1, <2>2 DEF TxInv, Extends
<1>7. ASSUME NEW p \in Procs, Abort(p)
      PROVE  rows' = rows /\ (lock' # lock \/ lock = NoProc \/ view' = view)
  BY <1>7 DEF Abort
<1> QED
  BY <1>1, <1>2, <1>3, <1>4, <1>5, <1>6, <1>7, StepKinds

(* A row that was processed or cancelled stays so, in the table and in the open
   transaction: a duplicate delivery, a retry or a late cancellation changes nothing. *)
THEOREM TerminalRowsAreFinal == Spec => TerminalIsFinal
<1>1. TypeOK /\ TypeOK' /\ ScheduleInv /\ [Next]_vars =>
        [\A e \in Events :
           /\ rows[e].status \in Terminal => rows'[e].status = rows[e].status
           /\ lock # NoProc /\ lock' = lock /\ view[e].status \in Terminal
                 => view'[e].status = view[e].status]_vars
  BY TerminalStep
<1> QED
  BY <1>1, ScheduleInvariant, PTL DEF Spec, TerminalIsFinal
-----------------------------------------------------------------------------
(* Nothing is applied before its time. *)

\* No reading is ahead of the clock, and nothing the open transaction visits is.
DueInv ==
    /\ NeverEarly
    /\ \A p \in Procs : reading[p].game <= game
    /\ lock # NoProc =>
         /\ \A e \in Events : view[e].status = "PROCESSED" => view[e].due <= game
         /\ \A e \in batch : view[e].due <= game

\* The clock never goes back, and what the processes read is never ahead of it.
LEMMA ReadingStep ==
  ASSUME TypeOK, DueInv, [Next]_vars
  PROVE  /\ game' \in Nat /\ game \in Nat /\ game <= game'
         /\ \A p \in Procs : reading'[p].game <= game'
<1>1. game \in Nat /\ rate \in Nat /\ \A p \in Procs : reading[p].game \in Nat
  BY ScheduleAssumption DEF TypeOK
<1>2. CASE Tick
  BY <1>1, <1>2 DEF Tick, procVars, DueInv
<1>3. CASE UNCHANGED <<game, reading>>
  BY <1>1, <1>3 DEF DueInv
<1>4. ASSUME NEW p \in Procs, ReadClock(p)
      PROVE  game' = game /\ \A q \in Procs : reading'[q].game <= game
  BY <1>1, <1>4 DEF ReadClock, clockVars, DueInv, TypeOK
<1>5. ASSUME NEW p \in Procs, Rest(p), game' = game
      PROVE  \A q \in Procs : reading'[q].game <= game
  BY <1>1, <1>5 DEF Rest, NoReading, DueInv, TypeOK
<1>6. ASSUME NEW p \in Procs, Finish(p) \/ ParkEarly(p) \/ RollBack(p) \/ Crash(p)
      PROVE  Rest(p) /\ game' = game
  BY <1>6 DEF Finish, ParkEarly, RollBack, Crash, Abort, clockVars
<1>7. ASSUME NEW p \in Procs,
             \/ LockPlayer(p) \/ Body(p) \/ Commit(p)
             \/ FlushRead(p) \/ FlushAdd(p) \/ FlushStamp(p) \/ FlushRemove(p) \/ FlushFails(p)
             \/ \E e \in Events : SkipEvent(p, e) \/ ApplyTask(p, e) \/ ApplySweep(p, e)
             \/ \E e \in Events, k \in Epochs : Ring(p, e, k)
      PROVE  UNCHANGED <<game, reading>>
  BY <1>7 DEF LockPlayer, Body, Commit, FlushRead, FlushAdd, FlushStamp, FlushRemove, FlushFails,
              SkipEvent, ApplyTask, ApplySweep, Ring, clockVars, procVars
<1>8. ASSUME Retime \/ Reschedule \/ Reconcile \/ RedisLoss \/ (\E j \in Jobs : Purge(j))
             \/ UNCHANGED vars
      PROVE  UNCHANGED <<game, reading>>
  BY <1>8 DEF Retime, Reschedule, Reconcile, RedisLoss, Purge, vars, clockVars, procVars
<1> QED
  BY <1>1, <1>2, <1>3, <1>4, <1>5, <1>6, <1>7, <1>8 DEF Next, Advance, Flush, Wake

LEMMA DueStep ==
  ASSUME TypeOK, TypeOK', ScheduleInv, DueInv, [Next]_vars
  PROVE  DueInv'
<1>1. /\ game' \in Nat /\ game \in Nat /\ game <= game'
      /\ \A p \in Procs : reading'[p].game <= game'
  BY ReadingStep
<1>2. \A e \in Events : rows[e].due \in Nat /\ view[e].due \in Nat
                        /\ rows'[e].due \in Nat /\ view'[e].due \in Nat
  BY DEF TypeOK, Rows
<1>3. CASE Quiet
  <2>1. NeverEarly'
    BY <1>1, <1>2, <1>3 DEF Quiet, StampsOnly, NeverEarly, DueInv
  <2> QED
    BY <1>1, <1>2, <1>3, <2>1 DEF Quiet, txVars, DueInv, TypeOK
<1>4. ASSUME UNCHANGED rows PROVE NeverEarly'
  BY <1>1, <1>2, <1>4 DEF NeverEarly, DueInv
<1>5. ASSUME NEW p \in Procs, LockPlayer(p) PROVE DueInv'
  <2>1. rows' = rows /\ view' = rows /\ batch' \subseteq DueBy(reading[p].game) /\ reading' = reading
    BY <1>5 DEF LockPlayer
  <2>2. reading[p].game \in Nat /\ reading[p].game <= game
    BY DEF DueInv, TypeOK
  <2>3. \A e \in batch' : e \in Events /\ rows[e].due <= game
    BY <1>1, <1>2, <2>1, <2>2 DEF DueBy
  <2> QED
    BY <1>1, <1>2, <1>4, <2>1, <2>3 DEF DueInv, NeverEarly
<1>6. ASSUME NEW p \in Procs, NEW e \in Events, SkipEvent(p, e) PROVE DueInv'
  BY <1>1, <1>2, <1>4, <1>6 DEF SkipEvent, DueInv, TypeOK
<1>7. ASSUME NEW p \in Procs, NEW e \in Events, ApplyTask(p, e) PROVE DueInv'
  <2>1. /\ rows' = rows /\ lock' = lock /\ lock # NoProc /\ batch' = batch \ {e} /\ e \in batch
        /\ view' = [view EXCEPT ![e].status = "PROCESSED"]
    BY <1>7, ScheduleAssumption DEF ApplyTask, Claim, Procs, Earliest
  <2>2. \A f \in Events : view'[f].due = view[f].due /\ (f # e => view'[f].status = view[f].status)
    BY <2>1 DEF TypeOK, Rows
  <2>3. \A f \in Events : view[f].status = "PROCESSED" \/ f \in batch => view[f].due <= game
    BY <2>1 DEF DueInv
  <2>4. batch \subseteq Events
    BY DEF TypeOK
  <2> QED
    BY <1>1, <1>2, <1>4, <2>1, <2>2, <2>3, <2>4 DEF DueInv
<1>8. ASSUME NEW p \in Procs, NEW e \in Events, ApplySweep(p, e) PROVE DueInv'
  <2>1. rows' = rows /\ lock' = lock /\ lock # NoProc /\ batch' = batch \ {e} /\ e \in batch
    BY <1>8, ScheduleAssumption DEF ApplySweep, Procs, Earliest
  <2>2. Chain(view) /\ BatchSweeps
    BY <2>1 DEF ScheduleInv, TxInv
  <2>3. /\ e + 1 \in Sweeps /\ view[e + 1].status = "ABSENT"
        /\ view'[e + 1].status = "PENDING" /\ view'[e].due = view[e].due
        /\ \A f \in Events \ {e, e + 1} :
             /\ view'[f].due = view[f].due
             /\ view'[f].status = view[f].status \/ view'[f].status = "CANCELED"
    BY <1>8, <2>2, SweepEffect
  <2>4. e + 1 \notin batch
    BY <2>2, <2>3 DEF BatchSweeps
  <2>5. \A f \in Events : view[f].status = "PROCESSED" \/ f \in batch => view[f].due <= game
    BY <2>1 DEF DueInv
  <2>6. batch \subseteq Events
    BY DEF TypeOK
  <2> QED
    BY <1>1, <1>2, <1>4, <2>1, <2>3, <2>4, <2>5, <2>6 DEF DueInv
<1>9. ASSUME NEW p \in Procs, Body(p) PROVE DueInv'
  <2>1. rows' = rows /\ lock' = lock /\ lock # NoProc /\ batch' = {}
    BY <1>9, ScheduleAssumption DEF Body, Procs
  <2>2. \A f \in Events : view'[f].status = "PROCESSED" => view'[f] = view[f]
    BY <1>9, BodyEffect
  <2>3. \A f \in Events : view[f].status = "PROCESSED" => view[f].due <= game
    BY <2>1 DEF DueInv
  <2> QED
    BY <1>1, <1>2, <1>4, <2>1, <2>2, <2>3 DEF DueInv
<1>10. ASSUME NEW p \in Procs, Commit(p) PROVE DueInv'
  <2>1. lock # NoProc /\ lock' = NoProc
    BY <1>10, ScheduleAssumption DEF Commit, Procs
  <2>2. \A e \in Events : rows'[e].status = view[e].status /\ rows'[e].due = view[e].due
    BY <1>10, CommitEffect
  <2>3. NeverEarly'
    BY <1>1, <1>2, <2>1, <2>2 DEF DueInv, NeverEarly
  <2> QED
    BY <1>1, <2>1, <2>3 DEF DueInv
<1>11. ASSUME NEW p \in Procs, Abort(p) PROVE DueInv'
  <2>1. rows' = rows /\ (lock' = NoProc \/ (lock' = lock /\ view' = view /\ batch' = batch))
    BY <1>11 DEF Abort
  <2> QED
    BY <1>1, <1>2, <1>4, <2>1 DEF DueInv, TypeOK
<1> QED
  BY <1>3, <1>5, <1>6, <1>7, <1>8, <1>9, <1>10, <1>11, StepKinds

LEMMA DueInit == Init => DueInv
<1> SUFFICES ASSUME Init PROVE DueInv
  OBVIOUS
<1>1. \A e \in Events : rows[e].status # "PROCESSED"
  BY DEF Init, AbsentRow
<1>2. lock = NoProc /\ game = 0 /\ \A p \in Procs : reading[p].game = 0
  BY DEF Init, NoReading
<1> QED
  BY <1>1, <1>2 DEF DueInv, NeverEarly

(* An event is never applied before game time reaches it, whatever alarm rang and
   however the rate of the world changed since it was set. *)
THEOREM NothingAppliedEarly == Spec => []NeverEarly
<1>1. Init => DueInv
  BY DueInit
<1>2. TypeOK /\ TypeOK' /\ ScheduleInv /\ DueInv /\ [Next]_vars => DueInv'
  BY DueStep
<1>3. DueInv => NeverEarly
  BY DEF DueInv
<1> QED
  BY <1>1, <1>2, <1>3, ScheduleInvariant, PTL DEF Spec
-----------------------------------------------------------------------------
(* Nothing that leaves a process refers to a row that does not exist. *)

Refers(s, v) == \A i \in DOMAIN s : v[s[i].ev].status # "ABSENT"

LEMMA RefersJoin ==
  ASSUME NEW s \in Seq(Effects), NEW t \in Seq(Effects), NEW v, Refers(s, v), Refers(t, v)
  PROVE  Refers(s \o t, v)
<1> SUFFICES ASSUME NEW i \in DOMAIN (s \o t) PROVE v[(s \o t)[i].ev].status # "ABSENT"
  BY DEF Refers
<1>1. i \in 1 .. Len(s) + Len(t)
  OBVIOUS
<1>2. CASE i <= Len(s)
  <2>1. (s \o t)[i] = s[i] /\ i \in DOMAIN s
    BY <1>1, <1>2
  <2> QED
    BY <2>1 DEF Refers
<1>3. CASE i > Len(s)
  <2>1. (s \o t)[i] = t[i - Len(s)] /\ i - Len(s) \in DOMAIN t
    BY <1>1, <1>3
  <2> QED
    BY <2>1 DEF Refers
<1> QED
  BY <1>1, <1>2, <1>3

LEMMA RefersTail ==
  ASSUME NEW s \in Seq(Effects), s # <<>>, NEW v, Refers(s, v)
  PROVE  Refers(Tail(s), v) /\ v[Head(s).ev].status # "ABSENT"
<1>1. \A i \in DOMAIN Tail(s) : i + 1 \in DOMAIN s /\ Tail(s)[i] = s[i + 1]
  OBVIOUS
<1>2. 1 \in DOMAIN s /\ Head(s) = s[1]
  OBVIOUS
<1> QED
  BY <1>1, <1>2 DEF Refers

LEMMA RefersOne ==
  ASSUME NEW x \in Effects, NEW v, v[x.ev].status # "ABSENT"
  PROVE  Refers(<<x>>, v)
  BY DEF Refers

LEMMA RefersMore ==
  ASSUME NEW s \in Seq(Effects), NEW v, NEW w, Refers(s, v),
         \A e \in Events : v[e].status # "ABSENT" => w[e].status # "ABSENT"
  PROVE  Refers(s, w)
<1>1. \A i \in DOMAIN s : s[i] \in Effects
  OBVIOUS
<1>2. \A x \in Effects : x.ev \in Events
  BY DEF Effects
<1> QED
  BY <1>1, <1>2 DEF Refers

\* The effects a process holds: recorded in the transaction it has open, or being
\* flushed after its commit.
FxOf(p) ==
    /\ pc[p] \in {"advance", "commit"} => lock = p /\ Refers(fx[p], view)
    /\ pc[p] = "flush" => Refers(fx[p], rows)
    /\ pc[p] \notin {"advance", "commit", "flush"} => fx[p] = <<>>

FxInv ==
    /\ \A p \in Procs : FxOf(p)
    /\ \A j \in Jobs : queue[j].state # "absent" => rows[j[1]].status # "ABSENT"

RowsStay == \A e \in Events : rows[e].status # "ABSENT" => rows'[e].status # "ABSENT"

LEMMA RowsStayStep ==
  ASSUME TypeOK, ScheduleInv, [Next]_vars
  PROVE  RowsStay
<1>1. CASE Quiet
  BY <1>1 DEF Quiet, StampsOnly, RowsStay
<1>2. ASSUME NEW p \in Procs, Commit(p) PROVE RowsStay
  <2>1. Extends
    BY <1>2, ScheduleAssumption DEF Commit, Procs, ScheduleInv, TxInv
  <2> QED
    BY <1>2, <2>1, CommitEffect DEF RowsStay, Extends
<1>3. ASSUME NEW p \in Procs,
             \/ LockPlayer(p) \/ Body(p) \/ Abort(p)
             \/ \E e \in Events : SkipEvent(p, e) \/ ApplyTask(p, e) \/ ApplySweep(p, e)
      PROVE  rows' = rows
  BY <1>3 DEF LockPlayer, Body, Abort, SkipEvent, ApplyTask, ApplySweep
<1> QED
  BY <1>1, <1>2, <1>3, StepKinds DEF RowsStay

\* A step of p leaves the effects of the others alone.
OthersKeep(p) ==
    /\ \A q \in Procs \ {p} : pc'[q] = pc[q] /\ fx'[q] = fx[q]
    /\ (lock' = lock /\ view' = view) \/ lock \in {p, NoProc}

LEMMA OthersStep ==
  ASSUME TypeOK, FxInv, RowsStay, NEW p \in Procs, OthersKeep(p), FxOf(p)'
  PROVE  \A q \in Procs : FxOf(q)'
<1> SUFFICES ASSUME NEW q \in Procs \ {p} PROVE FxOf(q)'
  OBVIOUS
<1>1. pc'[q] = pc[q] /\ fx'[q] = fx[q] /\ fx[q] \in Seq(Effects) /\ FxOf(q)
  BY DEF OthersKeep, TypeOK, FxInv
<1>2. CASE pc[q] \in {"advance", "commit"}
  <2>1. lock = q /\ Refers(fx[q], view)
    BY <1>1, <1>2 DEF FxOf
  <2>2. lock' = lock /\ view' = view
    BY <2>1, ScheduleAssumption DEF OthersKeep, Procs
  <2> QED
    BY <1>1, <1>2, <2>1, <2>2 DEF FxOf
<1>3. CASE pc[q] = "flush"
  <2>1. Refers(fx[q], rows')
    <3>1. Refers(fx[q], rows)
      BY <1>1, <1>3 DEF FxOf
    <3>2. \A e \in Events : rows[e].status # "ABSENT" => rows'[e].status # "ABSENT"
      BY DEF RowsStay
    <3> QED
      BY <1>1, <3>1, <3>2, RefersMore
  <2> QED
    BY <1>1, <1>3, <2>1 DEF FxOf
<1>4. CASE pc[q] \notin {"advance", "commit", "flush"}
  BY <1>1, <1>4 DEF FxOf
<1> QED
  BY <1>2, <1>3, <1>4

LEMMA RecordedRefers ==
  ASSUME TypeOK, NEW e \in Events, NEW k \in Epochs, NEW v, v[e].status # "ABSENT"
  PROVE  /\ \A u : Refers(InsertFx(u, e, k), v) /\ InsertFx(u, e, k) \in Seq(Effects)
         /\ Refers(RemoveFx(e), v) /\ RemoveFx(e) \in Seq(Effects)
<1>1. \A u : InsertFx(u, e, k) \in Seq(Effects) /\ RemoveFx(e) \in Seq(Effects)
  BY EffectTypes
<1>2. ASSUME NEW u PROVE Refers(InsertFx(u, e, k), v)
  BY DEF InsertFx, Enqueue, Effect, Refers
<1>3. Refers(RemoveFx(e), v)
  BY DEF RemoveFx, Remove, Effect, Refers
<1> QED
  BY <1>1, <1>2, <1>3

LEMMA SweepFx ==
  ASSUME TypeOK, ScheduleInv, FxInv, NEW p \in Procs, NEW e \in Events, ApplySweep(p, e)
  PROVE  FxOf(p)'
<1>1. lock = p /\ lock' = p /\ pc[p] = "advance" /\ pc' = pc /\ Chain(view)
  BY ScheduleAssumption DEF ApplySweep, ScheduleInv, TxInv, Procs
<1>2. Refers(fx[p], view) /\ fx[p] \in Seq(Effects) /\ reading[p].epoch \in Epochs
  BY <1>1 DEF FxInv, FxOf, TypeOK
<1>3. PICK s \in Liquidations :
        fx' = [fx EXCEPT ![p] = @ \o CancelFx(s)
                \o InsertFx(CancelAll(Claim(e), {s[i] : i \in DOMAIN s}), e + 1, reading[p].epoch)]
  BY DEF ApplySweep
<1> DEFINE new == InsertFx(CancelAll(Claim(e), {s[i] : i \in DOMAIN s}), e + 1, reading[p].epoch)
<1>4. e + 1 \in Events /\ view'[e + 1].status # "ABSENT"
  BY <1>1, SweepEffect
<1>5. \A f \in Events : view[f].status # "ABSENT" => view'[f].status # "ABSENT"
  BY <1>1, SweepEffect
<1>6. new \in Seq(Effects) /\ Refers(new, view')
  BY <1>2, <1>4, RecordedRefers
<1>7. CancelFx(s) \in Seq(Effects) /\ Refers(CancelFx(s), view')
  <2>1. CASE s = <<>>
    BY <2>1 DEF CancelFx, Refers
  <2>2. ASSUME NEW t \in PendingTasks(view), s = <<t>>
        PROVE  CancelFx(s) \in Seq(Effects) /\ Refers(CancelFx(s), view')
    <3>1. t \in Events /\ view'[t].status # "ABSENT"
      BY <1>5, Domains DEF PendingTasks
    <3>2. CancelFx(s) = RemoveFx(t)
      BY <2>2 DEF CancelFx
    <3> QED
      BY <1>2, <3>1, <3>2, RecordedRefers
  <2> QED
    BY <2>1, <2>2 DEF Liquidations
<1>8. Refers(fx[p], view')
  BY <1>2, <1>5, RefersMore
<1>9. Refers(fx[p] \o CancelFx(s), view') /\ fx[p] \o CancelFx(s) \in Seq(Effects)
  BY <1>2, <1>7, <1>8, RefersJoin
<1>10. Refers((fx[p] \o CancelFx(s)) \o new, view')
  BY <1>6, <1>9, RefersJoin
<1>11. fx'[p] = (fx[p] \o CancelFx(s)) \o new
  BY <1>3 DEF TypeOK
<1> HIDE DEF new
<1> QED
  BY <1>1, <1>10, <1>11 DEF FxOf

LEMMA BodyFx ==
  ASSUME TypeOK, FxInv, NEW p \in Procs, Body(p)
  PROVE  FxOf(p)'
<1>1. lock = p /\ lock' = p /\ pc[p] = "advance" /\ pc'[p] = "commit"
  BY DEF Body, TypeOK
<1>2. Refers(fx[p], view) /\ fx[p] \in Seq(Effects) /\ reading[p].epoch \in Epochs
  BY <1>1 DEF FxInv, FxOf, TypeOK
<1>3. \A f \in Events : view[f].status # "ABSENT" => view'[f].status # "ABSENT"
  BY BodyEffect
<1>4. Refers(fx[p], view')
  BY <1>2, <1>3, RefersMore
<1>5. ASSUME NEW t \in Tasks, NEW d \in Durations, view[t].status = "ABSENT",
             view' = Insert(view, t, reading[p].game + d),
             fx' = [fx EXCEPT ![p] = @ \o InsertFx(view, t, reading[p].epoch)]
      PROVE  Refers(fx'[p], view')
  <2>1. t \in Events /\ view'[t].status # "ABSENT"
    BY <1>5, Domains DEF Insert, TypeOK, AbsentRow
  <2>2. InsertFx(view, t, reading[p].epoch) \in Seq(Effects)
        /\ Refers(InsertFx(view, t, reading[p].epoch), view')
    BY <1>2, <2>1, RecordedRefers
  <2>3. fx'[p] = fx[p] \o InsertFx(view, t, reading[p].epoch)
    BY <1>5 DEF TypeOK
  <2> QED
    BY <1>2, <1>4, <2>2, <2>3, RefersJoin
<1>6. ASSUME NEW t \in PendingTasks(view), fx' = [fx EXCEPT ![p] = @ \o RemoveFx(t)]
      PROVE  Refers(fx'[p], view')
  <2>1. t \in Events /\ view'[t].status # "ABSENT"
    BY <1>3, Domains DEF PendingTasks
  <2>2. RemoveFx(t) \in Seq(Effects) /\ Refers(RemoveFx(t), view')
    BY <1>2, <2>1, RecordedRefers
  <2>3. fx'[p] = fx[p] \o RemoveFx(t)
    BY <1>6 DEF TypeOK
  <2> QED
    BY <1>2, <1>4, <2>2, <2>3, RefersJoin
<1>7. Refers(fx'[p], view')
  BY <1>4, <1>5, <1>6 DEF Body
<1> QED
  BY <1>1, <1>7 DEF FxOf

LEMMA FlushFx ==
  ASSUME TypeOK, FxInv, RowsStay, NEW p \in Procs, Flush(p) \/ FlushFails(p)
  PROVE  /\ FxOf(p)'
         /\ \A j \in Jobs : queue'[j].state # "absent" => rows'[j[1]].status # "ABSENT"
<1>1. pc[p] = "flush" /\ Refers(fx[p], rows) /\ fx[p] \in Seq(Effects)
  BY DEF Flush, FlushFails, FlushRead, FlushAdd, FlushStamp, FlushRemove, Finish, NextEffect,
         FxInv, FxOf, TypeOK
<1>2. ASSUME fx[p] # <<>>
      PROVE  /\ Tail(fx[p]) \in Seq(Effects) /\ Head(fx[p]) \in Effects
             /\ Refers(Tail(fx[p]), rows) /\ rows[Head(fx[p]).ev].status # "ABSENT"
  BY <1>1, <1>2, RefersTail
<1>3. \A j \in Jobs : j[1] \in Events /\ (queue[j].state # "absent" => rows'[j[1]].status # "ABSENT")
  BY DEF Jobs, FxInv, RowsStay
<1>4. ASSUME NEW s \in Seq(Effects), Refers(s, rows) PROVE Refers(s, rows')
  BY <1>4, RefersMore DEF RowsStay
<1>5. CASE Finish(p)
  <2>1. pc'[p] = "idle" /\ fx'[p] = <<>> /\ queue' = JobBecomes(p, Completed)
    BY <1>5 DEF Finish, Rest, TypeOK
  <2>2. \A j \in Jobs : queue[j].state = "absent" => queue'[j].state = "absent"
    BY <2>1 DEF JobBecomes, TypeOK
  <2> QED
    BY <1>3, <2>1, <2>2 DEF FxOf
<1>6. ASSUME fx[p] # <<>>, pc' = pc, fx' = Drop(p) PROVE FxOf(p)'
  <2>1. fx'[p] = Tail(fx[p])
    BY <1>6 DEF Drop, TypeOK
  <2> QED
    BY <1>1, <1>2, <1>4, <1>6, <2>1 DEF FxOf
<1>7. ASSUME fx[p] # <<>>, pc' = pc, NEW x \in Effects, x.ev = Head(fx[p]).ev,
             fx' = [fx EXCEPT ![p] = <<x>> \o Tail(@)]
      PROVE FxOf(p)'
  <2>1. fx'[p] = <<x>> \o Tail(fx[p])
    BY <1>7 DEF TypeOK
  <2>2. <<x>> \in Seq(Effects) /\ Refers(<<x>>, rows)
    BY <1>2, <1>7, RefersOne
  <2>3. Refers(<<x>> \o Tail(fx[p]), rows)
    BY <1>2, <1>7, <2>2, RefersJoin
  <2>4. <<x>> \o Tail(fx[p]) \in Seq(Effects)
    BY <1>2, <1>7, <2>2
  <2> QED
    BY <1>1, <1>4, <1>7, <2>1, <2>3, <2>4 DEF FxOf
<1>8. CASE FlushRead(p)
  <2>1. fx[p] # <<>> /\ pc' = pc /\ queue' = queue
    BY <1>8 DEF FlushRead, NextEffect
  <2> DEFINE x == [Head(fx[p]) EXCEPT !.op = "add", !.set = epoch]
  <2>2. x \in Effects /\ x.ev = Head(fx[p]).ev
    BY <1>2, <2>1 DEF Effects, TypeOK
  <2>3. fx' = Drop(p) \/ fx' = [fx EXCEPT ![p] = <<x>> \o Tail(@)]
    BY <1>8 DEF FlushRead, TypeOK
  <2> HIDE DEF x
  <2> QED
    BY <1>3, <1>6, <1>7, <2>1, <2>2, <2>3
<1>9. CASE FlushAdd(p)
  <2>1. fx[p] # <<>> /\ pc' = pc
    BY <1>9 DEF FlushAdd, NextEffect
  <2> DEFINE x == [Head(fx[p]) EXCEPT !.op = "stamp", !.set = 1]
  <2>2. x \in Effects /\ x.ev = Head(fx[p]).ev
    BY <1>2, <2>1, Domains DEF Effects
  <2>3. fx' = [fx EXCEPT ![p] = <<x>> \o Tail(@)]
    BY <1>9 DEF FlushAdd, TypeOK
  <2>4. \A j \in Jobs : j # <<Head(fx[p]).ev, Head(fx[p]).ep>> => queue'[j] = queue[j]
    BY <1>9 DEF FlushAdd, TypeOK
  <2>5. rows'[Head(fx[p]).ev].status # "ABSENT"
    BY <1>2, <2>1 DEF Effects, RowsStay
  <2> HIDE DEF x
  <2>6. FxOf(p)'
    BY <1>7, <2>1, <2>2, <2>3
  <2> QED
    BY <1>3, <2>4, <2>5, <2>6
<1>10. CASE FlushStamp(p)
  <2>1. fx[p] # <<>> /\ pc' = pc /\ queue' = queue /\ fx' = Drop(p)
    BY <1>10 DEF FlushStamp, NextEffect
  <2> QED
    BY <1>3, <1>6, <2>1
<1>11. CASE FlushRemove(p)
  <2>1. fx[p] # <<>> /\ pc' = pc /\ fx' = Drop(p)
    BY <1>11 DEF FlushRemove, NextEffect
  <2>2. \A j \in Jobs : queue'[j] = queue[j] \/ queue'[j] = NoAlarm
    BY <1>11 DEF FlushRemove, TypeOK
  <2>3. FxOf(p)'
    BY <1>6, <2>1
  <2> QED
    BY <1>3, <2>2, <2>3 DEF NoAlarm
<1>12. CASE FlushFails(p)
  <2>1. fx[p] # <<>> /\ pc' = pc /\ queue' = queue /\ fx' = Drop(p)
    BY <1>12 DEF FlushFails
  <2> QED
    BY <1>3, <1>6, <2>1
<1> QED
  BY <1>5, <1>8, <1>9, <1>10, <1>11, <1>12 DEF Flush

LEMMA FxStep ==
  ASSUME TypeOK, TypeOK', ScheduleInv, FxInv, [Next]_vars
  PROVE  FxInv'
<1> USE ScheduleAssumption
<1>1. RowsStay
  BY RowsStayStep
<1>2. ASSUME queue' = queue
      PROVE  \A j \in Jobs : queue'[j].state # "absent" => rows'[j[1]].status # "ABSENT"
  BY <1>1, <1>2 DEF FxInv, RowsStay, Jobs
<1>3. ASSUME NEW p \in Procs, OthersKeep(p), FxOf(p)',
             \A j \in Jobs : queue[j].state = "absent" => queue'[j].state = "absent"
      PROVE  FxInv'
  <2>1. \A q \in Procs : FxOf(q)'
    BY <1>1, <1>3, OthersStep
  <2>2. \A j \in Jobs : queue'[j].state # "absent" => rows'[j[1]].status # "ABSENT"
    BY <1>1, <1>3 DEF FxInv, RowsStay, Jobs
  <2> QED
    BY <2>1, <2>2 DEF FxInv
<1>4. ASSUME UNCHANGED <<lock, view, pc, fx>>,
             \A j \in Jobs : queue[j].state = "absent" => queue'[j].state = "absent"
      PROVE  FxInv'
  <2>1. Sweeper \in Procs /\ OthersKeep(Sweeper)
    BY <1>4 DEF OthersKeep, Procs
  <2>2. FxOf(Sweeper) /\ fx[Sweeper] \in Seq(Effects)
    BY <2>1 DEF FxInv, TypeOK
  <2>3. pc[Sweeper] = "flush" => Refers(fx[Sweeper], rows')
    BY <1>1, <2>2, RefersMore DEF FxOf, RowsStay
  <2>4. FxOf(Sweeper)'
    BY <1>4, <2>2, <2>3 DEF FxOf
  <2> QED
    BY <1>3, <1>4, <2>1, <2>4
<1>5. CASE Tick \/ RedisLoss \/ (\E j \in Jobs : Purge(j)) \/ UNCHANGED vars
  <2>1. \A j \in Jobs : queue[j].state = "absent" => queue'[j].state = "absent"
    <3>1. queue \in [Jobs -> JobStates] /\ NoAlarm.state = "absent"
      BY DEF TypeOK, NoAlarm
    <3>2. CASE Tick \/ UNCHANGED vars
      BY <3>2 DEF Tick, vars
    <3>3. CASE RedisLoss
      BY <3>1, <3>3 DEF RedisLoss
    <3>4. ASSUME NEW j \in Jobs, Purge(j)
          PROVE  \A i \in Jobs : queue[i].state = "absent" => queue'[i].state = "absent"
      BY <3>1, <3>4 DEF Purge
    <3> QED
      BY <1>5, <3>2, <3>3, <3>4
  <2> QED
    BY <1>4, <1>5, <2>1 DEF Tick, RedisLoss, Purge, vars, txVars, procVars
<1>6. CASE Retime
  <2>1. OthersKeep(Operator) /\ Operator \in Procs /\ queue' = queue
    BY <1>6 DEF Retime, OthersKeep, Procs, TypeOK, txVars
  <2>2. FxOf(Operator)'
    BY <1>6, <2>1 DEF Retime, FxInv, FxOf, TypeOK, txVars
  <2> QED
    BY <1>3, <2>1, <2>2
<1>7. CASE Reconcile
  <2>1. OthersKeep(Sweeper) /\ Sweeper \in Procs /\ queue' = queue /\ rows' = rows /\ pc'[Sweeper] = "flush"
    BY <1>7 DEF Reconcile, OthersKeep, Procs, TypeOK, txVars
  <2>2. /\ Overdue \in SUBSET Events /\ Soon \in SUBSET Events
        /\ \A e \in Overdue \cup Soon : rows[e].status # "ABSENT"
    BY DEF Overdue, Soon, DueBy
  <2>3. PICK s \in ByDue(Overdue), t \in ByDue(Soon) :
          fx' = [fx EXCEPT ![Sweeper] = EnqueueAll(s) \o EnqueueAll(t)]
    BY <1>7 DEF Reconcile
  <2>4. /\ EnqueueAll(s) \in Seq(Effects) /\ Refers(EnqueueAll(s), rows)
        /\ EnqueueAll(t) \in Seq(Effects) /\ Refers(EnqueueAll(t), rows)
    BY <2>2, EnqueueAllType DEF Refers
  <2>5. fx'[Sweeper] = EnqueueAll(s) \o EnqueueAll(t)
    BY <2>1, <2>3 DEF TypeOK
  <2>6. FxOf(Sweeper)'
    BY <2>1, <2>4, <2>5, RefersJoin DEF FxOf
  <2> QED
    BY <1>3, <2>1, <2>6
<1>8. CASE Reschedule
  <2>1. OthersKeep(Operator) /\ Operator \in Procs /\ queue' = queue /\ rows' = rows /\ pc'[Operator] = "flush"
    BY <1>8 DEF Reschedule, OthersKeep, Procs, TypeOK, txVars
  <2> DEFINE n == Cardinality(Pending)
  <2>2. Pending \in SUBSET Events /\ n \in Nat /\ \A e \in Pending : rows[e].status # "ABSENT"
    BY EventsFinite DEF Pending
  <2>3. PICK s \in ByDue(Pending) :
          fx' = [fx EXCEPT ![Operator] =
                  [i \in 1 .. 2 * n |->
                     IF i % 2 = 1 THEN Remove(s[(i + 1) \div 2], rows[s[(i + 1) \div 2]].job)
                                  ELSE Enqueue(s[i \div 2], epoch)]]
    BY <1>8 DEF Reschedule
  <2>4. s \in [1 .. n -> Pending]
    BY DEF ByDue
  <2>5. ASSUME NEW i \in 1 .. 2 * n PROVE fx'[Operator][i].ev \in Pending
    <3>1. CASE i % 2 = 1
      <4>1. (i + 1) \div 2 \in 1 .. n
        BY <2>2, <3>1
      <4> QED
        BY <2>1, <2>3, <2>4, <3>1, <4>1 DEF Remove, Effect, TypeOK
    <3>2. CASE i % 2 # 1
      <4>1. i \div 2 \in 1 .. n
        BY <2>2, <3>2
      <4> QED
        BY <2>1, <2>3, <2>4, <3>2, <4>1 DEF Enqueue, Effect, TypeOK
    <3> QED
      BY <3>1, <3>2
  <2>6. DOMAIN fx'[Operator] = 1 .. 2 * n
    BY <2>1, <2>3 DEF TypeOK
  <2>7. Refers(fx'[Operator], rows)
    BY <2>2, <2>5, <2>6 DEF Refers
  <2>8. FxOf(Operator)'
    BY <2>1, <2>7 DEF FxOf
  <2> QED
    BY <1>3, <2>1, <2>8
<1>9. ASSUME NEW p \in Procs, ReadClock(p) PROVE FxInv'
  <2>1. OthersKeep(p) /\ queue' = queue /\ fx' = fx /\ pc[p] \in {"idle", "woken"} /\ pc'[p] = "read"
    BY <1>9 DEF ReadClock, OthersKeep, TypeOK, txVars
  <2>2. FxOf(p)'
    BY <2>1 DEF FxInv, FxOf
  <2> QED
    BY <1>3, <2>1, <2>2
<1>10. ASSUME NEW p \in Procs, LockPlayer(p) PROVE FxInv'
  <2>1. OthersKeep(p) /\ queue' = queue /\ fx' = fx /\ pc[p] = "read" /\ pc'[p] = "advance" /\ lock' = p
    BY <1>10 DEF LockPlayer, OthersKeep, TypeOK
  <2>2. FxOf(p)'
    BY <2>1 DEF FxInv, FxOf, Refers
  <2> QED
    BY <1>3, <2>1, <2>2
<1>11. ASSUME NEW p \in Procs, NEW e \in Events, SkipEvent(p, e) PROVE FxInv'
  BY <1>4, <1>11 DEF SkipEvent, procVars
<1>12. ASSUME NEW p \in Procs, NEW e \in Events, ApplyTask(p, e) PROVE FxInv'
  <2>1. OthersKeep(p) /\ queue' = queue /\ fx' = fx /\ pc' = pc /\ pc[p] = "advance" /\ lock = p /\ lock' = p
    BY <1>12 DEF ApplyTask, OthersKeep, procVars
  <2>2. \A f \in Events : view[f].status # "ABSENT" => view'[f].status # "ABSENT"
    BY <1>12 DEF ApplyTask, Claim, TypeOK, Rows
  <2>3. Refers(fx[p], view) /\ fx[p] \in Seq(Effects)
    BY <2>1 DEF FxInv, FxOf, TypeOK
  <2>4. Refers(fx[p], view')
    BY <2>2, <2>3, RefersMore
  <2>5. FxOf(p)'
    BY <2>1, <2>4 DEF FxOf
  <2> QED
    BY <1>3, <2>1, <2>5
<1>13. ASSUME NEW p \in Procs, NEW e \in Events, ApplySweep(p, e) PROVE FxInv'
  <2>1. OthersKeep(p) /\ queue' = queue
    BY <1>13 DEF ApplySweep, OthersKeep, TypeOK
  <2> QED
    BY <1>3, <1>13, <2>1, SweepFx
<1>14. ASSUME NEW p \in Procs, Body(p) PROVE FxInv'
  <2>1. OthersKeep(p) /\ queue' = queue
    BY <1>14 DEF Body, OthersKeep, TypeOK
  <2> QED
    BY <1>3, <1>14, <2>1, BodyFx
<1>15. ASSUME NEW p \in Procs, Commit(p) PROVE FxInv'
  <2>1. /\ OthersKeep(p) /\ queue' = queue /\ fx' = fx
        /\ pc[p] \in {"advance", "commit"} /\ pc'[p] = "flush"
    BY <1>15 DEF Commit, OthersKeep, TypeOK
  <2>2. Refers(fx[p], view) /\ fx[p] \in Seq(Effects)
    BY <2>1 DEF FxInv, FxOf, TypeOK
  <2>3. \A e \in Events : view[e].status # "ABSENT" => rows'[e].status # "ABSENT"
    BY <1>15, CommitEffect
  <2>4. Refers(fx[p], rows')
    BY <2>2, <2>3, RefersMore
  <2>5. FxOf(p)'
    BY <2>1, <2>4 DEF FxOf
  <2> QED
    BY <1>3, <2>1, <2>5
<1>16. ASSUME NEW p \in Procs, Flush(p) \/ FlushFails(p) PROVE FxInv'
  <2>1. /\ FxOf(p)'
        /\ \A j \in Jobs : queue'[j].state # "absent" => rows'[j[1]].status # "ABSENT"
    BY <1>1, <1>16, FlushFx
  <2>2. OthersKeep(p)
    BY <1>16 DEF Flush, FlushFails, FlushRead, FlushAdd, FlushStamp, FlushRemove, Finish, Rest,
                 Drop, OthersKeep, TypeOK, txVars
  <2>3. \A q \in Procs : FxOf(q)'
    BY <1>1, <2>1, <2>2, OthersStep
  <2> QED
    BY <2>1, <2>3 DEF FxInv
<1>17. ASSUME NEW p \in Procs, ParkEarly(p) \/ \E e \in Events, k \in Epochs : Ring(p, e, k)
       PROVE  FxInv'
  <2>1. /\ OthersKeep(p) /\ fx' = fx
        /\ pc[p] \in {"idle", "early"} /\ pc'[p] \in {"idle", "early", "woken"}
    BY <1>17 DEF ParkEarly, Ring, Rest, OthersKeep, TypeOK, txVars
  <2>2. FxOf(p)'
    BY <2>1 DEF FxInv, FxOf
  <2>3. \A j \in Jobs : queue[j].state = "absent" => queue'[j].state = "absent"
    <3>1. CASE ParkEarly(p)
      BY <3>1 DEF ParkEarly, JobBecomes, TypeOK
    <3>2. ASSUME NEW e \in Events, NEW k \in Epochs, Ring(p, e, k)
          PROVE  \A j \in Jobs : queue[j].state = "absent" => queue'[j].state = "absent"
      <4>1. queue[<<e, k>>].state # "absent"
        BY <3>2 DEF Ring, Rings
      <4> QED
        BY <3>2, <4>1 DEF Ring, TypeOK
    <3> QED
      BY <1>17, <3>1, <3>2
  <2> QED
    BY <1>3, <2>1, <2>2, <2>3
<1>18. ASSUME NEW p \in Procs, RollBack(p) \/ Crash(p) PROVE FxInv'
  <2>1. Abort(p) /\ \E s : queue' = JobBecomes(p, s)
    BY <1>18 DEF RollBack, Crash
  <2>2. OthersKeep(p) /\ pc'[p] = "idle" /\ fx'[p] = <<>>
    BY <2>1 DEF Abort, Rest, OthersKeep, TypeOK
  <2>3. FxOf(p)'
    BY <2>2 DEF FxOf
  <2>4. \A j \in Jobs : queue[j].state = "absent" => queue'[j].state = "absent"
    BY <2>1 DEF JobBecomes, TypeOK
  <2> QED
    BY <1>3, <2>2, <2>3, <2>4
<1> QED
  BY <1>5, <1>6, <1>7, <1>8, <1>9, <1>10, <1>11, <1>12, <1>13, <1>14, <1>15, <1>16, <1>17, <1>18
     DEF Next, Advance, Wake

LEMMA FxInit == Init => FxInv
<1> SUFFICES ASSUME Init PROVE FxInv
  OBVIOUS
<1>1. \A j \in Jobs : queue[j].state = "absent"
  BY DEF Init, NoAlarm
<1>2. PICK r \in Requests :
        /\ pc = [p \in Procs |-> IF p = r THEN "flush" ELSE "idle"]
        /\ fx = [p \in Procs |-> IF p = r THEN <<Enqueue(1, 1)>> ELSE <<>>]
  BY DEF Init
<1>3. rows[1].status # "ABSENT"
  BY Domains DEF Init, AbsentRow
<1>4. Refers(<<Enqueue(1, 1)>>, rows)
  BY <1>3 DEF Refers, Enqueue, Effect
<1>5. \A p \in Procs : FxOf(p)
  BY <1>2, <1>4 DEF FxOf
<1> QED
  BY <1>1, <1>5 DEF FxInv

(* No alarm clock, and no effect on its way to the queue, refers to a row that was
   rolled back. *)
THEOREM AlarmsReferToRows == Spec => []AlarmsHaveRows
<1>1. Init => FxInv
  BY FxInit
<1>2. TypeOK /\ TypeOK' /\ ScheduleInv /\ FxInv /\ [Next]_vars => FxInv'
  BY FxStep
<1>3. FxInv => AlarmsHaveRows
  BY DEF FxInv, FxOf, Refers, AlarmsHaveRows
<1> QED
  BY <1>1, <1>2, <1>3, ScheduleInvariant, PTL DEF Spec
-----------------------------------------------------------------------------
(* With nothing failing, no pending row loses its alarm unnoticed. *)

Elems(s) == {s[i] : i \in DOMAIN s}

LEMMA ElemsTail ==
  ASSUME NEW S, NEW s \in Seq(S), s # <<>>
  PROVE  /\ Tail(s) \in Seq(S) /\ Head(s) \in S /\ Head(s) \in Elems(s)
         /\ Elems(Tail(s)) \subseteq Elems(s)
         /\ \A x \in Elems(s) : x = Head(s) \/ x \in Elems(Tail(s))
<1>1. Tail(s) \in Seq(S) /\ Head(s) \in S /\ Head(s) = s[1] /\ 1 \in DOMAIN s
  OBVIOUS
<1>2. \A i \in DOMAIN Tail(s) : i + 1 \in DOMAIN s /\ Tail(s)[i] = s[i + 1]
  OBVIOUS
<1>3. ASSUME NEW i \in DOMAIN s, i # 1
      PROVE  i - 1 \in DOMAIN Tail(s) /\ Tail(s)[i - 1] = s[i]
  <2>1. i \in 1 .. Len(s) /\ Len(s) \in Nat /\ DOMAIN Tail(s) = 1 .. Len(s) - 1
    OBVIOUS
  <2>2. i - 1 \in 1 .. Len(s) - 1
    BY <1>3, <2>1
  <2> QED
    BY <2>1, <2>2
<1>4. Elems(Tail(s)) \subseteq Elems(s)
  BY <1>2 DEF Elems
<1>5. ASSUME NEW x \in Elems(s), x # Head(s) PROVE x \in Elems(Tail(s))
  BY <1>1, <1>3, <1>5 DEF Elems
<1> QED
  BY <1>1, <1>4, <1>5 DEF Elems

LEMMA ElemsHead ==
  ASSUME NEW S, NEW s \in Seq(S), NEW x \in S, s # <<>>
  PROVE  Elems(<<x>> \o Tail(s)) = {x} \cup Elems(Tail(s))
<1> DEFINE t == <<x>> \o Tail(s)
<1>1. Tail(s) \in Seq(S)
  OBVIOUS
<1>2. t[1] = x /\ 1 \in DOMAIN t
  BY <1>1
<1>3. \A i \in DOMAIN Tail(s) : i + 1 \in DOMAIN t /\ t[i + 1] = Tail(s)[i]
  BY <1>1
<1>4. \A i \in DOMAIN t : i = 1 \/ (i - 1 \in DOMAIN Tail(s) /\ t[i] = Tail(s)[i - 1])
  BY <1>1
<1> HIDE DEF t
<1>5. Elems(t) = {x} \cup Elems(Tail(s))
  BY <1>2, <1>3, <1>4 DEF Elems
<1> QED
  BY <1>5 DEF t

LEMMA ElemsJoin ==
  ASSUME NEW S, NEW s \in Seq(S), NEW t \in Seq(S)
  PROVE  Elems(s \o t) = Elems(s) \cup Elems(t)
<1> DEFINE u == s \o t
<1>1. \A i \in DOMAIN s : i \in DOMAIN u /\ u[i] = s[i]
  OBVIOUS
<1>2. \A i \in DOMAIN t : i + Len(s) \in DOMAIN u /\ u[i + Len(s)] = t[i]
  OBVIOUS
<1>3. \A i \in DOMAIN u : \/ i \in DOMAIN s /\ u[i] = s[i]
                          \/ i - Len(s) \in DOMAIN t /\ u[i] = t[i - Len(s)]
  OBVIOUS
<1> HIDE DEF u
<1>4. Elems(u) = Elems(s) \cup Elems(t)
  BY <1>1, <1>2, <1>3 DEF Elems
<1> QED
  BY <1>4 DEF u

\* The effects a process holds.
Held(p) == Elems(fx[p])

LEMMA HeldTypes == ASSUME TypeOK, NEW p \in Procs PROVE Held(p) \subseteq Effects
  BY DEF TypeOK, Held, Elems

\* A rounded-up quotient is over a bound when what it divides is.
LEMMA CeilOver ==
  ASSUME NEW a \in Nat, NEW b \in Nat \ {0}, NEW h \in Nat
  PROVE  CeilDiv(a, b) > h <=> a > h * b
<1> DEFINE q == (a + b - 1) \div b
           r == (a + b - 1) % b
<1>1. q \in Nat /\ r \in 0 .. b - 1 /\ a + b - 1 = b * q + r
  OBVIOUS
<1> HIDE DEF q, r
<1>2. CASE q > h
  <2>1. b * q >= b * (h + 1)
    BY <1>1, <1>2
  <2>2. b * (h + 1) = h * b + b
    OBVIOUS
  <2>3. b * q \in Nat /\ h * b \in Nat
    BY <1>1
  <2>4. a > h * b
    BY <1>1, <2>1, <2>2, <2>3
  <2> QED
    BY <1>2, <2>4 DEF CeilDiv, q
<1>3. CASE q <= h
  <2>1. b * q <= b * h
    BY <1>1, <1>3
  <2>2. b * h = h * b /\ b * q \in Nat /\ h * b \in Nat
    BY <1>1
  <2>3. a <= h * b
    BY <1>1, <2>1, <2>2
  <2> QED
    BY <1>1, <1>3, <2>2, <2>3 DEF CeilDiv, q
<1> QED
  BY <1>1, <1>2, <1>3

(* A row is parked when it lies beyond what the horizon is worth in game time. *)
LEMMA ParkedAt ==
  ASSUME NEW g \in Nat, NEW r \in Nat, NEW due \in Nat
  PROVE  /\ Horizon * r \in Nat
         /\ (r = 0 \/ (due > g /\ CeilDiv(due - g, r) > Horizon))
              <=> (r = 0 \/ (due > g /\ due - g > Horizon * r))
<1>1. Horizon \in Nat
  BY ScheduleAssumption
<1>2. CASE r # 0 /\ due > g
  BY <1>1, <1>2, CeilOver
<1> QED
  BY <1>1, <1>2

LEMMA ParkedBeyond ==
  ASSUME TypeOK, NEW due \in Nat
  PROVE  /\ Horizon * rate \in Nat
         /\ Parked(due) <=> rate = 0 \/ (due > game /\ due - game > Horizon * rate)
<1>1. game \in Nat /\ rate \in Nat
  BY ScheduleAssumption DEF TypeOK
<1> QED
  BY <1>1, ParkedAt DEF Parked

\* The alarm of e in epoch k will ring when e is due, or e is due already.
Good(e, k) == OnTime(e, k) \/ rows[e].due <= game

\* What is on its way for a row, and the epochs it is or will be stamped with.
Adding(e, s) == \E p \in Procs : \E x \in Held(p) : x.op = "add" /\ x.ev = e /\ x.set = s
Stamping(e, k) == \E p \in Procs : \E x \in Held(p) : x.op = "stamp" /\ x.ev = e /\ x.ep = k
Marked(e, k) == (rows[e].stamped /\ rows[e].job = k) \/ Stamping(e, k)

\* The rescheduling of this epoch has still to renew the alarm of e.
Coming(e) ==
    \/ pc[Operator] = "retimed"
    \/ \E x \in Held(Operator) : x.op \in {"enqueue", "add"} /\ x.ev = e /\ x.ep = epoch

\* The rescheduling of this epoch is done with e.
Settled(e) ==
    /\ e \in passedOver \/ Good(e, epoch)
    /\ Marked(e, epoch) => Good(e, epoch)

\* The row is younger than the epoch: whatever alarm it has is set at the rate in force.
Fresh(e) ==
    /\ \A k \in Epochs : Marked(e, k) \/ queue[<<e, k>>].state # "absent" => Good(e, k)
    /\ \A s \in Epochs : Adding(e, s) => s = epoch

Minded(e) ==
    /\ Marked(e, epoch) \/ Adding(e, epoch) => ~Parked(rows[e].due)
    /\ queue[<<e, epoch>>].state # "absent" => Good(e, epoch)
    /\ Coming(e) \/ Settled(e) \/ Fresh(e)

\* Only the operator retimes, and it does nothing else.
Roles ==
    /\ pc[Operator] \in {"idle", "retimed", "flush"}
    /\ \A p \in Procs \ {Operator} : pc[p] # "retimed"

\* No row, job or reading is of an epoch to come.
RowSound ==
    \A e \in Events :
      /\ rows[e].job <= epoch
      /\ rows[e].stamped => rows[e].job \in Epochs /\ rows[e].status # "ABSENT"
QueueSound == \A j \in Jobs : queue[j].state # "absent" => j[2] <= epoch
Readings == \A p \in Procs : reading[p].epoch <= epoch

\* The open transaction moves no row that was written before.
DuesStay ==
    lock # NoProc => \A e \in Events : rows[e].status # "ABSENT" => view[e].due = rows[e].due

\* An effect is of an epoch that has begun, and only the operator removes the job of a
\* row that stays pending.
Proper(p, x) ==
    /\ x.ep <= epoch
    /\ x.op # "remove" => x.ep \in Epochs
    /\ x.op = "add" => x.ep <= x.set /\ x.set <= epoch
    /\ x.op \in {"add", "stamp"} => pc[p] = "flush"
    /\ x.op = "remove" /\ p # Operator =>
         /\ pc[p] = "flush" => rows[x.ev].status \in Terminal
         /\ pc[p] # "flush" => view[x.ev].status \in Terminal
Sound(p) == \A x \in Held(p) : Proper(p, x)

\* The operator renews the alarm of every row whose job it removes.
Renews(s) ==
    \A i \in DOMAIN s :
      s[i].op = "remove" /\ rows[s[i].ev].status = "PENDING" =>
        \E j \in DOMAIN s : j > i /\ s[j].op = "enqueue" /\ s[j].ev = s[i].ev /\ s[j].ep = epoch

Books ==
    /\ Roles /\ RowSound /\ QueueSound /\ Readings /\ DuesStay
    /\ \A p \in Procs : Sound(p)
    /\ Renews(fx[Operator])

AlarmInv == faults = 0 => Books /\ \A e \in Pending : Minded(e)

\* A step that gives e no new mark, no late alarm and takes none away.
LEMMA CalmEvent ==
  ASSUME TypeOK, TypeOK', NEW e \in Events, Minded(e),
         epoch' = epoch, rate' = rate, game <= game', rows'[e].due = rows[e].due,
         e \in passedOver => e \in passedOver',
         \A k \in Epochs :
           /\ Marked(e, k)' => Marked(e, k)
           /\ Adding(e, k)' => Adding(e, k) \/ (k = epoch /\ ~Parked(rows[e].due))
           /\ Good(e, k) => Good(e, k)'
           /\ queue'[<<e, k>>].state # "absent" => queue[<<e, k>>].state # "absent",
         Coming(e) => Coming(e)'
  PROVE  Minded(e)'
<1>1. epoch \in Epochs /\ rows[e].due \in Nat /\ game \in Nat /\ game' \in Nat
  BY ScheduleAssumption DEF TypeOK, Rows
<1>2. ~Parked(rows[e].due) => ~Parked(rows[e].due)'
  <2>1. Parked(rows[e].due) <=> rate = 0 \/ (rows[e].due > game /\ rows[e].due - game > Horizon * rate)
    BY <1>1, ParkedBeyond
  <2>2. Parked(rows[e].due)' <=> rate' = 0 \/ (rows[e].due > game' /\ rows[e].due - game' > Horizon * rate')
    <3>1. rate' \in Nat
      BY ScheduleAssumption DEF TypeOK
    <3> QED
      BY <1>1, <3>1, ParkedAt DEF Parked
  <2>3. Horizon * rate \in Nat
    BY <1>1, ParkedBeyond
  <2> QED
    BY <1>1, <2>1, <2>2, <2>3
<1>3. (Marked(e, epoch) \/ Adding(e, epoch) => ~Parked(rows[e].due))'
  BY <1>1, <1>2 DEF Minded
<1>4. (queue[<<e, epoch>>].state # "absent" => Good(e, epoch))'
  BY <1>1 DEF Minded
<1>5. Settled(e) => Settled(e)'
  BY <1>1 DEF Settled
<1>6. Fresh(e) => Fresh(e)'
  BY <1>1 DEF Fresh
<1> QED
  BY <1>3, <1>4, <1>5, <1>6 DEF Minded

(* The same from the variables: no mark and no request to the queue is new, but those
   that a fresh reading of the clock has just admitted. *)
LEMMA StillMinded ==
  ASSUME TypeOK, TypeOK', NEW e \in Events, Minded(e),
         epoch' = epoch, rate' = rate, game <= game', rows'[e].due = rows[e].due,
         e \in passedOver => e \in passedOver',
         rows'[e].stamped => rows[e].stamped /\ rows'[e].job = rows[e].job,
         \A p \in Procs : \A x \in Held(p)' :
           \/ x \in Held(p) \/ x.op \in {"enqueue", "remove"}
           \/ x.op = "add" /\ x.set = epoch /\ ~Parked(rows[x.ev].due),
         \A k \in Epochs :
           /\ queue[<<e, k>>].state = "delayed" =>
                queue'[<<e, k>>] = queue[<<e, k>>] \/ (OnTime(e, k) => rows[e].due <= game)
           /\ queue'[<<e, k>>].state # "absent" => queue[<<e, k>>].state # "absent",
         Coming(e) => Coming(e)'
  PROVE  Minded(e)'
<1>1. rows[e].due \in Nat /\ game \in Nat /\ game' \in Nat
  BY DEF TypeOK, Rows
<1>2. ASSUME NEW k \in Epochs
      PROVE  /\ Marked(e, k)' => Marked(e, k)
             /\ Adding(e, k)' => Adding(e, k) \/ (k = epoch /\ ~Parked(rows[e].due))
             /\ Good(e, k) => Good(e, k)'
             /\ queue'[<<e, k>>].state # "absent" => queue[<<e, k>>].state # "absent"
  <2>1. Stamping(e, k)' => Stamping(e, k)
    BY DEF Stamping
  <2>2. Adding(e, k)' => Adding(e, k) \/ (k = epoch /\ ~Parked(rows[e].due))
    BY DEF Adding
  <2>3. Good(e, k) => Good(e, k)'
    BY <1>1 DEF Good, OnTime
  <2> QED
    BY <2>1, <2>2, <2>3 DEF Marked
<1> HIDE DEF Minded
<1> QED
  BY <1>2, CalmEvent

(* Every step of a behaviour in which nothing fails. *)
LEMMA AlarmKinds ==
  ASSUME TypeOK, [Next]_vars, faults' = 0
  PROVE  /\ faults = 0
         /\ \/ Tick \/ Retime \/ Reschedule \/ Reconcile \/ UNCHANGED vars
            \/ \E p \in Procs : ReadClock(p) \/ Advance(p) \/ Flush(p) \/ Wake(p)
            \/ \E j \in Jobs : Purge(j)
<1>1. faults \in Nat
  BY DEF TypeOK
<1>2. ~Fault
  BY <1>1 DEF Fault
<1>3. ~RedisLoss /\ \A p \in Procs : ~RollBack(p) /\ ~Crash(p) /\ ~FlushFails(p)
  BY <1>2 DEF RedisLoss, RollBack, Crash, FlushFails
<1>4. \/ Tick \/ Retime \/ Reschedule \/ Reconcile \/ UNCHANGED vars
      \/ \E p \in Procs : ReadClock(p) \/ Advance(p) \/ Flush(p) \/ Wake(p)
      \/ \E j \in Jobs : Purge(j)
  BY <1>3 DEF Next
<1>5. ASSUME Tick \/ Retime \/ Reschedule \/ Reconcile \/ UNCHANGED vars PROVE faults' = faults
  BY <1>5 DEF Tick, Retime, Reschedule, Reconcile, vars
<1>6. ASSUME NEW p \in Procs, ReadClock(p) \/ Advance(p) PROVE faults' = faults
  BY <1>6 DEF ReadClock, Advance, LockPlayer, SkipEvent, ApplyTask, ApplySweep, Body, Commit
<1>7. ASSUME NEW p \in Procs, Flush(p) \/ Wake(p) PROVE faults' = faults
  BY <1>7 DEF Flush, FlushRead, FlushAdd, FlushStamp, FlushRemove, Finish, Wake, ParkEarly, Ring
<1>8. ASSUME NEW j \in Jobs, Purge(j) PROVE faults' = faults
  BY <1>8 DEF Purge
<1> QED
  BY <1>4, <1>5, <1>6, <1>7, <1>8

(* A process that is not the operator leaves the operator's own alone. *)
LEMMA OthersKept ==
  ASSUME TypeOK, NEW p \in Procs, ReadClock(p) \/ Advance(p) \/ Flush(p) \/ Wake(p)
  PROVE  OthersKeep(p) /\ UNCHANGED <<rate, epoch, game>> /\ passedOver \subseteq passedOver'
<1>1. CASE ReadClock(p) \/ LockPlayer(p) \/ Body(p) \/ Commit(p)
  BY <1>1 DEF ReadClock, LockPlayer, Body, Commit, OthersKeep, TypeOK, clockVars, txVars
<1>2. ASSUME NEW e \in Events, SkipEvent(p, e) \/ ApplyTask(p, e) \/ ApplySweep(p, e)
      PROVE  OthersKeep(p) /\ UNCHANGED <<rate, epoch, game>> /\ passedOver \subseteq passedOver'
  BY <1>2 DEF SkipEvent, ApplyTask, ApplySweep, OthersKeep, TypeOK, clockVars, procVars
<1>3. CASE Flush(p)
  BY <1>3 DEF Flush, FlushRead, FlushAdd, FlushStamp, FlushRemove, Finish, Rest, Drop,
              OthersKeep, TypeOK, clockVars, txVars
<1>4. CASE Wake(p)
  BY <1>4 DEF Wake, ParkEarly, Ring, Rest, OthersKeep, TypeOK, clockVars, txVars
<1> QED
  BY <1>1, <1>2, <1>3, <1>4 DEF Advance

(* What a transaction adds to the effects of its process: an alarm for a new row, and the
   removal of the one of a row it has just cancelled. *)
Recorded(p, x) ==
    \/ x.op = "enqueue" /\ x.ep = reading[p].epoch
    \/ x.op = "remove" /\ x.ep = rows[x.ev].job /\ x.ev \in Events

LEMMA RecordedOnes ==
  ASSUME NEW p, NEW e \in Events, NEW v
  PROVE  /\ \A x \in Elems(InsertFx(v, e, reading[p].epoch)) : x.op = "enqueue" /\ x.ep = reading[p].epoch
         /\ \A x \in Elems(RemoveFx(e)) : x.op = "remove" /\ x.ev = e /\ x.ep = rows[e].job
  BY DEF InsertFx, RemoveFx, Elems, Enqueue, Remove, Effect

LEMMA SweepRecords ==
  ASSUME TypeOK, ScheduleInv, NEW p \in Procs, NEW e \in Events, ApplySweep(p, e)
  PROVE  \A x \in Held(p)' :
           \/ x \in Held(p)
           \/ Recorded(p, x) /\ (x.op = "remove" => view'[x.ev].status \in Terminal)
<1>1. Chain(view)
  BY ScheduleAssumption DEF ApplySweep, ScheduleInv, TxInv, Procs
<1>2. PICK s \in Liquidations :
        /\ view' = Insert(CancelAll(Claim(e), {s[i] : i \in DOMAIN s}), e + 1, view[e].due + Period)
        /\ fx' = [fx EXCEPT ![p] = @ \o CancelFx(s)
                \o InsertFx(CancelAll(Claim(e), {s[i] : i \in DOMAIN s}), e + 1, reading[p].epoch)]
  BY DEF ApplySweep
<1> DEFINE v == CancelAll(Claim(e), {s[i] : i \in DOMAIN s})
           new == InsertFx(v, e + 1, reading[p].epoch)
<1>3. e + 1 \in Events /\ e + 1 \in Sweeps /\ e \in Sweeps /\ reading[p].epoch \in Epochs
      /\ view[e + 1].status = "ABSENT"
  BY <1>1, SweepEffect DEF TypeOK
<1>4. /\ new \in Seq(Effects)
      /\ \A x \in Elems(new) : x.op = "enqueue" /\ x.ep = reading[p].epoch
  <2>1. PICK w : w = v
    OBVIOUS
  <2>2. new = InsertFx(w, e + 1, reading[p].epoch)
    BY <2>1
  <2> HIDE DEF new, v
  <2> QED
    BY <1>3, <2>2, EffectTypes, RecordedOnes
<1>6. /\ CancelFx(s) \in Seq(Effects)
      /\ \A x \in Elems(CancelFx(s)) : /\ x.op = "remove" /\ x.ep = rows[x.ev].job /\ x.ev \in Events
                                       /\ view'[x.ev].status \in Terminal
  <2>1. CASE s = <<>>
    BY <2>1 DEF CancelFx, Elems
  <2>2. ASSUME NEW t \in PendingTasks(view), s = <<t>>
        PROVE  /\ CancelFx(s) \in Seq(Effects)
               /\ \A x \in Elems(CancelFx(s)) :
                     /\ x.op = "remove" /\ x.ep = rows[x.ev].job /\ x.ev \in Events
                     /\ view'[x.ev].status \in Terminal
    <3>1. t \in Events /\ t \in Tasks /\ t # e /\ t # e + 1 /\ view[t].status = "PENDING"
      BY <1>3, Domains DEF PendingTasks
    <3>2. CancelFx(s) = RemoveFx(t)
      BY <2>2 DEF CancelFx
    <3>3. {s[i] : i \in DOMAIN s} = {t}
      BY <2>2
    <3>4. Claim(e)[t] = view[t] /\ view[t] \in Rows
      BY <3>1 DEF Claim, TypeOK
    <3>5. v[t].status = "CANCELED"
      BY <3>1, <3>3, <3>4 DEF CancelAll, Rows
    <3>6. v \in [Events -> Rows]
      BY ClaimType, CancelType
    <3>7. view'[t].status = "CANCELED"
      BY <1>2, <1>3, <3>1, <3>5, <3>6 DEF Insert
    <3>8. RemoveFx(t) \in Seq(Effects)
      BY <1>3, <3>1, EffectTypes
    <3>9. \A x \in Elems(RemoveFx(t)) : x.op = "remove" /\ x.ev = t /\ x.ep = rows[t].job
      BY <3>1, RecordedOnes
    <3> QED
      BY <3>1, <3>2, <3>7, <3>8, <3>9 DEF Terminal
  <2> QED
    BY <2>1, <2>2 DEF Liquidations
<1>7. fx'[p] = (fx[p] \o CancelFx(s)) \o new /\ fx[p] \in Seq(Effects)
  BY <1>2 DEF TypeOK
<1> HIDE DEF new, v
<1>8. Elems(fx[p] \o CancelFx(s)) = Elems(fx[p]) \cup Elems(CancelFx(s))
  <2>1. CancelFx(s) \in Seq(Effects) /\ fx[p] \in Seq(Effects)
    BY <1>6, <1>7
  <2> QED
    BY <2>1, ElemsJoin
<1>9. Elems((fx[p] \o CancelFx(s)) \o new) = Elems(fx[p] \o CancelFx(s)) \cup Elems(new)
  <2>1. fx[p] \o CancelFx(s) \in Seq(Effects) /\ new \in Seq(Effects)
    BY <1>4, <1>6, <1>7
  <2> QED
    BY <2>1, ElemsJoin
<1>10. Held(p)' = Held(p) \cup Elems(CancelFx(s)) \cup Elems(new)
  BY <1>7, <1>8, <1>9 DEF Held
<1> QED
  BY <1>4, <1>6, <1>10 DEF Recorded

LEMMA BodyRecords ==
  ASSUME TypeOK, NEW p \in Procs, Body(p)
  PROVE  \A x \in Held(p)' :
           \/ x \in Held(p)
           \/ Recorded(p, x) /\ (x.op = "remove" => view'[x.ev].status \in Terminal)
<1>1. reading[p].epoch \in Epochs /\ fx[p] \in Seq(Effects)
  BY DEF TypeOK
<1>2. ASSUME NEW t \in Tasks, fx' = [fx EXCEPT ![p] = @ \o InsertFx(view, t, reading[p].epoch)]
      PROVE  \A x \in Held(p)' : x \in Held(p) \/ (Recorded(p, x) /\ x.op = "enqueue")
  <2> DEFINE new == InsertFx(view, t, reading[p].epoch)
  <2>1. t \in Events
    BY Domains
  <2>2. new \in Seq(Effects) /\ \A x \in Elems(new) : x.op = "enqueue" /\ x.ep = reading[p].epoch
    BY <1>1, <2>1, EffectTypes, RecordedOnes
  <2>3. fx'[p] = fx[p] \o new
    BY <1>2 DEF TypeOK
  <2> HIDE DEF new
  <2>4. Held(p)' = Held(p) \cup Elems(new)
    BY <1>1, <2>2, <2>3, ElemsJoin DEF Held
  <2> QED
    BY <2>2, <2>4 DEF Recorded
<1>3. ASSUME NEW t \in PendingTasks(view), view' = CancelAll(view, {t}),
             fx' = [fx EXCEPT ![p] = @ \o RemoveFx(t)]
      PROVE  \A x \in Held(p)' :
               x \in Held(p) \/ (Recorded(p, x) /\ view'[x.ev].status \in Terminal)
  <2>1. t \in Events /\ view[t].status = "PENDING" /\ view[t] \in Rows
    BY Domains DEF PendingTasks, TypeOK
  <2>2. RemoveFx(t) \in Seq(Effects)
        /\ \A x \in Elems(RemoveFx(t)) : x.op = "remove" /\ x.ev = t /\ x.ep = rows[t].job
    BY <1>1, <2>1, EffectTypes, RecordedOnes
  <2>3. fx'[p] = fx[p] \o RemoveFx(t)
    BY <1>3 DEF TypeOK
  <2>4. Held(p)' = Held(p) \cup Elems(RemoveFx(t))
    BY <1>1, <2>2, <2>3, ElemsJoin DEF Held
  <2>5. view'[t].status = "CANCELED"
    BY <1>3, <2>1 DEF CancelAll, Rows
  <2> QED
    BY <2>1, <2>2, <2>4, <2>5 DEF Recorded, Terminal
<1>4. ASSUME UNCHANGED <<view, fx>> PROVE Held(p)' = Held(p)
  BY <1>4 DEF Held
<1> QED
  BY <1>2, <1>3, <1>4 DEF Body

(* The operator does nothing but retime and flush. *)
LEMMA OperatorOnlyFlushes ==
  ASSUME TypeOK, ScheduleInv, FxInv, Roles,
         ReadClock(Operator) \/ Advance(Operator) \/ Flush(Operator) \/ Wake(Operator)
  PROVE  Flush(Operator)
<1>1. Operator \in Procs /\ Operator \notin Requests \cup Workers
  BY ScheduleAssumption DEF Procs
<1>2. pc[Operator] \notin {"woken", "read", "advance", "commit", "early"}
  BY DEF Roles
<1>3. ~ReadClock(Operator) /\ ~LockPlayer(Operator) /\ ~Body(Operator) /\ ~Commit(Operator)
  BY <1>1, <1>2 DEF ReadClock, LockPlayer, Body, Commit
<1>4. \A e \in Events : ~SkipEvent(Operator, e) /\ ~ApplyTask(Operator, e) /\ ~ApplySweep(Operator, e)
  BY <1>2 DEF SkipEvent, ApplyTask, ApplySweep
<1>5. ~Wake(Operator)
  BY <1>1, <1>2 DEF Wake, ParkEarly, Ring
<1> QED
  BY <1>3, <1>4, <1>5 DEF Advance

LEMMA ComingKept ==
  ASSUME NEW e, pc'[Operator] = pc[Operator], fx'[Operator] = fx[Operator], epoch' = epoch
  PROVE  Coming(e) => Coming(e)'
  BY DEF Coming, Held

(* What the end of a job or its removal by age does to the queue. *)
LEMMA QueueEnds ==
  ASSUME TypeOK, NEW p \in Procs, NEW j \in Jobs
  PROVE  /\ JobBecomes(p, Completed)[j].state # "absent" => queue[j].state # "absent"
         /\ queue[j].state = "delayed" => JobBecomes(p, Completed)[j] = queue[j]
         /\ \A i \in Jobs : queue[i].state \in Retained =>
              /\ [queue EXCEPT ![i] = NoAlarm][j].state # "absent" => queue[j].state # "absent"
              /\ queue[j].state = "delayed" => [queue EXCEPT ![i] = NoAlarm][j] = queue[j]
  BY DEF JobBecomes, TypeOK, NoAlarm, Retained

(* What a stamp, given or taken away, does to the rows. *)
LEMMA StampedRows ==
  ASSUME TypeOK, NEW p \in Procs, NEW e \in Events
  PROVE  /\ FlushStamp(p) =>
              \/ rows'[e] = rows[e]
              \/ /\ e = Head(fx[p]).ev /\ rows[e].status = "PENDING"
                 /\ rows'[e].status = rows[e].status /\ rows'[e].due = rows[e].due
                 /\ rows'[e].stamped = TRUE /\ rows'[e].job = Head(fx[p]).ep
         /\ ParkEarly(p) =>
              \/ rows'[e] = rows[e]
              \/ /\ rows'[e].status = rows[e].status /\ rows'[e].due = rows[e].due
                 /\ rows'[e].stamped = FALSE /\ rows'[e].job = NoJob
<1>1. rows \in [Events -> Rows] /\ rows[e] \in Rows
  BY DEF TypeOK
<1>2. CASE FlushStamp(p)
  <2>1. PICK f, k : f = Head(fx[p]).ev /\ k = Head(fx[p]).ep
    OBVIOUS
  <2>2. CASE rows[f].status = "PENDING"
    <3>1. rows' = [rows EXCEPT ![f].job = k, ![f].stamped = TRUE]
      BY <1>2, <2>1, <2>2 DEF FlushStamp
    <3>2. rows'[e] = IF f = e THEN [[rows[e] EXCEPT !.job = k] EXCEPT !.stamped = TRUE] ELSE rows[e]
      BY <1>1, <3>1
    <3> QED
      BY <1>1, <1>2, <2>1, <2>2, <3>2 DEF Rows, FlushStamp, ParkEarly, NextEffect
  <2>3. CASE rows[f].status # "PENDING"
    BY <1>2, <2>1, <2>3 DEF FlushStamp, ParkEarly, NextEffect
  <2> QED
    BY <2>2, <2>3
<1>3. CASE ParkEarly(p)
  <2>1. PICK f : f = job[p][1]
    OBVIOUS
  <2>2. CASE rows[f].status = "PENDING"
    <3>1. rows' = [rows EXCEPT ![f].job = NoJob, ![f].stamped = FALSE]
      BY <1>3, <2>1, <2>2 DEF ParkEarly
    <3>2. rows'[e] = IF f = e THEN [[rows[e] EXCEPT !.job = NoJob] EXCEPT !.stamped = FALSE] ELSE rows[e]
      BY <1>1, <3>1
    <3> QED
      BY <1>1, <1>3, <3>2 DEF Rows, FlushStamp, ParkEarly, NextEffect
  <2>3. CASE rows[f].status # "PENDING"
    BY <1>3, <2>1, <2>3 DEF FlushStamp, ParkEarly, NextEffect
  <2> QED
    BY <2>2, <2>3
<1> QED
  BY <1>2, <1>3

(* The sweep asks for alarms of the epoch in force, and for nothing else. *)
LEMMA ReconcileFx ==
  ASSUME TypeOK, Reconcile
  PROVE  epoch' = epoch /\ \A x \in Held(Sweeper)' : x.op = "enqueue" /\ x.ep = epoch
<1>1. Overdue \in SUBSET Events /\ Soon \in SUBSET Events /\ Sweeper \in Procs
  BY DEF Overdue, Soon, DueBy, Procs
<1>2. PICK s \in ByDue(Overdue), t \in ByDue(Soon) :
        fx' = [fx EXCEPT ![Sweeper] = EnqueueAll(s) \o EnqueueAll(t)]
  BY DEF Reconcile
<1>3. EnqueueAll(s) \in Seq(Effects) /\ EnqueueAll(t) \in Seq(Effects)
  BY <1>1, EnqueueAllType
<1>4. fx'[Sweeper] = EnqueueAll(s) \o EnqueueAll(t)
  BY <1>1, <1>2 DEF TypeOK
<1>5. Held(Sweeper)' = Elems(EnqueueAll(s)) \cup Elems(EnqueueAll(t))
  BY <1>3, <1>4, ElemsJoin DEF Held
<1>6. \A r : \A x \in Elems(EnqueueAll(r)) : x.op = "enqueue" /\ x.ep = epoch
  BY DEF Elems, EnqueueAll, Enqueue, Effect
<1> QED
  BY <1>5, <1>6 DEF Reconcile, clockVars

(* The steps that touch no alarm before its time. *)
LEMMA CalmSteps ==
  ASSUME TypeOK, TypeOK', ScheduleInv, FxInv, Books, NEW e \in Pending, Minded(e),
         \/ Tick \/ Reconcile \/ UNCHANGED vars \/ \E j \in Jobs : Purge(j)
         \/ \E p \in Procs : \/ ReadClock(p) \/ LockPlayer(p) \/ Body(p) \/ Wake(p) \/ Finish(p)
                             \/ \E f \in Events : SkipEvent(p, f) \/ ApplyTask(p, f) \/ ApplySweep(p, f)
  PROVE  Minded(e)'
<1> USE DEF Books
<1>1. /\ e \in Events /\ rows[e].status = "PENDING" /\ rows[e].due \in Nat
      /\ game \in Nat /\ rate \in Nat /\ epoch \in Epochs
      /\ Operator \in Procs /\ Sweeper \in Procs /\ Sweeper # Operator
      /\ \A k \in Epochs : <<e, k>> \in Jobs
  <2>1. e \in Events /\ rows[e].status = "PENDING"
    BY DEF Pending
  <2>2. rows[e].due \in Nat /\ game \in Nat /\ rate \in Nat /\ epoch \in Epochs
    BY <2>1, ScheduleAssumption DEF TypeOK, Rows
  <2>3. Operator \in Procs /\ Sweeper \in Procs /\ Sweeper # Operator
    BY ScheduleAssumption DEF Procs
  <2> QED
    BY <2>1, <2>2, <2>3 DEF Jobs
<1>2. ASSUME UNCHANGED <<rows, queue, fx, pc, rate, epoch, passedOver>>, game <= game' PROVE Minded(e)'
  <2>1. \A p \in Procs : Held(p)' = Held(p)
    BY <1>2 DEF Held
  <2>2. Coming(e) => Coming(e)'
    BY <1>2, ComingKept
  <2> QED
    BY <1>1, <1>2, <2>1, <2>2, StillMinded
<1>3. CASE Tick \/ UNCHANGED vars
  <2>1. game' \in Nat
    BY DEF TypeOK
  <2> QED
    BY <1>1, <1>2, <1>3, <2>1 DEF Tick, vars, clockVars, procVars
<1>4. ASSUME NEW j \in Jobs, Purge(j) PROVE Minded(e)'
  <2>1. \A p \in Procs : Held(p)' = Held(p)
    BY <1>4 DEF Purge, Held, procVars
  <2>2. Coming(e) => Coming(e)'
    BY <1>4, ComingKept DEF Purge, procVars, clockVars
  <2>3. \A k \in Epochs :
           /\ queue'[<<e, k>>].state # "absent" => queue[<<e, k>>].state # "absent"
           /\ queue[<<e, k>>].state = "delayed" => queue'[<<e, k>>] = queue[<<e, k>>]
    BY <1>1, <1>4, QueueEnds DEF Purge
  <2> QED
    BY <1>1, <1>4, <2>1, <2>2, <2>3, StillMinded DEF Purge, clockVars
<1>5. CASE Reconcile
  <2>1. \A p \in Procs \ {Sweeper} : Held(p)' = Held(p)
    BY <1>5 DEF Reconcile, Held, TypeOK
  <2>2. Coming(e) => Coming(e)'
    BY <1>1, <1>5, ComingKept DEF Reconcile, TypeOK, clockVars
  <2>3. \A x \in Held(Sweeper)' : x.op = "enqueue"
    BY <1>5, ReconcileFx
  <2> QED
    BY <1>1, <1>5, <2>1, <2>2, <2>3, StillMinded DEF Reconcile, clockVars
<1>6. ASSUME NEW p \in Procs, ReadClock(p) \/ Advance(p) \/ Flush(p) \/ Wake(p)
      PROVE  /\ UNCHANGED <<rate, epoch, game>> /\ passedOver \subseteq passedOver' /\ OthersKeep(p)
             /\ \A q \in Procs \ {p} : Held(q)' = Held(q)
             /\ p # Operator \/ Finish(p) => (Coming(e) => Coming(e)')
  <2>1. OthersKeep(p) /\ UNCHANGED <<rate, epoch, game>> /\ passedOver \subseteq passedOver'
    BY <1>6, OthersKept
  <2>2. \A q \in Procs \ {p} : Held(q)' = Held(q)
    BY <2>1 DEF OthersKeep, Held
  <2>3. p # Operator => (Coming(e) => Coming(e)')
    BY <1>1, <2>1, ComingKept DEF OthersKeep
  <2>4. p = Operator /\ Finish(p) => ~Coming(e)
    BY DEF Finish, Coming, Held, Elems
  <2> QED
    BY <2>1, <2>2, <2>3, <2>4
<1>7. ASSUME NEW p \in Procs, OthersKeep(p), UNCHANGED <<rate, epoch, game, rows, queue>>,
             passedOver \subseteq passedOver',
             Coming(e) => Coming(e)', \A x \in Held(p)' : x \in Held(p) \/ Recorded(p, x)
      PROVE  Minded(e)'
  <2>1. \A q \in Procs : \A x \in Held(q)' : x \in Held(q) \/ x.op \in {"enqueue", "remove"}
    BY <1>7 DEF OthersKeep, Held, Recorded
  <2> QED
    BY <1>1, <1>7, <2>1, StillMinded
<1>8. ASSUME NEW p \in Procs, ReadClock(p) \/ LockPlayer(p) \/ Body(p)
      PROVE  Minded(e)'
  <2>1. ReadClock(p) \/ Advance(p)
    BY <1>8 DEF Advance
  <2>2. p # Operator
    <3>1. ~Flush(p) \/ p # Operator
      BY <1>8 DEF ReadClock, LockPlayer, Body, Flush, FlushRead, FlushAdd, FlushStamp, FlushRemove,
                  Finish, NextEffect
    <3> QED
      BY <2>1, <3>1, OperatorOnlyFlushes
  <2>3. UNCHANGED <<rows, queue>>
    BY <1>8 DEF ReadClock, LockPlayer, Body
  <2>4. \A x \in Held(p)' : x \in Held(p) \/ Recorded(p, x)
    <3>1. ReadClock(p) \/ LockPlayer(p) => Held(p)' = Held(p)
      BY DEF ReadClock, LockPlayer, Held
    <3> QED
      BY <1>8, <3>1, BodyRecords
  <2> QED
    BY <1>6, <1>7, <2>1, <2>2, <2>3, <2>4
<1>9. ASSUME NEW p \in Procs, NEW f \in Events, SkipEvent(p, f) \/ ApplyTask(p, f) \/ ApplySweep(p, f)
      PROVE  Minded(e)'
  <2>1. Advance(p)
    BY <1>9 DEF Advance
  <2>2. p # Operator
    <3>1. pc[p] = "advance"
      BY <1>9 DEF SkipEvent, ApplyTask, ApplySweep
    <3> QED
      BY <3>1 DEF Roles
  <2>3. UNCHANGED <<rows, queue>>
    BY <1>9 DEF SkipEvent, ApplyTask, ApplySweep
  <2>4. \A x \in Held(p)' : x \in Held(p) \/ Recorded(p, x)
    <3>1. SkipEvent(p, f) \/ ApplyTask(p, f) => Held(p)' = Held(p)
      BY DEF SkipEvent, ApplyTask, Held, procVars
    <3> QED
      BY <1>9, <3>1, SweepRecords
  <2> QED
    BY <1>6, <1>7, <2>1, <2>2, <2>3, <2>4
<1>10. ASSUME NEW p \in Procs, Finish(p) PROVE Minded(e)'
  <2>1. Flush(p)
    BY <1>10 DEF Flush
  <2>2. Held(p)' = Held(p) /\ rows' = rows /\ queue' = JobBecomes(p, Completed)
    BY <1>10 DEF Finish, Held
  <2>3. \A q \in Procs : Held(q)' = Held(q)
    BY <1>6, <2>1, <2>2
  <2>4. \A k \in Epochs :
           /\ queue'[<<e, k>>].state # "absent" => queue[<<e, k>>].state # "absent"
           /\ queue[<<e, k>>].state = "delayed" => queue'[<<e, k>>] = queue[<<e, k>>]
    BY <1>1, <2>2, QueueEnds
  <2> QED
    BY <1>1, <1>6, <1>10, <2>1, <2>2, <2>3, <2>4, StillMinded
<1>11. ASSUME NEW p \in Procs, ParkEarly(p) PROVE Minded(e)'
  <2>1. Wake(p) /\ p # Operator
    BY <1>11 DEF Wake, ParkEarly, Roles
  <2>2. fx' = fx /\ queue' = JobBecomes(p, Completed)
    BY <1>11 DEF ParkEarly
  <2>3. \A q \in Procs : Held(q)' = Held(q)
    BY <2>2 DEF Held
  <2>4. \A k \in Epochs :
           /\ queue'[<<e, k>>].state # "absent" => queue[<<e, k>>].state # "absent"
           /\ queue[<<e, k>>].state = "delayed" => queue'[<<e, k>>] = queue[<<e, k>>]
    BY <1>1, <2>2, QueueEnds
  <2>5. /\ rows'[e].due = rows[e].due
        /\ rows'[e].stamped => rows[e].stamped /\ rows'[e].job = rows[e].job
    BY <1>1, <1>11, StampedRows
  <2> QED
    BY <1>1, <1>6, <2>1, <2>3, <2>4, <2>5, StillMinded
<1>12. ASSUME NEW p \in Procs, NEW f \in Events, NEW i \in Epochs, Ring(p, f, i) PROVE Minded(e)'
  <2>1. Wake(p) /\ p # Operator
    BY <1>12, ScheduleAssumption DEF Wake, Ring
  <2>2. fx' = fx /\ rows' = rows
    BY <1>12 DEF Ring
  <2>3. \A q \in Procs : Held(q)' = Held(q)
    BY <2>2 DEF Held
  <2>4. ASSUME NEW k \in Epochs
        PROVE  /\ queue'[<<e, k>>].state # "absent" => queue[<<e, k>>].state # "absent"
               /\ queue[<<e, k>>].state = "delayed" =>
                    queue'[<<e, k>>] = queue[<<e, k>>] \/ (OnTime(e, k) => rows[e].due <= game)
    <3>1. CASE e = f /\ k = i
      BY <1>12, <3>1 DEF Ring, Rings, OnTime
    <3>2. CASE ~(e = f /\ k = i)
      BY <1>1, <1>12, <3>2 DEF Ring, TypeOK
    <3> QED
      BY <3>1, <3>2
  <2> QED
    BY <1>1, <1>6, <2>1, <2>2, <2>3, <2>4, StillMinded
<1> QED
  BY <1>3, <1>4, <1>5, <1>8, <1>9, <1>10, <1>11, <1>12 DEF Wake

(* The effects of a process before and after it has dealt with the first of them. *)
LEMMA FlushHeads ==
  ASSUME TypeOK, FxInv, NEW p \in Procs, pc[p] = "flush", fx[p] # <<>>
  PROVE  /\ Head(fx[p]) \in Effects /\ Head(fx[p]) \in Held(p)
         /\ \A y \in Held(p) : rows[y.ev].status # "ABSENT"
         /\ \A y \in Held(p) : y = Head(fx[p]) \/ y \in Elems(Tail(fx[p]))
         /\ Elems(Tail(fx[p])) \subseteq Held(p)
         /\ fx' = Drop(p) =>
              /\ Held(p)' = Elems(Tail(fx[p]))
              /\ \A q \in Procs \ {p} : Held(q)' = Held(q)
         /\ \A x \in Effects : fx' = [fx EXCEPT ![p] = <<x>> \o Tail(@)] =>
              /\ Held(p)' = {x} \cup Elems(Tail(fx[p]))
              /\ \A q \in Procs \ {p} : Held(q)' = Held(q)
<1>1. fx[p] \in Seq(Effects) /\ fx \in [Procs -> Seq(Effects)]
  BY DEF TypeOK
<1>2. /\ Head(fx[p]) \in Effects /\ Head(fx[p]) \in Held(p)
      /\ \A y \in Held(p) : y = Head(fx[p]) \/ y \in Elems(Tail(fx[p]))
      /\ Elems(Tail(fx[p])) \subseteq Held(p)
  BY <1>1, ElemsTail DEF Held
<1>3. \A y \in Held(p) : rows[y.ev].status # "ABSENT"
  BY DEF FxInv, FxOf, Refers, Held, Elems
<1>4. ASSUME fx' = Drop(p)
      PROVE  Held(p)' = Elems(Tail(fx[p])) /\ \A q \in Procs \ {p} : Held(q)' = Held(q)
  BY <1>1, <1>4 DEF Drop, Held
<1>5. ASSUME NEW x \in Effects, fx' = [fx EXCEPT ![p] = <<x>> \o Tail(@)]
      PROVE  /\ Held(p)' = {x} \cup Elems(Tail(fx[p]))
             /\ \A q \in Procs \ {p} : Held(q)' = Held(q)
  <2>1. fx'[p] = <<x>> \o Tail(fx[p]) /\ \A q \in Procs \ {p} : fx'[q] = fx[q]
    BY <1>1, <1>5
  <2>2. Elems(<<x>> \o Tail(fx[p])) = {x} \cup Elems(Tail(fx[p]))
    BY <1>1, ElemsHead
  <2> QED
    BY <2>1, <2>2 DEF Held
<1> QED
  BY <1>2, <1>3, <1>4, <1>5

(* The effect a process is about to deal with, and what the others keep. *)
LEMMA EventFacts ==
  ASSUME TypeOK, NEW e \in Pending
  PROVE  /\ e \in Events /\ rows[e].status = "PENDING" /\ rows[e].due \in Nat
         /\ game \in Nat /\ rate \in Nat /\ epoch \in Epochs /\ Epochs \subseteq Nat
         /\ Operator \in Procs /\ \A k \in Epochs : <<e, k>> \in Jobs
<1>1. e \in Events /\ rows[e].status = "PENDING"
  BY DEF Pending
<1>2. rows[e].due \in Nat /\ game \in Nat /\ rate \in Nat /\ epoch \in Epochs
  BY <1>1, ScheduleAssumption DEF TypeOK, Rows
<1>3. Operator \in Procs
  BY DEF Procs
<1> QED
  BY <1>1, <1>2, <1>3, Domains DEF Jobs

LEMMA StampMinded ==
  ASSUME TypeOK, TypeOK', FxInv, Books, NEW e \in Pending, Minded(e),
         NEW p \in Procs, FlushStamp(p)
  PROVE  Minded(e)'
<1>1. /\ pc[p] = "flush" /\ fx[p] # <<>> /\ Head(fx[p]).op = "stamp" /\ fx' = Drop(p)
      /\ pc' = pc /\ UNCHANGED <<queue, game, rate, epoch, passedOver>>
  BY DEF FlushStamp, NextEffect, clockVars
<1>2. /\ e \in Events /\ rows[e].status = "PENDING" /\ rows[e].due \in Nat /\ game \in Nat
      /\ Operator \in Procs
  BY EventFacts
<1>3. /\ \A q \in Procs : Held(q)' \subseteq Held(q)
      /\ Head(fx[p]) \in Held(p)
      /\ \A y \in Held(p) : y = Head(fx[p]) \/ y \in Held(p)'
      /\ \A q \in Procs \ {p} : Held(q)' = Held(q)
  BY <1>1, FlushHeads
<1>4. Coming(e) => Coming(e)'
  BY <1>1, <1>2, <1>3 DEF Coming
<1>5. ASSUME NEW k \in Epochs
      PROVE  /\ Marked(e, k)' => Marked(e, k)
             /\ Adding(e, k)' => Adding(e, k)
             /\ Good(e, k) => Good(e, k)'
  <2>1. Stamping(e, k)' => Stamping(e, k)
    BY <1>3 DEF Stamping
  <2>2. Adding(e, k)' => Adding(e, k)
    BY <1>3 DEF Adding
  <2>3. rows'[e].stamped /\ rows'[e].job = k => Marked(e, k)
    BY <1>1, <1>2, <1>3, StampedRows DEF Marked, Stamping
  <2>4. rows'[e].due = rows[e].due
    BY <1>2, StampedRows
  <2>5. Good(e, k) => Good(e, k)'
    BY <1>1, <2>4 DEF Good, OnTime
  <2> QED
    BY <2>1, <2>2, <2>3, <2>5 DEF Marked
<1>6. rows'[e].due = rows[e].due
  BY <1>2, StampedRows
<1> HIDE DEF Minded
<1> QED
  BY <1>1, <1>2, <1>4, <1>5, <1>6, CalmEvent

LEMMA ReadMinded ==
  ASSUME TypeOK, TypeOK', FxInv, Books, NEW e \in Pending, Minded(e),
         NEW p \in Procs, FlushRead(p)
  PROVE  Minded(e)'
<1>1. /\ pc[p] = "flush" /\ fx[p] # <<>> /\ Head(fx[p]).op = "enqueue" /\ pc' = pc
      /\ UNCHANGED <<queue, rows, game, rate, epoch>> /\ passedOver \subseteq passedOver'
  BY DEF FlushRead, NextEffect
<1>2. /\ e \in Events /\ rows[e].status = "PENDING" /\ rows[e].due \in Nat /\ game \in Nat
      /\ rate \in Nat /\ epoch \in Epochs /\ Operator \in Procs
  BY EventFacts
<1> DEFINE h == Head(fx[p])
           x == [h EXCEPT !.op = "add", !.set = epoch]
<1>3. /\ h \in Effects /\ h \in Held(p)
      /\ \A y \in Held(p) : y = h \/ y \in Elems(Tail(fx[p]))
      /\ Elems(Tail(fx[p])) \subseteq Held(p)
  BY <1>1, FlushHeads
<1>4. x \in Effects /\ x.ev = h.ev /\ x.ep = h.ep /\ x.op = "add" /\ x.set = epoch
  BY <1>2, <1>3 DEF Effects
<1>5. CASE ~Parked(rows[h.ev].due)
  <2>1. fx' = [fx EXCEPT ![p] = <<x>> \o Tail(@)]
    BY <1>5 DEF FlushRead, TypeOK
  <2> HIDE DEF h, x
  <2>2. Held(p)' = {x} \cup Elems(Tail(fx[p])) /\ \A q \in Procs \ {p} : Held(q)' = Held(q)
    BY <1>1, <1>4, <2>1, FlushHeads
  <2>3. Coming(e) => Coming(e)'
    BY <1>1, <1>2, <1>3, <1>4, <2>2 DEF Coming
  <2>4. \A q \in Procs : \A y \in Held(q)' :
           y \in Held(q) \/ (y.op = "add" /\ y.set = epoch /\ ~Parked(rows[y.ev].due))
    BY <1>3, <1>4, <1>5, <2>2
  <2> QED
    BY <1>1, <1>2, <2>3, <2>4, StillMinded
<1>6. CASE Parked(rows[h.ev].due)
  <2>1. fx' = Drop(p)
    BY <1>6 DEF FlushRead
  <2> HIDE DEF h, x
  <2>2. Held(p)' = Elems(Tail(fx[p])) /\ \A q \in Procs \ {p} : Held(q)' = Held(q)
    BY <1>1, <2>1, FlushHeads
  <2>3. \A q \in Procs : Held(q)' \subseteq Held(q)
    BY <1>3, <2>2
  <2>4. CASE Coming(e) => Coming(e)'
    BY <1>1, <1>2, <2>3, <2>4, StillMinded
  <2>5. CASE Coming(e) /\ ~Coming(e)'
    <3>1. p = Operator /\ h.ev = e
      BY <1>1, <1>2, <1>3, <2>2, <2>5 DEF Coming
    <3>2. Parked(rows[e].due)
      BY <1>6, <3>1
    <3>3. e \in passedOver'
      BY <1>6, <3>1 DEF FlushRead, h
    <3>4. ~Marked(e, epoch) /\ ~Adding(e, epoch)
      BY <3>2 DEF Minded
    <3>5. ~Marked(e, epoch)' /\ ~Adding(e, epoch)'
      BY <1>1, <2>3, <3>4 DEF Marked, Stamping, Adding
    <3>6. Good(e, epoch)' <=> Good(e, epoch)
      BY <1>1 DEF Good, OnTime
    <3>7. Settled(e)'
      BY <1>1, <3>3, <3>5 DEF Settled
    <3> QED
      BY <1>1, <3>5, <3>6, <3>7 DEF Minded
  <2> QED
    BY <2>4, <2>5
<1> QED
  BY <1>5, <1>6

LEMMA AddMinded ==
  ASSUME TypeOK, TypeOK', FxInv, Books, NEW e \in Pending, Minded(e),
         NEW p \in Procs, FlushAdd(p)
  PROVE  Minded(e)'
<1>1. /\ pc[p] = "flush" /\ fx[p] # <<>> /\ Head(fx[p]).op = "add" /\ pc' = pc
      /\ UNCHANGED <<rows, game, rate, epoch, passedOver>>
  BY DEF FlushAdd, NextEffect, clockVars
<1>2. /\ e \in Events /\ rows[e].status = "PENDING" /\ rows[e].due \in Nat /\ game \in Nat
      /\ rate \in Nat /\ epoch \in Epochs /\ Epochs \subseteq Nat /\ Operator \in Procs
      /\ \A k \in Epochs : <<e, k>> \in Jobs
  BY EventFacts
<1> DEFINE h == Head(fx[p])
           x == [h EXCEPT !.op = "stamp", !.set = 1]
<1>3. /\ h \in Effects /\ h \in Held(p)
      /\ \A y \in Held(p) : y = h \/ y \in Elems(Tail(fx[p]))
      /\ Elems(Tail(fx[p])) \subseteq Held(p)
  BY <1>1, FlushHeads
<1>4. x \in Effects /\ x.ev = h.ev /\ x.ep = h.ep /\ x.op = "stamp"
  BY <1>3, Domains DEF Effects
<1>5. h.ep \in Epochs /\ h.set \in Epochs /\ h.ep <= h.set /\ h.set <= epoch /\ h.op = "add"
  BY <1>1, <1>3 DEF Books, Sound, Proper, Effects
<1>6. fx' = [fx EXCEPT ![p] = <<x>> \o Tail(@)]
  BY DEF FlushAdd, TypeOK
<1>7. \A j \in Jobs :
        queue'[j] = IF j = <<h.ev, h.ep>> /\ queue[j].state = "absent"
                    THEN [NoAlarm EXCEPT !.state = "delayed", !.set = h.set] ELSE queue[j]
  BY DEF FlushAdd, TypeOK
<1> HIDE DEF h, x
<1>8. Held(p)' = {x} \cup Elems(Tail(fx[p])) /\ \A q \in Procs \ {p} : Held(q)' = Held(q)
  BY <1>1, <1>4, <1>6, FlushHeads
<1>9. ASSUME NEW k \in Epochs
      PROVE  /\ Marked(e, k)' => Marked(e, k) \/ (e = h.ev /\ k = h.ep)
             /\ Adding(e, k)' => Adding(e, k)
             /\ Good(e, k) => Good(e, k)'
  <2>1. Stamping(e, k)' => Stamping(e, k) \/ (e = h.ev /\ k = h.ep)
    BY <1>3, <1>4, <1>8 DEF Stamping
  <2>2. Adding(e, k)' => Adding(e, k)
    BY <1>3, <1>4, <1>8 DEF Adding
  <2>3. OnTime(e, k) => OnTime(e, k)'
    BY <1>1, <1>2, <1>7 DEF OnTime
  <2>4. Good(e, k) => Good(e, k)'
    BY <1>1, <2>3 DEF Good
  <2> QED
    BY <1>1, <2>1, <2>2, <2>4 DEF Marked
<1>10. CASE e # h.ev
  <2>1. Coming(e) => Coming(e)'
    BY <1>1, <1>2, <1>3, <1>8, <1>10 DEF Coming
  <2>2. \A k \in Epochs : queue'[<<e, k>>].state # "absent" => queue[<<e, k>>].state # "absent"
    BY <1>2, <1>7, <1>10
  <2> HIDE DEF Minded
  <2> QED
    BY <1>1, <1>2, <1>9, <1>10, <2>1, <2>2, CalmEvent
<1>11. CASE e = h.ev
  <2>1. Adding(e, h.set)
    BY <1>3, <1>5, <1>11 DEF Adding
  <2>2. h.ep = epoch => h.set = epoch
    <3>1. h.ep \in Nat /\ h.set \in Nat /\ epoch \in Nat
      BY <1>2, <1>5
    <3> QED
      BY <1>5, <3>1
  <2>3. (Marked(e, epoch) \/ Adding(e, epoch) => ~Parked(rows[e].due))'
    <3>1. Marked(e, epoch)' \/ Adding(e, epoch)' => Marked(e, epoch) \/ Adding(e, epoch)
      BY <1>1, <1>2, <1>9, <2>1, <2>2
    <3>2. ~Parked(rows[e].due) => ~Parked(rows[e].due)'
      BY <1>1 DEF Parked
    <3> QED
      BY <3>1, <3>2 DEF Minded
  <2>4. ASSUME NEW k \in Epochs,
               h.set = epoch, queue[<<e, k>>].state # "absent" => Good(e, k)
        PROVE  queue'[<<e, k>>].state # "absent" => Good(e, k)'
    <3>1. CASE queue'[<<e, k>>] = queue[<<e, k>>]
      BY <1>9, <2>4, <3>1
    <3>2. CASE queue'[<<e, k>>] = [NoAlarm EXCEPT !.state = "delayed", !.set = h.set]
      BY <1>1, <2>4, <3>2 DEF Good, OnTime, NoAlarm
    <3> QED
      BY <1>2, <1>7, <3>1, <3>2
  <2>5. (queue[<<e, epoch>>].state # "absent" => Good(e, epoch))'
    <3>0. queue[<<e, epoch>>].state # "absent" => Good(e, epoch)
      BY DEF Minded
    <3>1. CASE h.ep = epoch
      <4>1. h.set = epoch
        BY <2>2, <3>1
      <4> QED
        BY <1>1, <1>2, <2>4, <3>0, <4>1
    <3>2. CASE h.ep # epoch
      <4>1. queue'[<<e, epoch>>] = queue[<<e, epoch>>]
        BY <1>2, <1>7, <3>2
      <4> QED
        BY <1>1, <1>2, <1>9, <3>0, <4>1
    <3> QED
      BY <3>1, <3>2
  <2>6. h.ep = epoch => Good(e, epoch)'
    <3>1. queue'[<<h.ev, h.ep>>].state # "absent"
      BY <1>2, <1>5, <1>7, <1>11 DEF NoAlarm
    <3> QED
      BY <1>1, <1>11, <2>5, <3>1
  <2>7. Settled(e) => Settled(e)'
    BY <1>1, <1>2, <1>9, <2>6 DEF Settled
  <2>8. CASE Fresh(e)
    <3>1. h.set = epoch
      BY <1>5, <2>1, <2>8 DEF Fresh
    <3>2. ASSUME NEW k \in Epochs, Marked(e, k)' \/ queue'[<<e, k>>].state # "absent"
          PROVE  Good(e, k)'
      <4>1. queue'[<<e, k>>].state # "absent" => Good(e, k)'
        BY <2>4, <2>8, <3>1 DEF Fresh
      <4>2. CASE Marked(e, k)
        BY <1>9, <2>8, <4>2 DEF Fresh
      <4>3. CASE k = h.ep
        <5>1. queue'[<<e, k>>].state # "absent"
          BY <1>2, <1>7, <1>11, <4>3 DEF NoAlarm
        <5> QED
          BY <4>1, <5>1
      <4> QED
        BY <1>9, <3>2, <4>1, <4>2, <4>3
    <3>3. \A s \in Epochs : Adding(e, s)' => s = epoch'
      BY <1>1, <1>9, <2>8 DEF Fresh
    <3>4. Fresh(e)'
      BY <3>2, <3>3 DEF Fresh
    <3> QED
      BY <2>3, <2>5, <3>4 DEF Minded
  <2>9. CASE Coming(e)
    <3>1. CASE Coming(e)'
      BY <2>3, <2>5, <3>1 DEF Minded
    <3>2. CASE ~Coming(e)'
      <4>1. h.ep = epoch
        BY <1>1, <1>2, <1>3, <1>8, <2>9, <3>2 DEF Coming
      <4>2. Settled(e)'
        BY <1>1, <2>6, <4>1 DEF Settled
      <4> QED
        BY <2>3, <2>5, <4>2 DEF Minded
    <3> QED
      BY <3>1, <3>2
  <2> QED
    BY <2>3, <2>5, <2>7, <2>8, <2>9 DEF Minded
<1> QED
  BY <1>10, <1>11

LEMMA RemoveMinded ==
  ASSUME TypeOK, TypeOK', FxInv, Books, NEW e \in Pending, Minded(e),
         NEW p \in Procs, FlushRemove(p)
  PROVE  Minded(e)'
<1>1. /\ pc[p] = "flush" /\ fx[p] # <<>> /\ Head(fx[p]).op = "remove" /\ pc' = pc
      /\ fx' = Drop(p) /\ UNCHANGED <<rows, game, rate, epoch, passedOver>>
  BY DEF FlushRemove, NextEffect, clockVars
<1>2. /\ e \in Events /\ rows[e].status = "PENDING" /\ rows[e].due \in Nat /\ game \in Nat
      /\ rate \in Nat /\ epoch \in Epochs /\ Epochs \subseteq Nat /\ Operator \in Procs
      /\ \A k \in Epochs : <<e, k>> \in Jobs
  BY EventFacts
<1> DEFINE h == Head(fx[p])
<1>3. /\ h \in Effects /\ h \in Held(p)
      /\ \A y \in Held(p) : y = h \/ y \in Elems(Tail(fx[p]))
      /\ Elems(Tail(fx[p])) \subseteq Held(p) /\ h.op = "remove"
  BY <1>1, FlushHeads
<1>4. \A j \in Jobs : queue'[j] = queue[j] \/ (j = <<h.ev, h.ep>> /\ queue'[j] = NoAlarm)
  BY DEF FlushRemove, TypeOK
<1> HIDE DEF h
<1>5. Held(p)' = Elems(Tail(fx[p])) /\ \A q \in Procs \ {p} : Held(q)' = Held(q)
  BY <1>1, FlushHeads
<1>6. Coming(e) => Coming(e)'
  BY <1>1, <1>2, <1>3, <1>5 DEF Coming
<1>7. ASSUME NEW k \in Epochs
      PROVE  /\ Marked(e, k)' => Marked(e, k)
             /\ Adding(e, k)' => Adding(e, k)
             /\ queue'[<<e, k>>].state # "absent" => queue'[<<e, k>>] = queue[<<e, k>>]
             /\ queue'[<<e, k>>] = queue[<<e, k>>] /\ Good(e, k) => Good(e, k)'
  <2>1. Marked(e, k)' => Marked(e, k)
    BY <1>1, <1>3, <1>5 DEF Marked, Stamping
  <2>2. Adding(e, k)' => Adding(e, k)
    BY <1>3, <1>5 DEF Adding
  <2>3. queue'[<<e, k>>].state # "absent" => queue'[<<e, k>>] = queue[<<e, k>>]
    BY <1>2, <1>4 DEF NoAlarm
  <2>4. queue'[<<e, k>>] = queue[<<e, k>>] /\ Good(e, k) => Good(e, k)'
    BY <1>1 DEF Good, OnTime
  <2> QED
    BY <2>1, <2>2, <2>3, <2>4
<1>8. CASE h.ev # e
  <2>1. \A k \in Epochs : queue'[<<e, k>>] = queue[<<e, k>>]
    BY <1>2, <1>4, <1>8
  <2> HIDE DEF Minded
  <2> QED
    BY <1>1, <1>2, <1>6, <1>7, <2>1, CalmEvent
<1>9. CASE h.ev = e
  <2>1. p = Operator
    BY <1>1, <1>2, <1>3, <1>9 DEF Books, Sound, Proper, Terminal
  <2>2. Coming(e)'
    <3> PICK s \in Seq(Effects) : s = fx[p]
      BY DEF TypeOK
    <3>0. s # <<>> /\ h = Head(s)
      BY <1>1 DEF h
    <3>1. /\ 1 \in DOMAIN s /\ h = s[1]
          /\ \A j \in DOMAIN s : j > 1 => j - 1 \in DOMAIN Tail(s) /\ s[j] = Tail(s)[j - 1]
      BY <3>0
    <3>2. Renews(s)
      BY <2>1 DEF Books
    <3>3. PICK j \in DOMAIN s : j > 1 /\ s[j].op = "enqueue" /\ s[j].ev = e /\ s[j].ep = epoch
      BY <1>2, <1>3, <1>9, <3>1, <3>2 DEF Renews
    <3>4. s[j] \in Elems(Tail(s))
      BY <3>1, <3>3 DEF Elems
    <3>5. s[j] \in Held(Operator)'
      BY <1>5, <2>1, <3>4
    <3> QED
      BY <1>1, <3>3, <3>5 DEF Coming
  <2>3. (Marked(e, epoch) \/ Adding(e, epoch) => ~Parked(rows[e].due))'
    <3>1. Marked(e, epoch)' \/ Adding(e, epoch)' => Marked(e, epoch) \/ Adding(e, epoch)
      BY <1>1, <1>2, <1>7
    <3>2. ~Parked(rows[e].due) => ~Parked(rows[e].due)'
      BY <1>1 DEF Parked
    <3> QED
      BY <3>1, <3>2 DEF Minded
  <2>4. (queue[<<e, epoch>>].state # "absent" => Good(e, epoch))'
    <3>1. queue[<<e, epoch>>].state # "absent" => Good(e, epoch)
      BY DEF Minded
    <3> QED
      BY <1>1, <1>2, <1>7, <3>1
  <2> QED
    BY <2>2, <2>3, <2>4 DEF Minded
<1> QED
  BY <1>8, <1>9

(* What the rescheduling of an epoch asks for: of every pending row, in turn, the removal of
   the alarm it has and a new one. *)
LEMMA Halves ==
  ASSUME NEW n \in Nat
  PROVE  /\ \A k \in 1 .. n : /\ 2 * k - 1 \in 1 .. 2 * n /\ (2 * k - 1) % 2 = 1
                              /\ ((2 * k - 1) + 1) \div 2 = k
                              /\ 2 * k \in 1 .. 2 * n /\ (2 * k) % 2 # 1 /\ (2 * k) \div 2 = k
         /\ \A i \in 1 .. 2 * n : \E k \in 1 .. n : i = 2 * k - 1 \/ i = 2 * k
<1>1. ASSUME NEW i \in 1 .. 2 * n PROVE \E k \in 1 .. n : i = 2 * k - 1 \/ i = 2 * k
  <2>1. CASE i % 2 = 1
    <3>1. (i + 1) \div 2 \in 1 .. n /\ i = 2 * ((i + 1) \div 2) - 1
      BY <2>1
    <3> QED
      BY <3>1
  <2>2. CASE i % 2 # 1
    <3>1. i \div 2 \in 1 .. n /\ i = 2 * (i \div 2)
      BY <2>2
    <3> QED
      BY <3>1
  <2> QED
    BY <2>1, <2>2
<1> QED
  BY <1>1

LEMMA RescheduleFx ==
  ASSUME TypeOK, TypeOK', Reschedule
  PROVE  /\ \A x \in Held(Operator)' :
              \/ x.op = "enqueue" /\ x.ep = epoch
              \/ x.op = "remove" /\ x.ev \in Events /\ x.ep = rows[x.ev].job
         /\ \A e \in Pending : \E x \in Held(Operator)' : x.op = "enqueue" /\ x.ev = e /\ x.ep = epoch
         /\ Renews(fx[Operator])'
<1> DEFINE n == Cardinality(Pending)
<1>1. Pending \in SUBSET Events /\ IsFiniteSet(Pending) /\ n \in Nat /\ Operator \in Procs
  <2>1. Pending \in SUBSET Events
    BY DEF Pending
  <2> QED
    BY <2>1, EventsFinite DEF Procs
<1>2. PICK s \in ByDue(Pending) :
        fx' = [fx EXCEPT ![Operator] =
                [i \in 1 .. 2 * n |->
                   IF i % 2 = 1 THEN Remove(s[(i + 1) \div 2], rows[s[(i + 1) \div 2]].job)
                                ELSE Enqueue(s[i \div 2], epoch)]]
  BY DEF Reschedule
<1>3. s \in [1 .. n -> Pending] /\ \A i, j \in 1 .. n : i # j => s[i] # s[j]
  BY DEF ByDue
<1>4. \A e \in Pending : \E k \in 1 .. n : s[k] = e
  <2>1. s \in Injection(1 .. n, Pending)
    BY <1>3 DEF Injection, IsInjective
  <2>2. Cardinality(1 .. n) = n
    BY <1>1, FS_Interval
  <2> HIDE DEF n
  <2>3. s \in Surjection(1 .. n, Pending)
    BY <1>1, <2>1, <2>2, FS_Injection DEF n
  <2> QED
    BY <2>3 DEF Surjection
<1> HIDE DEF n
<1>5. PICK F : F = [i \in 1 .. 2 * n |->
                      IF i % 2 = 1 THEN Remove(s[(i + 1) \div 2], rows[s[(i + 1) \div 2]].job)
                                   ELSE Enqueue(s[i \div 2], epoch)]
  OBVIOUS
<1>6. fx'[Operator] = F /\ DOMAIN F = 1 .. 2 * n
  BY <1>1, <1>2, <1>5 DEF TypeOK
<1>7. ASSUME NEW k \in 1 .. n, NEW a, NEW b, a = 2 * k - 1, b = 2 * k
      PROVE  /\ a \in DOMAIN F /\ b \in DOMAIN F /\ b > a /\ s[k] \in Events
             /\ F[a].op = "remove" /\ F[a].ev = s[k] /\ F[a].ep = rows[s[k]].job
             /\ F[b].op = "enqueue" /\ F[b].ev = s[k] /\ F[b].ep = epoch
  <2>1. /\ a \in 1 .. 2 * n /\ a % 2 = 1 /\ (a + 1) \div 2 = k
        /\ b \in 1 .. 2 * n /\ b % 2 # 1 /\ b \div 2 = k /\ b > a
    BY <1>1, <1>7, Halves
  <2>2. F[a] = Remove(s[k], rows[s[k]].job) /\ F[b] = Enqueue(s[k], epoch)
    BY <1>5, <2>1
  <2>3. s[k] \in Events
    BY <1>1, <1>3
  <2> QED
    BY <1>6, <2>1, <2>2, <2>3 DEF Remove, Enqueue, Effect
<1>8. \A i \in DOMAIN F : \E k \in 1 .. n : i = 2 * k - 1 \/ i = 2 * k
  BY <1>1, <1>6, Halves
<1>9. ASSUME NEW i \in DOMAIN F
      PROVE  /\ \/ F[i].op = "enqueue" /\ F[i].ep = epoch
                \/ F[i].op = "remove" /\ F[i].ev \in Events /\ F[i].ep = rows[F[i].ev].job
             /\ F[i].op = "remove" => \E j \in DOMAIN F : j > i /\ F[j].op = "enqueue"
                                                         /\ F[j].ev = F[i].ev /\ F[j].ep = epoch
  <2> PICK k \in 1 .. n : i = 2 * k - 1 \/ i = 2 * k
    BY <1>8
  <2> PICK a, b : a = 2 * k - 1 /\ b = 2 * k
    OBVIOUS
  <2> QED
    BY <1>7
<1>10. \A e \in Pending : \E x \in Held(Operator)' : x.op = "enqueue" /\ x.ev = e /\ x.ep = epoch
  <2> SUFFICES ASSUME NEW e \in Pending
               PROVE  \E x \in Held(Operator)' : x.op = "enqueue" /\ x.ev = e /\ x.ep = epoch
    OBVIOUS
  <2> PICK k \in 1 .. n : s[k] = e
    BY <1>4
  <2> PICK a, b : a = 2 * k - 1 /\ b = 2 * k
    OBVIOUS
  <2>1. b \in DOMAIN F /\ F[b].op = "enqueue" /\ F[b].ev = e /\ F[b].ep = epoch
    BY <1>7
  <2>2. F[b] \in Held(Operator)'
    BY <1>6, <2>1 DEF Held, Elems
  <2> QED
    BY <2>1, <2>2
<1>11. UNCHANGED epoch
  BY DEF Reschedule, clockVars
<1>12. Renews(fx[Operator])'
  BY <1>6, <1>9, <1>11 DEF Renews
<1> QED
  BY <1>6, <1>9, <1>10, <1>12 DEF Held, Elems

LEMMA RescheduleMinded ==
  ASSUME TypeOK, TypeOK', FxInv, NEW e \in Pending, Minded(e), Reschedule
  PROVE  Minded(e)'
<1>1. /\ UNCHANGED <<rows, queue, game, rate, epoch, passedOver>>
      /\ \A q \in Procs \ {Operator} : fx'[q] = fx[q]
  BY DEF Reschedule, clockVars, TypeOK
<1>2. e \in Events /\ game \in Nat
  BY EventFacts
<1>3. Coming(e)'
  BY <1>1, RescheduleFx DEF Coming
<1>4. \A p \in Procs : \A x \in Held(p)' : x \in Held(p) \/ x.op \in {"enqueue", "remove"}
  <2>1. \A p \in Procs \ {Operator} : Held(p)' = Held(p)
    BY <1>1 DEF Held
  <2>2. \A x \in Held(Operator)' : x.op \in {"enqueue", "remove"}
    BY RescheduleFx
  <2> QED
    BY <2>1, <2>2
<1> QED
  BY <1>1, <1>2, <1>3, <1>4, StillMinded

LEMMA NaturalEpochs ==
  /\ \A x \in Effects : x.ep \in Nat /\ x.set \in Nat
  /\ \A r \in Rows : r.job \in Nat
<1>1. Epochs \subseteq Nat /\ Epochs \cup {NoJob} \subseteq Nat
  BY Domains DEF NoJob
<1>2. \A x \in Effects : x.ep \in Epochs \cup {NoJob} /\ x.set \in Epochs
  BY DEF Effects
<1>3. \A r \in Rows : r.job \in Epochs \cup {NoJob}
  BY DEF Rows
<1> QED
  BY <1>1, <1>2, <1>3

(* A retiming leaves every row to the rescheduling that follows it. *)
LEMMA RetimeMinded ==
  ASSUME TypeOK, TypeOK', Books, NEW e \in Pending, Retime
  PROVE  Minded(e)'
<1>1. /\ epoch' = epoch + 1 /\ epoch \in Nat /\ Epochs \subseteq Nat /\ epoch' \in Epochs
      /\ UNCHANGED <<rows, queue, fx>> /\ pc'[Operator] = "retimed"
  BY EventFacts DEF Retime, TypeOK
<1>2. e \in Events /\ rows[e].job \in Nat
  <2>1. e \in Events /\ rows[e] \in Rows
    BY EventFacts DEF TypeOK
  <2> QED
    BY <2>1, NaturalEpochs
<1>3. \A p \in Procs : Held(p)' = Held(p) /\ Held(p) \subseteq Effects
  BY <1>1, HeldTypes DEF Held
<1>4. \A x \in Effects : x.ep \in Nat /\ x.set \in Nat
  BY NaturalEpochs
<1>5. ASSUME NEW k \in Epochs, k = epoch'
      PROVE  ~Marked(e, k)' /\ ~Adding(e, k)' /\ queue'[<<e, k>>].state = "absent"
  <2>1. k > epoch
    BY <1>1, <1>5
  <2>2. ~Stamping(e, k)' /\ ~Adding(e, k)'
    <3>1. \A p \in Procs : \A x \in Held(p)' :
             x.ep \in Nat /\ x.set \in Nat /\ x.ep <= epoch /\ (x.op = "add" => x.set <= epoch)
      BY <1>3, <1>4 DEF Books, Sound, Proper
    <3>2. k \in Nat
      BY <1>1
    <3> QED
      BY <1>1, <2>1, <3>1, <3>2 DEF Stamping, Adding
  <2>3. rows'[e].job # k
    BY <1>1, <1>2, <2>1 DEF Books, RowSound
  <2>4. queue'[<<e, k>>].state = "absent"
    <3>1. <<e, k>> \in Jobs /\ k \in Nat
      BY <1>1, <1>2 DEF Jobs
    <3> QED
      BY <1>1, <2>1, <3>1 DEF Books, QueueSound
  <2> QED
    BY <2>2, <2>3, <2>4 DEF Marked
<1>6. Coming(e)'
  BY <1>1 DEF Coming
<1> QED
  BY <1>1, <1>5, <1>6 DEF Minded

(* A commit gives every row its due instant once; a row it creates has no alarm yet. *)
LEMMA CommitRow ==
  ASSUME TypeOK, NEW p \in Procs, Commit(p), NEW e \in Events
  PROVE  /\ rows'[e].status = view[e].status /\ rows'[e].due = view[e].due
         /\ rows'[e].job = rows[e].job /\ rows'[e].stamped = rows[e].stamped
<1>1. rows'[e] = [view[e] EXCEPT !.job = rows[e].job, !.stamped = rows[e].stamped]
  BY DEF Commit
<1>2. view[e] \in Rows
  BY DEF TypeOK
<1> QED
  BY <1>1, <1>2 DEF Rows

LEMMA CommitMinded ==
  ASSUME TypeOK, TypeOK', ScheduleInv, FxInv, Books, \A f \in Pending : Minded(f),
         NEW e \in Events, rows'[e].status = "PENDING", NEW p \in Procs, Commit(p)
  PROVE  Minded(e)'
<1>1. /\ lock = p /\ lock # NoProc /\ pc[p] # "flush" /\ p # Operator
      /\ UNCHANGED <<queue, fx, game, rate, epoch, passedOver>>
      /\ \A q \in Procs \ {p} : pc'[q] = pc[q]
  BY ScheduleAssumption DEF Commit, Procs, clockVars, TypeOK, Books, Roles
<1>2. /\ view[e].status = "PENDING" /\ rows'[e].due = view[e].due
      /\ rows'[e].job = rows[e].job /\ rows'[e].stamped = rows[e].stamped
  BY CommitRow
<1>3. /\ rows[e] \in Rows /\ game \in Nat /\ epoch \in Epochs /\ Operator \in Procs
      /\ \A k \in Epochs : <<e, k>> \in Jobs
  BY ScheduleAssumption DEF TypeOK, Procs, Jobs
<1>4. rows[e].status \in {"ABSENT", "PENDING"}
  <2>1. rows[e].status \in Terminal => view[e].status \in Terminal
    BY <1>1 DEF ScheduleInv, TxInv, Extends
  <2> QED
    BY <1>2, <1>3, <2>1 DEF Terminal, Rows, Statuses
<1>5. \A q \in Procs : Held(q)' = Held(q)
  BY <1>1 DEF Held
<1>6. CASE rows[e].status = "PENDING"
  <2>1. e \in Pending /\ Minded(e)
    BY <1>6 DEF Pending
  <2>2. rows'[e].due = rows[e].due
    BY <1>1, <1>2, <1>6 DEF Books, DuesStay
  <2>3. Coming(e) => Coming(e)'
    BY <1>1, <1>3, ComingKept
  <2> QED
    BY <1>1, <1>2, <1>3, <1>5, <2>1, <2>2, <2>3, StillMinded
<1>7. CASE rows[e].status = "ABSENT"
  <2>1. ~rows'[e].stamped
    BY <1>2, <1>7 DEF Books, RowSound
  <2>2. \A q \in Procs : \A x \in Held(q)' : x.op \in {"add", "stamp"} => x.ev # e
    <3>1. \A q \in Procs : pc[q] = "flush" => \A x \in Held(q) : rows[x.ev].status # "ABSENT"
      BY DEF FxInv, FxOf, Refers, Held, Elems
    <3>2. \A q \in Procs : \A x \in Held(q) : x.op \in {"add", "stamp"} => pc[q] = "flush"
      BY DEF Books, Sound, Proper
    <3> QED
      BY <1>5, <1>7, <3>1, <3>2
  <2>3. \A k \in Epochs : queue'[<<e, k>>].state = "absent"
    <3>1. \A j \in Jobs : queue[j].state # "absent" => rows[j[1]].status # "ABSENT"
      BY DEF FxInv
    <3> QED
      BY <1>1, <1>3, <1>7, <3>1
  <2>4. \A k \in Epochs : ~Marked(e, k)' /\ ~Adding(e, k)'
    BY <2>1, <2>2 DEF Marked, Stamping, Adding
  <2>5. Fresh(e)'
    BY <2>3, <2>4 DEF Fresh
  <2> QED
    BY <1>1, <1>3, <2>3, <2>4, <2>5 DEF Minded
<1> QED
  BY <1>4, <1>6, <1>7

(* No row loses its alarm unnoticed in any step of such a behaviour. *)
LEMMA MindedStep ==
  ASSUME TypeOK, TypeOK', ScheduleInv, FxInv, Books, \A f \in Pending : Minded(f),
         [Next]_vars, faults' = 0, NEW e \in Pending'
  PROVE  Minded(e)'
<1>1. e \in Events /\ rows'[e].status = "PENDING"
  BY DEF Pending
<1>2. ASSUME NEW p \in Procs, Commit(p) PROVE Minded(e)'
  BY <1>1, <1>2, CommitMinded
<1>3. CASE rows[e].status = rows'[e].status
  <2>1. e \in Pending /\ Minded(e)
    BY <1>1, <1>3 DEF Pending
  <2>2. CASE Tick \/ Reconcile \/ UNCHANGED vars \/ \E j \in Jobs : Purge(j)
    BY <2>1, <2>2, CalmSteps
  <2>3. ASSUME NEW p \in Procs, ReadClock(p) \/ LockPlayer(p) \/ Body(p) \/ Wake(p) \/ Finish(p)
        PROVE  Minded(e)'
    BY <2>1, <2>3, CalmSteps
  <2>4. ASSUME NEW p \in Procs, NEW f \in Events, SkipEvent(p, f) \/ ApplyTask(p, f) \/ ApplySweep(p, f)
        PROVE  Minded(e)'
    BY <2>1, <2>4, CalmSteps
  <2>5. ASSUME NEW p \in Procs, FlushRead(p) \/ FlushAdd(p) \/ FlushStamp(p) \/ FlushRemove(p)
        PROVE  Minded(e)'
    BY <2>1, <2>5, ReadMinded, AddMinded, StampMinded, RemoveMinded
  <2>6. CASE Retime \/ Reschedule
    BY <2>1, <2>6, RetimeMinded, RescheduleMinded
  <2>7. \/ Tick \/ Retime \/ Reschedule \/ Reconcile \/ UNCHANGED vars
        \/ \E p \in Procs : ReadClock(p) \/ Advance(p) \/ Flush(p) \/ Wake(p)
        \/ \E j \in Jobs : Purge(j)
    BY AlarmKinds
  <2> QED
    BY <1>2, <2>2, <2>3, <2>4, <2>5, <2>6, <2>7 DEF Advance, Flush
<1>4. CASE rows[e].status # rows'[e].status
  <2>1. ~Quiet
    BY <1>1, <1>4 DEF Quiet, StampsOnly
  <2>2. ASSUME NEW p \in Procs,
               \/ LockPlayer(p) \/ Body(p) \/ Abort(p)
               \/ \E f \in Events : SkipEvent(p, f) \/ ApplyTask(p, f) \/ ApplySweep(p, f)
        PROVE  rows' = rows
    BY <2>2 DEF LockPlayer, Body, Abort, SkipEvent, ApplyTask, ApplySweep
  <2> QED
    BY <1>2, <1>4, <2>1, <2>2, StepKinds
<1> QED
  BY <1>3, <1>4
-----------------------------------------------------------------------------
(* The books the alarms rest on. *)

LEMMA RolesStep ==
  ASSUME TypeOK, ScheduleInv, FxInv, Books, [Next]_vars, faults' = 0
  PROVE  /\ Roles'
         /\ epoch \in Nat /\ epoch' \in Nat /\ epoch <= epoch'
         /\ Retime \/ epoch' = epoch
<1>1. Roles /\ epoch \in Nat /\ Operator \in Procs
  BY Domains DEF Books, TypeOK, Procs
<1>2. CASE Tick \/ UNCHANGED vars \/ \E j \in Jobs : Purge(j)
  BY <1>1, <1>2 DEF Tick, Purge, vars, procVars, clockVars, Roles
<1>3. CASE Retime \/ Reschedule \/ Reconcile
  BY <1>1, <1>3, ScheduleAssumption DEF Retime, Reschedule, Reconcile, clockVars, Roles, TypeOK, Procs
<1>4. ASSUME NEW p \in Procs, ReadClock(p) \/ Advance(p) \/ Flush(p) \/ Wake(p)
      PROVE  /\ epoch' = epoch /\ \A q \in Procs \ {p} : pc'[q] = pc[q]
             /\ pc'[p] = pc[p] \/ pc'[p] \in {"idle", "early", "woken", "read", "advance", "commit", "flush"}
             /\ p = Operator => pc'[p] \in {pc[p], "idle"}
  <2>1. OthersKeep(p) /\ epoch' = epoch
    BY <1>4, OthersKept
  <2>2. /\ pc'[p] = pc[p] \/ pc'[p] \in {"idle", "early", "woken", "read", "advance", "commit", "flush"}
        /\ Flush(p) => pc'[p] \in {pc[p], "idle"}
    <3>1. ASSUME NEW e \in Events, SkipEvent(p, e) \/ ApplyTask(p, e) \/ ApplySweep(p, e)
          PROVE  pc' = pc
      BY <3>1 DEF SkipEvent, ApplyTask, ApplySweep, procVars
    <3>2. CASE ReadClock(p) \/ LockPlayer(p) \/ Body(p) \/ Commit(p)
      BY <3>2 DEF ReadClock, LockPlayer, Body, Commit, TypeOK, Flush, FlushRead, FlushAdd, FlushStamp,
                  FlushRemove, Finish, NextEffect
    <3>3. CASE Flush(p)
      BY <3>3 DEF Flush, FlushRead, FlushAdd, FlushStamp, FlushRemove, Finish, Rest, TypeOK
    <3>4. CASE Wake(p)
      BY <3>4 DEF Wake, ParkEarly, Ring, Rest, TypeOK, Flush, FlushRead, FlushAdd, FlushStamp,
                  FlushRemove, Finish, NextEffect
    <3> QED
      BY <1>4, <3>1, <3>2, <3>3, <3>4 DEF Advance
  <2>3. p = Operator => Flush(p)
    BY <1>1, <1>4, OperatorOnlyFlushes
  <2> QED
    BY <2>1, <2>2, <2>3 DEF OthersKeep
<1>5. ASSUME NEW p \in Procs, ReadClock(p) \/ Advance(p) \/ Flush(p) \/ Wake(p) PROVE Roles'
  BY <1>1, <1>4, <1>5 DEF Roles
<1> QED
  BY <1>1, <1>2, <1>3, <1>4, <1>5, AlarmKinds DEF Tick, Purge, Retime, Reschedule, Reconcile, vars, clockVars

LEMMA ReadingsStep ==
  ASSUME TypeOK, ScheduleInv, FxInv, Books, [Next]_vars, faults' = 0
  PROVE  Readings'
<1>1. /\ epoch \in Nat /\ epoch' \in Nat /\ epoch <= epoch' /\ 1 <= epoch
      /\ \A p \in Procs : reading[p].epoch \in Nat /\ reading[p].epoch <= epoch
  BY RolesStep, Domains DEF TypeOK, Epochs, Books, Readings
<1>2. CASE UNCHANGED reading
  BY <1>1, <1>2 DEF Readings
<1>3. ASSUME NEW p \in Procs, ReadClock(p) \/ Rest(p) PROVE Readings'
  <2>1. \A q \in Procs : reading'[q].epoch \in {reading[q].epoch, epoch, 1}
    BY <1>3 DEF ReadClock, Rest, NoReading, TypeOK
  <2> QED
    BY <1>1, <2>1 DEF Readings
<1>4. ASSUME NEW p \in Procs,
             \/ LockPlayer(p) \/ Body(p) \/ Commit(p)
             \/ FlushRead(p) \/ FlushAdd(p) \/ FlushStamp(p) \/ FlushRemove(p)
             \/ \E e \in Events : SkipEvent(p, e) \/ ApplyTask(p, e) \/ ApplySweep(p, e)
             \/ \E e \in Events, k \in Epochs : Ring(p, e, k)
      PROVE  UNCHANGED reading
  BY <1>4 DEF LockPlayer, Body, Commit, FlushRead, FlushAdd, FlushStamp, FlushRemove,
              SkipEvent, ApplyTask, ApplySweep, Ring, procVars
<1>5. ASSUME NEW p \in Procs, Finish(p) \/ ParkEarly(p) PROVE Rest(p)
  BY <1>5 DEF Finish, ParkEarly
<1>6. ASSUME Tick \/ Retime \/ Reschedule \/ Reconcile \/ (\E j \in Jobs : Purge(j)) \/ UNCHANGED vars
      PROVE  UNCHANGED reading
  BY <1>6 DEF Tick, Retime, Reschedule, Reconcile, Purge, vars, procVars
<1> QED
  BY <1>2, <1>3, <1>4, <1>5, <1>6, AlarmKinds DEF Advance, Flush, Wake

LEMMA DuesStep ==
  ASSUME TypeOK, ScheduleInv, Books, [Next]_vars, faults' = 0
  PROVE  DuesStay'
<1>1. lock # NoProc => Chain(view) /\ Extends /\ DuesStay
  BY DEF ScheduleInv, TxInv, Books
<1>2. CASE Quiet
  BY <1>2 DEF Quiet, StampsOnly, txVars, Books, DuesStay
<1>3. ASSUME NEW p \in Procs, LockPlayer(p) PROVE DuesStay'
  BY <1>3 DEF LockPlayer, DuesStay
<1>4. ASSUME NEW p \in Procs, NEW f \in Events, SkipEvent(p, f) PROVE DuesStay'
  BY <1>4 DEF SkipEvent, Books, DuesStay
<1>5. ASSUME NEW p \in Procs, NEW f \in Events, ApplyTask(p, f) PROVE DuesStay'
  <2>1. \A e \in Events : view'[e].due = view[e].due
    BY <1>5 DEF ApplyTask, Claim, TypeOK, Rows
  <2> QED
    BY <1>5, <2>1 DEF ApplyTask, Books, DuesStay
<1>6. ASSUME NEW p \in Procs, NEW f \in Events, ApplySweep(p, f) PROVE DuesStay'
  <2>1. lock # NoProc /\ UNCHANGED <<rows, lock>>
    BY <1>6, ScheduleAssumption DEF ApplySweep, Procs
  <2>2. /\ \A e \in Events : e # f + 1 => view'[e].due = view[e].due
        /\ f + 1 \in Events /\ view[f + 1].status = "ABSENT"
    BY <1>1, <1>6, <2>1, SweepEffect
  <2>3. rows[f + 1].status = "ABSENT"
    BY <1>1, <2>1, <2>2 DEF Extends
  <2> QED
    BY <1>1, <2>1, <2>2, <2>3 DEF DuesStay
<1>7. ASSUME NEW p \in Procs, Body(p) PROVE DuesStay'
  <2>1. lock # NoProc /\ UNCHANGED <<rows, lock>>
    BY <1>7, ScheduleAssumption DEF Body, Procs
  <2>2. \A e \in Events : view'[e].due = view[e].due \/ view[e].status = "ABSENT"
    BY <1>7, BodyEffect
  <2> QED
    BY <1>1, <2>1, <2>2 DEF Extends, DuesStay
<1>8. ASSUME NEW p \in Procs, Commit(p) PROVE DuesStay'
  BY <1>8 DEF Commit, DuesStay
<1>9. ASSUME NEW p \in Procs, Abort(p) PROVE DuesStay'
  BY <1>9 DEF Abort, Books, DuesStay
<1> QED
  BY <1>2, <1>3, <1>4, <1>5, <1>6, <1>7, <1>8, <1>9, StepKinds

(* What a process is about to do to the queue or the row names an epoch that has begun. *)
LEMMA HeadSound ==
  ASSUME TypeOK, FxInv, Books, NEW p \in Procs, pc[p] = "flush", fx[p] # <<>>
  PROVE  /\ Head(fx[p]) \in Effects /\ Head(fx[p]).ep <= epoch
         /\ Head(fx[p]).op # "remove" => Head(fx[p]).ep \in Epochs
         /\ Head(fx[p]).op = "add" => Head(fx[p]).ep <= Head(fx[p]).set /\ Head(fx[p]).set <= epoch
<1>1. Head(fx[p]) \in Effects /\ Head(fx[p]) \in Held(p)
  BY FlushHeads
<1>2. Sound(p)
  BY DEF Books
<1> QED
  BY <1>1, <1>2 DEF Sound, Proper

LEMMA QueueSoundStep ==
  ASSUME TypeOK, ScheduleInv, FxInv, Books, [Next]_vars, faults' = 0
  PROVE  QueueSound'
<1>1. /\ epoch \in Nat /\ epoch' \in Nat /\ epoch <= epoch' /\ Epochs \subseteq Nat
      /\ \A j \in Jobs : j[2] \in Epochs /\ (queue[j].state # "absent" => j[2] <= epoch)
  BY RolesStep, Domains DEF Jobs, Books, QueueSound
<1>2. SUFFICES ASSUME NEW j \in Jobs, queue'[j].state # "absent"
               PROVE  queue[j].state # "absent" \/ j[2] <= epoch
  <2>1. \A j \in Jobs : queue'[j].state # "absent" => j[2] <= epoch
    BY <1>1, <1>2
  <2>2. \A j \in Jobs : j[2] \in Nat
    BY <1>1
  <2>3. \A j \in Jobs : queue'[j].state # "absent" => j[2] <= epoch'
    BY <1>1, <2>1, <2>2
  <2> QED
    BY <2>3 DEF QueueSound
<1>3. ASSUME NEW p \in Procs, FlushAdd(p) PROVE queue[j].state # "absent" \/ j[2] <= epoch
  <2>1. pc[p] = "flush" /\ fx[p] # <<>>
    BY <1>3 DEF FlushAdd, NextEffect
  <2>2. Head(fx[p]).ep <= epoch
    BY <2>1, HeadSound
  <2>3. queue'[j] = queue[j] \/ j = <<Head(fx[p]).ev, Head(fx[p]).ep>>
    BY <1>3 DEF FlushAdd, TypeOK
  <2> QED
    BY <1>2, <2>2, <2>3
<1>4. ASSUME NEW p \in Procs, FlushRemove(p) PROVE queue[j].state # "absent"
  BY <1>2, <1>4 DEF FlushRemove, TypeOK, NoAlarm
<1>5. ASSUME NEW p \in Procs, Finish(p) \/ ParkEarly(p) PROVE queue[j].state # "absent"
  <2>1. queue' = JobBecomes(p, Completed)
    BY <1>5 DEF Finish, ParkEarly
  <2> QED
    BY <1>2, <2>1, QueueEnds
<1>6. ASSUME NEW p \in Procs, NEW e \in Events, NEW k \in Epochs, Ring(p, e, k)
      PROVE  queue[j].state # "absent"
  <2>1. queue[<<e, k>>].state # "absent"
    BY <1>6 DEF Ring, Rings
  <2>2. j # <<e, k>> => queue'[j] = queue[j]
    BY <1>6 DEF Ring, TypeOK
  <2> QED
    BY <1>2, <2>1, <2>2
<1>7. ASSUME NEW i \in Jobs, Purge(i) PROVE queue[j].state # "absent"
  BY <1>2, <1>7 DEF Purge, TypeOK, NoAlarm
<1>8. ASSUME NEW p \in Procs,
             \/ ReadClock(p) \/ LockPlayer(p) \/ Body(p) \/ Commit(p) \/ FlushRead(p) \/ FlushStamp(p)
             \/ \E e \in Events : SkipEvent(p, e) \/ ApplyTask(p, e) \/ ApplySweep(p, e)
      PROVE  UNCHANGED queue
  BY <1>8 DEF ReadClock, LockPlayer, Body, Commit, FlushRead, FlushStamp, SkipEvent, ApplyTask, ApplySweep
<1>9. ASSUME Tick \/ Retime \/ Reschedule \/ Reconcile \/ UNCHANGED vars
      PROVE  UNCHANGED queue
  BY <1>9 DEF Tick, Retime, Reschedule, Reconcile, vars
<1> QED
  BY <1>2, <1>3, <1>4, <1>5, <1>6, <1>7, <1>8, <1>9, AlarmKinds DEF Advance, Flush, Wake

LEMMA RowSoundStep ==
  ASSUME TypeOK, ScheduleInv, FxInv, Books, [Next]_vars, faults' = 0
  PROVE  RowSound'
<1>1. /\ epoch \in Nat /\ epoch' \in Nat /\ epoch <= epoch' /\ NoJob \in Nat /\ NoJob <= epoch
      /\ \A e \in Events : rows[e] \in Rows /\ rows[e].job \in Nat
      /\ \A x \in Effects : x.ep \in Nat
  <2>1. \A e \in Events : rows[e] \in Rows
    BY DEF TypeOK
  <2>2. \A e \in Events : rows[e].job \in Nat
    BY <2>1, NaturalEpochs
  <2> QED
    BY <2>1, <2>2, RolesStep, NaturalEpochs DEF NoJob
<1>2. SUFFICES ASSUME NEW e \in Events
               PROVE  /\ rows'[e].job \in Nat /\ rows'[e].job <= epoch
                      /\ rows'[e].stamped => rows'[e].job \in Epochs /\ rows'[e].status # "ABSENT"
  BY <1>1, <1>2 DEF RowSound
<1>3. /\ rows[e].job <= epoch /\ rows[e].job \in Nat
      /\ rows[e].stamped => rows[e].job \in Epochs /\ rows[e].status # "ABSENT"
  BY <1>1 DEF Books, RowSound
<1>4. ASSUME NEW p \in Procs, FlushStamp(p)
      PROVE  /\ rows'[e].job \in Nat /\ rows'[e].job <= epoch
             /\ rows'[e].stamped => rows'[e].job \in Epochs /\ rows'[e].status # "ABSENT"
  <2>1. pc[p] = "flush" /\ fx[p] # <<>> /\ Head(fx[p]).op = "stamp"
    BY <1>4 DEF FlushStamp, NextEffect
  <2>2. Head(fx[p]) \in Effects /\ Head(fx[p]).ep <= epoch /\ Head(fx[p]).ep \in Epochs
    BY <2>1, HeadSound
  <2>3. \/ rows'[e] = rows[e]
        \/ rows'[e].status = "PENDING" /\ rows'[e].job = Head(fx[p]).ep
    BY <1>4, StampedRows
  <2> QED
    BY <1>1, <1>3, <2>2, <2>3
<1>5. ASSUME NEW p \in Procs, ParkEarly(p)
      PROVE  /\ rows'[e].job \in Nat /\ rows'[e].job <= epoch
             /\ rows'[e].stamped => rows'[e].job \in Epochs /\ rows'[e].status # "ABSENT"
  BY <1>1, <1>3, <1>5, StampedRows
<1>6. ASSUME NEW p \in Procs, Commit(p)
      PROVE  /\ rows'[e].job \in Nat /\ rows'[e].job <= epoch
             /\ rows'[e].stamped => rows'[e].job \in Epochs /\ rows'[e].status # "ABSENT"
  <2>1. RowsStay
    BY RowsStayStep
  <2> QED
    BY <1>3, <1>6, <2>1, CommitRow DEF RowsStay
<1>7. ASSUME NEW p \in Procs,
             \/ ReadClock(p) \/ LockPlayer(p) \/ Body(p) \/ FlushRead(p) \/ FlushAdd(p) \/ FlushRemove(p)
             \/ Finish(p)
             \/ \E f \in Events : SkipEvent(p, f) \/ ApplyTask(p, f) \/ ApplySweep(p, f)
             \/ \E f \in Events, k \in Epochs : Ring(p, f, k)
      PROVE  UNCHANGED rows
  BY <1>7 DEF ReadClock, LockPlayer, Body, FlushRead, FlushAdd, FlushRemove, Finish, Ring, SkipEvent,
              ApplyTask, ApplySweep
<1>8. ASSUME Tick \/ Retime \/ Reschedule \/ Reconcile \/ (\E j \in Jobs : Purge(j)) \/ UNCHANGED vars
      PROVE  UNCHANGED rows
  BY <1>8 DEF Tick, Retime, Reschedule, Reconcile, Purge, vars
<1> QED
  BY <1>3, <1>4, <1>5, <1>6, <1>7, <1>8, AlarmKinds DEF Advance, Flush, Wake

(* Of what a process held, only what the step dealt with is gone or of another kind. *)
LEMMA SoundAgain ==
  ASSUME TypeOK, TypeOK', ScheduleInv, FxInv, Books, [Next]_vars, faults' = 0,
         NEW p \in Procs, NEW x \in Held(p), pc'[p] = "flush" <=> pc[p] = "flush",
         pc[p] = "flush" \/ (lock = p => lock' = lock)
  PROVE  Proper(p, x)'
<1>1. /\ x \in Effects /\ x.ep \in Nat /\ x.set \in Nat /\ x.ev \in Events
      /\ epoch \in Nat /\ epoch' \in Nat /\ epoch <= epoch'
  BY RolesStep, HeldTypes, NaturalEpochs DEF Effects
<1>2. /\ x.ep <= epoch
      /\ x.op # "remove" => x.ep \in Epochs
      /\ x.op = "add" => x.ep <= x.set /\ x.set <= epoch
      /\ x.op \in {"add", "stamp"} => pc[p] = "flush"
      /\ x.op = "remove" /\ p # Operator =>
           /\ pc[p] = "flush" => rows[x.ev].status \in Terminal
           /\ pc[p] # "flush" => view[x.ev].status \in Terminal
  BY DEF Books, Sound, Proper
<1>3. rows[x.ev].status \in Terminal => rows'[x.ev].status \in Terminal
  BY <1>1, TerminalStep
<1>4. pc[p] # "flush" /\ view[x.ev].status \in Terminal => view'[x.ev].status \in Terminal
  <2>1. pc[p] \in {"advance", "commit", "flush"}
    BY DEF FxInv, FxOf, Held, Elems
  <2>2. pc[p] # "flush" => lock = p /\ lock # NoProc
    BY <2>1, ScheduleAssumption DEF FxInv, FxOf, Procs
  <2> QED
    BY <1>1, <2>2, TerminalStep
<1> QED
  BY <1>1, <1>2, <1>3, <1>4 DEF Proper

\* What a step of a process may newly hold.
LEMMA SoundNew ==
  ASSUME TypeOK, TypeOK', ScheduleInv, FxInv, Books, [Next]_vars, faults' = 0,
         NEW p \in Procs, NEW x \in Effects, Recorded(p, x), p # Operator, pc'[p] # "flush",
         x.op = "remove" => view'[x.ev].status \in Terminal
  PROVE  Proper(p, x)'
<1>1. /\ epoch \in Nat /\ epoch' \in Nat /\ epoch <= epoch' /\ x.ep \in Nat
  BY RolesStep, NaturalEpochs
<1>2. reading[p].epoch \in Epochs /\ reading[p].epoch <= epoch
  BY DEF TypeOK, Books, Readings
<1>3. x.op = "remove" => x.ep <= epoch
  BY DEF Recorded, Books, RowSound
<1>4. x.ep <= epoch /\ (x.op = "enqueue" => x.ep \in Epochs)
  BY <1>2, <1>3 DEF Recorded
<1>5. x.op \in {"enqueue", "remove"}
  BY DEF Recorded
<1> QED
  BY <1>1, <1>4, <1>5 DEF Proper

(* Nothing is on its way from a process that neither flushes nor has a transaction open. *)
LEMMA HoldsNothing ==
  ASSUME FxInv, NEW p \in Procs, pc[p] \notin {"advance", "commit", "flush"}
  PROVE  Held(p) = {} /\ (fx'[p] = fx[p] => Held(p)' = {})
  BY DEF FxInv, FxOf, Held, Elems

LEMMA SoundInTransaction ==
  ASSUME TypeOK, TypeOK', ScheduleInv, FxInv, Books, [Next]_vars, faults' = 0,
         NEW p \in Procs, ReadClock(p) \/ Advance(p)
  PROVE  Sound(p)'
<1>1. p # Operator
  <2>1. ~Flush(p)
    BY DEF ReadClock, Advance, LockPlayer, SkipEvent, ApplyTask, ApplySweep, Body, Commit,
           Flush, FlushRead, FlushAdd, FlushStamp, FlushRemove, Finish, NextEffect, TypeOK
  <2>2. Roles
    BY DEF Books
  <2> QED
    BY <2>1, <2>2, OperatorOnlyFlushes
<1>2. ASSUME fx'[p] = fx[p], pc[p] \notin {"advance", "commit", "flush"} PROVE Sound(p)'
  BY <1>2, HoldsNothing DEF Sound
<1>3. ASSUME fx'[p] = fx[p], pc'[p] = pc[p], lock' = lock PROVE Sound(p)'
  <2>1. Held(p)' = Held(p)
    BY <1>3 DEF Held
  <2> QED
    BY <1>3, <2>1, SoundAgain DEF Sound
<1>4. ASSUME \A x \in Held(p)' : \/ x \in Held(p)
                                 \/ Recorded(p, x) /\ (x.op = "remove" => view'[x.ev].status \in Terminal),
             lock' = lock, pc[p] # "flush", pc'[p] # "flush"
      PROVE  Sound(p)'
  <2>1. \A x \in Held(p)' : x \in Effects
    BY DEF Held, Elems, TypeOK
  <2>2. \A x \in Held(p) : Proper(p, x)'
    BY <1>4, SoundAgain
  <2>3. \A x \in Held(p)' : x \in Held(p) \/ Proper(p, x)'
    BY <1>1, <1>4, <2>1, SoundNew
  <2> QED
    BY <2>2, <2>3 DEF Sound
<1>5. CASE ReadClock(p) \/ LockPlayer(p)
  BY <1>2, <1>5 DEF ReadClock, LockPlayer
<1>6. ASSUME NEW e \in Events, SkipEvent(p, e) \/ ApplyTask(p, e) PROVE Sound(p)'
  BY <1>3, <1>6 DEF SkipEvent, ApplyTask, procVars
<1>7. ASSUME NEW e \in Events, ApplySweep(p, e) PROVE Sound(p)'
  <2>1. lock' = lock /\ pc' = pc /\ pc[p] = "advance"
    BY <1>7 DEF ApplySweep
  <2> QED
    BY <1>4, <1>7, <2>1, SweepRecords
<1>8. CASE Body(p)
  <2>1. lock' = lock /\ pc'[p] = "commit" /\ pc[p] = "advance"
    BY <1>8 DEF Body, TypeOK
  <2> QED
    BY <1>4, <1>8, <2>1, BodyRecords
<1>9. CASE Commit(p)
  <2>1. /\ pc[p] # "flush" /\ pc'[p] = "flush" /\ epoch' = epoch /\ Held(p)' = Held(p)
        /\ Held(p) \subseteq Effects
    BY <1>9, HeldTypes DEF Commit, TypeOK, Held, clockVars
  <2>2. ASSUME NEW x \in Held(p) PROVE Proper(p, x)'
    <3>1. x.ev \in Events
      BY <2>1 DEF Effects
    <3>2. rows'[x.ev].status = view[x.ev].status
      BY <1>9, <3>1, CommitEffect
    <3>3. Proper(p, x)
      BY DEF Books, Sound
    <3> QED
      BY <1>1, <2>1, <3>2, <3>3 DEF Proper
  <2> QED
    BY <2>1, <2>2 DEF Sound
<1> QED
  BY <1>5, <1>6, <1>7, <1>8, <1>9 DEF Advance

LEMMA SoundFlush ==
  ASSUME TypeOK, TypeOK', ScheduleInv, FxInv, Books, [Next]_vars, faults' = 0,
         NEW p \in Procs, Flush(p)
  PROVE  Sound(p)'
<1>1. CASE Finish(p)
  BY <1>1 DEF Finish, Sound, Held, Elems
<1>2. ASSUME pc[p] = "flush", fx[p] # <<>>, pc' = pc, fx' = Drop(p) PROVE Sound(p)'
  <2>1. Held(p)' \subseteq Held(p)
    BY <1>2, FlushHeads
  <2>2. \A x \in Held(p) : Proper(p, x)'
    BY <1>2, SoundAgain
  <2> QED
    BY <2>1, <2>2 DEF Sound
<1>3. ASSUME pc[p] = "flush", fx[p] # <<>>, pc' = pc, NEW x \in Effects, Proper(p, x)',
             fx' = [fx EXCEPT ![p] = <<x>> \o Tail(@)]
      PROVE  Sound(p)'
  <2>1. Held(p)' = {x} \cup Elems(Tail(fx[p])) /\ Elems(Tail(fx[p])) \subseteq Held(p)
    BY <1>3, FlushHeads
  <2>2. \A y \in Held(p) : Proper(p, y)'
    BY <1>3, SoundAgain
  <2> QED
    BY <1>3, <2>1, <2>2 DEF Sound
<1>4. CASE FlushRead(p)
  <2>1. pc[p] = "flush" /\ fx[p] # <<>> /\ Head(fx[p]).op = "enqueue" /\ pc' = pc /\ epoch' = epoch
    BY <1>4 DEF FlushRead, NextEffect, clockVars
  <2> PICK x : x = [Head(fx[p]) EXCEPT !.op = "add", !.set = epoch]
    OBVIOUS
  <2>2. Head(fx[p]) \in Effects /\ Head(fx[p]).ep <= epoch /\ Head(fx[p]).ep \in Epochs
    BY <2>1, HeadSound
  <2>3. /\ x \in Effects /\ x.op = "add" /\ x.ep = Head(fx[p]).ep /\ x.set = epoch
    BY <2>2 DEF Effects, TypeOK
  <2>4. fx' = Drop(p) \/ fx' = [fx EXCEPT ![p] = <<x>> \o Tail(@)]
    BY <1>4 DEF FlushRead, TypeOK
  <2>5. epoch \in Nat
    BY Domains DEF TypeOK
  <2>6. Proper(p, x)'
    BY <2>1, <2>2, <2>3, <2>5 DEF Proper
  <2> QED
    BY <1>2, <1>3, <2>1, <2>3, <2>4, <2>6
<1>5. CASE FlushAdd(p)
  <2>1. pc[p] = "flush" /\ fx[p] # <<>> /\ Head(fx[p]).op = "add" /\ pc' = pc /\ epoch' = epoch
    BY <1>5 DEF FlushAdd, NextEffect, clockVars
  <2> PICK x : x = [Head(fx[p]) EXCEPT !.op = "stamp", !.set = 1]
    OBVIOUS
  <2>2. Head(fx[p]) \in Effects /\ Head(fx[p]).ep <= epoch /\ Head(fx[p]).ep \in Epochs
    BY <2>1, HeadSound
  <2>3. x \in Effects /\ x.op = "stamp" /\ x.ep = Head(fx[p]).ep
    BY <2>2, Domains DEF Effects
  <2>4. fx' = [fx EXCEPT ![p] = <<x>> \o Tail(@)]
    BY <1>5 DEF FlushAdd, TypeOK
  <2>5. Proper(p, x)'
    BY <2>1, <2>2, <2>3 DEF Proper
  <2> QED
    BY <1>3, <2>1, <2>3, <2>4, <2>5
<1>6. CASE FlushStamp(p) \/ FlushRemove(p)
  BY <1>2, <1>6 DEF FlushStamp, FlushRemove, NextEffect
<1> QED
  BY <1>1, <1>4, <1>5, <1>6 DEF Flush

LEMMA SoundStep ==
  ASSUME TypeOK, TypeOK', ScheduleInv, FxInv, Books, [Next]_vars, faults' = 0
  PROVE  \A q \in Procs : Sound(q)'
<1>1. ASSUME NEW q \in Procs, fx'[q] = fx[q],
             \/ pc'[q] = pc[q] /\ (lock = q => lock' = lock)
             \/ pc[q] \notin {"advance", "commit", "flush"}
      PROVE  Sound(q)'
  <2>1. CASE pc[q] \notin {"advance", "commit", "flush"}
    BY <1>1, <2>1, HoldsNothing DEF Sound
  <2>2. CASE pc'[q] = pc[q] /\ (lock = q => lock' = lock)
    <3>1. Held(q)' = Held(q)
      BY <1>1 DEF Held
    <3> QED
      BY <2>2, <3>1, SoundAgain DEF Sound
  <2> QED
    BY <1>1, <2>1, <2>2
<1>2. CASE Tick \/ Retime \/ UNCHANGED vars \/ \E j \in Jobs : Purge(j)
  BY <1>1, <1>2 DEF Tick, Retime, Purge, vars, txVars, procVars, TypeOK
<1>3. epoch \in Epochs /\ epoch \in Nat /\ Sweeper \in Procs /\ Operator \in Procs /\ Sweeper # Operator
  BY Domains, ScheduleAssumption DEF TypeOK, Procs
<1>4. CASE Reconcile
  <2>1. \A q \in Procs \ {Sweeper} : Sound(q)'
    BY <1>1, <1>4 DEF Reconcile, TypeOK, txVars
  <2>2. epoch' = epoch /\ \A x \in Held(Sweeper)' : x.op = "enqueue" /\ x.ep = epoch
    BY <1>4, ReconcileFx
  <2>3. Sound(Sweeper)'
    BY <1>3, <2>2 DEF Sound, Proper
  <2> QED
    BY <2>1, <2>3
<1>5. CASE Reschedule
  <2>1. \A q \in Procs \ {Operator} : Sound(q)'
    BY <1>1, <1>5 DEF Reschedule, TypeOK, txVars
  <2>2. epoch' = epoch
    BY <1>5 DEF Reschedule, clockVars
  <2>3. ASSUME NEW x \in Held(Operator)' PROVE Proper(Operator, x)'
    <3>1. \/ x.op = "enqueue" /\ x.ep = epoch
          \/ x.op = "remove" /\ x.ev \in Events /\ x.ep = rows[x.ev].job
      BY <1>5, RescheduleFx
    <3> QED
      BY <1>3, <2>2, <3>1 DEF Proper, Books, RowSound
  <2> QED
    BY <2>1, <2>3 DEF Sound
<1>6. ASSUME NEW p \in Procs, ReadClock(p) \/ Advance(p) \/ Flush(p) \/ Wake(p)
      PROVE  \A q \in Procs : Sound(q)'
  <2>1. OthersKeep(p)
    BY <1>6, OthersKept
  <2>2. \A q \in Procs \ {p} : Sound(q)'
    BY <1>1, <2>1, ScheduleAssumption DEF OthersKeep, Procs
  <2>3. Wake(p) => fx'[p] = fx[p] /\ pc[p] \notin {"advance", "commit", "flush"}
    BY DEF Wake, ParkEarly, Ring
  <2> QED
    BY <1>1, <1>6, <2>2, <2>3, SoundInTransaction, SoundFlush
<1> QED
  BY <1>2, <1>4, <1>5, <1>6, AlarmKinds

(* What is left of the operator's work renews what is left of its removals. *)
LEMMA RenewsTail ==
  ASSUME NEW s \in Seq(Effects), s # <<>>, Renews(s)
  PROVE  /\ Renews(Tail(s))
         /\ \A x \in Effects : x.op # "remove" => Renews(<<x>> \o Tail(s))
<1>1. /\ Tail(s) \in Seq(Effects)
      /\ \A i \in DOMAIN Tail(s) : i + 1 \in DOMAIN s /\ Tail(s)[i] = s[i + 1] /\ i \in Nat
      /\ \A j \in DOMAIN s : j \in Nat /\ (j > 1 => j - 1 \in DOMAIN Tail(s) /\ s[j] = Tail(s)[j - 1])
  OBVIOUS
<1>2. Renews(Tail(s))
  <2> SUFFICES ASSUME NEW i \in DOMAIN Tail(s), Tail(s)[i].op = "remove",
                      rows[Tail(s)[i].ev].status = "PENDING"
               PROVE  \E j \in DOMAIN Tail(s) : /\ j > i /\ Tail(s)[j].op = "enqueue"
                                                /\ Tail(s)[j].ev = Tail(s)[i].ev /\ Tail(s)[j].ep = epoch
    BY DEF Renews
  <2>1. i + 1 \in DOMAIN s /\ Tail(s)[i] = s[i + 1] /\ i \in Nat
    BY <1>1
  <2>2. PICK j \in DOMAIN s : /\ j > i + 1 /\ s[j].op = "enqueue"
                              /\ s[j].ev = s[i + 1].ev /\ s[j].ep = epoch
    BY <2>1 DEF Renews
  <2>3. j - 1 \in DOMAIN Tail(s) /\ s[j] = Tail(s)[j - 1] /\ j - 1 > i
    BY <1>1, <2>1, <2>2
  <2> QED
    BY <2>1, <2>2, <2>3
<1>3. ASSUME NEW x \in Effects, x.op # "remove" PROVE Renews(<<x>> \o Tail(s))
  <2> DEFINE t == Tail(s)
             u == <<x>> \o t
  <2>1. /\ \A i \in DOMAIN u : i \in Nat /\ ((i = 1 /\ u[i] = x) \/ (i - 1 \in DOMAIN t /\ u[i] = t[i - 1]))
        /\ \A j \in DOMAIN t : j + 1 \in DOMAIN u /\ u[j + 1] = t[j] /\ j \in Nat
    BY <1>1
  <2>2. Renews(t)
    BY <1>2
  <2> HIDE DEF t, u
  <2>3. Renews(u)
    <3> SUFFICES ASSUME NEW i \in DOMAIN u, u[i].op = "remove", rows[u[i].ev].status = "PENDING"
                 PROVE  \E j \in DOMAIN u : /\ j > i /\ u[j].op = "enqueue"
                                            /\ u[j].ev = u[i].ev /\ u[j].ep = epoch
      BY DEF Renews
    <3>1. i - 1 \in DOMAIN t /\ u[i] = t[i - 1] /\ i \in Nat
      BY <1>3, <2>1
    <3>2. PICK j \in DOMAIN t : /\ j > i - 1 /\ t[j].op = "enqueue"
                                /\ t[j].ev = t[i - 1].ev /\ t[j].ep = epoch
      BY <2>2, <3>1 DEF Renews
    <3>3. j + 1 \in DOMAIN u /\ u[j + 1] = t[j] /\ j + 1 > i
      BY <2>1, <3>1, <3>2
    <3> QED
      BY <3>1, <3>2, <3>3
  <2> QED
    BY <2>3 DEF t, u
<1> QED
  BY <1>2, <1>3

LEMMA RenewsFrame ==
  ASSUME TypeOK, TypeOK', ScheduleInv, [Next]_vars, epoch' = epoch,
         NEW s \in Seq(Effects), Refers(s, rows), Renews(s)
  PROVE  Renews(s)'
<1>1. \A i \in DOMAIN s : s[i].ev \in Events /\ rows[s[i].ev].status # "ABSENT"
  <2>1. \A i \in DOMAIN s : s[i] \in Effects
    OBVIOUS
  <2>2. \A x \in Effects : x.ev \in Events
    BY DEF Effects
  <2> QED
    BY <2>1, <2>2 DEF Refers
<1>2. \A e \in Events : rows[e].status # "ABSENT" /\ rows'[e].status = "PENDING" => rows[e].status = "PENDING"
  <2>1. \A e \in Events : rows[e].status \in Terminal => rows'[e].status = rows[e].status
    BY TerminalStep
  <2>2. \A e \in Events : rows[e].status \in {"ABSENT", "PENDING"} \cup Terminal
    BY DEF TypeOK, Rows, Statuses
  <2> QED
    BY <2>1, <2>2 DEF Terminal
<1> QED
  BY <1>1, <1>2 DEF Renews

LEMMA RenewsStep ==
  ASSUME TypeOK, TypeOK', ScheduleInv, FxInv, Books, [Next]_vars, faults' = 0
  PROVE  Renews(fx[Operator])'
<1>1. /\ Operator \in Procs /\ Roles /\ Renews(fx[Operator]) /\ fx[Operator] \in Seq(Effects)
      /\ Retime \/ epoch' = epoch
      /\ pc[Operator] # "flush" => fx[Operator] = <<>>
      /\ pc[Operator] = "flush" => Refers(fx[Operator], rows)
  BY RolesStep DEF Books, Roles, Procs, TypeOK, FxInv, FxOf
<1>2. CASE fx'[Operator] = fx[Operator]
  <2>1. CASE pc[Operator] # "flush"
    BY <1>1, <1>2, <2>1 DEF Renews
  <2>2. CASE pc[Operator] = "flush"
    <3>1. epoch' = epoch
      BY <1>1, <2>2 DEF Retime
    <3> PICK s : s = fx[Operator]
      OBVIOUS
    <3>2. Renews(s)'
      BY <1>1, <2>2, <3>1, RenewsFrame
    <3> QED
      BY <1>2, <3>2 DEF Renews
  <2> QED
    BY <2>1, <2>2
<1>3. CASE Reschedule
  BY <1>3, RescheduleFx
<1>4. ASSUME Flush(Operator), fx'[Operator] # fx[Operator] PROVE Renews(fx[Operator])'
  <2>1. pc[Operator] = "flush" /\ epoch' = epoch
    BY <1>4 DEF Flush, FlushRead, FlushAdd, FlushStamp, FlushRemove, Finish, NextEffect, clockVars
  <2>2. fx[Operator] # <<>>
    BY <1>4 DEF Flush, FlushRead, FlushAdd, FlushStamp, FlushRemove, Finish, NextEffect
  <2> PICK s \in Seq(Effects) : s = fx[Operator] /\ s # <<>> /\ Renews(s) /\ Refers(s, rows)
    BY <1>1, <2>1, <2>2
  <2>3. PICK x \in Effects : /\ x.op # "remove" /\ x.ev = Head(s).ev
                             /\ fx'[Operator] \in {Tail(s), <<x>> \o Tail(s)}
    <3>1. Head(s) \in Effects
      OBVIOUS
    <3>2. CASE FlushRead(Operator)
      <4> PICK x : x = [Head(s) EXCEPT !.op = "add", !.set = epoch]
        OBVIOUS
      <4>1. x \in Effects /\ x.op = "add" /\ x.ev = Head(s).ev
        BY <3>1 DEF Effects, TypeOK
      <4>2. fx'[Operator] \in {Tail(s), <<x>> \o Tail(s)}
        BY <1>1, <3>2 DEF FlushRead, Drop, TypeOK
      <4> QED
        BY <4>1, <4>2
    <3>3. CASE ~FlushRead(Operator)
      <4> PICK x : x = [Head(s) EXCEPT !.op = "stamp", !.set = 1]
        OBVIOUS
      <4>1. x \in Effects /\ x.op = "stamp" /\ x.ev = Head(s).ev
        BY <3>1, Domains DEF Effects
      <4>2. fx'[Operator] \in {Tail(s), <<x>> \o Tail(s)}
        BY <1>1, <1>4, <3>3 DEF Flush, FlushAdd, FlushStamp, FlushRemove, Finish, Drop, TypeOK
      <4> QED
        BY <4>1, <4>2
    <3> QED
      BY <3>2, <3>3
  <2> PICK t : t = fx'[Operator]
    OBVIOUS
  <2>4. t \in Seq(Effects) /\ Renews(t) /\ Refers(t, rows)
    <3>1. Tail(s) \in Seq(Effects) /\ Renews(Tail(s)) /\ Refers(Tail(s), rows) /\ rows[Head(s).ev].status # "ABSENT"
      BY RenewsTail, RefersTail
    <3>2. <<x>> \in Seq(Effects) /\ <<x>> \o Tail(s) \in Seq(Effects) /\ Refers(<<x>>, rows)
      BY <2>3, <3>1, RefersOne
    <3>3. Refers(<<x>> \o Tail(s), rows)
      BY <3>1, <3>2, RefersJoin
    <3>4. Renews(<<x>> \o Tail(s))
      BY <2>3, RenewsTail
    <3> QED
      BY <2>3, <3>1, <3>2, <3>3, <3>4
  <2>5. Renews(t)'
    BY <2>1, <2>4, RenewsFrame
  <2> QED
    BY <2>5 DEF Renews
<1>5. ASSUME NEW p \in Procs, ReadClock(p) \/ Advance(p) \/ Flush(p) \/ Wake(p)
      PROVE  fx'[Operator] = fx[Operator] \/ Flush(Operator)
  <2>1. OthersKeep(p)
    BY <1>5, OthersKept
  <2>2. p = Operator => Flush(Operator)
    BY <1>1, <1>5, OperatorOnlyFlushes
  <2> QED
    BY <1>1, <2>1, <2>2 DEF OthersKeep
<1>6. ASSUME Tick \/ Retime \/ Reconcile \/ UNCHANGED vars \/ \E j \in Jobs : Purge(j)
      PROVE  fx'[Operator] = fx[Operator]
  BY <1>1, <1>6, ScheduleAssumption DEF Tick, Retime, Reconcile, Purge, vars, procVars, TypeOK, Procs
<1> QED
  BY <1>2, <1>3, <1>4, <1>5, <1>6, AlarmKinds
-----------------------------------------------------------------------------
LEMMA AlarmStep ==
  ASSUME TypeOK, TypeOK', ScheduleInv, FxInv, AlarmInv, [Next]_vars
  PROVE  AlarmInv'
<1> SUFFICES ASSUME faults' = 0 PROVE Books' /\ \A e \in Pending' : Minded(e)'
  BY DEF AlarmInv
<1>1. Books /\ \A e \in Pending : Minded(e)
  BY AlarmKinds DEF AlarmInv
<1>2. \A e \in Pending' : Minded(e)'
  BY <1>1, MindedStep
<1>3. Books'
  <2>1. Roles' /\ RowSound' /\ QueueSound' /\ Readings' /\ DuesStay'
    BY <1>1, RolesStep, RowSoundStep, QueueSoundStep, ReadingsStep, DuesStep
  <2>2. (\A p \in Procs : Sound(p)') /\ Renews(fx[Operator])'
    BY <1>1, SoundStep, RenewsStep
  <2> QED
    BY <2>1, <2>2 DEF Books
<1> QED
  BY <1>2, <1>3

LEMMA AlarmInit == Init => AlarmInv
<1> SUFFICES ASSUME Init PROVE AlarmInv
  OBVIOUS
<1>1. PICK r \in Requests :
        /\ pc = [p \in Procs |-> IF p = r THEN "flush" ELSE "idle"]
        /\ fx = [p \in Procs |-> IF p = r THEN <<Enqueue(1, 1)>> ELSE <<>>]
  BY DEF Init
<1>2. r \in Procs /\ Operator \in Procs /\ r # Operator /\ epoch = 1 /\ 1 \in Epochs /\ NoJob <= 1
  BY Domains, ScheduleAssumption DEF Procs, Init, NoJob
<1>3. /\ \A p \in Procs : Held(p) = IF p = r THEN {Enqueue(1, 1)} ELSE {}
      /\ fx[Operator] = <<>> /\ pc[Operator] = "idle"
  BY <1>1, <1>2 DEF Held, Elems
<1>4. \A p \in Procs : \A x \in Held(p) : x.op = "enqueue" /\ x.ep = 1
  BY <1>3 DEF Enqueue, Effect
<1>5. /\ \A e \in Events : rows[e].job = NoJob /\ ~rows[e].stamped
      /\ \A j \in Jobs : queue[j].state = "absent"
      /\ \A p \in Procs : reading[p].epoch = 1
      /\ lock = NoProc
  BY DEF Init, AbsentRow, NoAlarm, NoReading
<1>6. Roles /\ RowSound /\ QueueSound /\ Readings /\ DuesStay
  BY <1>1, <1>2, <1>3, <1>5 DEF Roles, RowSound, QueueSound, Readings, DuesStay
<1>7. (\A p \in Procs : Sound(p)) /\ Renews(fx[Operator])
  BY <1>2, <1>3, <1>4 DEF Sound, Proper, Renews
<1>8. \A e \in Events, k \in Epochs :
         ~Marked(e, k) /\ ~Adding(e, k) /\ queue[<<e, k>>].state = "absent"
  BY <1>4, <1>5 DEF Marked, Stamping, Adding, Jobs
<1>9. \A e \in Events : Minded(e)
  BY <1>2, <1>8 DEF Minded, Fresh
<1> QED
  BY <1>6, <1>7, <1>9 DEF AlarmInv, Books, Pending

LEMMA AlarmSetFollows ==
  ASSUME TypeOK, FxInv, AlarmInv
  PROVE  AlarmSet
<1> SUFFICES ASSUME AtRest, NEW e \in Pending PROVE Remembered(e) \/ LeftStamped(e)
  BY DEF AlarmSet
<1>1. Books /\ Minded(e) /\ rate # 0 /\ \A p \in Procs : pc[p] = "idle"
  BY DEF AtRest, Quiescent, AlarmInv
<1>2. /\ e \in Events /\ rows[e].status = "PENDING" /\ rows[e].due \in Nat
      /\ game \in Nat /\ rate \in Nat /\ epoch \in Epochs /\ Operator \in Procs
  BY EventFacts
<1>3. \A p \in Procs : Held(p) = {}
  BY <1>1, HoldsNothing
<1>4. ~Coming(e)
  BY <1>1, <1>2, <1>3 DEF Coming
<1>5. CASE rows[e].due <= game
  BY <1>2, <1>5 DEF Remembered, Overdue, DueBy
<1>6. CASE rows[e].due > game /\ ~rows[e].stamped
  BY <1>2, <1>6 DEF Remembered, Soon
<1>7. CASE rows[e].due > game /\ rows[e].stamped
  <2> PICK k : k = rows[e].job
    OBVIOUS
  <2>1. k \in Epochs /\ Marked(e, k)
    BY <1>1, <1>2, <1>7 DEF Books, RowSound, Marked
  <2>2. ~(rows[e].due <= game)
    BY <1>2, <1>7
  <2>3. Good(e, k) => OnTime(e, k)
    BY <2>2 DEF Good
  <2>4. CASE Fresh(e)
    BY <2>1, <2>3, <2>4 DEF Fresh, Remembered
  <2>5. CASE Settled(e)
    <3>1. CASE k = epoch
      <4>1. Good(e, epoch)
        BY <2>1, <2>5, <3>1 DEF Settled
      <4> QED
        BY <2>1, <2>3, <3>1, <4>1 DEF Remembered
    <3>2. CASE k # epoch /\ Good(e, epoch)
      <4>1. OnTime(e, epoch)
        BY <2>2, <3>2 DEF Good
      <4> QED
        BY <1>2, <4>1 DEF Remembered
    <3>3. CASE k # epoch /\ e \in passedOver
      BY <1>7, <3>3 DEF LeftStamped
    <3> QED
      BY <2>5, <3>1, <3>2, <3>3 DEF Settled
  <2> QED
    BY <1>1, <1>4, <2>4, <2>5 DEF Minded
<1> QED
  BY <1>2, <1>5, <1>6, <1>7

(* With nothing failing, no pending row loses its alarm unnoticed: at rest in a running
   world it has an alarm on time, lies beyond the horizon, waits for the next sweep, or is
   one that the last rescheduling left stamped beyond the horizon. *)
THEOREM AlarmsAreSet == Spec => []AlarmSet
<1>1. Init => FxInv /\ AlarmInv
  BY FxInit, AlarmInit
<1>2. /\ TypeOK /\ TypeOK' /\ ScheduleInv /\ FxInv /\ AlarmInv /\ [Next]_vars
      => FxInv' /\ AlarmInv'
  BY FxStep, AlarmStep
<1>3. TypeOK /\ FxInv /\ AlarmInv => AlarmSet
  BY AlarmSetFollows
<1> QED
  BY <1>1, <1>2, <1>3, ScheduleInvariant, PTL DEF Spec
=============================================================================
