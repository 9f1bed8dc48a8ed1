--------------------------- MODULE GameClock_proofs ---------------------------
(***************************************************************************)
(* Proofs about GameClock: its types, the arithmetic of the anchor, the    *)
(* continuity of the history of the world, and that nobody is ahead of the *)
(* world without a reason.                                                 *)
(***************************************************************************)
EXTENDS GameClock, SequenceTheorems, TLAPS

\* The transaction that holds the row works on the anchor in force, and its instant is later.
Pending ==
    \A c \in Calls : call[c].at = "committing" =>
        LET at == call[c].anchor.real
        IN /\ call[c].anchor.game = GameMsAt(world, at) /\ at > world.real
           /\ call[c].anchor.epoch = world.epoch + 1
           /\ call[c].frozen = Frozen(world, at)

\* A reading on its way is an anchor that has been in force, and no two have the same epoch.
Known(a) == a.epoch <= world.epoch /\ (a.epoch = world.epoch => a = world)
Carried ==
    {call[c].row : c \in {d \in Calls : call[d].at = "selected"}}
        \cup {socket[i] : i \in DOMAIN socket} \cup ({reply, dto} \ {NoAnchor})
InFlight == \A a \in Carried : Known(a)

IInv == TypeOK /\ Pending /\ HistoryContinuous /\ InFlight /\ GameNow <= peak /\ AheadForAReason

-------------------------------------------------------------------------------
(* Integer division. *)

LEMMA DivBounds ==
    ASSUME NEW x \in Int, NEW d \in Nat \ {0}
    PROVE  /\ x \div d \in Int
           /\ (x \div d) * d <= x
           /\ x < (x \div d) * d + d
  BY SMT

LEMMA TimesMonotone ==
    ASSUME NEW x \in Int, NEW y \in Int, NEW n \in Nat, x <= y
    PROVE  x * n <= y * n
  <1>1. PICK k \in Nat : y = x + k
    BY SMT
  <1>2. (x + k) * n = x * n + k * n
    BY SMT
  <1>3. k * n \in Nat
    BY SMT
  <1> QED
    BY <1>1, <1>2, <1>3, SMT

LEMMA DivMonotone ==
    ASSUME NEW x \in Int, NEW y \in Int, NEW d \in Nat \ {0}, x <= y
    PROVE  x \div d <= y \div d
  <1> DEFINE p == x \div d
             q == y \div d
  <1>1. p \in Int /\ q \in Int /\ p * d <= x /\ y < q * d + d
    BY DivBounds
  <1>2. SUFFICES ASSUME q + 1 <= p PROVE FALSE
    BY <1>1, SMT
  <1>3. (q + 1) * d <= p * d
    BY <1>1, <1>2, TimesMonotone, SMT
  <1>4. (q + 1) * d = q * d + d
    BY <1>1, SMT
  <1> QED
    BY <1>1, <1>3, <1>4, SMT

LEMMA DivAtLeast ==
    ASSUME NEW x \in Int, NEW k \in Int, NEW d \in Nat \ {0}, k * d <= x
    PROVE  k <= x \div d
  <1>1. (k * d) \div d = k
    BY SMT
  <1> QED
    BY <1>1, DivMonotone, SMT

-------------------------------------------------------------------------------
(* The arithmetic of the anchor. *)

LEMMA AnchorType ==
    ASSUME NEW a \in Anchors
    PROVE  a.game \in Nat /\ a.real \in Int /\ a.num \in Nat /\ a.den \in Nat \ {0} /\ a.epoch \in Nat
  BY DEF Anchors

LEMMA GameMsType ==
    ASSUME NEW a \in Anchors, NEW t \in Int
    PROVE  GameMsAt(a, t) \in Nat
  <1>1. (t - a.real) * a.num \in Int
    BY AnchorType, SMT
  <1>2. ((t - a.real) * a.num) \div a.den \in Int
    BY <1>1, AnchorType, DivBounds
  <1> QED
    BY <1>2, AnchorType, SMT DEF GameMsAt, NoLess, FloorDiv

\* The clock of the world never goes back as long as its anchor stands.
LEMMA GameMsMonotone ==
    ASSUME NEW a \in Anchors, NEW t \in Int, NEW u \in Int, t <= u
    PROVE  GameMsAt(a, t) <= GameMsAt(a, u)
  <1> DEFINE x == (t - a.real) * a.num
             y == (u - a.real) * a.num
  <1>1. x \in Int /\ y \in Int /\ x <= y
    <2>1. t - a.real \in Int /\ u - a.real \in Int /\ t - a.real <= u - a.real
      BY AnchorType, SMT
    <2> QED
      BY <2>1, AnchorType, TimesMonotone, SMT
  <1>2. x \div a.den <= y \div a.den /\ x \div a.den \in Int /\ y \div a.den \in Int
    BY <1>1, AnchorType, DivMonotone, DivBounds
  <1> HIDE DEF x, y
  <1>3. GameMsAt(a, t) = NoLess(a.game + (x \div a.den)) /\ GameMsAt(a, u) = NoLess(a.game + (y \div a.den))
    BY DEF GameMsAt, FloorDiv, x, y
  <1> QED
    BY <1>2, <1>3, AnchorType, SMT DEF NoLess

LEMMA GameMsAtAnchor ==
    ASSUME NEW a \in Anchors
    PROVE  GameMsAt(a, a.real) = a.game
  <1>1. (a.real - a.real) * a.num = 0
    BY AnchorType, SMT
  <1>2. 0 \div a.den = 0
    BY AnchorType, SMT
  <1> QED
    BY <1>1, <1>2, AnchorType, SMT DEF GameMsAt, FloorDiv, NoLess

\* "Rounding up is what guarantees the absence of early firing" (realMsFor): at the instant an
\* alarm is set for, the game instant it was set for has been reached.
THEOREM NoEarlyFiring ==
    ASSUME NEW a \in Anchors, a.num # 0, NEW g \in Nat
    PROVE  GameMsAt(a, RealMsFor(a, g)) >= g
  <1> DEFINE x == (g - a.game) * a.den
             q == CeilDiv(x, a.num)
             t == a.real + q
  <1>1. x \in Int /\ -x \in Int
    BY AnchorType, SMT
  <1> HIDE DEF x
  <1>2. q \in Int /\ x <= q * a.num
    <2> DEFINE z == (-x) \div a.num
    <2>1. z \in Int /\ z * a.num <= -x
      BY <1>1, AnchorType, DivBounds
    <2> HIDE DEF z
    <2>2. q = -z
      BY DEF z, CeilDiv
    <2>3. (-z) * a.num = -(z * a.num) /\ z * a.num \in Int
      BY <2>1, AnchorType, SMT
    <2> QED
      BY <1>1, <2>1, <2>2, <2>3, SMT
  <1> HIDE DEF q
  <1>3. RealMsFor(a, g) \in Int /\ t \in Int /\ t <= RealMsFor(a, g)
    <2>1. RealMsFor(a, g) = NoLess(t)
      BY DEF RealMsFor, q, x
    <2> QED
      BY <1>2, <2>1, AnchorType, SMT DEF NoLess
  <1>4. GameMsAt(a, t) <= GameMsAt(a, RealMsFor(a, g))
    BY <1>3, GameMsMonotone
  <1>5. GameMsAt(a, t) >= g
    <2>1. (t - a.real) * a.num = q * a.num /\ q * a.num \in Int
      BY <1>2, AnchorType, SMT
    <2>2. g - a.game <= (q * a.num) \div a.den
      <3>1. (g - a.game) * a.den <= q * a.num
        BY <1>2 DEF x
      <3>2. g - a.game \in Int
        BY AnchorType, SMT
      <3> HIDE DEF t
      <3> QED
        BY <3>1, <3>2, <2>1, AnchorType, DivAtLeast
    <2>3. (q * a.num) \div a.den \in Int
      BY <2>1, AnchorType, DivBounds
    <2>4. GameMsAt(a, t) = NoLess(a.game + ((q * a.num) \div a.den))
      BY <2>1 DEF GameMsAt, FloorDiv
    <2> QED
      BY <2>2, <2>3, <2>4, AnchorType, SMT DEF NoLess
  <1>6. GameMsAt(a, t) \in Nat /\ GameMsAt(a, RealMsFor(a, g)) \in Nat
    BY <1>3, GameMsType
  <1> QED
    BY <1>4, <1>5, <1>6, SMT

LEMMA ReanchorType ==
    ASSUME NEW a \in Anchors, NEW t \in Int, NEW r \in Rates
    PROVE  /\ Reanchored(a, t, r) \in Anchors
           /\ Reanchored(a, t, r).game = GameMsAt(a, t)
           /\ Reanchored(a, t, r).real = t
           /\ Reanchored(a, t, r).epoch = a.epoch + 1
           /\ Frozen(a, t) \in Segments
  <1>1. r.num \in Nat /\ r.den \in Nat \ {0}
    BY ClockAssumption
  <1> QED
    BY <1>1, AnchorType, GameMsType, SMT DEF Reanchored, Frozen, Anchors, Segments

-------------------------------------------------------------------------------
(* Types. *)

LEMMA CallTypes ==
    /\ \A s \in CallStates :
         /\ s.at = "selected" => s.row \in Anchors
         /\ s.at = "retiming" => s.rate \in Rates
         /\ s.at = "committing" => s.anchor \in Anchors /\ s.frozen \in Segments
    /\ Idle \in CallStates /\ Idle.at = "idle"
    /\ [at |-> "booting"] \in CallStates
    /\ \A a \in Anchors : [at |-> "selected", row |-> a] \in CallStates
    /\ \A r \in Rates : [at |-> "retiming", rate |-> r] \in CallStates
    /\ \A a \in Anchors, f \in Segments :
         [at |-> "committing", anchor |-> a, frozen |-> f] \in CallStates
  BY SMT DEF CallStates, Idle

LEMMA HigherType ==
    ASSUME NEW a \in Int, NEW b \in Nat
    PROVE  Higher(a, b) \in Nat /\ Higher(a, b) \in {a, b} /\ a <= Higher(a, b) /\ b <= Higher(a, b)
  BY SMT DEF Higher

LEMMA Clocks ==
    ASSUME TypeOK
    PROVE  /\ real \in Int /\ \A p \in Walls : skew[p] \in Int /\ WallOf(p) \in Int
           /\ Page \in Walls /\ Hosts \subseteq Walls
  BY ClockAssumption, SMT DEF TypeOK, WallOf, Walls

LEMMA GuardedType ==
    ASSUME TypeOK, NEW h \in Hosts, NEW a \in Anchors, NEW t \in Int
    PROVE  /\ Guarded(h, a, t) \in Nat
           /\ Guarded(h, a, t) \in {highWater[h], GameMsAt(a, t)}
  <1>1. highWater[h] \in Int
    BY SMT DEF TypeOK
  <1>2. GameMsAt(a, t) \in Nat
    BY GameMsType
  <1> QED
    BY <1>1, <1>2, HigherType DEF Guarded

LEMMA ReconciledType ==
    ASSUME TypeOK, NEW s \in [on : BOOLEAN, game : Nat, ready : BOOLEAN], NEW a \in Anchors
    PROVE  /\ Ticked(s, a) \in [on : BOOLEAN, game : Nat, ready : BOOLEAN]
           /\ Reconciled(s, a) \in [on : BOOLEAN, game : Nat, ready : BOOLEAN]
           /\ Ticked(s, a).on = s.on /\ Reconciled(s, a).on = s.on
           /\ Ticked(s, a).game \in {s.game, Extrapolated(a)}
           /\ Extrapolated(a) \in Nat
  <1>1. Extrapolated(a) \in Nat
    BY Clocks, GameMsType DEF Extrapolated
  <1>2. Higher(s.game, Extrapolated(a)) \in Nat /\ Higher(s.game, Extrapolated(a)) \in {s.game, Extrapolated(a)}
    BY <1>1, HigherType
  <1>3. Ticked(s, a) = [s EXCEPT !.game = Higher(s.game, Extrapolated(a))]
    BY DEF Ticked
  <1> DEFINE T == Ticked(s, a)
             J == [on |-> s.on, game |-> Extrapolated(a), ready |-> TRUE]
             V == [on : BOOLEAN, game : Nat, ready : BOOLEAN]
  <1>4. T \in V /\ T.on = s.on /\ T.game \in {s.game, Extrapolated(a)}
    BY <1>1, <1>2, <1>3, SMT
  <1>5. J \in V /\ J.on = s.on
    <2>1. s.on \in BOOLEAN
      OBVIOUS
    <2> QED
      BY <1>1, <2>1
  <1>6. Reconciled(s, a) \in {T, J}
    BY DEF Reconciled
  <1> HIDE DEF T, J
  <1>7. Reconciled(s, a) \in V /\ Reconciled(s, a).on = s.on
    BY <1>4, <1>5, <1>6
  <1> QED
    BY <1>1, <1>4, <1>7 DEF T

LEMMA ApplyClockType ==
    ASSUME TypeOK, NEW a \in Anchors, ApplyClock(a)
    PROVE  /\ dto' = a
           /\ screen' \in [Instances -> [on : BOOLEAN, game : Nat, ready : BOOLEAN]]
           /\ display' \in Nat /\ misled' \in BOOLEAN
  <1>1. \A i \in Instances : Reconciled(screen[i], a) \in [on : BOOLEAN, game : Nat, ready : BOOLEAN]
    BY ReconciledType DEF TypeOK
  <1>2. screen' \in [Instances -> [on : BOOLEAN, game : Nat, ready : BOOLEAN]]
    BY <1>1 DEF TypeOK, ApplyClock
  <1>3. display' \in Nat
    BY <1>2 DEF TypeOK, ApplyClock, Running
  <1>4. misled' \in BOOLEAN
    BY Clocks, SMT DEF ApplyClock
  <1> QED
    BY <1>2, <1>3, <1>4 DEF ApplyClock

LEMMA TypeInit == Init => TypeOK
  <1> SUFFICES ASSUME Init PROVE TypeOK
    OBVIOUS
  <1>1. InitialRate.num \in Nat /\ InitialRate.den \in Nat \ {0}
    BY ClockAssumption
  <1>2. world \in Anchors /\ world.epoch = 0
    BY <1>1, SMT DEF Init, Anchors
  <1>3. call \in [Calls -> CallStates] /\ \A c \in Calls : call[c].at = "idle"
    BY CallTypes DEF Init
  <1>4. \A c \in Calls : holder = c <=> call[c].at = "committing"
    BY <1>3, ClockAssumption DEF Init
  <1>5. screen \in [Instances -> [on : BOOLEAN, game : Nat, ready : BOOLEAN]]
    BY DEF Init
  <1>6. skew \in [Walls -> -MaxSkew .. MaxSkew]
    BY ClockAssumption, SMT DEF Init
  <1>7. socket \in Seq(Anchors) /\ Len(socket) <= MaxFrames /\ segments \in Seq(Segments) /\ Len(segments) = world.epoch
    BY <1>2, ClockAssumption, SMT DEF Init
  <1>8. real \in 0 .. MaxReal /\ troubles \in 0 .. MaxTroubles /\ peak \in Nat /\ display \in Nat
    BY ClockAssumption, SMT DEF Init
  <1>9. highWater \in [Hosts -> Nat \cup {-1}]
    BY SMT DEF Init
  <1> QED
    BY <1>2, <1>3, <1>4, <1>5, <1>6, <1>7, <1>8, <1>9 DEF Init, TypeOK

LEMMA TickType == TypeOK /\ Tick => TypeOK'
  <1> SUFFICES ASSUME TypeOK, Tick PROVE TypeOK'
    OBVIOUS
  <1>1. real' \in 0 .. MaxReal /\ real + 1 \in Int
    BY ClockAssumption, SMT DEF TypeOK, Tick
  <1>2. GameMsAt(world, real + 1) \in Nat
    BY <1>1, GameMsType DEF TypeOK
  <1>3. peak' \in Nat
    <2>1. peak \in Int
      BY SMT DEF TypeOK
    <2> QED
      BY <1>2, <2>1, HigherType DEF Tick
  <1> QED
    BY <1>1, <1>3 DEF TypeOK, Tick, server, page

LEMMA StepClockType == \A p \in Walls : TypeOK /\ StepClock(p) => TypeOK'
  <1> SUFFICES ASSUME NEW p \in Walls, TypeOK, StepClock(p) PROVE TypeOK'
    OBVIOUS
  <1>1. skew' \in [Walls -> -MaxSkew .. MaxSkew]
    BY DEF TypeOK, StepClock
  <1>2. troubles' \in 0 .. MaxTroubles
    BY ClockAssumption, SMT DEF TypeOK, StepClock, Trouble
  <1> QED
    BY <1>1, <1>2 DEF TypeOK, StepClock, server, page

\* A call that neither takes nor gives back the row.
LEMMA CallMoves ==
    ASSUME TypeOK, NEW c \in Calls, NEW s \in CallStates,
           call' = [call EXCEPT ![c] = s], holder' = holder,
           call[c].at # "committing", s.at # "committing"
    PROVE  /\ call' \in [Calls -> CallStates]
           /\ \A d \in Calls : holder' = d <=> call'[d].at = "committing"
  BY DEF TypeOK

LEMMA SelectType == \A c \in Calls : TypeOK /\ Select(c) => TypeOK'
  <1> SUFFICES ASSUME NEW c \in Calls, TypeOK, Select(c) PROVE TypeOK'
    OBVIOUS
  <1> DEFINE s == [at |-> "selected", row |-> world]
  <1>1. s \in CallStates /\ s.at = "selected"
    BY CallTypes DEF TypeOK
  <1>2. call' = [call EXCEPT ![c] = s] /\ holder' = holder /\ call[c].at = "idle"
    BY DEF Select
  <1> HIDE DEF s
  <1>3. /\ call' \in [Calls -> CallStates]
        /\ \A d \in Calls : holder' = d <=> call'[d].at = "committing"
    BY <1>1, <1>2, CallMoves
  <1> QED
    BY <1>3 DEF TypeOK, Select, page

LEMMA ComputeType == \A c \in Calls : TypeOK /\ Compute(c) => TypeOK'
  <1> SUFFICES ASSUME NEW c \in Calls, TypeOK, Compute(c) PROVE TypeOK'
    OBVIOUS
  <1> DEFINE h == HostOf[c]
             row == call[c].row
  <1>1. h \in Hosts /\ row \in Anchors /\ WallOf(h) \in Int
    BY CallTypes, Clocks, ClockAssumption DEF TypeOK, Compute
  <1>2. /\ call' \in [Calls -> CallStates]
        /\ \A d \in Calls : holder' = d <=> call'[d].at = "committing"
    BY CallTypes, CallMoves DEF Compute
  <1>3. highWater' \in [Hosts -> Nat \cup {-1}]
    <2>1. Guarded(h, row, WallOf(h)) \in Nat
      BY <1>1, GuardedType
    <2> QED
      BY <2>1 DEF TypeOK, Compute
  <1>4. led' \subseteq Hosts
    BY <1>1 DEF TypeOK, Compute, Astray
  <1>5. socket' \in Seq(Anchors) /\ Len(socket') <= MaxFrames /\ reply' \in Anchors \cup {NoAnchor}
    <2>1. call[c].row \in Anchors /\ socket \in Seq(Anchors) /\ Len(socket) <= MaxFrames
      BY <1>1 DEF TypeOK
    <2>2. CASE Len(socket) < MaxFrames /\ socket' = Append(socket, call[c].row) /\ UNCHANGED reply
      <3>1. socket' \in Seq(Anchors) /\ Len(socket') = Len(socket) + 1
        BY <2>1, <2>2, AppendProperties
      <3>2. Len(socket) \in Nat
        BY <2>1, LenProperties
      <3> QED
        BY <2>2, <3>1, <3>2, ClockAssumption, SMT DEF TypeOK
    <2>3. CASE UNCHANGED socket /\ (reply' = call[c].row \/ UNCHANGED reply)
      BY <2>1, <2>3 DEF TypeOK
    <2> QED
      BY <2>2, <2>3 DEF Compute
  <1> QED
    BY <1>2, <1>3, <1>4, <1>5 DEF TypeOK, Compute, page

LEMMA LockWorldType ==
    ASSUME TypeOK, NEW c \in Calls, NEW r \in Rates, LockWorld(c, r), call[c].at # "committing"
    PROVE  /\ TypeOK'
           /\ call'[c].anchor = Reanchored(world, RetimeInstant(HostOf[c]), r)
           /\ call'[c].frozen = Frozen(world, RetimeInstant(HostOf[c]))
           /\ RetimeInstant(HostOf[c]) \in Int /\ RetimeInstant(HostOf[c]) > world.real
           /\ \A d \in Calls \ {c} : call'[d] = call[d]
           /\ \A d \in Calls \ {c} : call[d].at # "committing"
  <1> DEFINE h == HostOf[c]
             at == RetimeInstant(h)
             anchor == Reanchored(world, at, r)
             frozen == Frozen(world, at)
             s == [at |-> "committing", anchor |-> anchor, frozen |-> frozen]
  <1>1. h \in Hosts /\ WallOf(h) \in Int /\ world \in Anchors
    BY Clocks, ClockAssumption DEF TypeOK
  <1>2. at \in Int /\ at > world.real
    BY <1>1, AnchorType, SMT DEF RetimeInstant
  <1>3. call' = [call EXCEPT ![c] = s] /\ holder = None /\ holder' = c
    BY DEF LockWorld
  <1> HIDE DEF h, at
  <1>4. anchor \in Anchors /\ frozen \in Segments
    BY <1>1, <1>2, ReanchorType
  <1>5. s \in CallStates /\ s.at = "committing" /\ s.anchor = anchor /\ s.frozen = frozen
    BY <1>4, CallTypes
  <1> HIDE DEF s, anchor, frozen
  <1>6. call' \in [Calls -> CallStates] /\ call'[c] = s /\ \A d \in Calls \ {c} : call'[d] = call[d]
    BY <1>3, <1>5 DEF TypeOK
  <1>7. \A d \in Calls : call[d].at # "committing"
    BY <1>3, ClockAssumption DEF TypeOK
  <1>8. \A d \in Calls : holder' = d <=> call'[d].at = "committing"
    BY <1>3, <1>5, <1>6, <1>7
  <1>9. highWater' \in [Hosts -> Nat \cup {-1}]
    <2>1. Guarded(h, anchor, at) \in Nat
      BY <1>1, <1>2, <1>4, GuardedType
    <2> QED
      BY <2>1 DEF TypeOK, LockWorld, h, at, anchor
  <1>10. led' \subseteq Hosts
    BY <1>1 DEF TypeOK, LockWorld, h
  <1>11. TypeOK'
    BY <1>3, <1>6, <1>8, <1>9, <1>10 DEF TypeOK, LockWorld, page
  <1> QED
    BY <1>2, <1>5, <1>6, <1>7, <1>11 DEF anchor, frozen, at, h

LEMMA CommitType == \A c \in Calls : TypeOK /\ Pending /\ CommitRetime(c) => TypeOK'
  <1> SUFFICES ASSUME NEW c \in Calls, TypeOK, Pending, CommitRetime(c) PROVE TypeOK'
    OBVIOUS
  <1>1. call[c].anchor \in Anchors /\ call[c].frozen \in Segments /\ call[c].anchor.epoch = world.epoch + 1
    BY CallTypes DEF TypeOK, CommitRetime, Pending
  <1>2. segments' \in Seq(Segments) /\ Len(segments') = world'.epoch /\ world' \in Anchors
    BY <1>1, SMT DEF TypeOK, CommitRetime
  <1>3. peak' \in Nat
    <2>1. GameMsAt(world', real) \in Nat
      BY <1>2, Clocks, GameMsType
    <2>2. peak \in Int
      BY SMT DEF TypeOK
    <2> QED
      BY <2>1, <2>2, HigherType DEF CommitRetime
  <1>4. call' \in [Calls -> CallStates] /\ call'[c].at = "idle" /\ \A d \in Calls \ {c} : call'[d] = call[d]
    BY CallTypes DEF TypeOK, CommitRetime
  <1>5. holder = c /\ holder' = None
    BY DEF TypeOK, CommitRetime
  <1>6. \A d \in Calls : holder' = d <=> call'[d].at = "committing"
    BY <1>4, <1>5, ClockAssumption DEF TypeOK
  <1> QED
    BY <1>2, <1>3, <1>4, <1>5, <1>6 DEF TypeOK, CommitRetime, page

LEMMA AbortType == \A c \in Calls : TypeOK /\ AbortRetime(c) => TypeOK'
  <1> SUFFICES ASSUME NEW c \in Calls, TypeOK, AbortRetime(c) PROVE TypeOK'
    OBVIOUS
  <1>1. call' \in [Calls -> CallStates] /\ call'[c].at = "idle" /\ \A d \in Calls \ {c} : call'[d] = call[d]
    BY CallTypes DEF TypeOK, AbortRetime
  <1>2. holder = c /\ holder' = None
    BY DEF TypeOK, AbortRetime
  <1>3. \A d \in Calls : holder' = d <=> call'[d].at = "committing"
    BY <1>1, <1>2, ClockAssumption DEF TypeOK
  <1>4. troubles' \in 0 .. MaxTroubles
    BY ClockAssumption, SMT DEF TypeOK, AbortRetime, Trouble
  <1> QED
    BY <1>1, <1>2, <1>3, <1>4 DEF TypeOK, AbortRetime, page

LEMMA RestartType == \A h \in Hosts : TypeOK /\ Restart(h) => TypeOK'
  <1> SUFFICES ASSUME NEW h \in Hosts, TypeOK, Restart(h) PROVE TypeOK'
    OBVIOUS
  <1>1. PICK b \in Calls :
           /\ HostOf[b] = h
           /\ call' = [c \in Calls |-> IF c = b THEN [at |-> "booting"]
                                       ELSE IF HostOf[c] = h THEN Idle ELSE call[c]]
    BY DEF Restart
  <1>2. call' \in [Calls -> CallStates]
    BY <1>1, CallTypes DEF TypeOK
  <1>3. \A d \in Calls : IF HostOf[d] = h THEN call'[d].at # "committing" ELSE call'[d] = call[d]
    BY <1>1, CallTypes
  <1>4. holder' = IF holder # None /\ HostOf[holder] = h THEN None ELSE holder
    BY DEF Restart
  <1>5. \A d \in Calls : holder' = d <=> call'[d].at = "committing"
    BY <1>3, <1>4, ClockAssumption DEF TypeOK
  <1>6. holder' \in Calls \cup {None}
    BY <1>4 DEF TypeOK
  <1>7. troubles' \in 0 .. MaxTroubles
    BY ClockAssumption, SMT DEF TypeOK, Restart, Trouble
  <1>8. highWater' \in [Hosts -> Nat \cup {-1}] /\ led' \subseteq Hosts
    BY DEF TypeOK, Restart
  <1> QED
    BY <1>2, <1>5, <1>6, <1>7, <1>8 DEF TypeOK, Restart, page

LEMMA BootType == \A c \in Calls : TypeOK /\ Boot(c) => TypeOK'
  <1> SUFFICES ASSUME NEW c \in Calls, TypeOK, Boot(c) PROVE TypeOK'
    OBVIOUS
  <1> DEFINE h == HostOf[c]
             s == IF ApplyOnBoot /\ Rate(world) # Configured[h]
                  THEN [at |-> "retiming", rate |-> Configured[h]] ELSE Idle
  <1>1. h \in Hosts /\ world \in Anchors /\ WallOf(h) \in Int
    BY Clocks, ClockAssumption DEF TypeOK
  <1>2. s \in CallStates /\ s.at # "committing"
    BY <1>1, CallTypes, ClockAssumption
  <1>3. call' = [call EXCEPT ![c] = s] /\ holder' = holder /\ call[c].at = "booting"
    BY DEF Boot
  <1> HIDE DEF s
  <1>4. /\ call' \in [Calls -> CallStates]
        /\ \A d \in Calls : holder' = d <=> call'[d].at = "committing"
    BY <1>2, <1>3, CallMoves
  <1>5. highWater' \in [Hosts -> Nat \cup {-1}]
    <2>1. Guarded(h, world, WallOf(h)) \in Nat
      BY <1>1, GuardedType
    <2> QED
      BY <2>1 DEF TypeOK, Boot
  <1>6. led' \subseteq Hosts
    BY <1>1 DEF TypeOK, Boot, Astray
  <1> QED
    BY <1>4, <1>5, <1>6 DEF TypeOK, Boot, page

LEMMA PageType ==
    TypeOK /\ (\/ Disconnect \/ ReceiveFrame \/ ReceiveReply
              \/ \E i \in Instances : Mount(i) \/ Unmount(i) \/ TickInstance(i)) => TypeOK'
  <1> SUFFICES ASSUME TypeOK,
                      \/ Disconnect \/ ReceiveFrame \/ ReceiveReply
                      \/ \E i \in Instances : Mount(i) \/ Unmount(i) \/ TickInstance(i)
               PROVE TypeOK'
    OBVIOUS
  <1> DEFINE V == [on : BOOLEAN, game : Nat, ready : BOOLEAN]
  <1>1. CASE Disconnect
    <2>1. socket' \in Seq(Anchors) /\ Len(socket') <= MaxFrames /\ troubles' \in 0 .. MaxTroubles
      BY <1>1, ClockAssumption, SMT DEF TypeOK, Disconnect, Trouble
    <2> QED
      BY <1>1, <2>1 DEF TypeOK, Disconnect, server, page
  <1>2. CASE ReceiveFrame
    <2>1. Head(socket) \in Anchors /\ Tail(socket) \in Seq(Anchors) /\ Len(Tail(socket)) <= MaxFrames
      BY <1>2, ClockAssumption, SMT DEF TypeOK, ReceiveFrame
    <2>2. ApplyClock(Head(socket))
      BY <1>2 DEF ReceiveFrame
    <2>3. dto' \in Anchors /\ screen' \in [Instances -> V] /\ display' \in Nat /\ misled' \in BOOLEAN
      BY <2>1, <2>2, ApplyClockType
    <2> QED
      BY <1>2, <2>1, <2>3 DEF TypeOK, ReceiveFrame, server
  <1>3. CASE ReceiveReply
    <2>1. reply \in Anchors /\ ApplyClock(reply)
      BY <1>3 DEF TypeOK, ReceiveReply
    <2>2. dto' \in Anchors /\ screen' \in [Instances -> V] /\ display' \in Nat /\ misled' \in BOOLEAN
      BY <2>1, ApplyClockType
    <2> QED
      BY <1>3, <2>2 DEF TypeOK, ReceiveReply, server
  <1>4. ASSUME NEW i \in Instances, Mount(i) PROVE TypeOK'
    <2> DEFINE fresh == [on |-> TRUE, game |-> display, ready |-> FALSE]
               s == IF dto = NoAnchor THEN fresh ELSE Reconciled(fresh, dto)
    <2>1. fresh \in V
      BY DEF TypeOK
    <2>2. s \in V
      BY <2>1, ReconciledType DEF TypeOK
    <2>3. screen' = [screen EXCEPT ![i] = s] /\ display' = s.game
      BY <1>4 DEF Mount
    <2> HIDE DEF s
    <2>4. screen' \in [Instances -> V] /\ display' \in Nat
      BY <2>2, <2>3 DEF TypeOK
    <2>5. misled' \in BOOLEAN
      BY <1>4 DEF TypeOK, Mount
    <2> QED
      BY <1>4, <2>4, <2>5 DEF TypeOK, Mount, server
  <1>5. ASSUME NEW i \in Instances, Unmount(i) PROVE TypeOK'
    <2>1. screen' \in [Instances -> V]
      BY <1>5 DEF TypeOK, Unmount
    <2> QED
      BY <1>5, <2>1 DEF TypeOK, Unmount, server
  <1>6. ASSUME NEW i \in Instances, TickInstance(i) PROVE TypeOK'
    <2>1. screen[i] \in V /\ dto \in Anchors
      BY <1>6 DEF TypeOK, TickInstance
    <2>2. Ticked(screen[i], dto) \in V
      BY <2>1, ReconciledType
    <2>3. screen' = [screen EXCEPT ![i] = Ticked(screen[i], dto)] /\ display' = screen'[i].game
      BY <1>6 DEF TickInstance
    <2>4. screen' \in [Instances -> V] /\ display' \in Nat
      BY <2>2, <2>3 DEF TypeOK
    <2>5. misled' \in BOOLEAN
      BY <1>6 DEF TypeOK, TickInstance
    <2> QED
      BY <1>6, <2>4, <2>5 DEF TypeOK, TickInstance, server
  <1> QED
    BY <1>1, <1>2, <1>3, <1>4, <1>5, <1>6

LEMMA TypeStep == TypeOK /\ Pending /\ [Next]_vars => TypeOK'
  <1> SUFFICES ASSUME TypeOK, Pending, [Next]_vars PROVE TypeOK'
    OBVIOUS
  <1>1. ASSUME NEW c \in Calls, Retime(c) PROVE TypeOK'
    BY <1>1, LockWorldType DEF Retime
  <1>2. ASSUME NEW c \in Calls, RetimeOnBoot(c) PROVE TypeOK'
    <2>1. call[c].rate \in Rates /\ call[c].at = "retiming"
      BY <1>2, CallTypes DEF TypeOK, RetimeOnBoot
    <2> QED
      BY <1>2, <2>1, LockWorldType DEF RetimeOnBoot
  <1>3. CASE UNCHANGED vars
    BY <1>3 DEF TypeOK, vars, server, page
  <1>4. CASE Next
    BY <1>1, <1>2, <1>4, TickType, StepClockType, SelectType, ComputeType, CommitType, AbortType,
       RestartType, BootType, PageType DEF Next, Call
  <1> QED
    BY <1>3, <1>4

-------------------------------------------------------------------------------
(* The history of the world. *)

\* A step leaves the row and the transaction that holds it alone, or opens one, or commits one.
Retiming(c) == call[c].at # "committing" /\ \E r \in Rates : LockWorld(c, r)
LEMMA Steps ==
    ASSUME TypeOK, [Next]_vars
    PROVE  \/ /\ UNCHANGED <<world, segments>>
              /\ \A d \in Calls : call'[d].at = "committing" => call'[d] = call[d]
           \/ \E c \in Calls : Retiming(c)
           \/ \E c \in Calls : CommitRetime(c)
  <1> DEFINE Quiet == /\ UNCHANGED <<world, segments>>
                      /\ \A d \in Calls : call'[d].at = "committing" => call'[d] = call[d]
  <1>1. ASSUME UNCHANGED <<world, segments>>, NEW c \in Calls, NEW s \in CallStates,
               call' = [call EXCEPT ![c] = s], s.at # "committing"
        PROVE Quiet
    BY <1>1 DEF TypeOK
  <1>2. ASSUME NEW c \in Calls, Select(c) PROVE Quiet
    <2> DEFINE s == [at |-> "selected", row |-> world]
    <2>1. s \in CallStates /\ s.at # "committing"
      BY CallTypes DEF TypeOK
    <2>2. call' = [call EXCEPT ![c] = s] /\ UNCHANGED <<world, segments>>
      BY <1>2 DEF Select
    <2> HIDE DEF s, Quiet
    <2> QED
      BY <1>1, <2>1, <2>2
  <1>3. ASSUME NEW c \in Calls, Compute(c) \/ AbortRetime(c) PROVE Quiet
    <2>1. call' = [call EXCEPT ![c] = Idle] /\ UNCHANGED <<world, segments>>
      BY <1>3 DEF Compute, AbortRetime
    <2> HIDE DEF Quiet
    <2> QED
      BY <1>1, <2>1, CallTypes
  <1>4. ASSUME NEW c \in Calls, Boot(c) PROVE Quiet
    <2> DEFINE s == IF ApplyOnBoot /\ Rate(world) # Configured[HostOf[c]]
                    THEN [at |-> "retiming", rate |-> Configured[HostOf[c]]] ELSE Idle
    <2>1. s \in CallStates /\ s.at # "committing"
      BY CallTypes, ClockAssumption
    <2>2. call' = [call EXCEPT ![c] = s] /\ UNCHANGED <<world, segments>>
      BY <1>4 DEF Boot
    <2> HIDE DEF s, Quiet
    <2> QED
      BY <1>1, <2>1, <2>2
  <1>5. ASSUME NEW c \in Calls, Retime(c) \/ RetimeOnBoot(c) PROVE Retiming(c)
    BY <1>5, CallTypes DEF TypeOK, Retime, RetimeOnBoot, Retiming
  <1>6. ASSUME NEW h \in Hosts, Restart(h) PROVE Quiet
    <2>1. PICK b \in Calls :
             call' = [c \in Calls |-> IF c = b THEN [at |-> "booting"]
                                     ELSE IF HostOf[c] = h THEN Idle ELSE call[c]]
      BY <1>6 DEF Restart
    <2>2. UNCHANGED <<world, segments>>
      BY <1>6 DEF Restart
    <2> QED
      BY <2>1, <2>2, CallTypes
  <1>7. CASE UNCHANGED <<world, segments, call>>
    BY <1>7
  <1>8. CASE Next
    BY <1>2, <1>3, <1>4, <1>5, <1>6, <1>7, <1>8
    DEF Next, Call, Tick, StepClock, Disconnect, ReceiveFrame, ReceiveReply, Mount, Unmount,
        TickInstance, server
  <1>9. CASE UNCHANGED vars
    BY <1>9, <1>7 DEF vars, server
  <1> QED
    BY <1>8, <1>9

LEMMA LockStarts ==
    ASSUME TypeOK, NEW c \in Calls, Retiming(c)
    PROVE  /\ UNCHANGED <<world, segments>>
           /\ call'[c].anchor.game = GameMsAt(world, call'[c].anchor.real)
           /\ call'[c].anchor.real > world.real
           /\ call'[c].anchor.real = RetimeInstant(HostOf[c])
           /\ call'[c].anchor.epoch = world.epoch + 1
           /\ call'[c].frozen = Frozen(world, call'[c].anchor.real)
           /\ \A d \in Calls \ {c} : call'[d] = call[d] /\ call[d].at # "committing"
  <1>1. PICK r \in Rates : LockWorld(c, r)
    BY DEF Retiming
  <1> DEFINE at == RetimeInstant(HostOf[c])
  <1>2. /\ call'[c].anchor = Reanchored(world, at, r) /\ call'[c].frozen = Frozen(world, at)
        /\ at \in Int /\ at > world.real
        /\ \A d \in Calls \ {c} : call'[d] = call[d] /\ call[d].at # "committing"
    BY <1>1, LockWorldType DEF Retiming
  <1>3. UNCHANGED <<world, segments>>
    BY <1>1 DEF LockWorld
  <1> HIDE DEF at
  <1>4. /\ Reanchored(world, at, r).game = GameMsAt(world, at)
        /\ Reanchored(world, at, r).real = at
        /\ Reanchored(world, at, r).epoch = world.epoch + 1
    BY <1>2, ReanchorType DEF TypeOK
  <1> QED
    BY <1>2, <1>3, <1>4 DEF at

LEMMA PendingStep == TypeOK /\ Pending /\ [Next]_vars => Pending'
  <1> SUFFICES ASSUME TypeOK, Pending, [Next]_vars PROVE Pending'
    OBVIOUS
  <1>1. CASE /\ UNCHANGED <<world, segments>>
             /\ \A d \in Calls : call'[d].at = "committing" => call'[d] = call[d]
    BY <1>1 DEF Pending, Frozen, GameMsAt
  <1>2. ASSUME NEW c \in Calls, Retiming(c) PROVE Pending'
    BY <1>2, LockStarts DEF Pending, Frozen, GameMsAt
  <1>3. ASSUME NEW c \in Calls, CommitRetime(c) PROVE Pending'
    <2>1. TypeOK' /\ holder' = None
      BY <1>3, TypeStep DEF CommitRetime
    <2>2. \A d \in Calls : call'[d].at # "committing"
      BY <2>1, ClockAssumption DEF TypeOK
    <2> QED
      BY <2>2 DEF Pending
  <1> QED
    BY <1>1, <1>2, <1>3, Steps

LEMMA HistoryStep == TypeOK /\ Pending /\ HistoryContinuous /\ [Next]_vars => HistoryContinuous'
  <1> SUFFICES ASSUME TypeOK, Pending, HistoryContinuous, [Next]_vars PROVE HistoryContinuous'
    OBVIOUS
  <1>1. CASE UNCHANGED <<world, segments>>
    BY <1>1 DEF HistoryContinuous, EndOf, BeginOf
  <1>2. ASSUME NEW c \in Calls, CommitRetime(c) PROVE HistoryContinuous'
    <2> DEFINE f == call[c].frozen
               n == Len(segments)
               a == call[c].anchor
    <2>1. /\ segments' = Append(segments, f) /\ world' = a
          /\ segments \in Seq(Segments) /\ f \in Segments /\ a \in Anchors /\ world \in Anchors
          /\ call[c].at = "committing"
      BY <1>2, CallTypes DEF CommitRetime, TypeOK
    <2>2. /\ f.fromGame = world.game /\ f.fromReal = world.real
          /\ f.toGame = a.game /\ f.toReal = a.real
          /\ a.game = GameMsAt(world, a.real) /\ a.real > world.real
      <3>1. /\ a.game = GameMsAt(world, a.real) /\ a.real > world.real
            /\ f = Frozen(world, a.real)
        BY <2>1 DEF Pending
      <3> HIDE DEF f, a
      <3>2. /\ f.fromGame = world.game /\ f.fromReal = world.real
            /\ f.toGame = GameMsAt(world, a.real) /\ f.toReal = a.real
        BY <3>1 DEF Frozen
      <3> QED
        BY <3>1, <3>2
    <2>3. world.game <= a.game
      <3>1. GameMsAt(world, world.real) <= GameMsAt(world, a.real)
        BY <2>1, <2>2, AnchorType, GameMsMonotone, SMT
      <3> QED
        BY <2>1, <2>2, <3>1, GameMsAtAnchor
    <2> HIDE DEF f, a
    <2>4. /\ n \in Nat /\ Len(segments') = n + 1 /\ DOMAIN segments' = 1 .. n + 1
          /\ segments'[n + 1] = f
          /\ \A i \in 1 .. n : segments'[i] = segments[i]
          /\ DOMAIN segments = 1 .. n
      BY <2>1, AppendProperties, LenProperties, SMT
    <2> HIDE DEF n
    <2>5. SUFFICES ASSUME NEW i \in 1 .. n + 1
                   PROVE  /\ EndOf(i)' = BeginOf(i + 1)'
                          /\ segments'[i].fromGame <= segments'[i].toGame
                          /\ segments'[i].fromReal < segments'[i].toReal
      BY <2>4 DEF HistoryContinuous, EndOf, BeginOf
    <2>6. CASE i = n + 1
      <3>1. BeginOf(i + 1)' = [game |-> a.game, real |-> a.real]
        BY <2>1, <2>4, <2>6, SMT DEF BeginOf
      <3>2. EndOf(i)' = [game |-> a.game, real |-> a.real]
        BY <2>2, <2>4, <2>6 DEF EndOf
      <3>3. f.fromGame <= f.toGame /\ f.fromReal < f.toReal
        BY <2>1, <2>2, <2>3, AnchorType, SMT
      <3> QED
        BY <2>4, <2>6, <3>1, <3>2, <3>3
    <2>7. CASE i \in 1 .. n
      <3>1. /\ EndOf(i) = BeginOf(i + 1)
            /\ segments[i].fromGame <= segments[i].toGame
            /\ segments[i].fromReal < segments[i].toReal
        BY <2>4, <2>7 DEF HistoryContinuous
      <3>2. EndOf(i)' = EndOf(i)
        BY <2>4, <2>7 DEF EndOf
      <3>3. BeginOf(i + 1)' = BeginOf(i + 1)
        <4>1. CASE i = n
          <5>1. BeginOf(i + 1) = [game |-> world.game, real |-> world.real]
            BY <2>4, <4>1, SMT DEF BeginOf, n
          <5>2. BeginOf(i + 1)' = [game |-> f.fromGame, real |-> f.fromReal]
            BY <2>4, <4>1, SMT DEF BeginOf
          <5> QED
            BY <2>2, <5>1, <5>2
        <4>2. CASE i # n
          <5>1. i + 1 \in 1 .. n
            BY <2>4, <2>7, <4>2, SMT
          <5>2. ~(i + 1 > Len(segments)) /\ ~(i + 1 > Len(segments'))
            BY <2>4, <5>1, SMT DEF n
          <5> QED
            BY <2>4, <5>1, <5>2 DEF BeginOf
        <4> QED
          BY <4>1, <4>2
      <3> QED
        BY <2>4, <2>7, <3>1, <3>2, <3>3
    <2> QED
      BY <2>4, <2>6, <2>7, SMT
  <1>3. ASSUME NEW c \in Calls, Retiming(c) PROVE HistoryContinuous'
    BY <1>1, <1>3, LockStarts
  <1> QED
    BY <1>1, <1>2, <1>3, Steps

-------------------------------------------------------------------------------
(* The readings on their way. *)

LEMMA CarriedStep == TypeOK /\ [Next]_vars => Carried' \subseteq Carried \cup {world}
  <1> SUFFICES ASSUME TypeOK, [Next]_vars PROVE Carried' \subseteq Carried \cup {world}
    OBVIOUS
  <1> DEFINE Rows == {call[c].row : c \in {d \in Calls : call[d].at = "selected"}}
             Frames == {socket[i] : i \in DOMAIN socket}
             Rest == {reply, dto} \ {NoAnchor}
  <1>1. Rows' \subseteq Rows \cup {world}
    <2>1. SUFFICES ASSUME NEW d \in Calls, call'[d].at = "selected"
                   PROVE  call'[d] = call[d] \/ call'[d].row = world
      OBVIOUS
    <2>2. ASSUME NEW c \in Calls, NEW s \in CallStates, call' = [call EXCEPT ![c] = s],
                 s.at = "selected" => s.row = world
          PROVE call'[d] = call[d] \/ call'[d].row = world
      BY <2>1, <2>2 DEF TypeOK
    <2>3. ASSUME NEW c \in Calls, Select(c) PROVE call'[d] = call[d] \/ call'[d].row = world
      <3> DEFINE s == [at |-> "selected", row |-> world]
      <3>1. s \in CallStates /\ s.row = world /\ call' = [call EXCEPT ![c] = s]
        BY <2>3, CallTypes DEF TypeOK, Select
      <3> HIDE DEF s
      <3> QED
        BY <2>2, <3>1
    <2>4. ASSUME NEW c \in Calls, Compute(c) \/ CommitRetime(c) \/ AbortRetime(c)
          PROVE call'[d] = call[d] \/ call'[d].row = world
      BY <2>2, <2>4, CallTypes DEF Compute, CommitRetime, AbortRetime
    <2>5. ASSUME NEW c \in Calls, Boot(c) PROVE call'[d] = call[d] \/ call'[d].row = world
      <3> DEFINE s == IF ApplyOnBoot /\ Rate(world) # Configured[HostOf[c]]
                      THEN [at |-> "retiming", rate |-> Configured[HostOf[c]]] ELSE Idle
      <3>1. s \in CallStates /\ s.at # "selected"
        BY CallTypes, ClockAssumption
      <3>2. call' = [call EXCEPT ![c] = s]
        BY <2>5 DEF Boot
      <3> HIDE DEF s
      <3> QED
        BY <2>2, <3>1, <3>2
    <2>6. ASSUME NEW c \in Calls, Retime(c) \/ RetimeOnBoot(c)
          PROVE call'[d] = call[d] \/ call'[d].row = world
      <3>1. Retiming(c)
        BY <2>6, CallTypes DEF TypeOK, Retime, RetimeOnBoot, Retiming
      <3>2. TypeOK' /\ call'[c].at = "committing" /\ \A e \in Calls \ {c} : call'[e] = call[e]
        <4>1. PICK r \in Rates : LockWorld(c, r)
          BY <3>1 DEF Retiming
        <4>2. TypeOK' /\ holder' = c
          BY <3>1, <4>1, LockWorldType DEF Retiming, LockWorld
        <4> QED
          BY <3>1, <4>2, LockStarts DEF TypeOK
      <3> QED
        BY <2>1, <3>2
    <2>7. ASSUME NEW h \in Hosts, Restart(h) PROVE call'[d] = call[d] \/ call'[d].row = world
      <3>1. PICK b \in Calls :
               call' = [c \in Calls |-> IF c = b THEN [at |-> "booting"]
                                       ELSE IF HostOf[c] = h THEN Idle ELSE call[c]]
        BY <2>7 DEF Restart
      <3> QED
        BY <2>1, <3>1, CallTypes
    <2>8. CASE UNCHANGED call
      BY <2>8
    <2>9. CASE Next
      BY <2>3, <2>4, <2>5, <2>6, <2>7, <2>8, <2>9
      DEF Next, Call, Tick, StepClock, Disconnect, ReceiveFrame, ReceiveReply, Mount, Unmount,
          TickInstance, server
    <2> QED
      BY <2>8, <2>9 DEF vars, server
  <1>2. Frames' \subseteq Carried
    <2>1. ASSUME NEW c \in Calls, Compute(c) PROVE Frames' \subseteq Carried
      <3>1. call[c].row \in Rows /\ call[c].row \in Anchors /\ socket \in Seq(Anchors)
        BY <2>1, CallTypes DEF TypeOK, Compute
      <3>2. CASE socket' = Append(socket, call[c].row)
        <4>1. \A i \in DOMAIN socket' : socket'[i] = call[c].row \/ socket'[i] \in Frames
          BY <3>1, <3>2, AppendProperties, LenProperties, SMT
        <4> QED
          BY <3>1, <4>1 DEF Carried
      <3> QED
        BY <2>1, <3>2 DEF Compute, Carried
    <2>2. CASE socket' = Tail(socket) /\ socket # <<>>
      <3>1. socket \in Seq(Anchors)
        BY DEF TypeOK
      <3>2. \A i \in DOMAIN socket' : socket'[i] \in Frames
        BY <2>2, <3>1, HeadTailProperties, LenProperties, SMT
      <3> QED
        BY <3>2 DEF Carried
    <2>3. CASE socket' = <<>>
      BY <2>3 DEF Carried
    <2>4. CASE UNCHANGED socket
      BY <2>4 DEF Carried
    <2>5. CASE Next
      BY <2>1, <2>2, <2>3, <2>4, <2>5
      DEF Next, Call, Tick, StepClock, Select, Retime, RetimeOnBoot, LockWorld, CommitRetime,
          AbortRetime, Boot, Restart, Disconnect, ReceiveFrame, ReceiveReply, Mount, Unmount,
          TickInstance, page
    <2> QED
      BY <2>4, <2>5 DEF vars
  <1>3. Rest' \subseteq Carried
    <2>1. ASSUME NEW c \in Calls, Compute(c) PROVE Rest' \subseteq Carried
      <3>1. call[c].row \in Rows /\ dto' = dto /\ (reply' = reply \/ reply' = call[c].row)
        BY <2>1 DEF Compute, page
      <3> QED
        BY <3>1 DEF Carried
    <2>2. CASE ReceiveFrame
      <3>1. Head(socket) \in Frames
        BY <2>2, HeadTailProperties, LenProperties, SMT DEF TypeOK, ReceiveFrame
      <3>2. dto' = Head(socket) /\ reply' = reply
        BY <2>2 DEF ReceiveFrame, ApplyClock
      <3> QED
        BY <3>1, <3>2 DEF Carried
    <2>3. CASE ReceiveReply
      BY <2>3 DEF ReceiveReply, ApplyClock, Carried
    <2>4. CASE UNCHANGED <<reply, dto>>
      BY <2>4 DEF Carried
    <2>5. CASE Next
      BY <2>1, <2>2, <2>3, <2>4, <2>5
      DEF Next, Call, Tick, StepClock, Select, Retime, RetimeOnBoot, LockWorld, CommitRetime,
          AbortRetime, Boot, Restart, Disconnect, Mount, Unmount, TickInstance, page
    <2> QED
      BY <2>4, <2>5 DEF vars, page
  <1> QED
    BY <1>1, <1>2, <1>3 DEF Carried

LEMMA CarriedType == TypeOK => Carried \subseteq Anchors
  <1> SUFFICES ASSUME TypeOK PROVE Carried \subseteq Anchors
    OBVIOUS
  <1>1. \A c \in Calls : call[c].at = "selected" => call[c].row \in Anchors
    BY CallTypes DEF TypeOK
  <1>2. \A i \in DOMAIN socket : socket[i] \in Anchors
    BY SMT DEF TypeOK
  <1> QED
    BY <1>1, <1>2 DEF Carried, TypeOK

\* What a step does to the anchor: it stays, or the next epoch begins.
LEMMA EpochStep ==
    ASSUME TypeOK, Pending, [Next]_vars
    PROVE  world' = world \/ world'.epoch = world.epoch + 1
  <1>1. ASSUME NEW c \in Calls, CommitRetime(c) PROVE world'.epoch = world.epoch + 1
    BY <1>1 DEF CommitRetime, Pending
  <1> QED
    BY <1>1, Steps, LockStarts

LEMMA InFlightStep == TypeOK /\ Pending /\ InFlight /\ [Next]_vars => InFlight'
  <1> SUFFICES ASSUME TypeOK, Pending, InFlight, [Next]_vars, NEW a \in Carried \cup {world}
               PROVE  a.epoch <= world'.epoch /\ (a.epoch = world'.epoch => a = world')
    BY CarriedStep DEF InFlight, Known
  <1>1. a \in Anchors /\ world \in Anchors
    BY CarriedType DEF TypeOK
  <1>2. a.epoch \in Nat /\ world.epoch \in Nat
    BY <1>1, AnchorType
  <1>3. a.epoch <= world.epoch /\ (a.epoch = world.epoch => a = world)
    BY <1>2, SMT DEF InFlight, Known
  <1> QED
    BY <1>2, <1>3, EpochStep, SMT

-------------------------------------------------------------------------------
(* Nobody is ahead of the world without a reason. *)

LEMMA PeakStep ==
    ASSUME TypeOK, Pending, GameNow <= peak, [Next]_vars
    PROVE  peak' >= peak /\ GameNow' <= peak'
  <1>1. real \in Int /\ world \in Anchors /\ peak \in Nat
    BY Clocks DEF TypeOK
  <1>2. CASE Tick
    <2>1. GameMsAt(world, real + 1) \in Nat
      BY <1>1, GameMsType, SMT
    <2>2. peak' >= peak /\ GameMsAt(world, real + 1) <= peak'
      BY <1>1, <1>2, <2>1, HigherType, SMT DEF Tick
    <2>3. GameNow' = GameMsAt(world, real + 1)
      BY <1>2 DEF Tick, server, GameNow, GameMsAt
    <2> QED
      BY <2>2, <2>3
  <1>3. ASSUME NEW c \in Calls, CommitRetime(c) PROVE peak' >= peak /\ GameNow' <= peak'
    <2>1. world' \in Anchors /\ real' = real
      BY <1>3, CallTypes DEF TypeOK, CommitRetime
    <2>2. GameMsAt(world', real) \in Nat
      BY <1>1, <2>1, GameMsType
    <2>3. peak' >= peak /\ GameMsAt(world', real) <= peak'
      <3> DEFINE g == GameMsAt(world', real)
      <3>1. peak' = Higher(peak, g)
        BY <1>3 DEF CommitRetime
      <3>2. g \in Nat
        BY <2>2
      <3> HIDE DEF g
      <3>3. peak \in Int
        BY <1>1, SMT
      <3>4. peak <= Higher(peak, g) /\ g <= Higher(peak, g)
        BY <3>2, <3>3, HigherType
      <3> QED
        BY <3>1, <3>4 DEF g
    <2>4. GameNow' = GameMsAt(world', real)
      BY <2>1 DEF GameNow, GameMsAt
    <2> QED
      BY <2>3, <2>4
  <1>4. CASE UNCHANGED <<real, world, peak>>
    BY <1>1, <1>4, SMT DEF GameNow, GameMsAt
  <1>5. CASE Next
    BY <1>2, <1>3, <1>4, <1>5
    DEF Next, Call, StepClock, Select, Compute, Retime, RetimeOnBoot, LockWorld, AbortRetime, Boot,
        Restart, Disconnect, ReceiveFrame, ReceiveReply, Mount, Unmount, TickInstance, server
  <1> QED
    BY <1>4, <1>5 DEF vars, server

HostsForAReason == \A h \in Hosts : HostAhead(h) => h \in led
ScreensForAReason == \A i \in Instances : ScreenAhead(i) => misled

\* A clock that is not fast tells nothing that the world has not reached.
LEMMA NotFast ==
    ASSUME TypeOK, GameNow <= peak, NEW p \in Walls, ~(skew[p] > 0)
    PROVE  GameMsAt(world, WallOf(p)) <= peak
  <1>1. world \in Anchors /\ real \in Int /\ WallOf(p) \in Int /\ WallOf(p) <= real /\ peak \in Nat
    BY Clocks, SMT DEF TypeOK, WallOf
  <1>2. /\ GameMsAt(world, WallOf(p)) <= GameMsAt(world, real)
        /\ GameMsAt(world, WallOf(p)) \in Nat /\ GameMsAt(world, real) \in Nat
    BY <1>1, GameMsMonotone, GameMsType
  <1> QED
    BY <1>1, <1>2, SMT DEF GameNow

\* A host hands out a reading.
LEMMA GuardedStep ==
    ASSUME TypeOK, HostsForAReason, NEW h \in Hosts, NEW a \in Anchors, NEW t \in Int,
           highWater' = [highWater EXCEPT ![h] = Guarded(h, a, t)],
           led \subseteq led', h \in led' \/ GameMsAt(a, t) <= peak, peak' = peak
    PROVE  HostsForAReason'
  <1>1. Guarded(h, a, t) \in {highWater[h], GameMsAt(a, t)}
    BY GuardedType
  <1>2. GameMsAt(a, t) \in Nat /\ peak \in Nat /\ highWater[h] \in Int
    BY GameMsType, SMT DEF TypeOK
  <1>3. highWater'[h] > peak => h \in led'
    <2>1. highWater'[h] = Guarded(h, a, t)
      BY DEF TypeOK
    <2>2. highWater[h] > peak => h \in led'
      BY DEF HostsForAReason, HostAhead
    <2> QED
      BY <1>1, <1>2, <2>1, <2>2, SMT
  <1>4. \A g \in Hosts \ {h} : highWater'[g] = highWater[g]
    BY DEF TypeOK
  <1> QED
    BY <1>3, <1>4 DEF HostsForAReason, HostAhead

LEMMA HostsStep ==
    ASSUME TypeOK, Pending, GameNow <= peak, HostsForAReason, [Next]_vars
    PROVE  HostsForAReason'
  <1>1. ASSUME NEW c \in Calls, Compute(c) PROVE HostsForAReason'
    <2> DEFINE h == HostOf[c]
               row == call[c].row
    <2>1. h \in Hosts /\ h \in Walls /\ row \in Anchors /\ WallOf(h) \in Int
      BY <1>1, CallTypes, Clocks, ClockAssumption DEF TypeOK, Compute
    <2>2. /\ highWater' = [highWater EXCEPT ![h] = Guarded(h, row, WallOf(h))]
          /\ led' = Astray(h, row) /\ peak' = peak
      BY <1>1 DEF Compute
    <2> HIDE DEF h, row
    <2>3. led \subseteq led' /\ (h \in led' \/ (row = world /\ ~(skew[h] > 0)))
      BY <2>2 DEF Astray
    <2>4. h \in led' \/ GameMsAt(row, WallOf(h)) <= peak
      BY <2>1, <2>3, NotFast
    <2> QED
      BY <2>1, <2>2, <2>3, <2>4, GuardedStep
  <1>2. ASSUME NEW c \in Calls, Boot(c) PROVE HostsForAReason'
    <2> DEFINE h == HostOf[c]
    <2>1. h \in Hosts /\ h \in Walls /\ world \in Anchors /\ WallOf(h) \in Int
      BY Clocks, ClockAssumption DEF TypeOK
    <2>2. /\ highWater' = [highWater EXCEPT ![h] = Guarded(h, world, WallOf(h))]
          /\ led' = Astray(h, world) /\ peak' = peak
      BY <1>2 DEF Boot
    <2> HIDE DEF h
    <2>3. led \subseteq led' /\ (h \in led' \/ ~(skew[h] > 0))
      BY <2>2 DEF Astray
    <2>4. h \in led' \/ GameMsAt(world, WallOf(h)) <= peak
      BY <2>1, <2>3, NotFast
    <2> QED
      BY <2>1, <2>2, <2>3, <2>4, GuardedStep
  <1>3. ASSUME NEW c \in Calls, Retime(c) \/ RetimeOnBoot(c) PROVE HostsForAReason'
    <2>1. PICK r \in Rates : LockWorld(c, r)
      BY <1>3, CallTypes DEF TypeOK, Retime, RetimeOnBoot
    <2> DEFINE h == HostOf[c]
               at == RetimeInstant(h)
               a == Reanchored(world, at, r)
    <2>2. h \in Hosts /\ at \in Int /\ world \in Anchors /\ world.real \in Int /\ real \in Int
      <3>1. h \in Hosts /\ WallOf(h) \in Int /\ real \in Int
        BY Clocks, ClockAssumption
      <3>2. world \in Anchors /\ world.real \in Int
        BY AnchorType DEF TypeOK
      <3>3. at \in {WallOf(h), world.real + 1}
        BY DEF RetimeInstant
      <3> HIDE DEF h, at
      <3> QED
        BY <3>1, <3>2, <3>3, SMT
    <2>3. /\ highWater' = [highWater EXCEPT ![h] = Guarded(h, a, at)]
          /\ led' = IF at > real THEN led \cup {h} ELSE led
          /\ peak' = peak
      BY <2>1 DEF LockWorld
    <2> HIDE DEF h, at
    <2>4. a \in Anchors /\ a.game = GameMsAt(world, at) /\ a.real = at
      BY <2>2, ReanchorType
    <2> HIDE DEF a
    <2>5. GameMsAt(a, at) = GameMsAt(world, at)
      BY <2>4, GameMsAtAnchor
    <2>6. at <= real => GameMsAt(world, at) <= GameMsAt(world, real)
      BY <2>2, GameMsMonotone
    <2>7. h \in led' \/ GameMsAt(a, at) <= peak
      <3>1. CASE at > real
        BY <2>3, <3>1
      <3>2. CASE at <= real
        <4>1. GameMsAt(world, at) \in Nat /\ GameMsAt(world, real) \in Nat /\ peak \in Nat
          BY <2>2, GameMsType DEF TypeOK
        <4> QED
          BY <2>5, <2>6, <3>2, <4>1, SMT DEF GameNow
      <3> QED
        BY <2>2, <3>1, <3>2, SMT
    <2>8. led \subseteq led'
      BY <2>3
    <2> QED
      BY <2>2, <2>3, <2>4, <2>7, <2>8, GuardedStep
  <1>4. ASSUME NEW h \in Hosts, Restart(h) PROVE HostsForAReason'
    <2>1. highWater' = [highWater EXCEPT ![h] = -1] /\ led' = led \ {h} /\ peak' = peak
      BY <1>4 DEF Restart
    <2>2. highWater'[h] = -1 /\ \A g \in Hosts \ {h} : highWater'[g] = highWater[g]
      BY <2>1 DEF TypeOK
    <2>3. ~(-1 > peak)
      BY SMT DEF TypeOK
    <2> QED
      BY <2>1, <2>2, <2>3 DEF HostsForAReason, HostAhead
  <1>5. CASE UNCHANGED <<highWater, led>>
    <2>1. peak' >= peak /\ peak \in Nat /\ peak' \in Nat
      BY PeakStep, TypeStep DEF TypeOK
    <2>2. \A h \in Hosts : highWater[h] \in Int
      BY SMT DEF TypeOK
    <2> QED
      BY <1>5, <2>1, <2>2, SMT DEF HostsForAReason, HostAhead
  <1>6. CASE Next
    BY <1>1, <1>2, <1>3, <1>4, <1>5, <1>6
    DEF Next, Call, Tick, StepClock, Select, CommitRetime, AbortRetime, Disconnect, ReceiveFrame,
        ReceiveReply, Mount, Unmount, TickInstance, server
  <1> QED
    BY <1>5, <1>6 DEF vars, server

LEMMA ReconciledBound ==
    ASSUME TypeOK, NEW s \in [on : BOOLEAN, game : Nat, ready : BOOLEAN], NEW a \in Anchors
    PROVE  /\ Reconciled(s, a).game <= Extrapolated(a) + Threshold
           /\ Ticked(s, a).game <= s.game \/ Ticked(s, a).game = Extrapolated(a)
  <1> DEFINE e == Extrapolated(a)
  <1>1. e \in Nat /\ Threshold \in Nat /\ s.game \in Nat
    BY ReconciledType, ClockAssumption
  <1>2. Ticked(s, a).game \in {s.game, e}
    BY ReconciledType
  <1> HIDE DEF e
  <1>3. CASE ~s.ready \/ Abs(e - s.game) > Threshold
    <2>1. Reconciled(s, a).game = e
      BY <1>3 DEF Reconciled, e
    <2> QED
      BY <1>1, <1>2, <2>1, SMT DEF e
  <1>4. CASE ~(~s.ready \/ Abs(e - s.game) > Threshold)
    <2>1. Reconciled(s, a) = Ticked(s, a)
      BY <1>4 DEF Reconciled, e
    <2>2. s.game <= e + Threshold
      BY <1>1, <1>4, SMT DEF Abs
    <2> QED
      BY <1>1, <1>2, <2>1, <2>2, SMT DEF e
  <1> QED
    BY <1>3, <1>4

\* What a reconciliation with the anchor in force shows.
LEMMA ReconciledWithWorld ==
    ASSUME TypeOK, GameNow <= peak, NEW s \in [on : BOOLEAN, game : Nat, ready : BOOLEAN],
           ~(skew[Page] > 0)
    PROVE  ~(Reconciled(s, world).game > peak + Threshold)
  <1>1. Extrapolated(world) <= peak
    BY Clocks, NotFast DEF Extrapolated
  <1>2. /\ Extrapolated(world) \in Nat /\ peak \in Nat /\ Threshold \in Nat
        /\ Reconciled(s, world).game \in Nat
        /\ Reconciled(s, world).game <= Extrapolated(world) + Threshold
    <2>1. Reconciled(s, world) \in [on : BOOLEAN, game : Nat, ready : BOOLEAN]
      BY ReconciledType DEF TypeOK
    <2>2. world \in Anchors /\ peak \in Nat
      BY DEF TypeOK
    <2> QED
      BY <2>1, <2>2, ReconciledType, ReconciledBound, ClockAssumption
  <1> QED
    BY <1>1, <1>2, SMT

LEMMA ApplyClockStep ==
    ASSUME TypeOK, GameNow <= peak, NEW a \in Anchors, Known(a), ApplyClock(a),
           UNCHANGED <<world, peak>>
    PROVE  ScreensForAReason'
  <1>1. SUFFICES ASSUME NEW i \in Instances, screen'[i].on, a.epoch = world.epoch,
                        ~(skew[Page] > 0)
                 PROVE  ~(screen'[i].game > peak + Threshold)
    BY DEF ApplyClock, ScreensForAReason, ScreenAhead
  <1>2. a = world
    BY <1>1 DEF Known
  <1>3. screen'[i] = IF screen[i].on THEN Reconciled(screen[i], a) ELSE screen[i]
    BY DEF ApplyClock
  <1>4. screen[i] \in [on : BOOLEAN, game : Nat, ready : BOOLEAN]
    BY DEF TypeOK
  <1>5. screen'[i] = Reconciled(screen[i], world)
    BY <1>1, <1>2, <1>3
  <1> QED
    BY <1>1, <1>4, <1>5, ReconciledWithWorld

LEMMA ScreensStep ==
    ASSUME TypeOK, Pending, GameNow <= peak, InFlight, ScreensForAReason, [Next]_vars
    PROVE  ScreensForAReason'
  <1>1. CASE ReceiveFrame
    <2>1. Head(socket) \in {socket[i] : i \in DOMAIN socket} /\ Head(socket) \in Anchors
      BY <1>1, HeadTailProperties, LenProperties, SMT DEF TypeOK, ReceiveFrame
    <2>2. Known(Head(socket))
      BY <2>1 DEF InFlight, Carried
    <2> QED
      BY <1>1, <2>1, <2>2, ApplyClockStep DEF ReceiveFrame, server
  <1>2. CASE ReceiveReply
    <2>1. Known(reply) /\ reply \in Anchors
      BY <1>2 DEF InFlight, Carried, TypeOK, ReceiveReply
    <2> QED
      BY <1>2, <2>1, ApplyClockStep DEF ReceiveReply, server
  <1>3. ASSUME NEW j \in Instances, Mount(j) PROVE ScreensForAReason'
    <2> DEFINE fresh == [on |-> TRUE, game |-> display, ready |-> FALSE]
    <2>1. UNCHANGED <<world, dto, peak>> /\ misled' = (misled \/ (dto # NoAnchor /\ skew[Page] > 0))
      BY <1>3 DEF Mount, server
    <2>2. SUFFICES ASSUME NEW i \in Instances, ScreenAhead(i)', ~misled' PROVE FALSE
      BY DEF ScreensForAReason
    <2>3. CASE i # j
      <3>1. screen'[i] = screen[i]
        BY <1>3, <2>3 DEF Mount, TypeOK
      <3> QED
        BY <2>1, <2>2, <3>1 DEF ScreensForAReason, ScreenAhead
    <2>4. CASE i = j
      <3>1. dto # NoAnchor /\ dto \in Anchors /\ dto.epoch = world.epoch /\ ~(skew[Page] > 0)
        BY <2>1, <2>2 DEF ScreenAhead, TypeOK
      <3>2. dto = world
        BY <3>1 DEF InFlight, Carried, Known
      <3>3. screen'[i] = Reconciled(fresh, world)
        BY <1>3, <2>4, <3>1, <3>2 DEF Mount, TypeOK
      <3>4. fresh \in [on : BOOLEAN, game : Nat, ready : BOOLEAN]
        BY DEF TypeOK
      <3> HIDE DEF fresh
      <3>5. ~(Reconciled(fresh, world).game > peak + Threshold)
        BY <3>1, <3>4, ReconciledWithWorld
      <3> QED
        BY <2>1, <2>2, <3>3, <3>5 DEF ScreenAhead
    <2> QED
      BY <2>3, <2>4
  <1>4. ASSUME NEW j \in Instances, Unmount(j) PROVE ScreensForAReason'
    <2>1. UNCHANGED <<world, dto, peak, misled>>
      BY <1>4 DEF Unmount, server
    <2>2. \A i \in Instances : screen'[i] = screen[i] \/ ~screen'[i].on
      BY <1>4 DEF Unmount, TypeOK
    <2> QED
      BY <2>1, <2>2 DEF ScreensForAReason, ScreenAhead
  <1>5. ASSUME NEW j \in Instances, TickInstance(j) PROVE ScreensForAReason'
    <2>1. UNCHANGED <<world, dto, peak>> /\ misled' = (misled \/ skew[Page] > 0) /\ dto # NoAnchor
      BY <1>5 DEF TickInstance, server
    <2>2. SUFFICES ASSUME NEW i \in Instances, ScreenAhead(i)', ~misled' PROVE FALSE
      BY DEF ScreensForAReason
    <2>3. CASE i # j
      <3>1. screen'[i] = screen[i]
        BY <1>5, <2>3 DEF TickInstance, TypeOK
      <3> QED
        BY <2>1, <2>2, <3>1 DEF ScreensForAReason, ScreenAhead
    <2>4. CASE i = j
      <3>1. dto \in Anchors /\ dto.epoch = world.epoch /\ ~(skew[Page] > 0) /\ ~misled
        BY <2>1, <2>2 DEF ScreenAhead, TypeOK
      <3>2. dto = world
        BY <2>1, <3>1 DEF InFlight, Carried, Known
      <3>3. screen'[i] = Ticked(screen[i], world)
        BY <1>5, <2>4, <3>2 DEF TickInstance, TypeOK
      <3>4. screen[i] \in [on : BOOLEAN, game : Nat, ready : BOOLEAN] /\ world \in Anchors
        BY DEF TypeOK
      <3>5. /\ Ticked(screen[i], world) \in [on : BOOLEAN, game : Nat, ready : BOOLEAN]
            /\ Ticked(screen[i], world).on = screen[i].on
            /\ Ticked(screen[i], world).game \in {screen[i].game, Extrapolated(world)}
        BY <3>4, ReconciledType
      <3>6. ~(screen[i].game > peak + Threshold)
        BY <2>1, <2>2, <3>1, <3>3, <3>5 DEF ScreensForAReason, ScreenAhead
      <3>7. Extrapolated(world) <= peak /\ Extrapolated(world) \in Nat /\ peak \in Nat /\ Threshold \in Nat
        BY <3>1, <3>4, Clocks, NotFast, ReconciledType, ClockAssumption DEF Extrapolated, TypeOK
      <3>8. screen[i].game \in Nat
        BY <3>4
      <3>9. ~(Ticked(screen[i], world).game > peak + Threshold)
        BY <3>5, <3>6, <3>7, <3>8, SMT
      <3> QED
        BY <2>1, <2>2, <3>3, <3>9 DEF ScreenAhead
    <2> QED
      BY <2>3, <2>4
  <1>6. CASE UNCHANGED <<dto, screen, misled>>
    <2>1. SUFFICES ASSUME NEW i \in Instances, ScreenAhead(i)' PROVE misled
      BY <1>6 DEF ScreensForAReason
    <2>2. dto # NoAnchor /\ screen[i].on /\ screen[i].game > peak' + Threshold /\ dto.epoch = world'.epoch
      BY <1>6, <2>1 DEF ScreenAhead
    <2>3. dto.epoch = world.epoch
      <3>1. dto \in Anchors /\ world \in Anchors /\ dto.epoch <= world.epoch
        BY <2>2 DEF TypeOK, InFlight, Carried, Known
      <3>2. dto.epoch \in Nat /\ world.epoch \in Nat
        BY <3>1, AnchorType
      <3> QED
        BY <2>2, <3>1, <3>2, EpochStep, SMT
    <2>4. peak' >= peak /\ peak \in Nat /\ peak' \in Nat /\ Threshold \in Nat
      BY PeakStep, TypeStep, ClockAssumption DEF TypeOK
    <2>5. screen[i].game \in Nat
      BY DEF TypeOK
    <2>6. screen[i].game > peak + Threshold
      BY <2>2, <2>4, <2>5, SMT
    <2> QED
      BY <2>2, <2>3, <2>6 DEF ScreensForAReason, ScreenAhead
  <1>7. CASE Next
    BY <1>1, <1>2, <1>3, <1>4, <1>5, <1>6, <1>7
    DEF Next, Call, Tick, StepClock, Select, Compute, Retime, RetimeOnBoot, LockWorld, CommitRetime,
        AbortRetime, Boot, Restart, Disconnect, page
  <1> QED
    BY <1>6, <1>7 DEF vars, page

-------------------------------------------------------------------------------
(* The theorems. *)

LEMMA Initially == Init => IInv
  <1> SUFFICES ASSUME Init PROVE IInv
    OBVIOUS
  <1>1. TypeOK
    BY TypeInit
  <1>2. \A c \in Calls : call[c].at = "idle"
    BY CallTypes DEF Init
  <1>3. Pending
    BY <1>2 DEF Pending
  <1>4. HistoryContinuous
    BY DEF Init, HistoryContinuous
  <1>5. InFlight
    BY <1>2 DEF Init, InFlight, Carried
  <1>6. GameNow <= peak
    <2>1. GameMsAt(world, world.real) = world.game /\ world.real = 0 /\ world.game = 0
      BY <1>1, GameMsAtAnchor DEF Init, TypeOK
    <2> QED
      BY <2>1, SMT DEF Init, GameNow
  <1>7. AheadForAReason
    <2>1. \A h \in Hosts : ~HostAhead(h)
      BY SMT DEF Init, HostAhead
    <2> QED
      BY <2>1 DEF Init, AheadForAReason, ScreenAhead
  <1> QED
    BY <1>1, <1>3, <1>4, <1>5, <1>6, <1>7 DEF IInv

LEMMA Inductive == IInv /\ [Next]_vars => IInv'
  <1> SUFFICES ASSUME IInv, [Next]_vars PROVE IInv'
    OBVIOUS
  <1>1. TypeOK /\ Pending /\ HistoryContinuous /\ InFlight /\ GameNow <= peak
    BY DEF IInv
  <1>2. HostsForAReason /\ ScreensForAReason
    BY DEF IInv, AheadForAReason, HostsForAReason, ScreensForAReason
  <1>3. TypeOK' /\ Pending' /\ HistoryContinuous' /\ InFlight' /\ GameNow' <= peak'
    BY <1>1, TypeStep, PendingStep, HistoryStep, InFlightStep, PeakStep
  <1>4. HostsForAReason' /\ ScreensForAReason'
    BY <1>1, <1>2, HostsStep, ScreensStep
  <1>5. AheadForAReason'
    BY <1>4 DEF AheadForAReason, HostsForAReason, ScreensForAReason
  <1> QED
    BY <1>3, <1>5 DEF IInv

LEMMA Invariant == Spec => []IInv
  BY Initially, Inductive, PTL DEF Spec

\* Every variable stays within its type (the row, its history, the calls of the hosts, the page).
THEOREM TypeCorrect == Spec => []TypeOK
  <1>1. IInv => TypeOK
    BY DEF IInv
  <1> QED
    BY <1>1, Invariant, PTL

\* The history of the world has neither a hole nor an overlap, for any number of hosts that retime
\* it at the same time with clocks that are wrong by any amount (retimeWorld).
THEOREM HistoryIsContinuous == Spec => []HistoryContinuous
  <1>1. IInv => HistoryContinuous
    BY DEF IInv
  <1> QED
    BY <1>1, Invariant, PTL

\* A host that hands out an instant the world has not reached has a fast clock or was retimed under
\* its reading; a player who is shown one, by more than the threshold and with the anchor in force,
\* has a device whose clock is fast (guardMonotonic, reconcile, tick).
THEOREM AheadOnlyForAReason == Spec => []AheadForAReason
  <1>1. IInv => AheadForAReason
    BY DEF IInv
  <1> QED
    BY <1>1, Invariant, PTL
===============================================================================
