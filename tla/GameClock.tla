----------------------------- MODULE GameClock -----------------------------
(* The clock of the world and what its readers make of it
   (lib/gameClock.ts, shared/rules/clock.ts, plugins/ws.ts, stores/clock.ts,
   composables/useGameClock.ts).

   One row of the database says which game instant belongs to which real
   instant and at which rational rate game time runs from there.  A host reads
   the row in one step and its own wall clock in a later one; an operator
   re-anchors the row under its lock, with the wall clock of his host, and the
   change is seen when the transaction commits.  Readings travel to the page as
   frames of the socket and as replies of REST calls, and the page extrapolates
   from the anchor with its own wall clock, once per component that asks.

   Time is real time; a wall clock is real time plus a skew that a step of the
   clock changes.  The alarms a retiming reschedules are in EventSchedule.    *)
EXTENDS Integers, Sequences, FiniteSets

CONSTANTS Hosts,          \* server and worker processes
          Calls,          \* what a process does with the clock, several at a time
          HostOf,         \* the process of each call
          Page,           \* the browser, as the owner of a wall clock
          Instances,      \* components of the page that call useGameClock
          Rates,          \* [num, den], num = 0 being a paused world
          InitialRate,    \* the rate the world was seeded with
          Configured,     \* the rate in the environment of each host
          ApplyOnBoot,    \* GAME_RATE_APPLY_ON_BOOT
          Threshold,      \* CLOCK_RESYNC_THRESHOLD_GAME_MS
          NoAnchor,       \* the page before its first reading
          None,           \* nobody holds the row
          MaxReal, MaxEpoch, MaxSkew, MaxFrames,
          MaxTroubles     \* bound: steps of clocks, restarts and lost connections together

Anchors == [game : Nat, real : Int, num : Nat, den : Nat \ {0}, epoch : Nat]

ASSUME ClockAssumption ==
    /\ HostOf \in [Calls -> Hosts]
    /\ Rates \subseteq [num : Nat, den : Nat \ {0}]
    /\ InitialRate \in Rates /\ Configured \in [Hosts -> Rates]
    /\ ApplyOnBoot \in BOOLEAN /\ Threshold \in Nat
    /\ Page \notin Hosts /\ None \notin Calls /\ NoAnchor \notin Anchors
    /\ {MaxReal, MaxEpoch, MaxSkew, MaxFrames, MaxTroubles} \subseteq Nat

Segments == [fromGame : Nat, toGame : Nat, fromReal : Int, toReal : Int]
Walls == Hosts \cup {Page}

VARIABLES real,      \* true time
          skew,      \* what each wall clock is off by
          world,     \* the anchor in the row of the world, as committed
          segments,  \* world_time_segments
          holder,    \* the call whose transaction has locked the row
          call,      \* where each call is
          highWater, \* highWaterMark of each process, -1 before its first reading
          socket,    \* readings of HELLO and CLOCK frames, in order
          reply,     \* the reading of a snapshot under way
          dto,       \* store.dto: the anchor the page extrapolates from
          display,   \* store.displayGameMs
          screen,    \* the instances of useGameClock
          troubles,  \* steps of clocks, restarts and lost connections so far
          peak,      \* history: the latest the clock of the world has been
          led,       \* history: hosts a fast clock or a retiming has led astray
          misled     \* history: the page has extrapolated with a fast clock
                     \* since it last compared itself with a reading

server == <<world, segments, holder, call, highWater, led>>
page == <<dto, display, screen, misled>>
vars == <<real, skew, server, socket, reply, page, troubles, peak>>

-----------------------------------------------------------------------------
\* The arithmetic of shared/rules/clock.ts.

FloorDiv(a, b) == a \div b
CeilDiv(a, b) == -((-a) \div b)
NoLess(x) == IF x <= 0 THEN 0 ELSE x

GameMsAt(a, at) == NoLess(a.game + FloorDiv((at - a.real) * a.num, a.den))

RealMsFor(a, game) == NoLess(a.real + CeilDiv((game - a.game) * a.den, a.num))

Reanchored(a, at, rate) ==
    [game |-> GameMsAt(a, at), real |-> at, num |-> rate.num, den |-> rate.den,
     epoch |-> a.epoch + 1]

Frozen(a, at) ==
    [fromGame |-> a.game, toGame |-> GameMsAt(a, at), fromReal |-> a.real, toReal |-> at]

-----------------------------------------------------------------------------
Idle == [at |-> "idle"]
Rate(a) == [num |-> a.num, den |-> a.den]
GameNow == GameMsAt(world, real)
WallOf(p) == real + skew[p]
Higher(a, b) == IF a >= b THEN a ELSE b

CallStates ==
    [at : {"idle", "booting"}]
        \cup [at : {"selected"}, row : Anchors]
        \cup [at : {"retiming"}, rate : Rates]
        \cup [at : {"committing"}, anchor : Anchors, frozen : Segments]

TypeOK ==
    /\ real \in 0 .. MaxReal /\ skew \in [Walls -> -MaxSkew .. MaxSkew]
    /\ world \in Anchors
    /\ segments \in Seq(Segments) /\ Len(segments) = world.epoch
    /\ holder \in Calls \cup {None} /\ call \in [Calls -> CallStates]
    /\ \A c \in Calls : holder = c <=> call[c].at = "committing"
    /\ highWater \in [Hosts -> Nat \cup {-1}]
    /\ socket \in Seq(Anchors) /\ Len(socket) <= MaxFrames
    /\ reply \in Anchors \cup {NoAnchor} /\ dto \in Anchors \cup {NoAnchor}
    /\ display \in Nat
    /\ screen \in [Instances -> [on : BOOLEAN, game : Nat, ready : BOOLEAN]]
    /\ troubles \in 0 .. MaxTroubles
    /\ peak \in Nat /\ led \subseteq Hosts /\ misled \in BOOLEAN

Init ==
    /\ real = 0 /\ skew = [p \in Walls |-> 0]
    /\ world = [game |-> 0, real |-> 0, num |-> InitialRate.num, den |-> InitialRate.den,
                epoch |-> 0]
    /\ segments = <<>> /\ holder = None
    /\ call = [c \in Calls |-> Idle] /\ highWater = [h \in Hosts |-> -1]
    /\ socket = <<>> /\ reply = NoAnchor
    /\ dto = NoAnchor /\ display = 0
    /\ screen = [i \in Instances |-> [on |-> FALSE, game |-> 0, ready |-> FALSE]]
    /\ troubles = 0
    /\ peak = 0 /\ led = {} /\ misled = FALSE

\* Time passes; the clock of the world follows from its anchor.
Tick ==
    /\ real < MaxReal /\ real' = real + 1
    /\ peak' = Higher(peak, GameMsAt(world, real + 1))
    /\ UNCHANGED <<skew, server, socket, reply, page, troubles>>

Trouble == troubles < MaxTroubles /\ troubles' = troubles + 1

\* A wall clock is corrected, or goes wrong.
StepClock(p) ==
    /\ Trouble
    /\ \E s \in -MaxSkew .. MaxSkew : s # skew[p] /\ skew' = [skew EXCEPT ![p] = s]
    /\ UNCHANGED <<real, server, socket, reply, page, peak>>

-----------------------------------------------------------------------------
\* A call of a host.

\* The first half of a reading: the row of the world.
Select(c) ==
    /\ call[c].at = "idle"
    /\ call' = [call EXCEPT ![c] = [at |-> "selected", row |-> world]]
    /\ UNCHANGED <<real, skew, world, segments, holder, highWater, led,
                   socket, reply, page, troubles, peak>>

\* What a host hands out for a row: never less than it has handed out before.
Guarded(h, row, at) == Higher(highWater[h], GameMsAt(row, at))

\* A reading that may be ahead of the world: the clock of the host was, or the row has changed
\* since it was read.
Astray(h, row) == IF skew[h] > 0 \/ row # world THEN led \cup {h} ELSE led

\* The second half: now(), the guard, and the reading goes out as a frame, or with a snapshot, or
\* serves only the host.
Compute(c) ==
    /\ call[c].at = "selected"
    /\ LET h == HostOf[c]
       IN /\ highWater' = [highWater EXCEPT ![h] = Guarded(h, call[c].row, WallOf(h))]
          /\ led' = Astray(h, call[c].row)
    /\ \/ Len(socket) < MaxFrames /\ socket' = Append(socket, call[c].row) /\ UNCHANGED reply
       \/ reply = NoAnchor /\ reply' = call[c].row /\ UNCHANGED socket
       \/ UNCHANGED <<socket, reply>>
    /\ call' = [call EXCEPT ![c] = Idle]
    /\ UNCHANGED <<real, skew, world, segments, holder, page, troubles, peak>>

\* The instant of a retiming: after the anchor it replaces, whatever the clock says.
RetimeInstant(h) == IF WallOf(h) > world.real THEN WallOf(h) ELSE world.real + 1

LockWorld_Unlocked(c, rate) ==
    /\ holder' = c
    /\ LET h == HostOf[c]
           at == RetimeInstant(h)
           anchor == Reanchored(world, at, rate)
       IN /\ call' = [call EXCEPT ![c] = [at |-> "committing", anchor |-> anchor,
                                          frozen |-> Frozen(world, at)]]
          /\ highWater' = [highWater EXCEPT ![h] = Guarded(h, anchor, at)]
          /\ led' = IF at > real THEN led \cup {h} ELSE led
    /\ UNCHANGED <<real, skew, world, segments, socket, reply, page, troubles, peak>>

\* retimeWorld, under the lock of the row: the segment that ends, the new anchor, and the reading
\* of the anchor that the caller gets, taken before the commit.
LockWorld(c, rate) ==
    /\ holder = None
    /\ holder' = c
    /\ LET h == HostOf[c]
           at == RetimeInstant(h)
           anchor == Reanchored(world, at, rate)
       IN /\ call' = [call EXCEPT ![c] = [at |-> "committing", anchor |-> anchor,
                                          frozen |-> Frozen(world, at)]]
          /\ highWater' = [highWater EXCEPT ![h] = Guarded(h, anchor, at)]
          /\ led' = IF at > real THEN led \cup {h} ELSE led
    /\ UNCHANGED <<real, skew, world, segments, socket, reply, page, troubles, peak>>

\* POST /api/dev/retime, or the start of a host that is told to apply its configuration.
Retime(c) ==
    /\ call[c].at = "idle" /\ world.epoch < MaxEpoch
    /\ \E r \in Rates : LockWorld(c, r)
RetimeOnBoot(c) == call[c].at = "retiming" /\ LockWorld(c, call[c].rate)

CommitRetime(c) ==
    /\ call[c].at = "committing"
    /\ world' = call[c].anchor /\ segments' = Append(segments, call[c].frozen)
    /\ holder' = None
    /\ peak' = Higher(peak, GameMsAt(world', real))
    /\ call' = [call EXCEPT ![c] = Idle]
    /\ UNCHANGED <<real, skew, highWater, led, socket, reply, page, troubles>>

\* The transaction fails: nothing of it stays but the mark.
AbortRetime(c) ==
    /\ Trouble /\ call[c].at = "committing"
    /\ holder' = None /\ call' = [call EXCEPT ![c] = Idle]
    /\ UNCHANGED <<real, skew, world, segments, highWater, led, socket, reply, page, peak>>

\* A process ends and starts again: the mark was in its memory, its calls are gone and a
\* transaction of theirs is rolled back.
Restart(h) ==
    /\ Trouble
    /\ \E b \in Calls :
         /\ HostOf[b] = h
         /\ call' = [c \in Calls |-> IF c = b THEN [at |-> "booting"]
                                     ELSE IF HostOf[c] = h THEN Idle ELSE call[c]]
    /\ highWater' = [highWater EXCEPT ![h] = -1] /\ led' = led \ {h}
    /\ holder' = IF holder # None /\ HostOf[holder] = h THEN None ELSE holder
    /\ UNCHANGED <<real, skew, world, segments, socket, reply, page, peak>>

\* verifyOnStartup: the persisted rate wins, unless the configuration is told to.
Boot(c) ==
    /\ call[c].at = "booting"
    /\ LET h == HostOf[c]
       IN /\ highWater' = [highWater EXCEPT ![h] = Guarded(h, world, WallOf(h))]
          /\ led' = Astray(h, world)
          /\ call' = [call EXCEPT ![c] =
                         IF ApplyOnBoot /\ Rate(world) # Configured[h]
                         THEN [at |-> "retiming", rate |-> Configured[h]] ELSE Idle]
    /\ UNCHANGED <<real, skew, world, segments, holder, socket, reply, page, troubles, peak>>

-----------------------------------------------------------------------------
\* The page.

\* The connection breaks: what was on its way is lost.  The next HELLO is a reading like any other.
Disconnect ==
    /\ Trouble
    /\ socket # <<>> /\ socket' = <<>>
    /\ UNCHANGED <<real, skew, server, reply, page, peak>>

Running == {i \in Instances : screen[i].on}
Extrapolated(a) == GameMsAt(a, WallOf(Page))
Abs(x) == IF x < 0 THEN -x ELSE x

\* tick of an instance: the clock never goes backwards.
Ticked(s, a) == [s EXCEPT !.game = Higher(@, Extrapolated(a))]

Reconciled_OnlyForward(s, a) ==
    IF ~s.ready \/ Extrapolated(a) - s.game > Threshold
    THEN [on |-> s.on, game |-> Extrapolated(a), ready |-> TRUE]
    ELSE Ticked(s, a)

\* reconcile: a first reading sets the clock, a distant one moves it, any other is a tick.
Reconciled(s, a) ==
    IF ~s.ready \/ Abs(Extrapolated(a) - s.game) > Threshold
    THEN [on |-> s.on, game |-> Extrapolated(a), ready |-> TRUE]
    ELSE Ticked(s, a)

ApplyClock_Unwatched(a) ==
    /\ dto' = a
    /\ screen' = [i \in Instances |-> IF screen[i].on /\ ~screen[i].ready
                                     THEN Reconciled(screen[i], a) ELSE screen[i]]
    /\ IF Running = {} THEN UNCHANGED display
       ELSE \E i \in Running : display' = screen'[i].game
    /\ misled' = (skew[Page] > 0)

\* applyClock, and at once the watchers of the instances; the last of them leaves its value in the
\* store.
ApplyClock(a) ==
    /\ dto' = a
    /\ screen' = [i \in Instances |-> IF screen[i].on THEN Reconciled(screen[i], a) ELSE screen[i]]
    /\ IF Running = {} THEN UNCHANGED display
       ELSE \E i \in Running : display' = screen'[i].game
    /\ misled' = (skew[Page] > 0)

ReceiveFrame ==
    /\ socket # <<>> /\ ApplyClock(Head(socket)) /\ socket' = Tail(socket)
    /\ UNCHANGED <<real, skew, server, reply, troubles, peak>>

ReceiveReply ==
    /\ reply # NoAnchor /\ ApplyClock(reply) /\ reply' = NoAnchor
    /\ UNCHANGED <<real, skew, server, socket, troubles, peak>>

\* A component is mounted: it starts from the store, and from the anchor when there is one.
Mount(i) ==
    /\ ~screen[i].on
    /\ LET fresh == [on |-> TRUE, game |-> display, ready |-> FALSE]
           s == IF dto = NoAnchor THEN fresh ELSE Reconciled(fresh, dto)
       IN screen' = [screen EXCEPT ![i] = s] /\ display' = s.game
    /\ misled' = (misled \/ (dto # NoAnchor /\ skew[Page] > 0))
    /\ UNCHANGED <<real, skew, server, socket, reply, dto, troubles, peak>>

Unmount(i) ==
    /\ screen[i].on
    /\ screen' = [screen EXCEPT ![i] = [on |-> FALSE, game |-> 0, ready |-> FALSE]]
    /\ UNCHANGED <<real, skew, server, socket, reply, dto, display, misled, troubles, peak>>

\* The interval of an instance.
TickInstance(i) ==
    /\ screen[i].on /\ dto # NoAnchor
    /\ screen' = [screen EXCEPT ![i] = Ticked(@, dto)]
    /\ display' = screen'[i].game
    /\ misled' = (misled \/ skew[Page] > 0)
    /\ UNCHANGED <<real, skew, server, socket, reply, dto, troubles, peak>>

-----------------------------------------------------------------------------
Call(c) ==
    \/ Select(c) \/ Compute(c)
    \/ Retime(c) \/ RetimeOnBoot(c) \/ CommitRetime(c) \/ AbortRetime(c)
    \/ Boot(c)

Next ==
    \/ Tick
    \/ \E p \in Walls : StepClock(p)
    \/ \E c \in Calls : Call(c)
    \/ \E h \in Hosts : Restart(h)
    \/ Disconnect \/ ReceiveFrame \/ ReceiveReply
    \/ \E i \in Instances : Mount(i) \/ Unmount(i) \/ TickInstance(i)

Spec == Init /\ [][Next]_vars

\* The timer of the CLOCK frames keeps firing on a host that is up (ws.ts:202-230) and its frames
\* arrive; a transaction that holds the row ends, and one that waits for it gets it; the interval
\* of a mounted component keeps firing.
SendClock(c) == Compute(c) /\ socket' # socket
FairSpec ==
    /\ Spec
    /\ WF_vars(\E c \in Calls : Select(c) \/ Compute(c)) /\ SF_vars(\E c \in Calls : SendClock(c))
    /\ WF_vars(\E c \in Calls : CommitRetime(c) \/ Boot(c))
    /\ SF_vars(\E c \in Calls : RetimeOnBoot(c))
    /\ WF_vars(ReceiveFrame) /\ WF_vars(ReceiveReply)
    /\ \A i \in Instances : WF_vars(TickInstance(i))
-----------------------------------------------------------------------------
(* Properties *)

\* No game instant is skipped or told twice: each segment of the history begins where the one
\* before it ended, the anchor in force where the last one ended, and real time advances in all
\* of them, whoever retimes the world at the same time and however wrong his clock is
\* (retimeWorld; the trigger world_anchor_trg asks for it of each update alone).
EndOf(i) == [game |-> segments[i].toGame, real |-> segments[i].toReal]
BeginOf(i) == IF i > Len(segments) THEN [game |-> world.game, real |-> world.real]
              ELSE [game |-> segments[i].fromGame, real |-> segments[i].fromReal]
HistoryContinuous ==
    \A i \in DOMAIN segments :
        /\ EndOf(i) = BeginOf(i + 1)
        /\ segments[i].fromGame <= segments[i].toGame
        /\ segments[i].fromReal < segments[i].toReal

\* Nobody is told of a game instant the world has not reached: not a host, unless its clock is
\* fast or the world was retimed under its reading, and not the player by more than the threshold
\* once the page has the anchor in force, unless the clock of the device is fast (guardMonotonic,
\* reconcile).
HostAhead(h) == highWater[h] > peak
ScreenAhead(i) == /\ screen[i].on /\ dto # NoAnchor /\ dto.epoch = world.epoch
                  /\ screen[i].game > peak + Threshold
AheadForAReason ==
    /\ \A h \in Hosts : HostAhead(h) => h \in led
    /\ \A i \in Instances : ScreenAhead(i) => misled

\* A clock on the screen that is wrong, because it missed frames or the world was retimed, comes
\* back within the threshold by itself as long as the device keeps time (tick, reconcile).
Close(i) == Abs(screen[i].game - GameNow) <= Threshold
Resyncs ==
    \A i \in Instances :
        screen[i].on ~> (~screen[i].on \/ skew[Page] # 0 \/ Close(i))

\* Refuted: "the anchor moves to the current game instant so that nothing is rewound or skipped"
\* (rules/clock.ts:148); the instant is read before the commit that makes it the anchor.
NothingRewound == GameNow >= peak

\* Refuted: a wrong clock of the device is "moved to the server value" (useGameClock.ts:15).
ServerTimeWins ==
    \A i \in Instances : screen[i].on ~> (~screen[i].on \/ Close(i))

\* Refuted: "the clock never goes backwards" between two readings, and several instances "all read
\* the same anchor from the store and write the same value" (useGameClock.ts:80 and 56).
NeverBackwards == [][dto' = dto => display' >= display]_vars
=============================================================================
