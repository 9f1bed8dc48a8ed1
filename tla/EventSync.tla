------------------------------ MODULE EventSync ------------------------------
(***************************************************************************)
(* How the state of one player reaches the browser: the event log in       *)
(* PostgreSQL (game_events, eventSeq), the replay ring and the channel in  *)
(* Redis, the WebSocket, the replies of mutating routes, and the reducer   *)
(* of the client with its mark and its two resynchronisation rungs.        *)
(*                                                                         *)
(* The k-th event of the log is a full replacement of one entity, so the   *)
(* state of an entity is the number of the last event that wrote it, and   *)
(* the client has missed event k when it holds an older state of that      *)
(* entity.                                                                 *)
(***************************************************************************)
EXTENDS Integers, Sequences, FiniteSets, SequencesExt

CONSTANTS
    Entities,
    Callers,        \* mutating requests of this client
    Others,         \* queue workers and advancing reads: no reply with a sequence
    RingCapacity,   \* RING_CAPACITY, which is also the page of a replay
    MaxLive,        \* MAX_LIVE_FRAMES_PER_FLUSH
    MaxAdvance,     \* bound: events one advance emits
    MaxBody,        \* bound: events the body of one request emits
    MaxSeq,         \* bound: events in the log
    MaxClocks,      \* bound: clock frames in the socket
    MaxFaults       \* bound: failed effects, crashes, losses and disconnections

ASSUME SyncAssumption ==
    /\ Callers \cap Others = {}
    /\ RingCapacity \in Nat \ {0} /\ MaxLive \in Nat \ {0}
    /\ MaxAdvance \in Nat /\ MaxBody \in Nat /\ MaxSeq \in Nat
    /\ MaxClocks \in Nat /\ MaxFaults \in Nat

Writers == Callers \cup Others
Seqs == 1 .. MaxSeq
Marks == 0 .. MaxSeq

VARIABLES
    log,       \* game_events: the entity each event replaces
    ring,      \* the list in Redis, from its tail: the order readRing walks it in
    outbox,    \* per writer: its blocks of events not flushed yet
    stage,     \* per writer: "idle", "ring", "publish" or "reply"
    result,    \* per writer: sequence and entities of the reply to come
    conn,      \* the server's side of the socket: "none", "counted", "attached", "open"
    helloSeq,  \* the sequence that side read when it opened
    wire,      \* frames sent and not handled yet
    mark,      \* lastAppliedSeq
    held,      \* per entity, the event whose state the client holds
    serverSeq, \* the sequence the client knows of
    oldest,    \* oldestReplaySeq of the last HELLO
    sync,      \* the rung of the ladder in flight
    faults

serverVars == <<log, ring, outbox, stage, result>>
socketVars == <<conn, helloSeq, wire>>
clientVars == <<mark, held, serverSeq, oldest>>
syncVars == <<serverVars, socketVars, clientVars, sync, faults>>

Frames == [type : {"event", "hello", "clock"}, seq : Marks, oldest : 0 .. MaxSeq + 1]
Frame(t, k) == [type |-> t, seq |-> k, oldest |-> 0]

Results == [seq : Marks, ents : SUBSET Entities]
NoResult == [seq |-> 0, ents |-> {}]

\* The states of a rung: "none" and "failed" (nothing in flight, and the last one
\* ended with an error); a replay that is asked for, counted, in need of the log or
\* answered by a page; a snapshot that is asked for, being read or answered.
Rungs == {"none", "failed", "asked", "counted", "log", "page",
          "rebuild", "reading", "snapshot"}
\* "ragged" is history: the ring a page was read from was no run of the log.
Syncs == [at : Rungs, since : Marks, seq : Marks, page : Seq(Seqs), truncated : BOOLEAN,
          got : [Entities -> Marks], left : SUBSET Entities, ragged : BOOLEAN]
Nothing == [e \in Entities |-> 0]
Rung(at, since) ==
    [at |-> at, since |-> since, seq |-> 0, page |-> <<>>, truncated |-> FALSE,
     got |-> Nothing, left |-> {}, ragged |-> FALSE]

SyncTypeOK ==
    /\ log \in Seq(Entities) /\ Len(log) <= MaxSeq
    /\ ring \in Seq(Seqs) /\ Len(ring) <= RingCapacity
    /\ outbox \in [Writers -> Seq(Seq(Seqs))]
    /\ stage \in [Writers -> {"idle", "ring", "publish", "reply"}]
    /\ result \in [Writers -> Results]
    /\ conn \in {"none", "counted", "attached", "open"} /\ helloSeq \in Marks
    /\ wire \in Seq(Frames)
    /\ mark \in Marks /\ held \in [Entities -> Marks]
    /\ serverSeq \in Marks /\ oldest \in 0 .. MaxSeq + 1
    /\ sync \in Syncs
    /\ faults \in 0 .. MaxFaults

\* A new player whose page has loaded: an empty log, an empty snapshot applied, no socket.
SyncInit ==
    /\ log = <<>> /\ ring = <<>>
    /\ outbox = [w \in Writers |-> <<>>]
    /\ stage = [w \in Writers |-> "idle"]
    /\ result = [w \in Writers |-> NoResult]
    /\ conn = "none" /\ helloSeq = 0 /\ wire = <<>>
    /\ mark = 0 /\ held = Nothing /\ serverSeq = 0 /\ oldest = 0
    /\ sync = Rung("none", 0)
    /\ faults = 0

Fault == faults < MaxFaults /\ faults' = faults + 1

\* The state of an entity once the first k events are in the log.
StateAt(e, k) == Max({0} \cup {i \in 1 .. k : log[i] = e})
Interval(a, b) == [i \in 1 .. (b - a) |-> a + i]
-----------------------------------------------------------------------------
(* Writers: a transaction appends its events and records one publish effect for the
   advance and one for the body (appendEvents under the player lock).              *)

Blocks(k, a, b) ==
    (IF a = 0 THEN <<>> ELSE <<Interval(k, k + a)>>) \o
    (IF b = 0 THEN <<>> ELSE <<Interval(k + a, k + a + b)>>)

\* What follows the effects of a writer: the reply of a request of this client.
After(w, blocks) ==
    IF blocks # <<>> THEN "ring" ELSE IF w \in Callers THEN "reply" ELSE "idle"

Commit(w) ==
    /\ stage[w] = "idle"
    /\ \E a \in 0 .. MaxAdvance, b \in 0 .. MaxBody :
         /\ Len(log) + a + b <= MaxSeq
         /\ a + b > 0 \/ w \in Callers
         /\ w \in Others => b = 0
         /\ \E es \in [1 .. a + b -> Entities] :
              /\ log' = log \o es
              /\ result' = [result EXCEPT ![w] =
                              IF w \in Callers
                              THEN [seq |-> Len(log) + a + b,
                                    ents |-> {es[i] : i \in a + 1 .. a + b}]
                              ELSE NoResult]
         /\ outbox' = [outbox EXCEPT ![w] = Blocks(Len(log), a, b)]
         /\ stage' = [stage EXCEPT ![w] = After(w, Blocks(Len(log), a, b))]
    /\ UNCHANGED <<ring, socketVars, clientVars, sync, faults>>

\* lpush and ltrim.  The block is reversed and lpush, which inserts its arguments one by
\* one, reverses it again: the first frame of the block ends at the head.
Push(block) ==
    LET all == ring \o Reverse(block) IN
    SubSeq(all, Max({1, Len(all) - RingCapacity + 1}), Len(all))

PushRing(w) ==
    /\ stage[w] = "ring"
    /\ ring' = Push(Head(outbox[w]))
    /\ stage' = [stage EXCEPT ![w] = "publish"]
    /\ UNCHANGED <<log, outbox, result, socketVars, clientVars, sync, faults>>

\* selectLiveFrames: a block above the guard collapses to its last frame.
Live(block) == IF Len(block) <= MaxLive THEN block ELSE <<Last(block)>>

Listening == conn \in {"attached", "open"}

\* The effect is over, with or without success; the next one follows.
NextBlock(w) ==
    /\ outbox' = [outbox EXCEPT ![w] = Tail(@)]
    /\ stage' = [stage EXCEPT ![w] = After(w, Tail(outbox[w]))]

\* A message on a channel nobody listens to is gone.
Publish(w) ==
    /\ stage[w] = "publish"
    /\ LET live == Live(Head(outbox[w])) IN
       wire' = IF Listening
               THEN wire \o [i \in 1 .. Len(live) |-> Frame("event", live[i])] ELSE wire
    /\ NextBlock(w)
    /\ UNCHANGED <<log, ring, result, conn, helloSeq, clientVars, sync, faults>>

\* One try around both calls: a push that throws publishes nothing either.
EffectFails(w) ==
    /\ Fault
    /\ stage[w] \in {"ring", "publish"}
    /\ NextBlock(w)
    /\ UNCHANGED <<log, ring, result, socketVars, clientVars, sync>>

\* The process dies after its commit, or the reply never arrives.
WriterDies(w) ==
    /\ Fault
    /\ stage[w] # "idle"
    /\ stage' = [stage EXCEPT ![w] = "idle"]
    /\ outbox' = [outbox EXCEPT ![w] = <<>>]
    /\ result' = [result EXCEPT ![w] = NoResult]
    /\ UNCHANGED <<log, ring, socketVars, clientVars, sync>>

\* The ring of a player expires, or Redis loses it.
RingLost ==
    /\ Fault
    /\ ring # <<>> /\ ring' = <<>>
    /\ UNCHANGED <<log, outbox, stage, result, socketVars, clientVars, sync>>
-----------------------------------------------------------------------------
(* The socket on the server *)

\* openConnection reads the sequence, then subscribes, then greets.
Connect ==
    /\ conn = "none"
    /\ conn' = "counted" /\ helloSeq' = Len(log)
    /\ UNCHANGED <<serverVars, wire, clientVars, sync, faults>>

Attach ==
    /\ conn = "counted" /\ conn' = "attached"
    /\ UNCHANGED <<serverVars, helloSeq, wire, clientVars, sync, faults>>

\* The oldest sequence the ring holds, the next one to come when it holds none.
OldestInRing(seq) == IF ring = <<>> THEN seq + 1 ELSE Min(ToSet(ring))

Hello ==
    /\ conn = "attached" /\ conn' = "open"
    /\ wire' = Append(wire, [Frame("hello", helloSeq) EXCEPT !.oldest = OldestInRing(helloSeq)])
    /\ UNCHANGED <<serverVars, helloSeq, clientVars, sync, faults>>

Clock ==
    /\ Listening
    /\ Cardinality({i \in DOMAIN wire : wire[i].type = "clock"}) < MaxClocks
    /\ wire' = Append(wire, Frame("clock", Len(log)))
    /\ UNCHANGED <<serverVars, conn, helloSeq, clientVars, sync, faults>>

Disconnect ==
    /\ Fault
    /\ conn # "none"
    /\ conn' = "none" /\ wire' = <<>> /\ helloSeq' = 0
    /\ UNCHANGED <<serverVars, clientVars, sync>>
-----------------------------------------------------------------------------
(* The reducer of the client *)

\* applyFrame on a client [mark, held]: the next event, and nothing else.
ApplyFrame(c, k) ==
    IF k = c.mark + 1 THEN [mark |-> k, held |-> [c.held EXCEPT ![log[k]] = k]] ELSE c

\* nextResyncStep: replay when the ring reported by HELLO holds the first event missing.
NextRung(m, seq, old) ==
    IF seq <= m THEN Rung("none", 0)
    ELSE IF old <= m + 1 THEN Rung("asked", m)
    ELSE Rung("rebuild", 0)

Idle == sync.at \in {"none", "failed"}

\* requestResync, which does nothing while a rung is in flight.
RequestResync(seq, old) ==
    sync' = IF ~Idle \/ seq <= mark THEN sync ELSE NextRung(mark, seq, old)

Receive(type) ==
    /\ wire # <<>> /\ Head(wire).type = type
    /\ wire' = Tail(wire)
    /\ UNCHANGED <<serverVars, conn, helloSeq, faults>>

ReceiveHello_Silent ==
    /\ Receive("hello")
    /\ serverSeq' = Head(wire).seq /\ oldest' = Head(wire).oldest
    /\ UNCHANGED <<mark, held, sync>>

ReceiveHello ==
    /\ Receive("hello")
    /\ LET f == Head(wire) IN
       /\ serverSeq' = f.seq /\ oldest' = f.oldest
       /\ RequestResync(f.seq, f.oldest)
    /\ UNCHANGED <<mark, held>>

\* A clock frame reports a sequence and starts no resynchronisation.
ReceiveClock ==
    /\ Receive("clock")
    /\ serverSeq' = Max({serverSeq, Head(wire).seq})
    /\ UNCHANGED <<mark, held, oldest, sync>>

ReceiveEvent ==
    /\ Receive("event")
    /\ LET k == Head(wire).seq
           c == ApplyFrame([mark |-> mark, held |-> held], k) IN
       /\ mark' = c.mark /\ held' = c.held
       /\ serverSeq' = IF k <= mark THEN serverSeq ELSE Max({serverSeq, k})
       /\ IF k > mark + 1 THEN RequestResync(Max({serverSeq, k}), oldest) ELSE UNCHANGED sync
    /\ UNCHANGED oldest

\* applyMutationReply: above the mark, whatever lies between.
ReceiveReply(w) ==
    /\ stage[w] = "reply"
    /\ stage' = [stage EXCEPT ![w] = "idle"]
    /\ result' = [result EXCEPT ![w] = NoResult]
    /\ LET r == result[w] IN
       IF r.seq > mark
       THEN /\ mark' = r.seq
            /\ held' = [e \in Entities |-> IF e \in r.ents THEN StateAt(e, r.seq) ELSE held[e]]
       ELSE UNCHANGED <<mark, held>>
    /\ UNCHANGED <<log, ring, outbox, socketVars, serverSeq, oldest, sync, faults>>
-----------------------------------------------------------------------------
(* GET /api/events *)

ReplayCount ==
    /\ sync.at = "asked"
    /\ sync' = [sync EXCEPT !.at = "counted", !.seq = Len(log), !.since = Min({@, Len(log)})]
    /\ UNCHANGED <<serverVars, socketVars, clientVars, faults>>

RingTruncated_Late(since, seq) == since + 2 < OldestInRing(seq) /\ since < seq

\* The ring covers a request when it holds the event right after "since".
RingTruncated(since, seq) == since + 1 < OldestInRing(seq) /\ since < seq
RingAfter(since) ==
    FoldLeft(LAMBDA page, k : IF k > since THEN Append(page, k) ELSE page, <<>>, ring)
RingRagged == \E i \in 1 .. Len(ring) - 1 : ring[i + 1] # ring[i] + 1

ReplayRing ==
    /\ sync.at = "counted"
    /\ sync' =
         IF sync.seq <= sync.since THEN [sync EXCEPT !.at = "page"]
         ELSE IF sync.seq - sync.since > RingCapacity
              THEN [sync EXCEPT !.at = "page", !.truncated = TRUE]
         ELSE IF RingTruncated(sync.since, sync.seq) \/ RingAfter(sync.since) = <<>>
              THEN [sync EXCEPT !.at = "log"]
         ELSE [sync EXCEPT !.at = "page", !.page = RingAfter(sync.since), !.ragged = RingRagged]
    /\ UNCHANGED <<serverVars, socketVars, clientVars, faults>>

\* readLog: one page of the table.
ReplayLog ==
    /\ sync.at = "log"
    /\ sync' = [sync EXCEPT !.at = "page",
                  !.page = Interval(sync.since, Min({Len(log), sync.since + RingCapacity}))]
    /\ UNCHANGED <<serverVars, socketVars, clientVars, faults>>

Through == IF sync.page = <<>> THEN sync.since ELSE Last(sync.page)

Again_Never(m) == Rung("none", 0)

\* The end of a rung that is not truncated: is anything known still missing?
Again(m) == NextRung(m, serverSeq, oldest)

\* applyReplay: the frames in the order of the page, then the mark up to "through".
ApplyReplay ==
    /\ sync.at = "page"
    /\ LET c == FoldLeft(ApplyFrame, [mark |-> mark, held |-> held], sync.page)
           m == IF sync.truncated THEN c.mark ELSE Max({c.mark, Through}) IN
       /\ mark' = m /\ held' = c.held
       /\ sync' = IF sync.truncated THEN Rung("rebuild", 0) ELSE Again(m)
    /\ UNCHANGED <<serverVars, socketVars, serverSeq, oldest, faults>>
-----------------------------------------------------------------------------
(* GET /api/state/snapshot *)

\* The sequence is read before the entities, each in a statement of its own.
SnapshotCount ==
    /\ sync.at = "rebuild"
    /\ sync' = [sync EXCEPT !.at = "reading", !.seq = Len(log), !.left = Entities]
    /\ UNCHANGED <<serverVars, socketVars, clientVars, faults>>

SnapshotRead_SeqLast(e) ==
    /\ sync.at = "reading" /\ e \in sync.left
    /\ sync' = [sync EXCEPT !.left = @ \ {e}, !.got[e] = StateAt(e, Len(log)),
                            !.seq = Len(log),
                            !.at = IF sync.left = {e} THEN "snapshot" ELSE "reading"]
    /\ UNCHANGED <<serverVars, socketVars, clientVars, faults>>

SnapshotRead(e) ==
    /\ sync.at = "reading" /\ e \in sync.left
    /\ sync' = [sync EXCEPT !.left = @ \ {e}, !.got[e] = StateAt(e, Len(log)),
                            !.at = IF sync.left = {e} THEN "snapshot" ELSE "reading"]
    /\ UNCHANGED <<serverVars, socketVars, clientVars, faults>>

\* applySnapshot replaces everything, the mark included, whatever came in meanwhile.
ApplySnapshot ==
    /\ sync.at = "snapshot"
    /\ mark' = sync.seq /\ held' = sync.got
    /\ sync' = Again(sync.seq)
    /\ UNCHANGED <<serverVars, socketVars, serverSeq, oldest, faults>>

\* The call of a rung fails: nothing is in flight and nothing retries by itself.
RungFails ==
    /\ Fault
    /\ ~Idle
    /\ sync' = Rung("failed", 0)
    /\ UNCHANGED <<serverVars, socketVars, clientVars>>
-----------------------------------------------------------------------------
Write(w) == Commit(w) \/ PushRing(w) \/ Publish(w) \/ ReceiveReply(w)
Open == Connect \/ Attach \/ Hello
ReceiveFrame == ReceiveHello \/ ReceiveClock \/ ReceiveEvent
Resync ==
    \/ ReplayCount \/ ReplayRing \/ ReplayLog \/ ApplyReplay
    \/ SnapshotCount \/ (\E e \in Entities : SnapshotRead(e)) \/ ApplySnapshot

SyncNext ==
    \/ \E w \in Writers : Write(w) \/ EffectFails(w) \/ WriterDies(w)
    \/ Open \/ Clock \/ ReceiveFrame \/ Resync
    \/ RingLost \/ Disconnect \/ RungFails

SyncSpec == SyncInit /\ [][SyncNext]_syncVars

\* Processes, sockets and calls that go on do so; new events, connections, clock
\* frames and faults are not fair.
FairSyncSpec ==
    /\ SyncSpec
    /\ \A w \in Writers : WF_syncVars(PushRing(w) \/ Publish(w) \/ ReceiveReply(w))
    /\ WF_syncVars(Attach \/ Hello) /\ WF_syncVars(ReceiveFrame) /\ WF_syncVars(Resync)
-----------------------------------------------------------------------------
(* Properties *)

\* Every event up to the mark is in what the client holds.
Honest == \A k \in 1 .. mark : held[log[k]] >= k

\* The client claims an event it has missed only after a reply whose result left it out or
\* a page read from a ring in which an event is missing or out of its place: neither
\* disconnections, lost or late frames, collapsed blocks, overlapping rungs, a page of the
\* log, a ring that is trimmed or expired nor a snapshot read while events are committed
\* makes it lose one (decideFrame, readRing, buildReplay, buildSnapshot).
MissedOnlyByJump ==
    [][Honest /\ ~Honest' =>
         \/ sync.at = "page" /\ sync.ragged
         \/ \E w \in Callers : stage[w] = "reply" /\ stage'[w] = "idle"]_syncVars

\* A snapshot is never behind the sequence it reports (buildSnapshot).
SnapshotNotBehind ==
    sync.at = "snapshot" => \A e \in Entities : sync.got[e] >= StateAt(e, sync.seq)

\* A gap the client has set out to close gets closed, up to everything it knows of by
\* then, unless a call fails (runResync and its re-evaluation).
KnownGapCloses == ~Idle ~> (mark >= serverSeq \/ sync.at = "failed")

\* A client that connects reaches the sequence its greeting reported (handleHello).
HelloCatchesUp ==
    \A k \in Seqs :
        (conn = "open" /\ helloSeq = k) ~> (mark >= k \/ conn = "none" \/ sync.at = "failed")

\* What the comments say and the code does not do.

\* The frames of a page ascend: the list is newest first and walked backwards (events.ts:190).
PagesAscend == \A i, j \in DOMAIN sync.page : i < j => sync.page[i] < sync.page[j]

\* A replay that is not truncated closes the gap: the ring or the log holds it.
ReplayClosesGap ==
    [][sync.at = "page" /\ ~sync.truncated /\ Honest /\ sync'.at # "failed" /\ sync' # sync
         => Honest']_syncVars

\* The events a reply jumps over are already in what it carries.
ReplyIsSafe ==
    [][\A w \in Callers :
         stage[w] = "reply" /\ stage'[w] = "idle" /\ Honest => Honest']_syncVars
=============================================================================
