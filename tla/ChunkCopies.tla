----------------------------- MODULE ChunkCopies -----------------------------
(***************************************************************************)
(* The copies of chunks that a client holds: the world store               *)
(* (stores/world.ts), the streamer that asks for them and drops them       *)
(* (game/world/streamer.ts, source.ts, viewport.ts, lru.ts), the batch     *)
(* read that answers (cellRepo.ts, chunkStates) and the CHUNK_PATCHED      *)
(* frames of the player's own channel.                                     *)
(*                                                                         *)
(* The content of a chunk is named by the version at which it was          *)
(* committed.  Frames carry every modified cell of their chunk; they reach *)
(* the client in order, or the client rebuilds itself from a snapshot      *)
(* (EventSync).  Nobody tells the client what other players write.         *)
(***************************************************************************)
EXTENDS Integers, Sequences, FiniteSets

CONSTANTS
    Chunks,
    Whole,        \* a request without rev
    Ring, Keep,   \* [Chunks -> SUBSET Chunks]: what a camera over a chunk wants, and
                  \* what it lets live
    Capacity,     \* CHUNK_CACHE_CAPACITY
    MaxLoads,     \* MAX_CHUNK_LOADS_PER_TICK
    MaxVersion,   \* [Chunks -> Nat]: bound of the writes to each chunk
    Slots         \* bound of the requests in flight: one each

ASSUME CopiesAssumption ==
    /\ IsFiniteSet(Chunks) /\ Whole \notin Nat
    /\ Ring \in [Chunks -> SUBSET Chunks] /\ Keep \in [Chunks -> SUBSET Chunks]
    /\ \A ch \in Chunks : ch \in Ring[ch] /\ Ring[ch] \subseteq Keep[ch]
    /\ Capacity \in Nat \ {0} /\ MaxLoads \in Nat \ {0}
    /\ MaxVersion \in [Chunks -> Nat] /\ IsFiniteSet(Slots)

VARIABLES
    version,    \* of each chunk, on the server
    channel,    \* the frames on their way: [chunk, version]
    kept,       \* the chunks the store has a copy of
    copy,       \* what the store holds of each: [version, content]
    stale,      \* staleChunkKeys
    camera,     \* the chunk it is over
    views, requested, settled,   \* of the streamer
    fetch,      \* the requests in flight
    known,      \* history: the latest version a frame told about while the copy existed
    hollow,     \* history: copies told `unchanged` that were not the ones that asked
    overtaken   \* history: copies set by a reply older than a frame already seen

worldVars == <<version, channel>>
storeVars == <<kept, copy, stale>>
streamerVars == <<camera, views, requested, settled>>
historyVars == <<known, hollow, overtaken>>
copiesVars == <<worldVars, storeVars, streamerVars, fetch, historyVars>>

\* A request for a chunk, in a slot.  The version and the cells of the answer are read one
\* after the other; an answer without cells says `unchanged`.
Fetches == [stage : {"FREE", "ASKED", "READ", "ANSWERED"}, chunk : Chunks \cup {Whole},
            rev : {Whole} \cup Nat, version : Nat, content : {Whole} \cup Nat]
Free == [stage |-> "FREE", chunk |-> Whole, rev |-> Whole, version |-> 0, content |-> Whole]

Blank == [version |-> 0, content |-> 0]

CopiesInit ==
    /\ version = [ch \in Chunks |-> 0] /\ channel = <<>>
    /\ kept = {} /\ copy = [ch \in Chunks |-> Blank] /\ stale = {}
    /\ camera \in Chunks /\ views = {} /\ requested = {} /\ settled = {}
    /\ fetch = [s \in Slots |-> Free]
    /\ known = [ch \in Chunks |-> 0] /\ hollow = {} /\ overtaken = {}
-----------------------------------------------------------------------------
(* The server *)

\* A mutation of the player; one that buys the land of a building moves a chunk twice and
\* sends one frame.
OwnWrite(ch, steps) ==
    /\ version[ch] + steps <= MaxVersion[ch]
    /\ version' = [version EXCEPT ![ch] = @ + steps]
    /\ channel' = Append(channel, [chunk |-> ch, version |-> version[ch] + steps])
    /\ UNCHANGED <<storeVars, streamerVars, fetch, historyVars>>

OthersWrite(ch) ==
    /\ version[ch] < MaxVersion[ch]
    /\ version' = [version EXCEPT ![ch] = @ + 1]
    /\ UNCHANGED <<channel, storeVars, streamerVars, fetch, historyVars>>

\* A request that has come so far.
Reached(f, stage, v, content) ==
    [stage |-> stage, chunk |-> f.chunk, rev |-> f.rev, version |-> v, content |-> content]

\* chunkVersions; a request that carries the current version is answered `unchanged`, and
\* a chunk without a row has no cells.
ReadVersion(s) ==
    /\ fetch[s].stage = "ASKED"
    /\ LET v == version[fetch[s].chunk]
           same == fetch[s].rev = v
       IN fetch' = [fetch EXCEPT ![s] =
                      Reached(@, IF same \/ v = 0 THEN "ANSWERED" ELSE "READ", v,
                              IF v = 0 /\ ~same THEN 0 ELSE Whole)]
    /\ UNCHANGED <<worldVars, storeVars, streamerVars, historyVars>>

\* The cells are read later than the version, from the cache or from the table.
ReadCells(s) ==
    /\ fetch[s].stage = "READ"
    /\ fetch' = [fetch EXCEPT ![s] = Reached(@, "ANSWERED", @.version, version[@.chunk])]
    /\ UNCHANGED <<worldVars, storeVars, streamerVars, historyVars>>
-----------------------------------------------------------------------------
(* The store *)

\* What a copy becomes with an answer: `unchanged` renews its version and leaves its cells.
Answered(old, f) ==
    IF f.content = Whole THEN [old EXCEPT !.version = f.version]
    ELSE [version |-> f.version, content |-> f.content]

\* The copy is no longer the one that was asked about.
Changed(f) == f.chunk \notin kept \/ copy[f.chunk].version # f.rev

\* applyChunkResult: no version is compared, and a chunk that is not held gets a copy.
ApplyReply(s) ==
    /\ fetch[s].stage = "ANSWERED"
    /\ LET f == fetch[s]
           ch == f.chunk
       IN /\ kept' = kept \cup {ch}
          /\ copy' = [copy EXCEPT ![ch] = Answered(@, f)]
          /\ stale' = stale \ {ch}
          /\ settled' = settled \cup {ch} /\ requested' = requested \ {ch}
          /\ hollow' = IF f.content # Whole THEN hollow \ {ch}
                       ELSE IF Changed(f) THEN hollow \cup {ch} ELSE hollow
          /\ overtaken' = IF f.version < known[ch] THEN overtaken \cup {ch}
                          ELSE overtaken \ {ch}
    /\ fetch' = [fetch EXCEPT ![s] = Free]
    /\ UNCHANGED <<worldVars, camera, views, known>>

\* A failed batch: its chunks are asked for again by a later tick.
FailFetch(s) ==
    /\ fetch[s].stage # "FREE"
    /\ fetch' = [fetch EXCEPT ![s] = Free] /\ requested' = requested \ {fetch[s].chunk}
    /\ UNCHANGED <<worldVars, storeVars, camera, views, settled, historyVars>>

\* The gap rule, by chunk: a frame is the next one, or it jumps, or it is discarded.
Follows(frame) == frame.version = copy[frame.chunk].version + 1

\* Mutant: a jump of one is not taken for a jump.
JumpsFar(frame) == frame.version > copy[frame.chunk].version + 2

Jumps(frame) == frame.version > copy[frame.chunk].version + 1

\* applyChunkPatch.  A frame of a chunk that is not held is ignored.
ReceivePatch ==
    /\ channel # <<>> /\ channel' = Tail(channel)
    /\ LET frame == Head(channel)
           ch == frame.chunk
           news == ch \in kept /\ frame.version > known[ch]
       IN /\ IF ch \in kept /\ Follows(frame)
             THEN /\ copy' = [copy EXCEPT ![ch] = [version |-> frame.version,
                                                   content |-> frame.version]]
                  /\ hollow' = hollow \ {ch}
             ELSE UNCHANGED <<copy, hollow>>
          /\ stale' = IF ch \in kept /\ Jumps(frame) THEN stale \cup {ch} ELSE stale
          /\ known' = IF news THEN [known EXCEPT ![ch] = frame.version] ELSE known
          /\ overtaken' = IF news THEN overtaken \ {ch} ELSE overtaken
    /\ UNCHANGED <<version, kept, streamerVars, fetch>>

\* Mutant: the cells go, the version stays.
CellsDropped(c) == [c EXCEPT !.content = 0]

\* invalidateModifications, one copy.
Dropped(c) == Blank

\* A snapshot replaces what the client knew; the frames before it are behind it.
Rebuild ==
    /\ channel' = <<>>
    /\ copy' = [ch \in Chunks |-> Dropped(copy[ch])] /\ stale' = kept
    /\ hollow' = {} /\ overtaken' = {} /\ known' = [ch \in Chunks |-> 0]
    /\ UNCHANGED <<version, kept, streamerVars, fetch>>
-----------------------------------------------------------------------------
(* The streamer *)

Smaller(a, b) == IF a < b THEN a ELSE b

\* The subsets of S that a ceiling lets through; nearness and order are not modelled.
UpTo(S, n) == {T \in SUBSET S : Cardinality(T) = Smaller(n, Cardinality(S))}

\* overflow: what exceeds the capacity, and never what the camera wants.
Overflow(in) ==
    IF Cardinality(in) <= Capacity THEN {{}}
    ELSE UpTo(in \ Ring[camera], Cardinality(in) - Capacity)

\* Mutant: what has been answered is never asked for again.
NeverAsked(live, marked, busy, done) == live \ (busy \cup done)

\* What a tick asks for: what was never answered, and what is marked stale.
Wanted(live, marked, busy, done) == (live \ busy) \ (done \ marked)

\* The player moves the camera.
Pan(ch) == camera' = ch /\ UNCHANGED <<worldVars, storeVars, views, requested, settled, fetch,
                                       historyVars>>

\* dispatch: what is asked of a chunk; a stale copy is asked for whole.
Asked(ch) ==
    [stage |-> "ASKED", chunk |-> ch, rev |-> IF ch \in stale THEN Whole ELSE copy[ch].version,
     version |-> 0, content |-> Whole]

\* drop: the store and the streamer keep nothing of a chunk that goes.
Forget(gone) ==
    /\ copy' = [ch \in Chunks |-> IF ch \in gone THEN Blank ELSE copy[ch]]
    /\ known' = [ch \in Chunks |-> IF ch \in gone THEN 0 ELSE known[ch]]
    /\ stale' = stale \ gone /\ settled' = settled \ gone
    /\ hollow' = hollow \ gone /\ overtaken' = overtaken \ gone

\* dispatch: a request for each of them, in a slot of its own.
Dispatch(asked) ==
    \E slot \in [asked -> {s \in Slots : fetch[s].stage = "FREE"}] :
       /\ \A x, y \in asked : slot[x] = slot[y] => x = y
       /\ fetch' = [s \in Slots |-> IF \E ch \in asked : slot[ch] = s
                                    THEN Asked(CHOOSE ch \in asked : slot[ch] = s)
                                    ELSE fetch[s]]

\* One tick of the streamer: load, unload, evict, ask, in this order and without a pause.
Tick ==
    \E load \in UpTo(Ring[camera] \ views, MaxLoads) :
    LET out == views \ Keep[camera]
        live == (views \cup load) \ out
    IN \E victims \in Overflow(live) :
       LET gone == out \cup victims
       IN /\ views' = live \ victims
          /\ kept' = (kept \cup load) \ gone
          /\ Forget(gone)
          /\ \E asked \in UpTo(Wanted(views', stale', requested \ gone, settled'), MaxLoads) :
               /\ requested' = (requested \ gone) \cup asked
               /\ Dispatch(asked)
          /\ UNCHANGED <<worldVars, camera>>

Server == \E ch \in Chunks : OthersWrite(ch) \/ \E steps \in 1 .. 2 : OwnWrite(ch, steps)

CopiesNext ==
    \/ Server \/ ReceivePatch \/ Rebuild
    \/ Tick \/ \E ch \in Chunks : Pan(ch)
    \/ \E s \in Slots : ReadVersion(s) \/ ReadCells(s) \/ ApplyReply(s) \/ FailFetch(s)

About(ch, s) == fetch[s].chunk = ch

\* The scene ticks, and a chunk that is asked for again and again is answered at last.
Fairness ==
    /\ WF_copiesVars(Tick)
    /\ \A ch \in Chunks : /\ SF_copiesVars(\E s \in Slots : About(ch, s) /\ ReadVersion(s))
                         /\ SF_copiesVars(\E s \in Slots : About(ch, s) /\ ReadCells(s))
                         /\ SF_copiesVars(\E s \in Slots : About(ch, s) /\ ApplyReply(s))

CopiesSpec == CopiesInit /\ [][CopiesNext]_copiesVars
FairCopiesSpec == CopiesSpec /\ Fairness
-----------------------------------------------------------------------------
(* Properties *)

\* Every variable holds a value of its kind, and a request in a slot is about a chunk.
CopiesTypeOK ==
    /\ version \in [Chunks -> Nat] /\ channel \in Seq([chunk : Chunks, version : Nat])
    /\ kept \subseteq Chunks /\ copy \in [Chunks -> [version : Nat, content : Nat]]
    /\ stale \subseteq Chunks /\ camera \in Chunks
    /\ views \subseteq Chunks /\ requested \subseteq Chunks /\ settled \subseteq Chunks
    /\ fetch \in [Slots -> Fetches]
    /\ \A s \in Slots : fetch[s].stage # "FREE" => fetch[s].chunk \in Chunks
    /\ known \in [Chunks -> Nat] /\ hollow \subseteq Chunks /\ overtaken \subseteq Chunks

\* A copy holds at least the cells of the version it goes by, which is what it may tell the
\* server as its `rev`: except a copy that was told `unchanged` after it had been dropped
\* or invalidated (applyChunkResult).
HonestVersion ==
    \A ch \in kept \ hollow : copy[ch].version <= copy[ch].content

\* A copy that is behind a frame the client has received is marked, so that the streamer
\* asks for it: except one that an older answer has overwritten since (applyChunkPatch,
\* applyChunkResult).
LagIsMarked ==
    \A ch \in kept \ overtaken : copy[ch].version < known[ch] => ch \in stale

\* A view of a chunk that is marked is answered, or leaves the screen.
StaleIsReloaded ==
    \A ch \in Chunks : (ch \in views /\ ch \in stale) ~> (ch \notin stale \/ ch \notin views)

\* What the comment of the streamer says of `rev`: the server never answers `unchanged` to
\* a client that is not, so a copy always holds the cells of its version.
RevIsHonest == \A ch \in kept : copy[ch].version <= copy[ch].content

\* What the comment of `drop` says: the store and the scene hold the same chunks.
OneLifetime == kept = views
=============================================================================
