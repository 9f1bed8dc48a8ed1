--------------------------------- MODULE Land ---------------------------------
(***************************************************************************)
(* Land: purchases of cells and of buildings with their footprint          *)
(* (modules/land, modules/farms/index.ts), the cell repository with its    *)
(* chunk versions, and the overlay cache in Redis (modules/world).         *)
(*                                                                         *)
(* A purchase is one READ COMMITTED transaction: it sees what others have  *)
(* committed, its own writes are visible to nobody until it commits, and a *)
(* write to a row that an open transaction has written waits for that      *)
(* transaction.  The buyer's own row is locked, so a buyer has one open    *)
(* transaction; cells and chunks are contended.  The cache is outside of   *)
(* every transaction.                                                      *)
(***************************************************************************)
EXTENDS Integers, Sequences, FiniteSets

CONSTANTS
    Buyers, Readers,
    Nobody,          \* no owner: a cell without a row in world_cells
    Nothing,         \* no entry under a key of the cache
    Cells,
    Chunks,          \* identifiers of chunks, in their order
    ChunkOf,         \* [Cells -> Chunks]
    LandPrice,       \* [Cells -> Nat]
    StructurePrice,  \* of a building, by cell of its footprint
    Opening,         \* balance of a new player
    Orders,          \* the requests: [cells, partial, agreed, build]
    MaxVersion       \* bound of the versions that the cache holds

ASSUME LandAssumption ==
    /\ IsFiniteSet(Cells) /\ Cells # {} /\ Nobody \notin Buyers
    /\ Chunks \subseteq Nat /\ IsFiniteSet(Chunks) /\ ChunkOf \in [Cells -> Chunks]
    /\ LandPrice \in [Cells -> Nat \ {0}] /\ StructurePrice \in Nat /\ Opening \in Nat
    /\ Orders \subseteq [cells : Seq(Cells), partial : BOOLEAN, agreed : BOOLEAN, build : BOOLEAN]
    /\ \A o \in Orders : o.cells # <<>> /\ (o.build => ~o.partial)
    /\ MaxVersion \in Nat

Parcels == [owner : Buyers \cup {Nobody}, built : BOOLEAN]
Wild == [owner |-> Nobody, built |-> FALSE]

CellsOf(ch) == {c \in Cells : ChunkOf[c] = ch}
Overlays == UNION {[CellsOf(ch) -> Parcels] : ch \in Chunks}

NoOrder == [cells |-> <<>>, partial |-> FALSE, agreed |-> FALSE, build |-> FALSE]

\* A transaction: what it still has to touch, and the rows it has written and holds.
NoTx == [stage |-> "NONE", order |-> NoOrder, offered |-> {}, todo |-> {}, toBump |-> {},
         made |-> {}, got |-> {}, built |-> {}, bumps |-> [ch \in Chunks |-> 0],
         patch |-> [ch \in Chunks |-> Nothing]]

NoRead == [stage |-> "NONE", chunk |-> 0, version |-> 0, cells |-> Nothing]

VARIABLES
    land,      \* world_cells
    rows,      \* the chunks that have a row
    version,   \* chunks.version; zero without a row
    balance,
    tx,        \* the open transaction of each buyer
    cache,     \* the overlay keys: [Chunks -> [0 .. MaxVersion -> overlay or Nothing]]
    reader,    \* the batch reads in progress
    tainted    \* history: keys that a transaction wrote and then rolled back

vars == <<land, rows, version, balance, tx, cache, reader, tainted>>

Init ==
    /\ land = [c \in Cells |-> Wild]
    /\ rows = {} /\ version = [ch \in Chunks |-> 0]
    /\ balance = [p \in Buyers |-> Opening]
    /\ tx = [p \in Buyers |-> NoTx]
    /\ cache = [ch \in Chunks |-> [v \in 0 .. MaxVersion |-> Nothing]]
    /\ reader = [r \in Readers |-> NoRead]
    /\ tainted = {}

Elements(s) == {s[i] : i \in DOMAIN s}

\* The prices of a set of cells, as the number of their units.
PriceOf(cells) == Cardinality(UNION {{c} \X (1 .. LandPrice[c]) : c \in cells})

\* The cache has an entry for version v of a chunk.
Cached(ch, v) == v <= MaxVersion /\ cache[ch][v] # Nothing

Least(S) == CHOOSE x \in S : \A y \in S : x <= y
Open(p) == tx[p].stage # "NONE"
Overlay(ch) == [c \in CellsOf(ch) |-> land[c]]

\* What the transaction of p reads: what is committed, and its own writes.
Parcel(p, c) ==
    IF c \in tx[p].got \cup tx[p].built
    THEN [owner |-> p, built |-> c \in tx[p].built \/ land[c].built]
    ELSE land[c]
Seen(p, ch) == [c \in CellsOf(ch) |-> Parcel(p, c)]
NextVersion(p, ch) == version[ch] + tx[p].bumps[ch]
Touched(p) == {ch \in Chunks : tx[p].bumps[ch] > 0}
-----------------------------------------------------------------------------
(* A purchase *)

\* canPurchase, over what is committed now: nobody's land.
Purchasable(cells) == {c \in cells : land[c] = Wild}

\* The whole selection, or a part of it when the request allows one.  A building also
\* stands on free land of its owner, and needs all of its footprint.
Acceptable(p, o) ==
    IF o.build
    THEN \A c \in Elements(o.cells) : land[c] \in {Wild, [owner |-> p, built |-> FALSE]}
    ELSE o.partial \/ Elements(o.cells) \subseteq Purchasable(Elements(o.cells))

\* What p's transaction becomes; nothing else moves.
Become(p, t) ==
    /\ tx' = [tx EXCEPT ![p] = t]
    /\ UNCHANGED <<land, rows, version, balance, cache, reader, tainted>>

\* Validation, which locks nothing.
Begin(p, o) ==
    /\ ~Open(p) /\ Acceptable(p, o)
    /\ LET offered == Purchasable(Elements(o.cells))
       IN /\ o.build \/ offered # {}
          /\ Become(p, [NoTx EXCEPT !.order = o, !.offered = offered, !.todo = offered,
                                   !.stage = IF offered = {} THEN "ASSIGN" ELSE "CHUNKS"])

\* The rows of a statement are written one by one, in the order of the request.
NextCell(t) ==
    t.order.cells[Least({i \in DOMAIN t.order.cells : t.order.cells[i] \in t.todo})]
RowDone(t, c, next) == IF t.todo = {c} THEN next ELSE [t EXCEPT !.todo = @ \ {c}]

\* ensureChunks: INSERT ... ON CONFLICT DO NOTHING.  A chunk that another open transaction
\* has inserted is waited for.
EnsureChunk(p) ==
    /\ tx[p].stage = "CHUNKS"
    /\ LET c == NextCell(tx[p])
           ch == ChunkOf[c]
           t == [tx[p] EXCEPT !.made = IF ch \in rows THEN @ ELSE @ \cup {ch}]
       IN /\ \A q \in Buyers \ {p} : ch \notin tx[q].made
          /\ Become(p, RowDone(t, c, [t EXCEPT !.stage = "CELLS", !.todo = t.offered]))

ChunksOf(cells) == {ChunkOf[c] : c \in cells}

\* What follows the claim: bump the chunks of what was acquired, or refuse the whole
\* purchase when something is missing and the request wanted everything.
Claimed(t) ==
    [t EXCEPT !.todo = {}, !.toBump = ChunksOf(t.got),
              !.stage = IF t.got # t.offered /\ ~t.order.partial THEN "REFUSED"
                        ELSE IF t.got # {} THEN "BUMP" ELSE "CHARGE"]

\* claimCells: INSERT ... ON CONFLICT DO NOTHING.  A cell that another open transaction has
\* inserted is waited for: it is then skipped or taken.
ClaimCell(p) ==
    /\ tx[p].stage = "CELLS"
    /\ LET c == NextCell(tx[p])
           t == [tx[p] EXCEPT !.got = IF land[c] = Wild THEN @ \cup {c} ELSE @]
       IN /\ \A q \in Buyers \ {p} : c \notin tx[q].got
          /\ Become(p, RowDone(t, c, Claimed(t)))

\* The chunk whose row is taken next.
NextToBump(t) == Least(t.toBump)

\* bumpChunkVersions: one row at a time, in ascending order of identifier.
BumpChunk(p) ==
    /\ tx[p].stage = "BUMP"
    /\ LET t == tx[p]
           ch == NextToBump(t)
           after == IF t.order.build /\ t.built = {} THEN "ASSIGN" ELSE "CHARGE"
       IN /\ \A q \in Buyers \ {p} : tx[q].bumps[ch] = 0
          /\ Become(p, [t EXCEPT !.bumps = [t.bumps EXCEPT ![ch] = @ + 1], !.toBump = @ \ {ch},
                                !.stage = IF t.toBump = {ch} THEN after ELSE "BUMP"])

\* assignCellUse: the footprint becomes the building's, and its chunks move once more.
AssignUse(p) ==
    /\ tx[p].stage = "ASSIGN"
    /\ LET footprint == Elements(tx[p].order.cells)
       IN Become(p, [tx[p] EXCEPT !.built = footprint, !.toBump = ChunksOf(footprint),
                                  !.stage = "BUMP"])

\* Mutant: the land that passed the validation.
DueOffered(t) == PriceOf(t.offered) + StructurePrice * Cardinality(t.built)

\* What is charged: the land that was really acquired, and the structure.
Due(t) == PriceOf(t.got) + StructurePrice * Cardinality(t.built)

\* Mutant: the figure is compared with what was offered.
AsOffered(t) ==
    t.order.agreed /\ ~t.order.build => PriceOf(t.offered) = PriceOf(Elements(t.order.cells))

\* expectedTotal, compared after the claim; the client quoted the whole selection.
AsQuoted(t) == t.order.agreed /\ ~t.order.build => PriceOf(t.got) = PriceOf(Elements(t.order.cells))

\* charge: a conditional update of the balance.
Charge(p) ==
    /\ tx[p].stage = "CHARGE"
    /\ AsQuoted(tx[p]) /\ Due(tx[p]) <= balance[p]
    /\ Become(p, [tx[p] EXCEPT !.stage = IF Touched(p) = {} THEN "COMMIT" ELSE "PATCH"])

\* The frame of a chunk: the cached overlay of the version just reached, or a fresh one.
FrameCells(p, ch, redis) ==
    IF redis /\ Cached(ch, NextVersion(p, ch))
    THEN cache[ch][NextVersion(p, ch)] ELSE Seen(p, ch)

\* chunkPatchesFor, inside the transaction: what it did not find, it leaves in the cache.
\* Either command of Redis may fail, which costs the cache and nothing else.
PatchFrames(p) ==
    /\ tx[p].stage = "PATCH"
    /\ \A ch \in Touched(p) : NextVersion(p, ch) <= MaxVersion
    /\ \E redis, writes \in BOOLEAN :
         /\ tx' = [tx EXCEPT ![p].stage = "COMMIT",
                             ![p].patch = [ch \in Chunks |-> IF ch \in Touched(p)
                                                             THEN FrameCells(p, ch, redis)
                                                             ELSE Nothing]]
         /\ cache' = IF ~writes THEN cache
                     ELSE [ch \in Chunks |->
                             IF ch \in Touched(p)
                             THEN [cache[ch] EXCEPT ![NextVersion(p, ch)] = FrameCells(p, ch, redis)]
                             ELSE cache[ch]]
    /\ UNCHANGED <<land, rows, version, balance, reader, tainted>>

Commit(p) ==
    /\ tx[p].stage = "COMMIT"
    /\ land' = [c \in Cells |-> Parcel(p, c)]
    /\ rows' = rows \cup tx[p].made
    /\ version' = [ch \in Chunks |-> NextVersion(p, ch)]
    /\ balance' = [balance EXCEPT ![p] = @ - Due(tx[p])]
    /\ tx' = [tx EXCEPT ![p] = NoTx]
    /\ UNCHANGED <<cache, reader, tainted>>

\* A refusal, the timeout of the transaction, the victim of a deadlock, a lost connection.
\* The cache keeps what the transaction wrote.
RollBack(p) ==
    /\ Open(p)
    /\ tainted' = tainted \cup {<<ch, NextVersion(p, ch)>> :
                                  ch \in {x \in Touched(p) : Cached(x, NextVersion(p, x))}}
    /\ tx' = [tx EXCEPT ![p] = NoTx]
    /\ UNCHANGED <<land, rows, version, balance, cache, reader>>
-----------------------------------------------------------------------------
(* A batch read, on the pool: three steps that share no transaction *)

\* chunkVersions.  A chunk without a row is answered as empty, and touches nothing.
ReadVersion(r, ch) ==
    /\ reader[r].stage = "NONE" /\ ch \in rows /\ version[ch] <= MaxVersion
    /\ reader' = [reader EXCEPT ![r] = [stage |-> "VERSION", chunk |-> ch,
                                       version |-> version[ch], cells |-> Nothing]]
    /\ UNCHANGED <<land, rows, version, balance, tx, cache, tainted>>

\* readOverlaysFromRedis: a hit ends the read.
Hit(r) ==
    /\ reader[r].stage = "VERSION" /\ Cached(reader[r].chunk, reader[r].version)
    /\ reader' = [reader EXCEPT ![r] = NoRead]
    /\ UNCHANGED <<land, rows, version, balance, tx, cache, tainted>>

\* A miss, or a failed command: loadOverlays reads what is committed by now.
LoadOverlays(r) ==
    /\ reader[r].stage = "VERSION"
    /\ reader' = [reader EXCEPT ![r].stage = "LOADED", ![r].cells = Overlay(reader[r].chunk)]
    /\ UNCHANGED <<land, rows, version, balance, tx, cache, tainted>>

\* Mutant: the overlay is read before the version it is filed under.
WriteUnderCurrent(r) ==
    /\ reader[r].stage = "LOADED" /\ version[reader[r].chunk] <= MaxVersion
    /\ \/ cache' = [cache EXCEPT ![reader[r].chunk][version[reader[r].chunk]] = reader[r].cells]
       \/ UNCHANGED cache
    /\ reader' = [reader EXCEPT ![r] = NoRead]
    /\ UNCHANGED <<land, rows, version, balance, tx, tainted>>

\* writeOverlaysToRedis, under the version read first; it may fail.
WriteOverlays(r) ==
    /\ reader[r].stage = "LOADED"
    /\ \/ cache' = [cache EXCEPT ![reader[r].chunk][reader[r].version] = reader[r].cells]
       \/ UNCHANGED cache
    /\ reader' = [reader EXCEPT ![r] = NoRead]
    /\ UNCHANGED <<land, rows, version, balance, tx, tainted>>

\* OVERLAY_CACHE_TTL_REAL_MS.
Expire(ch, v) ==
    /\ Cached(ch, v)
    /\ cache' = [cache EXCEPT ![ch][v] = Nothing]
    /\ UNCHANGED <<land, rows, version, balance, tx, reader, tainted>>

Purchase(p) == EnsureChunk(p) \/ ClaimCell(p) \/ BumpChunk(p) \/ AssignUse(p)
               \/ Charge(p) \/ PatchFrames(p) \/ Commit(p)

Next ==
    \/ \E p \in Buyers : (\E o \in Orders : Begin(p, o)) \/ Purchase(p) \/ RollBack(p)
    \/ \E r \in Readers : (\E ch \in Chunks : ReadVersion(r, ch)) \/ Hit(r) \/ LoadOverlays(r)
                          \/ WriteOverlays(r)
    \/ \E ch \in Chunks, v \in 0 .. MaxVersion : Expire(ch, v)

Spec == Init /\ [][Next]_vars
-----------------------------------------------------------------------------
(* Properties *)

TxRows == [stage : {"NONE", "CHUNKS", "CELLS", "REFUSED", "BUMP", "ASSIGN", "CHARGE", "PATCH",
                    "COMMIT"},
           order : Orders \cup {NoOrder}, offered : SUBSET Cells, todo : SUBSET Cells,
           toBump : SUBSET Chunks, made : SUBSET Chunks, got : SUBSET Cells, built : SUBSET Cells,
           bumps : [Chunks -> Nat], patch : [Chunks -> Overlays \cup {Nothing}]]

\* Every variable holds a value of its kind.
TypeOK ==
    /\ land \in [Cells -> Parcels]
    /\ rows \subseteq Chunks /\ version \in [Chunks -> Nat]
    /\ balance \in [Buyers -> Nat]
    /\ tx \in [Buyers -> TxRows]
    /\ cache \in [Chunks -> [0 .. MaxVersion -> Overlays \cup {Nothing}]]
    /\ reader \in [Readers -> [stage : {"NONE", "VERSION", "LOADED"}, chunk : Chunks \cup {0},
                               version : 0 .. MaxVersion, cells : Overlays \cup {Nothing}]]
    /\ tainted \subseteq Chunks \X Nat

OwnedBy(p) == {c \in Cells : land[c].owner = p}
BuiltBy(p) == {c \in OwnedBy(p) : land[c].built}

\* The money a player has spent is the price of the cells that the player owns and of what
\* stands on them: nobody pays for a cell that went to a concurrent buyer, and nobody gets
\* one for nothing (land/service.ts, claimCells).
PaidForWhatIsOwned ==
    \A p \in Buyers :
        balance[p] + PriceOf(OwnedBy(p)) + StructurePrice * Cardinality(BuiltBy(p)) = Opening

\* A purchase that commits is the one the player agreed to: all of the selection unless a
\* part was allowed, and for the figure of the quote when the request carried it, whatever
\* other buyers did since (land/service.ts, steps 2 and 3).
AsAgreed ==
    [][\A p \in Buyers :
         tx[p].stage = "COMMIT" /\ land' # land /\ ~Open(p)' =>
           LET o == tx[p].order
           IN /\ o.partial \/ \A c \in Elements(o.cells) : land'[c].owner = p
              /\ o.agreed /\ ~o.build =>
                   balance'[p] = balance[p] - PriceOf(Elements(o.cells))]_vars

\* What a request names, as a set.
Sale == INSTANCE LandSale WITH
    Price <- [cells \in SUBSET Cells |-> PriceOf(cells)],
    StructurePrice <- [cells \in SUBSET Cells |-> StructurePrice * Cardinality(cells)],
    Orders <- {[o EXCEPT !.cells = Elements(@)] : o \in Orders}

\* Purchases that contend row by row leave the land and the money as if each had been made at
\* once, when it commits: what it was told was free when it validated, and what it found
\* taken, is so still (land/service.ts, claimCells, assignCellUse).
SoldAtOnce == Sale!Spec

\* The cache holds nothing but the truth under the current version of a chunk, however
\* reads, purchases, expiries and failed commands interleave: except under a key that a
\* transaction wrote before it was rolled back (cellRepo.ts, chunkStates).
CacheTrue ==
    \A ch \in Chunks :
        version[ch] <= MaxVersion /\ <<ch, version[ch]>> \notin tainted
            => cache[ch][version[ch]] \in {Nothing, Overlay(ch)}

\* The frame of a purchase carries what the purchase leaves behind, with the same exception
\* (world/service.ts, chunkPatchesFor).
FramesTrue ==
    \A p \in Buyers : \A ch \in Chunks :
        tx[p].stage = "COMMIT" /\ ch \in Touched(p) /\ <<ch, NextVersion(p, ch)>> \notin tainted
            => tx[p].patch[ch] = Seen(p, ch)

\* What the players are shown of a chunk is true, by a batch read and by a frame.
OverlaysTrue == CacheTrue /\ FramesTrue

\* What the comment of chunkPatchesFor says: an entry written by a transaction that is
\* rolled back sits under a version that the chunk never reaches.
CacheNeverWrong ==
    \A ch \in Chunks :
        version[ch] <= MaxVersion => cache[ch][version[ch]] \in {Nothing, Overlay(ch)}

\* p waits for a chunk row that q holds.
WaitsToBump(p, q) == tx[p].stage = "BUMP" /\ tx[q].bumps[NextToBump(tx[p])] > 0

\* What the comment of bumpChunkVersions says: chunk rows are taken in ascending order, so
\* no transactions wait for each other in a circle.
NoBumpCycle ==
    \A S \in SUBSET Buyers \ {{}} : \E p \in S : \A q \in S \ {p} : ~WaitsToBump(p, q)
=============================================================================
