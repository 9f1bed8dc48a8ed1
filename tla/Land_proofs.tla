------------------------------ MODULE Land_proofs ------------------------------
(***************************************************************************)
(* Proofs about Land: that what a player has paid is what the player owns, *)
(* that a purchase is the one agreed to, and that the overlays the players *)
(* are shown are true.                                                     *)
(***************************************************************************)
EXTENDS Land, FiniteSetTheorems, WellFoundedInduction, TLAPS

-------------------------------------------------------------------------------
(* Prices *)

Units(cells) == UNION {{c} \X (1 .. LandPrice[c]) : c \in cells}

LEMMA UnitsFinite ==
    ASSUME NEW A \in SUBSET Cells
    PROVE  IsFiniteSet(Units(A))
  <1> DEFINE f == [c \in A |-> {c} \X (1 .. LandPrice[c])]
             T == {{c} \X (1 .. LandPrice[c]) : c \in A}
  <1>1. IsFiniteSet(A)
    BY FS_Subset, LandAssumption
  <1>2. f \in Surjection(A, T)
    BY DEF Surjection
  <1>3. IsFiniteSet(T)
    BY <1>1, <1>2, FS_Surjection
  <1>4. ASSUME NEW c \in A PROVE IsFiniteSet({c} \X (1 .. LandPrice[c]))
    <2>1. LandPrice[c] \in Nat
      BY LandAssumption
    <2>2. IsFiniteSet({c})
      BY FS_Singleton
    <2>3. 1 \in Int /\ LandPrice[c] \in Int
      BY <2>1
    <2>4. IsFiniteSet(1 .. LandPrice[c])
      BY <2>3, FS_Interval
    <2> QED
      BY <2>2, <2>4, FS_Product
  <1>5. \A x \in T : IsFiniteSet(x)
    BY <1>4
  <1> HIDE DEF T
  <1>6. IsFiniteSet(UNION T)
    BY <1>3, <1>5, FS_UNION
  <1> QED
    BY <1>6 DEF Units, T

LEMMA PriceIsUnits ==
    ASSUME NEW A
    PROVE  PriceOf(A) = Cardinality(Units(A))
  BY DEF PriceOf, Units

LEMMA PriceType ==
    ASSUME NEW A \in SUBSET Cells
    PROVE  PriceOf(A) \in Nat
  BY UnitsFinite, PriceIsUnits, FS_CardinalityType

LEMMA PriceOfNothing == PriceOf({}) = 0
  <1>1. Units({}) = {}
    BY DEF Units
  <1> QED
    BY <1>1, PriceIsUnits, FS_EmptySet

\* Land bought apart costs what it costs together.
LEMMA PriceAdds ==
    ASSUME NEW A \in SUBSET Cells, NEW B \in SUBSET Cells, A \cap B = {}
    PROVE  PriceOf(A \cup B) = PriceOf(A) + PriceOf(B)
  <1>1. IsFiniteSet(Units(A)) /\ IsFiniteSet(Units(B))
    BY UnitsFinite
  <1>2. Units(A \cup B) = Units(A) \cup Units(B)
    BY DEF Units
  <1>3. Units(A) \cap Units(B) = {}
    BY DEF Units
  <1> DEFINE a == Units(A)
             b == Units(B)
  <1> HIDE DEF a, b
  <1>4. Cardinality(a \cup b) = Cardinality(a) + Cardinality(b) - Cardinality(a \cap b)
    BY <1>1, FS_Union DEF a, b
  <1>6. Cardinality(a \cap b) = 0
    BY <1>3, FS_EmptySet DEF a, b
  <1>7. PriceOf(A \cup B) = Cardinality(a \cup b)
    BY <1>2, PriceIsUnits DEF a, b
  <1>8. PriceOf(A) = Cardinality(a) /\ PriceOf(B) = Cardinality(b)
    BY PriceIsUnits DEF a, b
  <1> QED
    BY <1>4, <1>6, <1>7, <1>8, PriceType, SMT

LEMMA CountType ==
    ASSUME NEW A \in SUBSET Cells
    PROVE  IsFiniteSet(A) /\ Cardinality(A) \in Nat
  BY FS_Subset, FS_CardinalityType, LandAssumption

LEMMA CountAdds ==
    ASSUME NEW A \in SUBSET Cells, NEW B \in SUBSET Cells, A \cap B = {}
    PROVE  Cardinality(A \cup B) = Cardinality(A) + Cardinality(B)
  <1>1. Cardinality(A \cup B) = Cardinality(A) + Cardinality(B) - Cardinality({})
    BY CountType, FS_Union
  <1> QED
    BY <1>1, CountType, FS_EmptySet, SMT

LEMMA TimesAdds ==
    ASSUME NEW a \in Nat, NEW b \in Nat
    PROVE  /\ StructurePrice * (a + b) = StructurePrice * a + StructurePrice * b
           /\ StructurePrice * a \in Nat /\ StructurePrice * 0 = 0
  BY LandAssumption, SMT

LEMMA DueType ==
    ASSUME NEW t \in TxRows
    PROVE  Due(t) \in Nat
  <1>1. t.got \in SUBSET Cells /\ t.built \in SUBSET Cells
    BY DEF TxRows
  <1>2. PriceOf(t.got) \in Nat /\ StructurePrice * Cardinality(t.built) \in Nat
    BY <1>1, PriceType, CountType, TimesAdds
  <1> QED
    BY <1>2, SMT DEF Due

-------------------------------------------------------------------------------
(* The next row of a statement *)

LEMMA LeastOfNaturals ==
    ASSUME NEW S, S \subseteq Nat, S # {}
    PROVE  Least(S) \in S
  <1>1. PICK x \in S : \A y \in S : ~ (<<y, x>> \in OpToRel(<, Nat))
    BY NatLessThanWellFounded, WFMin
  <1>2. \A y \in S : ~ (y < x)
    BY <1>1 DEF OpToRel
  <1>3. \A y \in S : x <= y
    BY <1>2, SMT
  <1> QED
    BY <1>3 DEF Least

LEMMA NextCellIsToDo ==
    ASSUME NEW t \in TxRows, t.todo # {}, t.todo \subseteq Elements(t.order.cells),
           t.order.cells \in Seq(Cells)
    PROVE  NextCell(t) \in t.todo
  <1> DEFINE I == {i \in DOMAIN t.order.cells : t.order.cells[i] \in t.todo}
  <1>1. I \subseteq Nat /\ I # {}
    BY DEF Elements
  <1>2. Least(I) \in I
    BY <1>1, LeastOfNaturals
  <1> QED
    BY <1>2 DEF NextCell

LEMMA NextChunkIsToBump ==
    ASSUME NEW t \in TxRows, t.toBump # {}
    PROVE  NextToBump(t) \in t.toBump
  BY LeastOfNaturals, LandAssumption DEF NextToBump, TxRows

-------------------------------------------------------------------------------
(* The inductive invariant *)

\* Free land of its owner, on which a building may stand.
Own(p) == [owner |-> p, built |-> FALSE]

Reach(t) == {ch \in Chunks : t.bumps[ch] > 0}

\* What a transaction t of p holds, over the committed cells l: what it acquired is still
\* wild for everybody else, and from the claim on it is what the request asked for.
Sound(p, t, l) ==
    /\ t.stage = "NONE" => t = NoTx
    /\ t.stage # "NONE" => t.order \in Orders
    /\ t.got \subseteq t.offered /\ t.offered \subseteq Elements(t.order.cells)
    /\ \A c \in t.got : l[c] = Wild
    /\ \A c \in t.built : c \in t.got \/ l[c] = Own(p)
    /\ t.stage \in {"CHUNKS", "CELLS"} => t.todo # {} /\ t.todo \subseteq t.offered
    /\ ~t.order.build => t.built = {} /\ t.stage # "ASSIGN"
    /\ t.stage \in {"NONE", "CHUNKS", "CELLS", "REFUSED", "ASSIGN"} => t.built = {}
    /\ t.order.build => \A c \in Elements(t.order.cells) : c \in t.offered \/ l[c] = Own(p)
    /\ ~t.order.build /\ ~t.order.partial => t.offered = Elements(t.order.cells)
    /\ t.stage \in {"BUMP", "ASSIGN", "CHARGE", "PATCH", "COMMIT"} /\ ~t.order.partial
           => t.got = t.offered

\* Every chunk in which it changes a cell is bumped, or about to be.
Bumped(t) ==
    /\ t.stage = "BUMP" =>
           t.toBump # {} /\ ChunksOf(t.got \cup t.built) \subseteq Reach(t) \cup t.toBump
    /\ t.stage \in {"ASSIGN", "CHARGE", "PATCH", "COMMIT"} =>
           ChunksOf(t.got \cup t.built) \subseteq Reach(t)

\* It was charged for what it holds.
Charged(t, b) == t.stage \in {"PATCH", "COMMIT"} => AsQuoted(t) /\ Due(t) <= b

Claims == \A p \in Buyers : Sound(p, tx[p], land)
Marks == \A p \in Buyers : Bumped(tx[p])
Charges == \A p \in Buyers : Charged(tx[p], balance[p])

\* No cell is acquired, and no chunk row held, by two transactions.
Exclusive ==
    \A p, q \in Buyers : p # q => /\ tx[p].got \cap tx[q].got = {}
                                  /\ Reach(tx[p]) \cap Reach(tx[q]) = {}

\* What the cache holds under a version to come is what the transaction that is about to
\* commit it will leave.
Written(p, ch, v) ==
    tx[p].stage = "COMMIT" /\ ch \in Touched(p) /\ v = NextVersion(p, ch)
    /\ cache[ch][v] = Seen(p, ch)
Ahead ==
    \A ch \in Chunks, v \in 0 .. MaxVersion :
        v > version[ch] /\ cache[ch][v] # Nothing /\ <<ch, v>> \notin tainted =>
            \E p \in Buyers : Written(p, ch, v)

\* A read that goes on holds the overlay of its version, if that is still the version.
Reads ==
    \A r \in Readers :
        LET x == reader[r]
        IN /\ x.stage # "NONE" => x.chunk \in Chunks /\ x.version <= version[x.chunk]
           /\ x.stage = "LOADED" /\ x.version = version[x.chunk] => x.cells = Overlay(x.chunk)

IInv ==
    /\ TypeOK /\ Claims /\ Marks /\ Charges /\ Exclusive /\ Ahead /\ Reads
    /\ PaidForWhatIsOwned /\ CacheTrue /\ FramesTrue

LEMMA TouchedIsReach == ASSUME NEW p PROVE Touched(p) = Reach(tx[p])
  BY DEF Touched, Reach

LEMMA TxFacts ==
    ASSUME TypeOK, NEW p \in Buyers
    PROVE  /\ tx[p] \in TxRows /\ Reach(tx[p]) \subseteq Chunks
           /\ tx[p].got \subseteq Cells /\ tx[p].built \subseteq Cells
           /\ \A ch \in Chunks : NextVersion(p, ch) \in Nat /\ NextVersion(p, ch) >= version[ch]
           /\ \A ch \in Touched(p) : ch \in Chunks /\ NextVersion(p, ch) > version[ch]
  <1>1. tx[p] \in TxRows /\ tx[p].bumps \in [Chunks -> Nat]
    BY DEF TypeOK, TxRows
  <1>2. \A ch \in Chunks : tx[p].bumps[ch] \in Nat /\ version[ch] \in Nat
    BY <1>1 DEF TypeOK
  <1>3. tx[p].got \subseteq Cells /\ tx[p].built \subseteq Cells
    BY <1>1 DEF TxRows
  <1> QED
    BY <1>1, <1>2, <1>3 DEF NextVersion, Touched, Reach

\* A step of an open transaction that commits nothing and does not reach the cache.
LEMMA OwnStep ==
    ASSUME IInv, NEW p \in Buyers, NEW t \in TxRows, Become(p, t),
           Sound(p, t, land), Bumped(t), Charged(t, balance[p]),
           \A q \in Buyers \ {p} : /\ t.got \cap tx[q].got = {}
                                   /\ Reach(t) \cap Reach(tx[q]) = {},
           t.stage = "COMMIT" => Reach(t) = {}, tx[p].stage # "COMMIT"
    PROVE  IInv'
  <1>0. tx \in [Buyers -> TxRows] /\ tx' = [tx EXCEPT ![p] = t]
    BY DEF IInv, TypeOK, Become
  <1>1. tx' \in [Buyers -> TxRows] /\ tx'[p] = t /\ \A q \in Buyers \ {p} : tx'[q] = tx[q]
    BY <1>0
  <1>2. UNCHANGED <<land, rows, version, balance, cache, reader, tainted>>
    BY DEF Become
  <1>3. TypeOK'
    BY <1>1, <1>2 DEF IInv, TypeOK
  <1>4. Claims' /\ Marks' /\ Charges'
    BY <1>1, <1>2 DEF IInv, Claims, Marks, Charges
  <1>5. Exclusive'
    BY <1>1 DEF IInv, Exclusive
  <1>6. ASSUME NEW q \in Buyers \ {p}, NEW ch \in Chunks
        PROVE  /\ (ch \in Touched(q))' <=> ch \in Touched(q)
               /\ NextVersion(q, ch)' = NextVersion(q, ch) /\ Seen(q, ch)' = Seen(q, ch)
    BY <1>1, <1>2 DEF Touched, NextVersion, Seen, Parcel
  <1>7. Ahead'
    <2> SUFFICES ASSUME NEW ch \in Chunks, NEW v \in 0 .. MaxVersion,
                        v > version[ch], cache[ch][v] # Nothing, <<ch, v>> \notin tainted
                 PROVE  \E q \in Buyers : Written(q, ch, v)'
      BY <1>2 DEF Ahead
    <2>1. PICK q \in Buyers : Written(q, ch, v)
      BY DEF IInv, Ahead
    <2>2. q # p
      BY <2>1 DEF Written
    <2> QED
      BY <1>1, <1>2, <1>6, <2>1, <2>2 DEF Written
  <1>8. Reads' /\ PaidForWhatIsOwned' /\ CacheTrue'
    BY <1>2 DEF IInv, Reads, PaidForWhatIsOwned, CacheTrue, Overlay, OwnedBy, BuiltBy
  <1>9. FramesTrue'
    <2> SUFFICES ASSUME NEW q \in Buyers, NEW ch \in Chunks,
                        (tx[q].stage = "COMMIT" /\ ch \in Touched(q)
                         /\ <<ch, NextVersion(q, ch)>> \notin tainted)'
                 PROVE  (tx[q].patch[ch] = Seen(q, ch))'
      BY DEF FramesTrue
    <2>1. q # p
      BY <1>1 DEF Touched, Reach
    <2> QED
      BY <1>1, <1>2, <1>6, <2>1 DEF IInv, FramesTrue
  <1> QED
    BY <1>3, <1>4, <1>5, <1>7, <1>8, <1>9 DEF IInv

-------------------------------------------------------------------------------
(* The steps of a purchase keep it *)

LEMMA OrderFacts ==
    ASSUME NEW o \in Orders
    PROVE  /\ o.cells \in Seq(Cells) /\ Elements(o.cells) \subseteq Cells
           /\ Elements(o.cells) # {} /\ o.partial \in BOOLEAN /\ o.build \in BOOLEAN
           /\ o.build => ~o.partial
  <1>1. o \in [cells : Seq(Cells), partial : BOOLEAN, agreed : BOOLEAN, build : BOOLEAN]
    BY LandAssumption
  <1>2. o.cells \in Seq(Cells) /\ o.cells # <<>> /\ (o.build => ~o.partial)
    BY <1>1, LandAssumption
  <1>3. 1 \in DOMAIN o.cells /\ \A i \in DOMAIN o.cells : o.cells[i] \in Cells
    BY <1>2
  <1> QED
    BY <1>1, <1>2, <1>3 DEF Elements

LEMMA NoTxType == NoTx \in TxRows /\ Reach(NoTx) = {}
  BY DEF NoTx, TxRows, Reach

LEMMA NoTxSound ==
    ASSUME NEW p, NEW l
    PROVE  Sound(p, NoTx, l)
  <1>1. Elements(<<>>) = {}
    BY DEF Elements
  <1> QED
    BY <1>1 DEF Sound, NoTx, NoOrder

LEMMA ParcelFacts ==
    ASSUME NEW p \in Buyers
    PROVE  /\ Wild.owner = Nobody /\ Wild.owner # p /\ Wild.built = FALSE
           /\ Own(p).owner = p /\ Own(p).built = FALSE /\ Own(p) # Wild
           /\ \A q \in Buyers \ {p} : Own(p) # Own(q)
  BY LandAssumption DEF Wild, Own

LEMMA BeginKeeps ==
    ASSUME IInv, NEW p \in Buyers, NEW o \in Orders, Begin(p, o)
    PROVE  IInv'
  <1> DEFINE offered == Purchasable(Elements(o.cells))
             t == [NoTx EXCEPT !.order = o, !.offered = offered, !.todo = offered,
                               !.stage = IF offered = {} THEN "ASSIGN" ELSE "CHUNKS"]
  <1>1. Become(p, t) /\ (o.build \/ offered # {}) /\ tx[p].stage = "NONE" /\ Acceptable(p, o)
    BY DEF Begin, Open
  <1>2. offered \subseteq Elements(o.cells) /\ Elements(o.cells) \subseteq Cells
    BY OrderFacts DEF Purchasable
  <1> HIDE DEF offered
  <1>3. t \in TxRows /\ t.got = {} /\ t.built = {} /\ Reach(t) = {} /\ t.order = o
        /\ t.offered = offered /\ t.todo = offered
        /\ t.stage = IF offered = {} THEN "ASSIGN" ELSE "CHUNKS"
    BY <1>2, NoTxType DEF NoTx, TxRows, Reach
  <1>4. o.build => \A c \in Elements(o.cells) : c \in offered \/ land[c] = Own(p)
    BY <1>1 DEF Acceptable, Purchasable, Own, offered
  <1>5. ~o.build /\ ~o.partial => offered = Elements(o.cells)
    BY <1>1 DEF Acceptable, Purchasable, offered
  <1>6. offered = {} => o.build /\ ~o.partial
    BY <1>1, OrderFacts
  <1> HIDE DEF t
  <1>7. Sound(p, t, land)
    BY <1>2, <1>3, <1>4, <1>5, <1>6 DEF Sound
  <1>8. Bumped(t) /\ Charged(t, balance[p])
    BY <1>3 DEF Bumped, Charged, ChunksOf
  <1> QED
    BY <1>1, <1>3, <1>7, <1>8, OwnStep

\* The next cell of a statement, and what is left after it.
LEMMA RowFacts ==
    ASSUME IInv, NEW p \in Buyers, tx[p].stage \in {"CHUNKS", "CELLS"}
    PROVE  /\ NextCell(tx[p]) \in tx[p].todo /\ NextCell(tx[p]) \in Cells
           /\ tx[p].todo # {} /\ tx[p].todo \subseteq tx[p].offered
  <1>1. tx[p] \in TxRows /\ Sound(p, tx[p], land)
    BY TxFacts DEF IInv, Claims
  <1>2. tx[p].order \in Orders /\ tx[p].todo # {} /\ tx[p].todo \subseteq tx[p].offered
        /\ tx[p].offered \subseteq Elements(tx[p].order.cells) /\ tx[p].todo \subseteq Cells
    BY <1>1 DEF Sound, TxRows
  <1>3. tx[p].order.cells \in Seq(Cells)
    BY <1>2, OrderFacts
  <1>4. NextCell(tx[p]) \in tx[p].todo
    BY <1>1, <1>2, <1>3, NextCellIsToDo
  <1> QED
    BY <1>2, <1>4

LEMMA EnsureChunkKeeps ==
    ASSUME IInv, NEW p \in Buyers, EnsureChunk(p)
    PROVE  IInv'
  <1> DEFINE c == NextCell(tx[p])
             ch == ChunkOf[c]
             m == IF ch \in rows THEN tx[p].made ELSE tx[p].made \cup {ch}
             t0 == [tx[p] EXCEPT !.made = m]
             t == RowDone(t0, c, [t0 EXCEPT !.stage = "CELLS", !.todo = t0.offered])
  <1>1. tx[p].stage = "CHUNKS" /\ Become(p, t)
    BY DEF EnsureChunk
  <1>2. /\ tx[p] \in TxRows /\ Sound(p, tx[p], land)
        /\ c \in tx[p].todo /\ c \in Cells /\ tx[p].todo \subseteq tx[p].offered
    BY <1>1, TxFacts, RowFacts DEF IInv, Claims
  <1>3. m \subseteq Chunks
    BY <1>2, LandAssumption DEF TxRows
  <1> HIDE DEF m, c
  <1>4. /\ t \in TxRows /\ t.got = tx[p].got /\ t.built = tx[p].built /\ t.bumps = tx[p].bumps
        /\ t.order = tx[p].order /\ t.offered = tx[p].offered
        /\ t.stage \in {"CHUNKS", "CELLS"} /\ t.todo # {} /\ t.todo \subseteq t.offered
    BY <1>1, <1>2, <1>3 DEF RowDone, TxRows
  <1> HIDE DEF t
  <1>5. Sound(p, t, land)
    BY <1>1, <1>2, <1>4 DEF Sound
  <1>6. Bumped(t) /\ Charged(t, balance[p])
    BY <1>4 DEF Bumped, Charged
  <1>7. Reach(t) = Reach(tx[p])
    BY <1>4 DEF Reach
  <1> QED
    BY <1>1, <1>4, <1>5, <1>6, <1>7, OwnStep DEF IInv, Exclusive

LEMMA ClaimCellKeeps ==
    ASSUME IInv, NEW p \in Buyers, ClaimCell(p)
    PROVE  IInv'
  <1> DEFINE c == NextCell(tx[p])
             g == IF land[c] = Wild THEN tx[p].got \cup {c} ELSE tx[p].got
             t0 == [tx[p] EXCEPT !.got = g]
             t == RowDone(t0, c, Claimed(t0))
  <1>1. tx[p].stage = "CELLS" /\ Become(p, t) /\ \A q \in Buyers \ {p} : c \notin tx[q].got
    BY DEF ClaimCell
  <1>2. /\ tx[p] \in TxRows /\ Sound(p, tx[p], land)
        /\ c \in tx[p].todo /\ c \in Cells /\ tx[p].todo \subseteq tx[p].offered
    BY <1>1, TxFacts, RowFacts DEF IInv, Claims
  <1>3. g \subseteq Cells /\ g \subseteq tx[p].offered /\ \A x \in g : land[x] = Wild
    BY <1>2 DEF TxRows, Sound
  <1>4. \A q \in Buyers \ {p} : g \cap tx[q].got = {}
    BY <1>1 DEF IInv, Exclusive
  <1> HIDE DEF g, c
  <1>5. ChunksOf(g) \subseteq Chunks /\ (g # {} => ChunksOf(g) # {})
    BY <1>3, LandAssumption DEF ChunksOf
  <1>6. /\ t \in TxRows /\ t.got = g /\ t.built = tx[p].built /\ t.bumps = tx[p].bumps
        /\ t.order = tx[p].order /\ t.offered = tx[p].offered
        /\ t.stage \in {"CELLS", "REFUSED", "BUMP", "CHARGE"}
        /\ t.stage = "CELLS" => t.todo # {} /\ t.todo \subseteq t.offered
        /\ t.stage \in {"BUMP", "CHARGE"} /\ ~t.order.partial => t.got = t.offered
        /\ t.stage = "BUMP" => t.toBump # {} /\ t.toBump = ChunksOf(g)
        /\ t.stage = "CHARGE" => g = {}
    BY <1>1, <1>2, <1>3, <1>5 DEF RowDone, Claimed, TxRows
  <1> HIDE DEF t
  <1>7. t.built = {}
    BY <1>1, <1>2, <1>6 DEF Sound
  <1>8. Sound(p, t, land)
    BY <1>1, <1>2, <1>3, <1>6, <1>7 DEF Sound
  <1>9. Bumped(t) /\ Charged(t, balance[p])
    BY <1>6, <1>7 DEF Bumped, Charged, ChunksOf
  <1>10. Reach(t) = Reach(tx[p])
    BY <1>6 DEF Reach
  <1> QED
    BY <1>1, <1>4, <1>6, <1>8, <1>9, <1>10, OwnStep DEF IInv, Exclusive

LEMMA BumpChunkKeeps ==
    ASSUME IInv, NEW p \in Buyers, BumpChunk(p)
    PROVE  IInv'
  <1> DEFINE ch == NextToBump(tx[p])
             after == IF tx[p].order.build /\ tx[p].built = {} THEN "ASSIGN" ELSE "CHARGE"
             b == [tx[p].bumps EXCEPT ![ch] = @ + 1]
             t == [tx[p] EXCEPT !.bumps = b, !.toBump = @ \ {ch},
                                !.stage = IF tx[p].toBump = {ch} THEN after ELSE "BUMP"]
  <1>1. tx[p].stage = "BUMP" /\ Become(p, t) /\ \A q \in Buyers \ {p} : tx[q].bumps[ch] = 0
    BY DEF BumpChunk
  <1>2. tx[p] \in TxRows /\ Sound(p, tx[p], land) /\ Bumped(tx[p])
    BY TxFacts DEF IInv, Claims, Marks
  <1>3. ch \in tx[p].toBump /\ ch \in Chunks /\ tx[p].bumps \in [Chunks -> Nat]
    BY <1>1, <1>2, NextChunkIsToBump DEF Bumped, TxRows
  <1> HIDE DEF ch
  <1>4. /\ b \in [Chunks -> Nat]
        /\ {x \in Chunks : b[x] > 0} = Reach(tx[p]) \cup {ch}
    BY <1>3 DEF Reach
  <1>5. after \in {"ASSIGN", "CHARGE"} /\ (after = "ASSIGN" => tx[p].order.build /\ tx[p].built = {})
    OBVIOUS
  <1> HIDE DEF b, after
  <1>6. /\ t \in TxRows /\ t.got = tx[p].got /\ t.built = tx[p].built /\ t.bumps = b
        /\ t.order = tx[p].order /\ t.offered = tx[p].offered /\ t.toBump = tx[p].toBump \ {ch}
        /\ t.stage = IF tx[p].toBump = {ch} THEN after ELSE "BUMP"
    BY <1>2, <1>4, <1>5 DEF TxRows
  <1> HIDE DEF t
  <1>7. Reach(t) = Reach(tx[p]) \cup {ch}
    BY <1>4, <1>6 DEF Reach
  <1>8. Sound(p, t, land)
    BY <1>1, <1>2, <1>5, <1>6 DEF Sound
  <1>9. Bumped(t)
    BY <1>1, <1>2, <1>3, <1>5, <1>6, <1>7 DEF Bumped
  <1>10. Charged(t, balance[p]) /\ t.stage # "COMMIT"
    BY <1>5, <1>6 DEF Charged
  <1>11. \A q \in Buyers \ {p} : ch \notin Reach(tx[q])
    BY <1>1 DEF Reach
  <1>12. \A q \in Buyers \ {p} : t.got \cap tx[q].got = {} /\ Reach(t) \cap Reach(tx[q]) = {}
    BY <1>6, <1>7, <1>11 DEF IInv, Exclusive
  <1> QED
    BY <1>1, <1>6, <1>8, <1>9, <1>10, <1>12, OwnStep

LEMMA AssignUseKeeps ==
    ASSUME IInv, NEW p \in Buyers, AssignUse(p)
    PROVE  IInv'
  <1> DEFINE footprint == Elements(tx[p].order.cells)
             t == [tx[p] EXCEPT !.built = footprint, !.toBump = ChunksOf(footprint),
                                !.stage = "BUMP"]
  <1>1. tx[p].stage = "ASSIGN" /\ Become(p, t)
    BY DEF AssignUse
  <1>2. tx[p] \in TxRows /\ Sound(p, tx[p], land) /\ Bumped(tx[p])
    BY TxFacts DEF IInv, Claims, Marks
  <1>3. tx[p].order \in Orders
    BY <1>1, <1>2 DEF Sound
  <1>4. footprint \subseteq Cells /\ footprint # {}
    BY <1>3, OrderFacts
  <1>5. ChunksOf(footprint) \subseteq Chunks /\ ChunksOf(footprint) # {}
    BY <1>4, LandAssumption DEF ChunksOf
  <1>6. /\ t \in TxRows /\ t.got = tx[p].got /\ t.built = footprint /\ t.bumps = tx[p].bumps
        /\ t.order = tx[p].order /\ t.offered = tx[p].offered /\ t.toBump = ChunksOf(footprint)
        /\ t.stage = "BUMP"
    BY <1>2, <1>4, <1>5 DEF TxRows
  <1>7. Reach(t) = Reach(tx[p])
    BY <1>6 DEF Reach
  <1> HIDE DEF t, footprint
  <1>8. tx[p].order.build /\ ~tx[p].order.partial /\ tx[p].got = tx[p].offered
    BY <1>1, <1>2, <1>3, OrderFacts DEF Sound
  <1>9. /\ \A c \in footprint : c \in tx[p].got \/ land[c] = Own(p)
        /\ tx[p].got \subseteq footprint
    BY <1>2, <1>8 DEF Sound, footprint
  <1>10. Sound(p, t, land)
    BY <1>1, <1>2, <1>3, <1>6, <1>8, <1>9 DEF Sound
  <1>11. ChunksOf(t.got \cup t.built) = ChunksOf(footprint)
    BY <1>6, <1>9 DEF ChunksOf
  <1>12. Bumped(t) /\ Charged(t, balance[p])
    BY <1>5, <1>6, <1>11 DEF Bumped, Charged
  <1>13. \A q \in Buyers \ {p} : t.got \cap tx[q].got = {} /\ Reach(t) \cap Reach(tx[q]) = {}
    BY <1>6, <1>7 DEF IInv, Exclusive
  <1> QED
    BY <1>1, <1>6, <1>10, <1>12, <1>13, OwnStep

LEMMA ChargeKeeps ==
    ASSUME IInv, NEW p \in Buyers, Charge(p)
    PROVE  IInv'
  <1> DEFINE after == IF Touched(p) = {} THEN "COMMIT" ELSE "PATCH"
             t == [tx[p] EXCEPT !.stage = after]
  <1>1. /\ tx[p].stage = "CHARGE" /\ Become(p, t)
        /\ AsQuoted(tx[p]) /\ Due(tx[p]) <= balance[p]
    BY DEF Charge
  <1>2. tx[p] \in TxRows /\ Sound(p, tx[p], land) /\ Bumped(tx[p])
    BY TxFacts DEF IInv, Claims, Marks
  <1>3. after \in {"PATCH", "COMMIT"} /\ (after = "COMMIT" => Reach(tx[p]) = {})
    BY TouchedIsReach
  <1> HIDE DEF after
  <1>4. /\ t \in TxRows /\ t.got = tx[p].got /\ t.built = tx[p].built /\ t.bumps = tx[p].bumps
        /\ t.order = tx[p].order /\ t.offered = tx[p].offered /\ t.stage = after
    BY <1>2, <1>3 DEF TxRows
  <1> HIDE DEF t
  <1>5. Reach(t) = Reach(tx[p])
    BY <1>4 DEF Reach
  <1>6. Sound(p, t, land)
    BY <1>1, <1>2, <1>3, <1>4 DEF Sound
  <1>7. Bumped(t)
    BY <1>1, <1>2, <1>3, <1>4, <1>5 DEF Bumped
  <1>8. Charged(t, balance[p])
    BY <1>1, <1>4 DEF Charged, AsQuoted, Due
  <1>9. \A q \in Buyers \ {p} : t.got \cap tx[q].got = {} /\ Reach(t) \cap Reach(tx[q]) = {}
    BY <1>4, <1>5 DEF IInv, Exclusive
  <1> QED
    BY <1>1, <1>3, <1>4, <1>5, <1>6, <1>7, <1>8, <1>9, OwnStep

LEMMA OverlayType ==
    ASSUME TypeOK, NEW ch \in Chunks
    PROVE  Overlay(ch) \in Overlays
  <1>1. Overlay(ch) \in [CellsOf(ch) -> Parcels]
    BY DEF TypeOK, Overlay, CellsOf
  <1> QED
    BY <1>1 DEF Overlays

LEMMA SeenType ==
    ASSUME TypeOK, NEW p \in Buyers
    PROVE  /\ \A c \in Cells : Parcel(p, c) \in Parcels
           /\ \A ch \in Chunks : Seen(p, ch) \in Overlays
  <1>1. \A c \in Cells : land[c] \in Parcels /\ land[c].built \in BOOLEAN
    BY DEF TypeOK, Parcels
  <1>2. \A c \in Cells : Parcel(p, c) \in Parcels
    BY <1>1 DEF Parcel, Parcels
  <1>3. ASSUME NEW ch \in Chunks
        PROVE  Seen(p, ch) \in [CellsOf(ch) -> Parcels]
    BY <1>2 DEF Seen, CellsOf
  <1> QED
    BY <1>2, <1>3 DEF Overlays

\* A frame is what the purchase will leave, unless it was found under a tainted key: nobody
\* else can have written that version.
LEMMA FreshFrame ==
    ASSUME IInv, NEW p \in Buyers, tx[p].stage = "PATCH", NEW redis \in BOOLEAN,
           NEW ch \in Touched(p), NextVersion(p, ch) <= MaxVersion,
           <<ch, NextVersion(p, ch)>> \notin tainted
    PROVE  FrameCells(p, ch, redis) = Seen(p, ch)
  <1>1. /\ ch \in Chunks /\ NextVersion(p, ch) \in Nat /\ NextVersion(p, ch) > version[ch]
    BY TxFacts DEF IInv
  <1>2. NextVersion(p, ch) \in 0 .. MaxVersion
    BY <1>1, LandAssumption
  <1>3. SUFFICES ASSUME cache[ch][NextVersion(p, ch)] # Nothing PROVE FALSE
    BY DEF FrameCells, Cached
  <1>4. PICK q \in Buyers : Written(q, ch, NextVersion(p, ch))
    BY <1>1, <1>2, <1>3 DEF IInv, Ahead
  <1>5. q # p /\ ch \in Reach(tx[q]) /\ ch \in Reach(tx[p])
    BY <1>4, TouchedIsReach DEF Written
  <1> QED
    BY <1>5 DEF IInv, Exclusive

LEMMA PatchFramesKeeps ==
    ASSUME IInv, NEW p \in Buyers, PatchFrames(p)
    PROVE  IInv'
  <1>1. PICK redis \in BOOLEAN, writes \in BOOLEAN :
         /\ tx' = [tx EXCEPT ![p].stage = "COMMIT",
                             ![p].patch = [ch \in Chunks |-> IF ch \in Touched(p)
                                                             THEN FrameCells(p, ch, redis)
                                                             ELSE Nothing]]
         /\ cache' = IF ~writes THEN cache
                     ELSE [ch \in Chunks |->
                             IF ch \in Touched(p)
                             THEN [cache[ch] EXCEPT ![NextVersion(p, ch)] = FrameCells(p, ch, redis)]
                             ELSE cache[ch]]
    BY DEF PatchFrames
  <1>2. /\ tx[p].stage = "PATCH" /\ \A ch \in Touched(p) : NextVersion(p, ch) <= MaxVersion
        /\ UNCHANGED <<land, rows, version, balance, reader, tainted>>
    BY DEF PatchFrames
  <1> DEFINE frame(ch) == FrameCells(p, ch, redis)
             frames == [ch \in Chunks |-> IF ch \in Touched(p) THEN frame(ch) ELSE Nothing]
             t == [tx[p] EXCEPT !.stage = "COMMIT", !.patch = frames]
  <1>3. ASSUME NEW ch \in Touched(p)
        PROVE  /\ frame(ch) \in Overlays /\ ch \in Chunks /\ NextVersion(p, ch) \in 0 .. MaxVersion
               /\ NextVersion(p, ch) > version[ch]
    <2>1. /\ ch \in Chunks /\ NextVersion(p, ch) \in Nat /\ NextVersion(p, ch) > version[ch]
      BY TxFacts DEF IInv
    <2>2. NextVersion(p, ch) \in 0 .. MaxVersion
      BY <1>2, <2>1, LandAssumption
    <2>5. cache \in [Chunks -> [0 .. MaxVersion -> Overlays \cup {Nothing}]]
      BY DEF IInv, TypeOK
    <2>6. cache[ch] \in [0 .. MaxVersion -> Overlays \cup {Nothing}]
      BY <2>1, <2>5
    <2>3. cache[ch][NextVersion(p, ch)] \in Overlays \cup {Nothing}
      BY <2>2, <2>6
    <2>4. frame(ch) \in Overlays
      BY <2>1, <2>3, SeenType DEF FrameCells, Cached, IInv
    <2> QED
      BY <2>1, <2>2, <2>4
  <1>4. \A ch \in Touched(p) : <<ch, NextVersion(p, ch)>> \notin tainted => frame(ch) = Seen(p, ch)
    BY <1>2, FreshFrame
  <1> HIDE DEF frame
  <1>5. /\ tx[p] \in TxRows /\ Sound(p, tx[p], land) /\ Bumped(tx[p])
        /\ Charged(tx[p], balance[p])
    BY TxFacts DEF IInv, Claims, Marks, Charges
  <1>6. frames \in [Chunks -> Overlays \cup {Nothing}] /\ \A ch \in Touched(p) : frames[ch] = frame(ch)
    BY <1>3
  <1>7. tx' = [tx EXCEPT ![p] = t] /\ tx \in [Buyers -> TxRows]
    BY <1>1 DEF frame, IInv, TypeOK
  <1> HIDE DEF frames
  <1>8. /\ t \in TxRows /\ t.got = tx[p].got /\ t.built = tx[p].built /\ t.bumps = tx[p].bumps
        /\ t.order = tx[p].order /\ t.offered = tx[p].offered /\ t.stage = "COMMIT"
        /\ t.patch = frames
    BY <1>5, <1>6 DEF TxRows
  <1> HIDE DEF t
  <1>9. tx' \in [Buyers -> TxRows] /\ tx'[p] = t /\ \A q \in Buyers \ {p} : tx'[q] = tx[q]
    BY <1>7, <1>8
  <1>10. ASSUME NEW q \in Buyers
         PROVE  /\ Reach(tx'[q]) = Reach(tx[q]) /\ tx'[q].got = tx[q].got
                /\ Touched(q)' = Touched(q)
                /\ \A ch \in Chunks : /\ NextVersion(q, ch)' = NextVersion(q, ch)
                                      /\ Seen(q, ch)' = Seen(q, ch)
    <2>1. tx'[q].got = tx[q].got /\ tx'[q].built = tx[q].built /\ tx'[q].bumps = tx[q].bumps
      BY <1>8, <1>9
    <2> QED
      BY <1>2, <2>1 DEF Reach, Touched, NextVersion, Seen, Parcel
  <1>11. ASSUME NEW ch \in Chunks, NEW v \in 0 .. MaxVersion
         PROVE  \/ cache'[ch][v] = cache[ch][v]
                \/ ch \in Touched(p) /\ v = NextVersion(p, ch) /\ cache'[ch][v] = frame(ch)
    <2>1. cache[ch] \in [0 .. MaxVersion -> Overlays \cup {Nothing}]
      BY DEF IInv, TypeOK
    <2>2. CASE ~writes
      BY <1>1, <2>2
    <2>3. CASE writes /\ ch \notin Touched(p)
      BY <1>1, <2>3
    <2>4. CASE writes /\ ch \in Touched(p)
      <3>1. cache'[ch] = [cache[ch] EXCEPT ![NextVersion(p, ch)] = frame(ch)]
        BY <1>1, <2>4 DEF frame
      <3> QED
        BY <2>1, <2>4, <3>1
    <2> QED
      BY <2>2, <2>3, <2>4
  <1>12. cache' \in [Chunks -> [0 .. MaxVersion -> Overlays \cup {Nothing}]]
    <2>1. cache \in [Chunks -> [0 .. MaxVersion -> Overlays \cup {Nothing}]]
      BY DEF IInv, TypeOK
    <2>2. CASE ~writes
      BY <1>1, <2>1, <2>2
    <2>3. CASE writes
      <3>1. cache' = [ch \in Chunks |->
                        IF ch \in Touched(p)
                        THEN [cache[ch] EXCEPT ![NextVersion(p, ch)] = frame(ch)]
                        ELSE cache[ch]]
        BY <1>1, <2>3 DEF frame
      <3>2. ASSUME NEW ch \in Touched(p)
            PROVE  [cache[ch] EXCEPT ![NextVersion(p, ch)] = frame(ch)]
                      \in [0 .. MaxVersion -> Overlays \cup {Nothing}]
        BY <1>3, <2>1
      <3> QED
        BY <2>1, <3>1, <3>2
    <2> QED
      BY <2>2, <2>3
  <1>13. TypeOK'
    BY <1>2, <1>9, <1>12 DEF IInv, TypeOK
  <1>14. Claims' /\ Marks' /\ Charges'
    <2>1. Sound(p, t, land)
      BY <1>2, <1>5, <1>8 DEF Sound
    <2>2. Bumped(t) /\ Charged(t, balance[p])
      BY <1>2, <1>5, <1>8 DEF Bumped, Charged, Reach, AsQuoted, Due
    <2> QED
      BY <1>2, <1>9, <2>1, <2>2 DEF IInv, Claims, Marks, Charges
  <1>15. Exclusive'
    BY <1>10 DEF IInv, Exclusive
  <1>16. Ahead'
    <2> SUFFICES ASSUME NEW ch \in Chunks, NEW v \in 0 .. MaxVersion,
                        v > version[ch], cache'[ch][v] # Nothing, <<ch, v>> \notin tainted
                 PROVE  \E q \in Buyers : Written(q, ch, v)'
      BY <1>2 DEF Ahead
    <2>1. CASE cache'[ch][v] = cache[ch][v]
      <3>1. PICK q \in Buyers : Written(q, ch, v)
        BY <2>1 DEF IInv, Ahead
      <3>2. q # p
        BY <1>2, <3>1 DEF Written
      <3> QED
        BY <1>9, <1>10, <2>1, <3>1, <3>2 DEF Written
    <2>2. CASE ch \in Touched(p) /\ v = NextVersion(p, ch) /\ cache'[ch][v] = frame(ch)
      BY <1>4, <1>8, <1>9, <1>10, <2>2 DEF Written
    <2> QED
      BY <1>11, <2>1, <2>2
  <1>17. Reads' /\ PaidForWhatIsOwned'
    BY <1>2 DEF IInv, Reads, PaidForWhatIsOwned, Overlay, OwnedBy, BuiltBy
  <1>18. CacheTrue'
    <2> SUFFICES ASSUME NEW ch \in Chunks, version[ch] <= MaxVersion,
                        <<ch, version[ch]>> \notin tainted
                 PROVE  cache'[ch][version[ch]] \in {Nothing, Overlay(ch)}
      BY <1>2 DEF CacheTrue, Overlay
    <2>1. version[ch] \in 0 .. MaxVersion
      BY LandAssumption DEF IInv, TypeOK
    <2>2. cache'[ch][version[ch]] = cache[ch][version[ch]]
      BY <1>3, <1>11, <2>1
    <2> QED
      BY <2>2 DEF IInv, CacheTrue
  <1>19. FramesTrue'
    <2> SUFFICES ASSUME NEW q \in Buyers, NEW ch \in Chunks,
                        tx'[q].stage = "COMMIT", ch \in Touched(q),
                        <<ch, NextVersion(q, ch)>> \notin tainted
                 PROVE  tx'[q].patch[ch] = Seen(q, ch)
      BY <1>2, <1>10 DEF FramesTrue
    <2>1. CASE q = p
      BY <1>4, <1>6, <1>8, <1>9, <2>1
    <2>2. CASE q # p
      BY <1>9, <2>2 DEF IInv, FramesTrue
    <2> QED
      BY <2>1, <2>2
  <1> QED
    BY <1>13, <1>14, <1>15, <1>16, <1>17, <1>18, <1>19 DEF IInv

\* What a commit changes: the cells of the purchase, in chunks that it has bumped, and
\* nothing that another open transaction relies on.
LEMMA CommitFacts ==
    ASSUME IInv, NEW p \in Buyers, Commit(p)
    PROVE  /\ \A c \in Cells : c \notin tx[p].got \cup tx[p].built => land'[c] = land[c]
           /\ \A c \in tx[p].got \cup tx[p].built :
                 /\ land'[c] = [owner |-> p, built |-> c \in tx[p].built]
                 /\ (c \in tx[p].got /\ land[c] = Wild)
                      \/ (c \in tx[p].built \ tx[p].got /\ land[c] = Own(p))
           /\ \A q \in Buyers \ {p} : \A c \in Cells :
                 c \in tx[q].got \/ land[c] = Own(q) => land'[c] = land[c]
           /\ \A ch \in Chunks \ Touched(p) :
                 /\ version'[ch] = version[ch]
                 /\ \A c \in CellsOf(ch) : land'[c] = land[c]
           /\ \A ch \in Touched(p) : version'[ch] > version[ch]
  <1>1. /\ tx[p].stage = "COMMIT" /\ tx[p] \in TxRows /\ Sound(p, tx[p], land)
        /\ Bumped(tx[p])
    BY TxFacts DEF Commit, IInv, Claims, Marks
  <1>2. /\ land' = [c \in Cells |-> Parcel(p, c)]
        /\ version' = [ch \in Chunks |-> NextVersion(p, ch)]
    BY DEF Commit
  <1>3. tx[p].got \subseteq Cells /\ tx[p].built \subseteq Cells
        /\ tx[p].bumps \in [Chunks -> Nat] /\ version \in [Chunks -> Nat]
    BY <1>1 DEF TxRows, IInv, TypeOK
  <1>4. \A c \in tx[p].got : land[c] = Wild
    BY <1>1 DEF Sound
  <1>5. ASSUME NEW c \in tx[p].got \cup tx[p].built
        PROVE  (c \in tx[p].got /\ land[c] = Wild)
                 \/ (c \in tx[p].built \ tx[p].got /\ land[c] = Own(p))
    <2>1. c \in tx[p].got \/ land[c] = Own(p)
      BY <1>1 DEF Sound
    <2> QED
      BY <1>4, <2>1, ParcelFacts
  <1>6. ASSUME NEW c \in tx[p].got \cup tx[p].built
        PROVE  land'[c] = [owner |-> p, built |-> c \in tx[p].built]
    <2>1. land[c].built = FALSE
      BY <1>5, ParcelFacts
    <2> QED
      BY <1>2, <1>3, <2>1 DEF Parcel
  <1>7. \A c \in Cells : c \notin tx[p].got \cup tx[p].built => land'[c] = land[c]
    BY <1>2 DEF Parcel
  <1>8. ASSUME NEW q \in Buyers \ {p}, NEW c \in Cells, c \in tx[q].got \/ land[c] = Own(q)
        PROVE  land'[c] = land[c]
    <2>1. tx[p].got \cap tx[q].got = {} /\ (c \in tx[q].got => land[c] = Wild)
      BY DEF IInv, Claims, Exclusive, Sound
    <2>2. Own(q) # Wild /\ Own(p) # Wild /\ Own(p) # Own(q)
      BY ParcelFacts
    <2>3. c \notin tx[p].got \cup tx[p].built
      BY <1>5, <1>8, <2>1, <2>2
    <2> QED
      BY <1>7, <2>3
  <1>9. ASSUME NEW ch \in Chunks \ Touched(p)
        PROVE  /\ version'[ch] = version[ch] /\ \A c \in CellsOf(ch) : land'[c] = land[c]
    <2>1. tx[p].bumps[ch] = 0
      BY <1>3 DEF Touched
    <2>2. version'[ch] = version[ch]
      BY <1>2, <1>3, <2>1 DEF NextVersion
    <2>3. ASSUME NEW c \in CellsOf(ch) PROVE c \notin tx[p].got \cup tx[p].built
      BY <1>1, TouchedIsReach DEF Bumped, ChunksOf, CellsOf
    <2> QED
      BY <1>7, <2>2, <2>3 DEF CellsOf
  <1>10. \A ch \in Touched(p) : version'[ch] > version[ch]
    BY <1>2, TxFacts DEF IInv
  <1> QED
    BY <1>5, <1>6, <1>7, <1>8, <1>9, <1>10

\* The money of a purchase is the price of what it adds to the buyer's land.
LEMMA CommitPays ==
    ASSUME IInv, NEW p \in Buyers, Commit(p)
    PROVE  PaidForWhatIsOwned' /\ balance' \in [Buyers -> Nat]
  <1> DEFINE G == tx[p].got
             B == tx[p].built
  <1>1. /\ G \subseteq Cells /\ B \subseteq Cells /\ tx[p] \in TxRows
        /\ Charged(tx[p], balance[p]) /\ balance \in [Buyers -> Nat] /\ land \in [Cells -> Parcels]
        /\ tx[p].stage = "COMMIT"
    BY TxFacts DEF IInv, Charges, TypeOK, Commit
  <1>2. balance' = [balance EXCEPT ![p] = @ - Due(tx[p])]
    BY DEF Commit
  <1>3. Due(tx[p]) = PriceOf(G) + StructurePrice * Cardinality(B) /\ Due(tx[p]) \in Nat
        /\ Due(tx[p]) <= balance[p] /\ balance[p] \in Nat
    BY <1>1, DueType DEF Due, Charged
  <1>4. balance' \in [Buyers -> Nat]
    BY <1>1, <1>2, <1>3
  <1>5. ASSUME NEW q \in Buyers
        PROVE  balance'[q] + PriceOf(OwnedBy(q)') + StructurePrice * Cardinality(BuiltBy(q)')
                   = Opening
    <2>1. balance[q] + PriceOf(OwnedBy(q)) + StructurePrice * Cardinality(BuiltBy(q)) = Opening
      BY DEF IInv, PaidForWhatIsOwned
    <2>2. CASE q # p
      <3>1. ASSUME NEW c \in Cells
            PROVE  land'[c] = land[c] \/ (land'[c].owner # q /\ land[c].owner # q)
        <4>1. CASE c \in G \cup B
          <5>3. land'[c] = [owner |-> p, built |-> c \in B]
            BY <4>1, CommitFacts
          <5>1. land'[c].owner = p
            BY <5>3
          <5>2. land[c] = Wild \/ land[c] = Own(p)
            BY <4>1, CommitFacts
          <5> QED
            BY <2>2, <5>1, <5>2, ParcelFacts
        <4>2. CASE c \notin G \cup B
          BY <4>2, CommitFacts
        <4> QED
          BY <4>1, <4>2
      <3>3. OwnedBy(q)' = OwnedBy(q) /\ BuiltBy(q)' = BuiltBy(q)
        BY <3>1 DEF OwnedBy, BuiltBy
      <3> QED
        BY <1>1, <1>2, <2>1, <2>2, <3>3
    <2>3. CASE q = p
      <3> DEFINE O == OwnedBy(p)
                 S == BuiltBy(p)
      <3>1. O \subseteq Cells /\ S \subseteq Cells
        BY DEF OwnedBy, BuiltBy
      <3>10. ASSUME NEW c \in G \cup B
             PROVE  /\ land'[c].owner = p /\ land'[c].built = (c \in B) /\ land[c].built = FALSE
                    /\ land[c].owner = p <=> c \notin G
        <4>3. land'[c] = [owner |-> p, built |-> c \in B]
          BY CommitFacts
        <4>1. land'[c].owner = p /\ land'[c].built = (c \in B)
          BY <4>3
        <4>2. (c \in G /\ land[c] = Wild) \/ (c \in B \ G /\ land[c] = Own(p))
          BY CommitFacts
        <4> QED
          BY <4>1, <4>2, ParcelFacts
      <3>11. \A c \in Cells : c \notin G \cup B => land'[c] = land[c]
        BY CommitFacts
      <3>2. OwnedBy(p)' = O \cup G /\ O \cap G = {}
        BY <1>1, <3>10, <3>11 DEF OwnedBy
      <3>3. BuiltBy(p)' = S \cup B /\ S \cap B = {}
        BY <1>1, <3>10, <3>11 DEF OwnedBy, BuiltBy
      <3> HIDE DEF O, S, G, B
      <3>4. /\ PriceOf(O \cup G) = PriceOf(O) + PriceOf(G)
            /\ PriceOf(O) \in Nat /\ PriceOf(G) \in Nat
        BY <1>1, <3>1, <3>2, PriceAdds, PriceType
      <3>5. /\ Cardinality(S \cup B) = Cardinality(S) + Cardinality(B)
            /\ Cardinality(S) \in Nat /\ Cardinality(B) \in Nat
        BY <1>1, <3>1, <3>3, CountAdds, CountType
      <3>6. /\ StructurePrice * Cardinality(S \cup B)
                  = StructurePrice * Cardinality(S) + StructurePrice * Cardinality(B)
            /\ StructurePrice * Cardinality(S) \in Nat /\ StructurePrice * Cardinality(B) \in Nat
        BY <3>5, TimesAdds
      <3>7. balance'[p] = balance[p] - Due(tx[p])
        BY <1>1, <1>2
      <3>8. balance[p] + PriceOf(O) + StructurePrice * Cardinality(S) = Opening
        BY <2>1, <2>3 DEF O, S
      <3>9. balance'[p] + PriceOf(O \cup G) + StructurePrice * Cardinality(S \cup B) = Opening
        BY <1>3, <3>4, <3>6, <3>7, <3>8, SMT
      <3> QED
        BY <2>3, <3>2, <3>3, <3>9
    <2> QED
      BY <2>2, <2>3
  <1> QED
    BY <1>4, <1>5 DEF PaidForWhatIsOwned

LEMMA CommitKeeps ==
    ASSUME IInv, NEW p \in Buyers, Commit(p)
    PROVE  IInv'
  <1>1. /\ tx[p].stage = "COMMIT"
        /\ land' = [c \in Cells |-> Parcel(p, c)] /\ rows' = rows \cup tx[p].made
        /\ version' = [ch \in Chunks |-> NextVersion(p, ch)]
        /\ balance' = [balance EXCEPT ![p] = @ - Due(tx[p])]
        /\ tx' = [tx EXCEPT ![p] = NoTx] /\ UNCHANGED <<cache, reader, tainted>>
    BY DEF Commit
  <1>2. /\ tx[p] \in TxRows /\ Sound(p, tx[p], land) /\ tx[p].made \subseteq Chunks
        /\ balance \in [Buyers -> Nat] /\ tx \in [Buyers -> TxRows]
    BY TxFacts DEF IInv, Claims, TypeOK, TxRows
  <1>3. tx' \in [Buyers -> TxRows] /\ tx'[p] = NoTx /\ \A q \in Buyers \ {p} : tx'[q] = tx[q]
    BY <1>1, <1>2, NoTxType
  <1>4. land' \in [Cells -> Parcels] /\ version' \in [Chunks -> Nat] /\ balance' \in [Buyers -> Nat]
    BY <1>1, SeenType, TxFacts, CommitPays DEF IInv
  <1>5. TypeOK'
    <2>1. rows' \subseteq Chunks
      BY <1>1, <1>2 DEF IInv, TypeOK
    <2> QED
      BY <1>1, <1>3, <1>4, <2>1 DEF IInv, TypeOK
  <1>6. Claims'
    <2> SUFFICES ASSUME NEW q \in Buyers PROVE Sound(q, tx'[q], land')
      BY DEF Claims
    <2>1. CASE q = p
      BY <1>3, <2>1, NoTxSound
    <2>2. CASE q # p
      <3>1. Sound(q, tx[q], land) /\ tx'[q] = tx[q] /\ tx[q] \in TxRows
        BY <1>3, <2>2, TxFacts DEF IInv, Claims
      <3>2. /\ tx[q].got \subseteq Cells /\ tx[q].built \subseteq Cells
            /\ tx[q].order \in Orders \cup {NoOrder}
        BY <3>1 DEF TxRows
      <3>3. Elements(tx[q].order.cells) \subseteq Cells
        BY <3>2, OrderFacts DEF NoOrder, Elements
      <3>4. \A c \in Cells : c \in tx[q].got \/ land[c] = Own(q) => land'[c] = land[c]
        BY <2>2, CommitFacts
      <3> QED
        BY <3>1, <3>2, <3>3, <3>4 DEF Sound
    <2> QED
      BY <2>1, <2>2
  <1>7. Marks' /\ Charges'
    <2> SUFFICES ASSUME NEW q \in Buyers PROVE Bumped(tx'[q]) /\ Charged(tx'[q], balance'[q])
      BY DEF Marks, Charges
    <2>1. CASE q = p
      BY <1>3, <2>1 DEF Bumped, Charged, NoTx
    <2>2. CASE q # p
      BY <1>1, <1>2, <1>3, <2>2 DEF IInv, Marks, Charges
    <2> QED
      BY <2>1, <2>2
  <1>8. Exclusive'
    <2>1. tx'[p].got = {} /\ Reach(tx'[p]) = {}
      BY <1>3, NoTxType DEF NoTx
    <2> QED
      BY <1>3, <2>1 DEF IInv, Exclusive
  <1>9. ASSUME NEW q \in Buyers \ {p}, NEW ch \in Touched(q)
        PROVE  /\ ch \in Chunks /\ ch \notin Touched(p) /\ version'[ch] = version[ch]
               /\ (ch \in Touched(q))' /\ NextVersion(q, ch)' = NextVersion(q, ch)
               /\ Seen(q, ch)' = Seen(q, ch)
    <2>1. ch \in Chunks /\ ch \notin Touched(p)
      BY TouchedIsReach DEF IInv, Exclusive, Reach
    <2>2. version'[ch] = version[ch] /\ \A c \in CellsOf(ch) : land'[c] = land[c]
      BY <2>1, CommitFacts
    <2>3. \A c \in CellsOf(ch) : Parcel(q, c)' = Parcel(q, c)
      BY <1>3, <2>2 DEF Parcel
    <2>4. Seen(q, ch)' = Seen(q, ch)
      BY <2>3 DEF Seen
    <2> QED
      BY <1>3, <2>1, <2>2, <2>4 DEF Touched, NextVersion
  <1>10. \A ch \in Chunks : version'[ch] = NextVersion(p, ch) /\ version'[ch] >= version[ch]
                            /\ version[ch] \in Nat
    BY <1>1, TxFacts DEF IInv, TypeOK
  <1>11. Ahead'
    <2> SUFFICES ASSUME NEW ch \in Chunks, NEW v \in 0 .. MaxVersion,
                        v > version'[ch], cache[ch][v] # Nothing, <<ch, v>> \notin tainted
                 PROVE  \E q \in Buyers : Written(q, ch, v)'
      BY <1>1 DEF Ahead
    <2>1. v > version[ch]
      BY <1>4, <1>10, LandAssumption
    <2>2. PICK q \in Buyers : Written(q, ch, v)
      BY <2>1 DEF IInv, Ahead
    <2>3. q # p
      BY <1>10, <2>2 DEF Written
    <2> QED
      BY <1>1, <1>3, <1>9, <2>2, <2>3 DEF Written
  <1>12. ASSUME NEW ch \in Chunks \ Touched(p) PROVE Overlay(ch)' = Overlay(ch)
    BY CommitFacts DEF Overlay
  <1>13. Reads'
    <2> SUFFICES ASSUME NEW r \in Readers, reader[r].stage # "NONE",
                        NEW ch \in Chunks, ch = reader[r].chunk
                 PROVE  /\ reader[r].version <= version'[ch]
                        /\ reader[r].stage = "LOADED" /\ reader[r].version = version'[ch]
                             => reader[r].cells = Overlay(ch)'
      BY <1>1 DEF Reads, Overlay, IInv
    <2>1. /\ ch \in Chunks /\ reader[r].version <= version[ch] /\ reader[r].version \in Nat
          /\ reader[r].stage = "LOADED" /\ reader[r].version = version[ch]
                => reader[r].cells = Overlay(ch)
      BY DEF IInv, Reads, TypeOK
    <2>2. version'[ch] \in Nat /\ version[ch] \in Nat /\ version'[ch] >= version[ch]
      BY <1>4, <1>10
    <2>3. CASE ch \in Touched(p)
      <3>1. version'[ch] > version[ch]
        BY <2>3, CommitFacts
      <3> QED
        BY <2>1, <2>2, <3>1
    <2>4. CASE ch \notin Touched(p)
      <3>1. version'[ch] = version[ch] /\ Overlay(ch)' = Overlay(ch)
        BY <1>12, <2>4, CommitFacts
      <3> QED
        BY <2>1, <3>1
    <2> QED
      BY <2>3, <2>4
  <1>14. CacheTrue'
    <2> SUFFICES ASSUME NEW ch \in Chunks, version'[ch] <= MaxVersion,
                        <<ch, version'[ch]>> \notin tainted, cache[ch][version'[ch]] # Nothing
                 PROVE  cache[ch][version'[ch]] = Overlay(ch)'
      BY <1>1 DEF CacheTrue
    <2>1. CASE ch \in Touched(p)
      <3>1. version'[ch] > version[ch] /\ version'[ch] \in 0 .. MaxVersion
        BY <1>4, <2>1, CommitFacts, LandAssumption
      <3>2. PICK q \in Buyers : Written(q, ch, version'[ch])
        BY <3>1 DEF IInv, Ahead
      <3>3. q = p
        BY <2>1, <3>2, TouchedIsReach DEF Written, IInv, Exclusive
      <3>4. Overlay(ch)' = Seen(p, ch)
        BY <1>1 DEF Overlay, Seen, CellsOf
      <3> QED
        BY <3>2, <3>3, <3>4 DEF Written
    <2>2. CASE ch \notin Touched(p)
      <3>1. version'[ch] = version[ch] /\ Overlay(ch)' = Overlay(ch)
        BY <1>12, <2>2, CommitFacts
      <3> QED
        BY <3>1 DEF IInv, CacheTrue
    <2> QED
      BY <2>1, <2>2
  <1>15. FramesTrue'
    <2> SUFFICES ASSUME NEW q \in Buyers, NEW ch \in Chunks,
                        (tx[q].stage = "COMMIT" /\ ch \in Touched(q)
                         /\ <<ch, NextVersion(q, ch)>> \notin tainted)'
                 PROVE  (tx[q].patch[ch] = Seen(q, ch))'
      BY DEF FramesTrue
    <2>1. q # p
      BY <1>3 DEF NoTx
    <2>2. tx'[q] = tx[q] /\ ch \in Touched(q)
      BY <1>3, <2>1 DEF Touched
    <2> QED
      BY <1>1, <1>9, <2>1, <2>2 DEF IInv, FramesTrue
  <1> QED
    BY <1>5, <1>6, <1>7, <1>8, <1>11, <1>13, <1>14, <1>15, CommitPays DEF IInv

LEMMA RollBackKeeps ==
    ASSUME IInv, NEW p \in Buyers, RollBack(p)
    PROVE  IInv'
  <1> DEFINE lost == {<<ch, NextVersion(p, ch)>> :
                        ch \in {x \in Touched(p) : Cached(x, NextVersion(p, x))}}
  <1>1. /\ tainted' = tainted \cup lost /\ tx' = [tx EXCEPT ![p] = NoTx]
        /\ UNCHANGED <<land, rows, version, balance, cache, reader>>
    BY DEF RollBack
  <1>2. lost \subseteq Chunks \X Nat
    BY TxFacts DEF IInv
  <1>3. tx' \in [Buyers -> TxRows] /\ tx'[p] = NoTx /\ \A q \in Buyers \ {p} : tx'[q] = tx[q]
    BY <1>1, NoTxType DEF IInv, TypeOK
  <1>4. ASSUME NEW ch \in Touched(p), NEW v \in 0 .. MaxVersion,
               v = NextVersion(p, ch), cache[ch][v] # Nothing
        PROVE  <<ch, v>> \in lost
    <2>1. Cached(ch, NextVersion(p, ch))
      BY <1>4, LandAssumption DEF Cached
    <2> QED
      BY <1>4, <2>1
  <1> HIDE DEF lost
  <1>5. TypeOK'
    BY <1>1, <1>2, <1>3 DEF IInv, TypeOK
  <1>6. Claims' /\ Marks' /\ Charges'
    <2>1. Sound(p, NoTx, land') /\ Bumped(NoTx) /\ Charged(NoTx, balance'[p])
      BY NoTxSound DEF Bumped, Charged, NoTx
    <2> QED
      BY <1>1, <1>3, <2>1 DEF IInv, Claims, Marks, Charges
  <1>7. Exclusive'
    <2>1. tx'[p].got = {} /\ Reach(tx'[p]) = {}
      BY <1>3, NoTxType DEF NoTx
    <2> QED
      BY <1>3, <2>1 DEF IInv, Exclusive
  <1>8. ASSUME NEW q \in Buyers \ {p}
        PROVE  /\ Touched(q)' = Touched(q)
               /\ \A ch \in Chunks : /\ NextVersion(q, ch)' = NextVersion(q, ch)
                                     /\ Seen(q, ch)' = Seen(q, ch)
    BY <1>1, <1>3 DEF Touched, NextVersion, Seen, Parcel
  <1>9. Ahead'
    <2> SUFFICES ASSUME NEW ch \in Chunks, NEW v \in 0 .. MaxVersion,
                        v > version[ch], cache[ch][v] # Nothing, <<ch, v>> \notin tainted \cup lost
                 PROVE  \E q \in Buyers : Written(q, ch, v)'
      BY <1>1 DEF Ahead
    <2>1. PICK q \in Buyers : Written(q, ch, v)
      BY DEF IInv, Ahead
    <2>2. q # p
      BY <1>4, <2>1 DEF Written
    <2> QED
      BY <1>1, <1>3, <1>8, <2>1, <2>2 DEF Written
  <1>10. Reads' /\ PaidForWhatIsOwned'
    BY <1>1 DEF IInv, Reads, PaidForWhatIsOwned, Overlay, OwnedBy, BuiltBy
  <1>11. CacheTrue'
    BY <1>1 DEF IInv, CacheTrue, Overlay
  <1>12. FramesTrue'
    <2> SUFFICES ASSUME NEW q \in Buyers, NEW ch \in Chunks,
                        (tx[q].stage = "COMMIT" /\ ch \in Touched(q)
                         /\ <<ch, NextVersion(q, ch)>> \notin tainted)'
                 PROVE  (tx[q].patch[ch] = Seen(q, ch))'
      BY DEF FramesTrue
    <2>1. q # p
      BY <1>3 DEF NoTx
    <2>2. /\ tx[q].stage = "COMMIT" /\ ch \in Touched(q) /\ tx'[q].patch[ch] = tx[q].patch[ch]
          /\ <<ch, NextVersion(q, ch)>> \notin tainted /\ Seen(q, ch)' = Seen(q, ch)
      BY <1>1, <1>3, <1>8, <2>1
    <2> QED
      BY <2>2 DEF IInv, FramesTrue
  <1> QED
    BY <1>5, <1>6, <1>7, <1>9, <1>10, <1>11, <1>12 DEF IInv

-------------------------------------------------------------------------------
(* The steps of a read, and an expiry, keep it *)

\* Such a step moves no row: what it does to the cache and to the reads is all there is to
\* look at.
LEMMA QuietStep ==
    ASSUME IInv, UNCHANGED <<land, rows, version, balance, tx, tainted>>,
           TypeOK', Ahead', Reads', CacheTrue'
    PROVE  IInv'
  <1>1. Claims' /\ Marks' /\ Charges' /\ Exclusive'
    BY DEF IInv, Claims, Marks, Charges, Exclusive
  <1>2. PaidForWhatIsOwned'
    BY DEF IInv, PaidForWhatIsOwned, OwnedBy, BuiltBy
  <1>3. FramesTrue'
    BY DEF IInv, FramesTrue, Touched, NextVersion, Seen, Parcel
  <1> QED
    BY <1>1, <1>2, <1>3 DEF IInv

\* One that leaves the cache alone as well.
LEMMA ReaderStep ==
    ASSUME IInv, UNCHANGED <<land, rows, version, balance, tx, cache, tainted>>,
           NEW r \in Readers, NEW x, reader' = [reader EXCEPT ![r] = x],
           x \in [stage : {"NONE", "VERSION", "LOADED"}, chunk : Chunks \cup {0},
                  version : 0 .. MaxVersion, cells : Overlays \cup {Nothing}],
           x.stage # "NONE" => x.chunk \in Chunks /\ x.version <= version[x.chunk],
           x.stage = "LOADED" /\ x.version = version[x.chunk] => x.cells = Overlay(x.chunk)
    PROVE  IInv'
  <1>1. TypeOK'
    BY DEF IInv, TypeOK
  <1>2. Ahead' /\ CacheTrue'
    BY DEF IInv, Ahead, Written, CacheTrue, Overlay, Touched, NextVersion, Seen, Parcel
  <1>3. reader'[r] = x /\ \A i \in Readers \ {r} : reader'[i] = reader[i]
    BY DEF IInv, TypeOK
  <1>4. Reads'
    BY <1>3 DEF IInv, Reads, Overlay
  <1> QED
    BY <1>1, <1>2, <1>4, QuietStep

\* One that puts x under version v of a chunk, which is no version to come, and the truth
\* if it is the current one.
LEMMA CacheStep ==
    ASSUME IInv, UNCHANGED <<land, rows, version, balance, tx, tainted>>, TypeOK', Reads',
           NEW k \in Chunks, NEW v \in 0 .. MaxVersion, NEW x, cache' = [cache EXCEPT ![k][v] = x],
           x = Nothing \/ (v <= version[k] /\ (v = version[k] => x = Overlay(k)))
    PROVE  IInv'
  <1>1. cache \in [Chunks -> [0 .. MaxVersion -> Overlays \cup {Nothing}]]
    BY DEF IInv, TypeOK
  <1>2. ASSUME NEW ch \in Chunks, NEW w \in 0 .. MaxVersion
        PROVE  cache'[ch][w] = IF ch = k /\ w = v THEN x ELSE cache[ch][w]
    BY <1>1
  <1>3. version \in [Chunks -> Nat]
    BY DEF IInv, TypeOK
  <1>4. Ahead'
    <2> SUFFICES ASSUME NEW ch \in Chunks, NEW w \in 0 .. MaxVersion,
                        w > version[ch], cache'[ch][w] # Nothing, <<ch, w>> \notin tainted
                 PROVE  \E q \in Buyers : Written(q, ch, w)'
      BY DEF Ahead
    <2>1. ~(ch = k /\ w = v)
      BY <1>2, <1>3, LandAssumption
    <2>2. cache'[ch][w] = cache[ch][w]
      BY <1>2, <2>1
    <2>3. PICK q \in Buyers : Written(q, ch, w)
      BY <2>2 DEF IInv, Ahead
    <2> QED
      BY <2>2, <2>3 DEF Written, Touched, NextVersion, Seen, Parcel
  <1>5. CacheTrue'
    <2> SUFFICES ASSUME NEW ch \in Chunks, version[ch] <= MaxVersion,
                        <<ch, version[ch]>> \notin tainted
                 PROVE  cache'[ch][version[ch]] \in {Nothing, Overlay(ch)}
      BY DEF CacheTrue, Overlay
    <2>1. version[ch] \in 0 .. MaxVersion
      BY <1>3, LandAssumption
    <2>2. cache'[ch][version[ch]] = IF ch = k /\ version[ch] = v THEN x ELSE cache[ch][version[ch]]
      BY <1>2, <2>1
    <2> QED
      BY <2>2 DEF IInv, CacheTrue
  <1> QED
    BY <1>4, <1>5, QuietStep

LEMMA ReaderFacts ==
    ASSUME IInv, NEW r \in Readers
    PROVE  /\ reader[r] \in [stage : {"NONE", "VERSION", "LOADED"}, chunk : Chunks \cup {0},
                             version : 0 .. MaxVersion, cells : Overlays \cup {Nothing}]
           /\ reader[r].stage # "NONE" =>
                  reader[r].chunk \in Chunks /\ reader[r].version <= version[reader[r].chunk]
           /\ reader[r].stage = "LOADED" /\ reader[r].version = version[reader[r].chunk] =>
                  reader[r].cells = Overlay(reader[r].chunk)
  BY DEF IInv, TypeOK, Reads

LEMMA NoReadType ==
    /\ NoRead \in [stage : {"NONE", "VERSION", "LOADED"}, chunk : Chunks \cup {0},
                   version : 0 .. MaxVersion, cells : Overlays \cup {Nothing}]
    /\ NoRead.stage = "NONE"
  BY LandAssumption DEF NoRead

LEMMA ReaderKeeps ==
    ASSUME IInv, NEW r \in Readers,
           \/ \E ch \in Chunks : ReadVersion(r, ch)
           \/ Hit(r) \/ LoadOverlays(r) \/ WriteOverlays(r)
    PROVE  IInv'
  <1>1. ASSUME NEW ch \in Chunks, ReadVersion(r, ch) PROVE IInv'
    <2> DEFINE x == [stage |-> "VERSION", chunk |-> ch, version |-> version[ch], cells |-> Nothing]
    <2>1. version[ch] \in 0 .. MaxVersion
      BY <1>1, LandAssumption DEF ReadVersion, IInv, TypeOK
    <2>2. /\ reader' = [reader EXCEPT ![r] = x]
          /\ UNCHANGED <<land, rows, version, balance, tx, cache, tainted>>
      BY <1>1 DEF ReadVersion
    <2>3. x.chunk = ch /\ x.version <= version[x.chunk] /\ x.stage # "LOADED"
      BY <2>1
    <2> QED
      BY <2>1, <2>2, <2>3, ReaderStep
  <1>2. CASE Hit(r)
    BY <1>2, NoReadType, ReaderStep DEF Hit
  <1>3. CASE LoadOverlays(r)
    <2>1. PICK ch \in Chunks : ch = reader[r].chunk
      BY <1>3, ReaderFacts DEF LoadOverlays
    <2> DEFINE x == [reader[r] EXCEPT !.stage = "LOADED", !.cells = Overlay(ch)]
    <2>2. /\ reader' = [reader EXCEPT ![r] = x]
          /\ UNCHANGED <<land, rows, version, balance, tx, cache, tainted>>
      BY <1>3, <2>1 DEF LoadOverlays
    <2>3. Overlay(ch) \in Overlays
      BY <2>1, OverlayType DEF IInv
    <2>4. /\ x \in [stage : {"NONE", "VERSION", "LOADED"}, chunk : Chunks \cup {0},
                   version : 0 .. MaxVersion, cells : Overlays \cup {Nothing}]
          /\ x.chunk = ch /\ x.version = reader[r].version /\ x.cells = Overlay(ch)
      BY <2>1, <2>3, ReaderFacts
    <2>5. x.version <= version[ch]
      BY <1>3, <2>1, <2>4, ReaderFacts DEF LoadOverlays
    <2> HIDE DEF x
    <2> QED
      BY <2>2, <2>4, <2>5, ReaderStep
  <1>4. CASE WriteOverlays(r)
    <2>1. /\ reader[r].stage = "LOADED" /\ reader' = [reader EXCEPT ![r] = NoRead]
          /\ UNCHANGED <<land, rows, version, balance, tx, tainted>>
          /\ \/ cache' = [cache EXCEPT ![reader[r].chunk][reader[r].version] = reader[r].cells]
             \/ UNCHANGED cache
      BY <1>4 DEF WriteOverlays
    <2>2. CASE UNCHANGED cache
      BY <2>1, <2>2, NoReadType, ReaderStep
    <2>3. CASE cache' = [cache EXCEPT ![reader[r].chunk][reader[r].version] = reader[r].cells]
      <3>1. PICK ch \in Chunks, v \in 0 .. MaxVersion, x \in Overlays \cup {Nothing} :
               ch = reader[r].chunk /\ v = reader[r].version /\ x = reader[r].cells
        BY <2>1, ReaderFacts
      <3>2. v <= version[ch] /\ (v = version[ch] => x = Overlay(ch))
        BY <2>1, <3>1, ReaderFacts
      <3>3. cache' = [cache EXCEPT ![ch][v] = x]
        BY <2>3, <3>1
      <3>4. cache' \in [Chunks -> [0 .. MaxVersion -> Overlays \cup {Nothing}]]
        BY <3>1, <3>3 DEF IInv, TypeOK
      <3>5. TypeOK'
        BY <2>1, <3>4, NoReadType DEF IInv, TypeOK
      <3>6. reader'[r] = NoRead /\ \A i \in Readers \ {r} : reader'[i] = reader[i]
        BY <2>1 DEF IInv, TypeOK
      <3>7. Reads'
        BY <2>1, <3>6, NoReadType DEF IInv, Reads, Overlay
      <3> QED
        BY <2>1, <3>1, <3>2, <3>3, <3>5, <3>7, CacheStep
    <2> QED
      BY <2>1, <2>2, <2>3
  <1> QED
    BY <1>1, <1>2, <1>3, <1>4

LEMMA ExpireKeeps ==
    ASSUME IInv, NEW ch \in Chunks, NEW v \in 0 .. MaxVersion, Expire(ch, v)
    PROVE  IInv'
  <1>1. /\ cache' = [cache EXCEPT ![ch][v] = Nothing]
        /\ UNCHANGED <<land, rows, version, balance, tx, reader, tainted>>
    BY DEF Expire
  <1>2. cache' \in [Chunks -> [0 .. MaxVersion -> Overlays \cup {Nothing}]]
    BY <1>1 DEF IInv, TypeOK
  <1>3. TypeOK' /\ Reads'
    BY <1>1, <1>2 DEF IInv, TypeOK, Reads, Overlay
  <1> QED
    BY <1>1, <1>3, CacheStep

-------------------------------------------------------------------------------
(* The invariant, and what follows from it *)

LEMMA InitHolds == Init => IInv
  <1> SUFFICES ASSUME Init PROVE IInv
    OBVIOUS
  <1> USE DEF Init
  <1>1. TypeOK
    BY NoTxType, NoReadType, LandAssumption DEF TypeOK, Wild, Parcels
  <1>2. Claims /\ Marks /\ Charges
    BY NoTxSound DEF Claims, Marks, Charges, Bumped, Charged, NoTx
  <1>3. Exclusive
    BY NoTxType DEF Exclusive, NoTx
  <1>4. Ahead
    BY DEF Ahead
  <1>5. Reads
    BY DEF Reads, NoRead
  <1>6. CacheTrue /\ FramesTrue
    <2>1. \A ch \in Chunks : version[ch] <= MaxVersion => version[ch] \in 0 .. MaxVersion
      BY LandAssumption
    <2>2. CacheTrue
      BY <2>1 DEF CacheTrue
    <2>3. FramesTrue
      BY DEF FramesTrue, NoTx
    <2> QED
      BY <2>2, <2>3
  <1>7. PaidForWhatIsOwned
    <2>1. ASSUME NEW p \in Buyers PROVE OwnedBy(p) = {} /\ BuiltBy(p) = {}
      BY ParcelFacts DEF OwnedBy, BuiltBy
    <2>2. PriceOf({}) = 0 /\ Cardinality({}) = 0 /\ StructurePrice * 0 = 0
      BY PriceOfNothing, FS_EmptySet, TimesAdds
    <2>3. Opening \in Nat
      BY LandAssumption
    <2>4. ASSUME NEW p \in Buyers
          PROVE  balance[p] + PriceOf(OwnedBy(p)) + StructurePrice * Cardinality(BuiltBy(p)) = Opening
      <3>1. balance[p] = Opening /\ PriceOf(OwnedBy(p)) = 0
            /\ StructurePrice * Cardinality(BuiltBy(p)) = 0
        BY <2>1, <2>2
      <3> QED
        BY <2>3, <3>1
    <2> QED
      BY <2>4 DEF PaidForWhatIsOwned
  <1> QED
    BY <1>1, <1>2, <1>3, <1>4, <1>5, <1>6, <1>7 DEF IInv

LEMMA NextKeeps == IInv /\ [Next]_vars => IInv'
  <1> SUFFICES ASSUME IInv, [Next]_vars PROVE IInv'
    OBVIOUS
  <1>1. ASSUME NEW p \in Buyers, NEW o \in Orders, Begin(p, o) PROVE IInv'
    BY <1>1, BeginKeeps
  <1>2. ASSUME NEW p \in Buyers, Purchase(p) PROVE IInv'
    BY <1>2, EnsureChunkKeeps, ClaimCellKeeps, BumpChunkKeeps, AssignUseKeeps, ChargeKeeps,
       PatchFramesKeeps, CommitKeeps DEF Purchase
  <1>3. ASSUME NEW p \in Buyers, RollBack(p) PROVE IInv'
    BY <1>3, RollBackKeeps
  <1>4. CASE \E r \in Readers : (\E ch \in Chunks : ReadVersion(r, ch)) \/ Hit(r)
                                \/ LoadOverlays(r) \/ WriteOverlays(r)
    BY <1>4, ReaderKeeps
  <1>5. CASE \E ch \in Chunks, v \in 0 .. MaxVersion : Expire(ch, v)
    BY <1>5, ExpireKeeps
  <1>6. CASE UNCHANGED vars
    <2>1. UNCHANGED <<land, rows, version, balance, tx, tainted>> /\ UNCHANGED <<cache, reader>>
      BY <1>6 DEF vars
    <2>2. TypeOK' /\ Reads' /\ CacheTrue'
      BY <2>1 DEF IInv, TypeOK, Reads, CacheTrue, Overlay
    <2>3. Ahead'
      BY <2>1 DEF IInv, Ahead, Written, Touched, NextVersion, Seen, Parcel
    <2> QED
      BY <2>1, <2>2, <2>3, QuietStep
  <1> QED
    BY <1>1, <1>2, <1>3, <1>4, <1>5, <1>6 DEF Next

LEMMA Invariance == Spec => []IInv
  BY InitHolds, NextKeeps, PTL DEF Spec

\* Every variable keeps to its kind, for any players, cells, chunks and requests.
THEOREM TypeCorrect == Spec => []TypeOK
  <1>1. IInv => TypeOK
    BY DEF IInv
  <1> QED
    BY <1>1, Invariance, PTL

\* What a player has paid is the price of what the player owns, at every moment, whoever
\* else was buying the same cells (land/service.ts, claimCells and charge).
THEOREM LandIsPaid == Spec => []PaidForWhatIsOwned
  <1>1. IInv => PaidForWhatIsOwned
    BY DEF IInv
  <1> QED
    BY <1>1, Invariance, PTL

\* The cache tells the truth about the current version of every chunk, and a frame about
\* what its purchase leaves, except under a key that a rolled-back purchase wrote.
THEOREM OverlaysAreTrue == Spec => []OverlaysTrue
  <1>1. IInv => OverlaysTrue
    BY DEF IInv, OverlaysTrue
  <1> QED
    BY <1>1, Invariance, PTL

\* A purchase that commits is the one agreed to: the whole selection unless a part was
\* allowed, at the figure that was quoted (land/service.ts, steps 2 and 3).
THEOREM PurchaseAsAgreed == Spec => AsAgreed
  <1> DEFINE Agreed(p) ==
        tx[p].stage = "COMMIT" /\ land' # land /\ ~Open(p)' =>
          LET o == tx[p].order
          IN /\ o.partial \/ \A c \in Elements(o.cells) : land'[c].owner = p
             /\ o.agreed /\ ~o.build =>
                  balance'[p] = balance[p] - PriceOf(Elements(o.cells))
  <1>1. ASSUME IInv, Next, NEW p \in Buyers PROVE Agreed(p)
    <2> SUFFICES ASSUME tx[p].stage = "COMMIT", land' # land, ~Open(p)' PROVE Agreed(p)
      OBVIOUS
    <2>1. PICK q \in Buyers : Commit(q)
      BY <1>1 DEF Next, Purchase, Begin, EnsureChunk, ClaimCell, BumpChunk, AssignUse, Charge,
                  PatchFrames, RollBack, ReadVersion, Hit, LoadOverlays, WriteOverlays, Expire,
                  Become
    <2>2. q = p
      <3>1. tx' = [tx EXCEPT ![q] = NoTx] /\ tx \in [Buyers -> TxRows]
        BY <1>1, <2>1 DEF Commit, IInv, TypeOK
      <3>2. q # p => tx'[p] = tx[p]
        BY <3>1
      <3> QED
        BY <3>2 DEF Open
    <2>3. Commit(p)
      BY <2>1, <2>2
    <2>4. /\ tx[p] \in TxRows /\ Sound(p, tx[p], land) /\ Charged(tx[p], balance[p])
          /\ balance' = [balance EXCEPT ![p] = @ - Due(tx[p])] /\ balance \in [Buyers -> Nat]
      BY <1>1, <2>3, TxFacts DEF IInv, Claims, Charges, Commit, TypeOK
    <2>5. ASSUME ~tx[p].order.partial, NEW c \in Elements(tx[p].order.cells)
          PROVE  land'[c].owner = p
      <3>1. c \in tx[p].got \/ land[c] = Own(p)
        BY <2>4, <2>5 DEF Sound
      <3>2. CASE c \in tx[p].got \cup tx[p].built
        <4>1. land'[c] = [owner |-> p, built |-> c \in tx[p].built]
          BY <1>1, <2>3, <3>2, CommitFacts
        <4> QED
          BY <4>1
      <3>3. CASE c \notin tx[p].got \cup tx[p].built
        <4>1. c \in Cells
          <5>1. tx[p].order \in Orders
            BY <2>4 DEF Sound
          <5> QED
            BY <2>5, <5>1, OrderFacts
        <4>2. land'[c] = land[c]
          BY <1>1, <2>3, <3>3, <4>1, CommitFacts
        <4> QED
          BY <3>1, <3>3, <4>2, ParcelFacts
      <3> QED
        BY <3>2, <3>3
    <2>6. ASSUME tx[p].order.agreed, ~tx[p].order.build
          PROVE  balance'[p] = balance[p] - PriceOf(Elements(tx[p].order.cells))
      <3>1. PriceOf(tx[p].got) = PriceOf(Elements(tx[p].order.cells)) /\ tx[p].built = {}
        BY <2>4, <2>6 DEF Charged, AsQuoted, Sound
      <3>2. PriceOf(tx[p].got) \in Nat
        BY <2>4, PriceType DEF TxRows
      <3>3. Due(tx[p]) = PriceOf(tx[p].got)
        BY <3>1, <3>2, FS_EmptySet, TimesAdds DEF Due
      <3> QED
        BY <2>4, <3>1, <3>3
    <2> QED
      BY <2>5, <2>6
  <1>2. IInv /\ [Next]_vars => [\A p \in Buyers : Agreed(p)]_vars
    BY <1>1
  <1>3. Spec => [][\A p \in Buyers : Agreed(p)]_vars
    BY <1>2, Invariance, PTL DEF Spec
  <1> QED
    BY <1>3 DEF AsAgreed

-------------------------------------------------------------------------------
(* Purchases take effect at once: the steps of Land are steps of LandSale or stutters *)

\* What a transaction t found taken is taken still in the committed cells l, and a building
\* that is charged for stands on all of its footprint.
Current(t, l) ==
    /\ t.stage # "NONE" /\ ~t.order.build =>
           \A c \in Elements(t.order.cells) \ t.offered : l[c] # Wild
    /\ t.stage = "CELLS" => \A c \in t.offered \ (t.got \cup t.todo) : l[c] # Wild
    /\ t.stage \in {"BUMP", "ASSIGN", "CHARGE", "PATCH", "COMMIT"} =>
           \A c \in t.offered \ t.got : l[c] # Wild
    /\ t.stage = "BUMP" /\ t.order.build => t.built \in {{}, Elements(t.order.cells)}
    /\ t.stage \in {"CHARGE", "PATCH", "COMMIT"} /\ t.order.build =>
           t.built = Elements(t.order.cells)

Currents == \A p \in Buyers : Current(tx[p], land)

LEMMA CurrentStep ==
    ASSUME IInv, Currents, NEW p \in Buyers, NEW t, Become(p, t), Current(t, land)
    PROVE  Currents'
  <1>1. tx' = [tx EXCEPT ![p] = t] /\ tx \in [Buyers -> TxRows] /\ land' = land
    BY DEF Become, IInv, TypeOK
  <1>2. \A q \in Buyers : tx'[q] = IF q = p THEN t ELSE tx[q]
    BY <1>1
  <1> QED
    BY <1>1, <1>2 DEF Currents

LEMMA NoTxCurrent == ASSUME NEW l PROVE Current(NoTx, l)
  BY DEF Current, NoTx

LEMMA BeginCurrent ==
    ASSUME IInv, Currents, NEW p \in Buyers, NEW o \in Orders, Begin(p, o)
    PROVE  Currents'
  <1> DEFINE offered == Purchasable(Elements(o.cells))
             t == [NoTx EXCEPT !.order = o, !.offered = offered, !.todo = offered,
                               !.stage = IF offered = {} THEN "ASSIGN" ELSE "CHUNKS"]
  <1>1. Become(p, t)
    BY DEF Begin
  <1>2. \A c \in Elements(o.cells) \ offered : land[c] # Wild
    BY DEF Purchasable
  <1> HIDE DEF offered
  <1>3. t.order = o /\ t.offered = offered
        /\ t.stage = IF offered = {} THEN "ASSIGN" ELSE "CHUNKS"
    BY DEF NoTx
  <1>4. Current(t, land)
    BY <1>2, <1>3 DEF Current
  <1> QED
    BY <1>1, <1>4, CurrentStep

LEMMA EnsureChunkCurrent ==
    ASSUME IInv, Currents, NEW p \in Buyers, EnsureChunk(p)
    PROVE  Currents'
  <1> DEFINE c == NextCell(tx[p])
             ch == ChunkOf[c]
             made == IF ch \in rows THEN tx[p].made ELSE tx[p].made \cup {ch}
             t == [tx[p] EXCEPT !.made = made]
             u == RowDone(t, c, [t EXCEPT !.stage = "CELLS", !.todo = t.offered])
  <1>1. Become(p, u) /\ tx[p].stage = "CHUNKS" /\ tx[p] \in TxRows /\ Current(tx[p], land)
    BY TxFacts DEF EnsureChunk, IInv, Currents
  <1>2. \/ u.stage = "CHUNKS" /\ u.order = tx[p].order /\ u.offered = tx[p].offered
        \/ u.stage = "CELLS" /\ u.order = tx[p].order /\ u.offered = tx[p].offered
           /\ u.todo = tx[p].offered
    BY <1>1 DEF RowDone, TxRows
  <1> HIDE DEF u
  <1>3. Current(u, land)
    BY <1>1, <1>2 DEF Current
  <1> QED
    BY <1>1, <1>3, CurrentStep

LEMMA ClaimCellCurrent ==
    ASSUME IInv, Currents, NEW p \in Buyers, ClaimCell(p)
    PROVE  Currents'
  <1> DEFINE c == NextCell(tx[p])
             got == IF land[c] = Wild THEN tx[p].got \cup {c} ELSE tx[p].got
             t == [tx[p] EXCEPT !.got = got]
             u == RowDone(t, c, Claimed(t))
  <1>1. /\ Become(p, u) /\ tx[p].stage = "CELLS" /\ tx[p] \in TxRows /\ Current(tx[p], land)
        /\ Sound(p, tx[p], land)
    BY TxFacts DEF ClaimCell, IInv, Currents, Claims
  <1>2. tx[p].order \in Orders /\ tx[p].todo # {} /\ tx[p].todo \subseteq tx[p].offered
        /\ tx[p].built = {}
    BY <1>1 DEF Sound
  <1>3. t.got = got /\ t.stage = "CELLS" /\ t.order = tx[p].order /\ t.todo = tx[p].todo
        /\ t.offered = tx[p].offered /\ t.built = {}
    BY <1>1, <1>2 DEF TxRows
  <1>4. \A d \in tx[p].offered \ (got \cup (tx[p].todo \ {c})) : land[d] # Wild
    BY <1>1 DEF Current
  <1>5. \A d \in Elements(tx[p].order.cells) \ tx[p].offered :
            ~tx[p].order.build => land[d] # Wild
    BY <1>1 DEF Current
  <1>6. CASE tx[p].todo = {c}
    <2>1. u = Claimed(t)
      BY <1>3, <1>6 DEF RowDone
    <2>2. /\ u.order = tx[p].order /\ u.offered = tx[p].offered /\ u.got = got
          /\ u.built = {} /\ u.stage \in {"REFUSED", "BUMP", "CHARGE"}
          /\ u.stage = "CHARGE" => got = {} /\ (got = tx[p].offered \/ tx[p].order.partial)
      <3>1. t.got = got /\ t.order = tx[p].order /\ t.offered = tx[p].offered /\ t.built = {}
        BY <1>3
      <3>2. t \in TxRows
        <4>1. c \in Cells /\ got \subseteq Cells
          BY <1>1, RowFacts DEF TxRows
        <4> HIDE DEF c, got
        <4> QED
          BY <1>1, <4>1 DEF TxRows
      <3> HIDE DEF t, got
      <3>3. u = [t EXCEPT !.todo = {}, !.toBump = ChunksOf(t.got),
                          !.stage = IF t.got # t.offered /\ ~t.order.partial THEN "REFUSED"
                                    ELSE IF t.got # {} THEN "BUMP" ELSE "CHARGE"]
        BY <2>1 DEF Claimed
      <3> HIDE DEF u
      <3>4. /\ u.order = t.order /\ u.offered = t.offered /\ u.got = t.got /\ u.built = t.built
            /\ u.stage = IF t.got # t.offered /\ ~t.order.partial THEN "REFUSED"
                         ELSE IF t.got # {} THEN "BUMP" ELSE "CHARGE"
        BY <3>2, <3>3 DEF TxRows
      <3> QED
        BY <3>1, <3>4
    <2>3. ~(u.stage = "CHARGE" /\ u.order.build)
      BY <1>2, <2>2, OrderFacts
    <2>4. \A d \in tx[p].offered \ got : land[d] # Wild
      BY <1>4, <1>6
    <2> HIDE DEF u, t, got, c
    <2>5. Current(u, land)
      BY <1>5, <2>2, <2>3, <2>4 DEF Current
    <2> QED
      BY <1>1, <2>5, CurrentStep
  <1>7. CASE tx[p].todo # {c}
    <2>1. u = [t EXCEPT !.todo = @ \ {c}]
      BY <1>3, <1>7 DEF RowDone
    <2>2. /\ u.order = tx[p].order /\ u.offered = tx[p].offered /\ u.got = got
          /\ u.stage = "CELLS" /\ u.todo = tx[p].todo \ {c}
      BY <1>1, <1>3, <2>1 DEF TxRows
    <2> HIDE DEF u, t, got, c
    <2>3. Current(u, land)
      BY <1>4, <1>5, <2>2 DEF Current
    <2> QED
      BY <1>1, <2>3, CurrentStep
  <1> QED
    BY <1>6, <1>7

LEMMA BumpChunkCurrent ==
    ASSUME IInv, Currents, NEW p \in Buyers, BumpChunk(p)
    PROVE  Currents'
  <1> DEFINE t == tx[p]
             ch == NextToBump(t)
             after == IF t.order.build /\ t.built = {} THEN "ASSIGN" ELSE "CHARGE"
             u == [t EXCEPT !.bumps = [t.bumps EXCEPT ![ch] = @ + 1], !.toBump = @ \ {ch},
                            !.stage = IF t.toBump = {ch} THEN after ELSE "BUMP"]
  <1>1. Become(p, u) /\ t.stage = "BUMP" /\ t \in TxRows /\ Current(t, land)
    BY TxFacts DEF BumpChunk, IInv, Currents
  <1>2. /\ u.order = t.order /\ u.offered = t.offered /\ u.got = t.got /\ u.built = t.built
        /\ u.stage = IF t.toBump = {ch} THEN after ELSE "BUMP"
    BY <1>1 DEF TxRows
  <1> HIDE DEF u, ch
  <1>3. Current(u, land)
    BY <1>1, <1>2 DEF Current
  <1> QED
    BY <1>1, <1>3, CurrentStep

LEMMA AssignUseCurrent ==
    ASSUME IInv, Currents, NEW p \in Buyers, AssignUse(p)
    PROVE  Currents'
  <1> DEFINE footprint == Elements(tx[p].order.cells)
             u == [tx[p] EXCEPT !.built = footprint, !.toBump = ChunksOf(footprint),
                                !.stage = "BUMP"]
  <1>1. Become(p, u) /\ tx[p].stage = "ASSIGN" /\ tx[p] \in TxRows /\ Current(tx[p], land)
    BY TxFacts DEF AssignUse, IInv, Currents
  <1>2. /\ u.order = tx[p].order /\ u.offered = tx[p].offered /\ u.got = tx[p].got
        /\ u.built = Elements(tx[p].order.cells) /\ u.stage = "BUMP"
    BY <1>1 DEF TxRows
  <1> HIDE DEF u
  <1>3. Current(u, land)
    BY <1>1, <1>2 DEF Current
  <1> QED
    BY <1>1, <1>3, CurrentStep

LEMMA ChargeCurrent ==
    ASSUME IInv, Currents, NEW p \in Buyers, Charge(p)
    PROVE  Currents'
  <1> DEFINE u == [tx[p] EXCEPT !.stage = IF Touched(p) = {} THEN "COMMIT" ELSE "PATCH"]
  <1>1. Become(p, u) /\ tx[p].stage = "CHARGE" /\ tx[p] \in TxRows /\ Current(tx[p], land)
    BY TxFacts DEF Charge, IInv, Currents
  <1>2. /\ u.order = tx[p].order /\ u.offered = tx[p].offered /\ u.got = tx[p].got
        /\ u.built = tx[p].built /\ u.stage \in {"COMMIT", "PATCH"}
    BY <1>1 DEF TxRows
  <1> HIDE DEF u
  <1>3. Current(u, land)
    BY <1>1, <1>2 DEF Current
  <1> QED
    BY <1>1, <1>3, CurrentStep

LEMMA PatchFramesCurrent ==
    ASSUME IInv, Currents, NEW p \in Buyers, PatchFrames(p)
    PROVE  Currents'
  <1>1. PICK f : tx' = [tx EXCEPT ![p].stage = "COMMIT", ![p].patch = f]
    BY DEF PatchFrames
  <1>2. land' = land /\ tx \in [Buyers -> TxRows] /\ tx[p].stage = "PATCH"
    BY DEF PatchFrames, IInv, TypeOK
  <1>3. /\ tx'[p].order = tx[p].order /\ tx'[p].offered = tx[p].offered
        /\ tx'[p].got = tx[p].got /\ tx'[p].built = tx[p].built /\ tx'[p].stage = "COMMIT"
    BY <1>1, <1>2 DEF TxRows
  <1>4. \A q \in Buyers \ {p} : tx'[q] = tx[q]
    BY <1>1, <1>2
  <1>5. Current(tx'[p], land)
    BY <1>2, <1>3 DEF Current, Currents
  <1> QED
    BY <1>2, <1>4, <1>5 DEF Currents

\* Land that is taken is never free again.
LEMMA StaysTaken ==
    ASSUME IInv, NEW p \in Buyers, Commit(p), NEW c \in Cells, land[c] # Wild
    PROVE  land'[c] # Wild
  <1>1. CASE c \in tx[p].got \cup tx[p].built
    <2>1. land'[c] = [owner |-> p, built |-> c \in tx[p].built]
      BY <1>1, CommitFacts
    <2>2. land'[c].owner = p
      BY <2>1
    <2> QED
      BY <2>2, ParcelFacts
  <1>2. CASE c \notin tx[p].got \cup tx[p].built
    BY <1>2, CommitFacts
  <1> QED
    BY <1>1, <1>2

LEMMA CommitCurrent ==
    ASSUME IInv, Currents, NEW p \in Buyers, Commit(p)
    PROVE  Currents'
  <1>1. tx' = [tx EXCEPT ![p] = NoTx] /\ tx \in [Buyers -> TxRows]
    BY DEF Commit, IInv, TypeOK
  <1>2. ASSUME NEW q \in Buyers PROVE Current(tx'[q], land')
    <2>1. CASE q = p
      BY <1>1, <2>1, NoTxCurrent
    <2>2. CASE q # p
      <3>1. tx'[q] = tx[q] /\ Current(tx[q], land) /\ Sound(q, tx[q], land)
        BY <1>1, <2>2 DEF Currents, IInv, Claims
      <3>2. tx[q].offered \subseteq Cells
        BY <1>1 DEF TxRows
      <3>3. \A c \in tx[q].offered : land[c] # Wild => land'[c] # Wild
        BY <3>2, StaysTaken
      <3>4. tx[q].stage # "NONE" =>
              \A c \in Elements(tx[q].order.cells) : land[c] # Wild => land'[c] # Wild
        <4> SUFFICES ASSUME tx[q].stage # "NONE", NEW c \in Elements(tx[q].order.cells),
                            land[c] # Wild
                     PROVE  land'[c] # Wild
          OBVIOUS
        <4>1. tx[q].order \in Orders
          BY <3>1 DEF Sound
        <4>2. c \in Cells
          BY <4>1, OrderFacts
        <4> QED
          BY <4>2, StaysTaken
      <3> QED
        BY <3>1, <3>3, <3>4 DEF Current
    <2> QED
      BY <2>1, <2>2
  <1> QED
    BY <1>2 DEF Currents

LEMMA RollBackCurrent ==
    ASSUME IInv, Currents, NEW p \in Buyers, RollBack(p)
    PROVE  Currents'
  <1>1. tx' = [tx EXCEPT ![p] = NoTx] /\ tx \in [Buyers -> TxRows] /\ land' = land
    BY DEF RollBack, IInv, TypeOK
  <1>2. \A q \in Buyers : tx'[q] = IF q = p THEN NoTx ELSE tx[q]
    BY <1>1
  <1> QED
    BY <1>1, <1>2, NoTxCurrent DEF Currents

LEMMA CurrentNext == IInv /\ Currents /\ [Next]_vars => Currents'
  <1> SUFFICES ASSUME IInv, Currents, [Next]_vars PROVE Currents'
    OBVIOUS
  <1>1. CASE UNCHANGED <<land, tx>>
    BY <1>1 DEF Currents
  <1>2. ASSUME NEW p \in Buyers, NEW o \in Orders, Begin(p, o) PROVE Currents'
    BY <1>2, BeginCurrent
  <1>3. ASSUME NEW p \in Buyers, Purchase(p) PROVE Currents'
    BY <1>3, EnsureChunkCurrent, ClaimCellCurrent, BumpChunkCurrent, AssignUseCurrent,
       ChargeCurrent, PatchFramesCurrent, CommitCurrent DEF Purchase
  <1>4. ASSUME NEW p \in Buyers, RollBack(p) PROVE Currents'
    BY <1>4, RollBackCurrent
  <1>5. ASSUME NEW r \in Readers, \/ \E ch \in Chunks : ReadVersion(r, ch)
                                  \/ Hit(r) \/ LoadOverlays(r) \/ WriteOverlays(r)
        PROVE  Currents'
    <2>1. UNCHANGED <<land, tx>>
      BY <1>5 DEF ReadVersion, Hit, LoadOverlays, WriteOverlays
    <2> QED
      BY <2>1, <1>1
  <1>6. ASSUME NEW ch \in Chunks, NEW v \in 0 .. MaxVersion, Expire(ch, v) PROVE Currents'
    <2>1. UNCHANGED <<land, tx>>
      BY <1>6 DEF Expire
    <2> QED
      BY <2>1, <1>1
  <1>7. CASE UNCHANGED vars
    BY <1>7, <1>1 DEF vars
  <1> QED
    BY <1>2, <1>3, <1>4, <1>5, <1>6, <1>7 DEF Next

LEMMA CurrentInit == Init => Currents
  BY NoTxCurrent DEF Init, Currents

LEMMA CurrentAlways == Spec => []Currents
  BY CurrentInit, CurrentNext, Invariance, PTL DEF Spec

\* What an order asks, as the abstract specification has it.
Asked(o) == [o EXCEPT !.cells = Elements(@)]

LEMMA AskedIs ==
    ASSUME NEW o \in Orders
    PROVE  /\ Asked(o) \in {[x EXCEPT !.cells = Elements(@)] : x \in Orders}
           /\ Asked(o).cells = Elements(o.cells) /\ Asked(o).partial = o.partial
           /\ Asked(o).agreed = o.agreed /\ Asked(o).build = o.build
  <1>1. o \in [cells : Seq(Cells), partial : BOOLEAN, agreed : BOOLEAN, build : BOOLEAN]
    BY LandAssumption
  <1> QED
    BY <1>1 DEF Asked

\* What a transaction that commits leaves: all that was free of its selection is its buyer's,
\* at its price, and under a building all of the footprint.
LEMMA CommitSells ==
    ASSUME IInv, Currents, NEW p \in Buyers, Commit(p)
    PROVE  \E o \in Orders :
             /\ o = tx[p].order /\ Elements(o.cells) \subseteq Cells
             /\ tx[p].got = {c \in Elements(o.cells) : land[c] = Wild}
             /\ o.build => tx[p].built = Elements(o.cells)
                           /\ \A c \in Elements(o.cells) : land[c] = Wild \/ land[c] = Own(p)
             /\ ~o.build => tx[p].built = {} /\ AsQuoted(tx[p])
             /\ ~o.build /\ ~o.partial => tx[p].got = Elements(o.cells)
             /\ Due(tx[p]) <= balance[p]
             /\ balance' = [balance EXCEPT ![p] = @ - Due(tx[p])]
             /\ land' = [c \in Cells |->
                           IF c \in tx[p].got \cup tx[p].built
                           THEN [owner |-> p, built |-> c \in tx[p].built] ELSE land[c]]
  <1> DEFINE t == tx[p]
  <1>1. /\ t.stage = "COMMIT" /\ t \in TxRows /\ Sound(p, t, land) /\ Charged(t, balance[p])
        /\ Current(t, land)
    BY TxFacts DEF Commit, IInv, Claims, Charges, Currents
  <1>2. t.order \in Orders
    BY <1>1 DEF Sound
  <1>3. Elements(t.order.cells) \subseteq Cells /\ (t.order.build => ~t.order.partial)
    BY <1>2, OrderFacts
  <1>4. t.got \subseteq Elements(t.order.cells) /\ \A c \in t.got : land[c] = Wild
    BY <1>1 DEF Sound
  <1>5. ASSUME NEW c \in Elements(t.order.cells), land[c] = Wild PROVE c \in t.got
    <2>1. c \notin t.offered \ t.got
      BY <1>1, <1>5 DEF Current
    <2>2. c \in t.offered
      <3>1. CASE t.order.build
        <4>1. c \in t.offered \/ land[c] = Own(p)
          BY <1>1, <3>1 DEF Sound
        <4> QED
          BY <4>1, <1>5, ParcelFacts
      <3>2. CASE ~t.order.build
        BY <1>1, <1>5, <3>2 DEF Current
      <3> QED
        BY <3>1, <3>2
    <2> QED
      BY <2>1, <2>2
  <1>6. t.got = {c \in Elements(t.order.cells) : land[c] = Wild}
    BY <1>4, <1>5
  <1>7. t.order.build => t.built = Elements(t.order.cells)
    BY <1>1 DEF Current
  <1>8. t.order.build => \A c \in Elements(t.order.cells) : land[c] = Wild \/ land[c] = Own(p)
    <2> SUFFICES ASSUME t.order.build, NEW c \in Elements(t.order.cells)
                 PROVE  land[c] = Wild \/ land[c] = Own(p)
      OBVIOUS
    <2>1. c \in t.got \/ land[c] = Own(p)
      BY <1>1, <1>7 DEF Sound
    <2> QED
      BY <2>1, <1>4
  <1>9. ~t.order.build => t.built = {}
    BY <1>1 DEF Sound
  <1>10. ~t.order.build /\ ~t.order.partial => t.got = Elements(t.order.cells)
    BY <1>1 DEF Sound
  <1>11. AsQuoted(t) /\ Due(t) <= balance[p] /\ balance' = [balance EXCEPT ![p] = @ - Due(t)]
    BY <1>1 DEF Charged, Commit
  <1>12. land' = [c \in Cells |-> IF c \in t.got \cup t.built
                                  THEN [owner |-> p, built |-> c \in t.built] ELSE land[c]]
    <2>1. land' = [c \in Cells |-> Parcel(p, c)]
      BY DEF Commit
    <2>2. ASSUME NEW c \in Cells, c \in t.got \cup t.built
          PROVE  Parcel(p, c) = [owner |-> p, built |-> c \in t.built]
      <3>1. land'[c] = [owner |-> p, built |-> c \in t.built]
        BY <2>2, CommitFacts
      <3> QED
        BY <2>1, <3>1
    <2>3. \A c \in Cells : c \notin t.got \cup t.built => Parcel(p, c) = land[c]
      BY DEF Parcel
    <2> QED
      BY <2>1, <2>2, <2>3
  <1> QED
    BY <1>2, <1>3, <1>6, <1>7, <1>8, <1>9, <1>10, <1>11, <1>12

\* A commit is a sale.
LEMMA CommitIsSale ==
    ASSUME IInv, Currents, NEW p \in Buyers, Commit(p)
    PROVE  Sale!Next
  <1>1. PICK o \in Orders :
             /\ o = tx[p].order /\ Elements(o.cells) \subseteq Cells
             /\ tx[p].got = {c \in Elements(o.cells) : land[c] = Wild}
             /\ o.build => tx[p].built = Elements(o.cells)
                           /\ \A c \in Elements(o.cells) : land[c] = Wild \/ land[c] = Own(p)
             /\ ~o.build => tx[p].built = {} /\ AsQuoted(tx[p])
             /\ ~o.build /\ ~o.partial => tx[p].got = Elements(o.cells)
             /\ Due(tx[p]) <= balance[p]
             /\ balance' = [balance EXCEPT ![p] = @ - Due(tx[p])]
             /\ land' = [c \in Cells |->
                           IF c \in tx[p].got \cup tx[p].built
                           THEN [owner |-> p, built |-> c \in tx[p].built] ELSE land[c]]
    BY CommitSells
  <1> DEFINE G == tx[p].got
             E == Elements(o.cells)
             a == Asked(o)
  <1>2. a.cells = E /\ a.partial = o.partial /\ a.agreed = o.agreed /\ a.build = o.build
    BY AskedIs
  <1>3. G \in SUBSET Cells /\ E \in SUBSET Cells
    BY <1>1
  <1>4. Sale!Free(a) = G
    BY <1>1, <1>2 DEF Sale!Free, Sale!Wild, Wild
  <1>5. CASE ~o.build
    <2>1. Due(tx[p]) = PriceOf(G)
      <3>1. tx[p].built = {} /\ PriceOf(G) \in Nat
        BY <1>1, <1>3, <1>5, PriceType
      <3> QED
        BY <3>1, FS_EmptySet, TimesAdds DEF Due
    <2>2. Sale!Pay(p, PriceOf(G))
      BY <1>1, <2>1 DEF Sale!Pay
    <2>3. Sale!Become(p, G, FALSE)
      <3>1. tx[p].built = {}
        BY <1>1, <1>5
      <3>2. \A c \in Cells : (c \in G \cup tx[p].built <=> c \in G) /\ (c \in tx[p].built) = FALSE
        BY <3>1
      <3>3. land' = [c \in Cells |-> IF c \in G THEN [owner |-> p, built |-> FALSE] ELSE land[c]]
        BY <1>1, <3>2
      <3> QED
        BY <3>3 DEF Sale!Become, Sale!Mine
    <2>4. o.agreed => PriceOf(G) = PriceOf(E)
      BY <1>1, <1>5 DEF AsQuoted
    <2>5. o.partial \/ G = E
      BY <1>1, <1>5, OrderFacts
    <2> HIDE DEF a, G, E
    <2>6. Sale!Buy(p, a)
      BY <1>2, <1>3, <1>4, <1>5, <2>2, <2>3, <2>4, <2>5 DEF Sale!Buy
    <2> QED
      BY <2>6, AskedIs DEF Sale!Next, a
  <1>6. CASE o.build
    <2>1. Due(tx[p]) = PriceOf(G) + StructurePrice * Cardinality(E)
      BY <1>1, <1>6 DEF Due
    <2>2. Sale!Pay(p, PriceOf(G) + StructurePrice * Cardinality(E))
      BY <1>1, <2>1 DEF Sale!Pay
    <2>3. G \cup tx[p].built = E
      BY <1>1, <1>6
    <2>4. Sale!Become(p, E, TRUE)
      BY <1>1, <1>6, <2>3 DEF Sale!Become, Sale!Mine
    <2>5. \A c \in E : land[c] \in {Sale!Wild, Sale!Mine(p, FALSE)}
      BY <1>1, <1>6 DEF Sale!Wild, Sale!Mine, Wild, Own
    <2> HIDE DEF a, G, E
    <2>6. Sale!Build(p, a)
      BY <1>2, <1>3, <1>4, <1>6, <2>2, <2>4, <2>5 DEF Sale!Build
    <2> QED
      BY <2>6, AskedIs DEF Sale!Next, a
  <1> QED
    BY <1>5, <1>6

\* However purchases contend row by row, roll back or overlap, they leave the land and the
\* money as if each had been made at once when it commits (land/service.ts, claimCells and
\* assignCellUse): Land implements LandSale.
THEOREM PurchasesAreAtomic == Spec => SoldAtOnce
  <1>1. Init => Sale!Init
    BY DEF Init, Sale!Init, Sale!Wild, Wild
  <1>2. IInv /\ Currents /\ [Next]_vars => [Sale!Next]_<<land, balance>>
    <2> SUFFICES ASSUME IInv, Currents, [Next]_vars, ~ UNCHANGED <<land, balance>>
                 PROVE  Sale!Next
      OBVIOUS
    <2>1. PICK p \in Buyers : Commit(p)
      BY DEF Next, vars, Purchase, Begin, EnsureChunk, ClaimCell, BumpChunk, AssignUse, Charge,
             PatchFrames, RollBack, ReadVersion, Hit, LoadOverlays, WriteOverlays, Expire, Become
    <2> QED
      BY <2>1, CommitIsSale
  <1> QED
    BY <1>1, <1>2, Invariance, CurrentAlways, PTL DEF Spec, SoldAtOnce, Sale!Spec
===============================================================================
