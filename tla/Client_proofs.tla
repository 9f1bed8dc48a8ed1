---------------------------- MODULE Client_proofs ----------------------------
(***************************************************************************)
(* Proofs about the three parts of the client that meet the server's       *)
(* answers: EventSync (the sequence rule, the socket and the ladder of     *)
(* resynchronisation), ChunkCopies (the copies of the chunk store) and     *)
(* WelcomeBack (the return summary).  Each has an inductive invariant of   *)
(* its own, checked on small instances before it was proved.  The folds    *)
(* of the library are reasoned about through the functions they choose.    *)
(***************************************************************************)
EXTENDS EventSync, ChunkCopies, WelcomeBack,
        FiniteSetTheorems, SequenceTheorems, WellFoundedInduction, TLAPS

-----------------------------------------------------------------------------
(* Numbers, finite sets and folds *)

\* Every set of numbers has a least element.
LEMMA LeastOf ==
    ASSUME NEW S, S \subseteq Nat, S # {}
    PROVE  \E x \in S : \A y \in S : x <= y
  <1>1. PICK x \in S : \A y \in S : ~ (<<y, x>> \in OpToRel(<, Nat))
    BY NatLessThanWellFounded, WFMin
  <1>2. \A y \in S : ~ (y < x)
    BY <1>1 DEF OpToRel
  <1>3. \A y \in S : x <= y
    BY <1>2, SMT
  <1> QED
    BY <1>3

\* What holds of 0 and passes from each number to the next holds up to n.
LEMMA UpTo_n ==
    ASSUME NEW n \in Nat, NEW T, 0 \in T, \A k \in 1 .. n : k - 1 \in T => k \in T
    PROVE  \A k \in 0 .. n : k \in T
  <1> SUFFICES ASSUME NEW j \in 0 .. n, j \notin T PROVE FALSE
    OBVIOUS
  <1> DEFINE U == {k \in 0 .. n : k \notin T}
  <1>1. U \subseteq Nat /\ U # {}
    BY SMT
  <1>2. PICK m \in U : \A k \in U : m <= k
    BY <1>1, LeastOf
  <1>3. m \in 1 .. n /\ m \notin T
    BY <1>2, SMT
  <1>4. m - 1 \in 0 .. n /\ ~ (m <= m - 1)
    BY <1>3, SMT
  <1>5. m - 1 \in T
    BY <1>2, <1>4
  <1> QED
    BY <1>3, <1>5

\* The largest of a finite set of numbers.
LEMMA LargestOf ==
    ASSUME NEW n \in Nat, NEW S \in SUBSET (0 .. n), S # {}
    PROVE  Max(S) \in S /\ \A y \in S : y <= Max(S)
  <1> DEFINE U == {k \in Nat : \A y \in S : y <= k}
  <1>1. n \in U
    BY SMT
  <1>2. PICK m \in U : \A k \in U : m <= k
    BY <1>1, LeastOf
  <1>3. m \in S
    <2> SUFFICES ASSUME m \notin S PROVE FALSE
      OBVIOUS
    <2>1. \A y \in S : y <= m - 1
      BY <1>2, SMT
    <2>2. m # 0 /\ m \in Nat
      <3>1. PICK y \in S : y \in 0 .. n /\ y <= m - 1
        BY <2>1
      <3> QED
        BY <3>1, <1>2, SMT
    <2>3. m - 1 \in U /\ ~ (m <= m - 1)
      BY <2>1, <2>2, SMT
    <2> QED
      BY <2>3, <1>2
  <1>4. m \in S /\ \A y \in S : m >= y
    BY <1>2, <1>3, SMT
  <1>5. Max(S) \in S /\ \A y \in S : Max(S) >= y
    BY <1>4 DEF Max
  <1> QED
    BY <1>5, SMT

\* The same, for the sets a fold takes its elements out of.
LEMMA LargestIn ==
    ASSUME NEW n \in Nat
    PROVE  \A s \in SUBSET (1 .. n) : s # {} => Max(s) \in s
  <1> TAKE s \in SUBSET (1 .. n)
  <1>1. s \in SUBSET (0 .. n)
    BY SMT
  <1> QED
    BY <1>1, LargestOf

\* A fold over the subsets of S: what is chosen from a set is taken out and folded in.
Folds(g, S, base, F, c) ==
    \A s \in SUBSET S : g[s] = IF s = {} THEN base ELSE F[<<c[s], g[s \ {c[s]}]>>]

\* A recursion over the subsets of a finite set that takes out one element at a time has a
\* solution: what the folds of the library choose exists.
LEMMA RecursionExists ==
    ASSUME NEW S, IsFiniteSet(S), NEW V, NEW base \in V, NEW F \in [S \X V -> V],
           NEW c, \A s \in SUBSET S : s # {} => c[s] \in s
    PROVE  \E g \in [SUBSET S -> V] : Folds(g, S, base, F, c)
  <1> DEFINE Right(g, s) == g[s] = IF s = {} THEN base ELSE F[<<c[s], g[s \ {c[s]}]>>]
             Upto(k) == {s \in SUBSET S : Cardinality(s) <= k}
             T == {k \in Nat : \E g \in [SUBSET S -> V] : \A s \in Upto(k) : Right(g, s)}
  <1>0. \A s \in SUBSET S : IsFiniteSet(s) /\ Cardinality(s) \in Nat
    BY FS_Subset, FS_CardinalityType
  <1>1. 0 \in T
    <2> DEFINE g == [s \in SUBSET S |-> base]
    <2>1. g \in [SUBSET S -> V]
      OBVIOUS
    <2>2. \A s \in Upto(0) : s = {}
      <3> TAKE s \in Upto(0)
      <3>1. IsFiniteSet(s) /\ Cardinality(s) = 0
        BY <1>0, SMT
      <3> QED
        BY <3>1, FS_EmptySet
    <2>3. \A s \in Upto(0) : Right(g, s)
      BY <2>2
    <2> QED
      BY <2>1, <2>3
  <1>2. \A k \in Nat \ {0} : k - 1 \in T => k \in T
    <2> SUFFICES ASSUME NEW k \in Nat \ {0}, k - 1 \in T PROVE k \in T
      OBVIOUS
    <2>1. PICK g \in [SUBSET S -> V] : \A s \in Upto(k - 1) : Right(g, s)
      OBVIOUS
    <2> DEFINE h == [s \in SUBSET S |-> IF Cardinality(s) = k /\ s # {}
                                        THEN F[<<c[s], g[s \ {c[s]}]>>] ELSE g[s]]
    <2>2. h \in [SUBSET S -> V]
      OBVIOUS
    <2>3. \A s \in SUBSET S : s # {} => Cardinality(s \ {c[s]}) = Cardinality(s) - 1
      BY <1>0, FS_RemoveElement
    <2>4. \A s \in Upto(k) : Right(h, s)
      <3> TAKE s \in Upto(k)
      <3>0. Cardinality(s) \in Nat /\ Cardinality(s) <= k
        BY <1>0
      <3>1. CASE s = {}
        <4>1. Cardinality(s) = 0
          BY <3>1, FS_EmptySet
        <4>2. s \in Upto(k - 1)
          BY <4>1, SMT
        <4>3. g[s] = base
          BY <4>2, <2>1, <3>1
        <4> QED
          BY <4>3, <3>1
      <3>2. CASE s # {}
        <4> DEFINE r == s \ {c[s]}
        <4>1. r \in SUBSET S /\ Cardinality(r) = Cardinality(s) - 1 /\ Cardinality(r) \in Nat
          BY <3>2, <2>3, <1>0
        <4>2. Cardinality(r) # k
          BY <4>1, <3>0, SMT
        <4>3. h[r] = g[r]
          BY <4>1, <4>2
        <4>4. CASE Cardinality(s) = k
          BY <4>3, <4>4, <3>2
        <4>5. CASE Cardinality(s) # k
          <5>1. s \in Upto(k - 1)
            BY <4>5, <3>0, SMT
          <5>2. h[s] = g[s]
            BY <4>5
          <5>3. g[s] = F[<<c[s], g[r]>>]
            BY <5>1, <2>1, <3>2
          <5> QED
            BY <5>2, <5>3, <4>3, <3>2
        <4> QED
          BY <4>4, <4>5
      <3> QED
        BY <3>1, <3>2
    <2> HIDE DEF h, Right, Upto
    <2>5. \E f \in [SUBSET S -> V] : \A s \in Upto(k) : Right(f, s)
      BY <2>2, <2>4
    <2> QED
      BY <2>5
  <1>3. Cardinality(S) \in Nat
    BY FS_CardinalityType
  <1>4. \A k \in 1 .. Cardinality(S) : k - 1 \in T => k \in T
    <2> HIDE DEF T
    <2> QED
      BY <1>2, <1>3, SMT
  <1>5. Cardinality(S) \in T
    <2> HIDE DEF T
    <2> QED
      BY <1>1, <1>3, <1>4, UpTo_n, SMT
  <1>6. PICK g \in [SUBSET S -> V] : \A s \in Upto(Cardinality(S)) : Right(g, s)
    BY <1>5
  <1>7. \A s \in SUBSET S : s \in Upto(Cardinality(S))
    <2> TAKE s \in SUBSET S
    <2>1. Cardinality(s) <= Cardinality(S)
      BY FS_Subset
    <2> QED
      BY <2>1
  <1> QED
    BY <1>6, <1>7 DEF Folds

\* What "it" makes of the subsets of the positions, the largest taken out first.
TakesLast(it, n, V, F) ==
    /\ n \in Nat /\ F \in [(1 .. n) \X V -> V] /\ it[{}] \in V
    /\ \A s \in SUBSET (1 .. n) :
          s # {} /\ it[s \ {Max(s)}] \in V => it[s] = F[<<Max(s), it[s \ {Max(s)}]>>]

\* A chain of steps, one for each position.
IsChain(f, it, n, V, F) ==
    /\ f \in [0 .. n -> V] /\ f[0] = it[{}] /\ f[n] = it[1 .. n]
    /\ \A k \in 1 .. n : f[k] = F[<<k, f[k - 1]>>]

\* A fold of a sequence takes the largest position out first, so it is a chain of steps from
\* the first element to the last.
LEMMA FoldIsChain ==
    ASSUME NEW it, NEW n, NEW V, NEW F, TakesLast(it, n, V, F)
    PROVE  \E f : IsChain(f, it, n, V, F)
  <1>0. n \in Nat /\ F \in [(1 .. n) \X V -> V] /\ it[{}] \in V
    BY DEF TakesLast
  <1> USE <1>0
  <1>1. \A k \in 1 .. n : Max(1 .. k) = k /\ (1 .. k) \ {k} = 1 .. (k - 1)
                          /\ 1 .. k # {} /\ 1 .. k \in SUBSET (1 .. n)
    <2> TAKE k \in 1 .. n
    <2> DEFINE I == 1 .. k
    <2>1. I \in SUBSET (0 .. n) /\ I # {} /\ k \in I /\ I \in SUBSET (1 .. n)
      BY SMT
    <2>2. I \subseteq Nat /\ \A y \in I : y <= k
      BY SMT
    <2>3. (1 .. k) \ {k} = 1 .. (k - 1)
      <3>1. \A x : x \in (1 .. k) \ {k} <=> x \in 1 .. (k - 1)
        BY SMT
      <3> QED
        BY <3>1
    <2> HIDE DEF I
    <2>4. Max(I) \in I /\ \A y \in I : y <= Max(I)
      BY <2>1, LargestOf
    <2>5. Max(I) = k
      <3>1. Max(I) <= k /\ k <= Max(I) /\ Max(I) \in Nat /\ k \in Nat
        BY <2>1, <2>2, <2>4
      <3> QED
        BY <3>1, SMT
    <2> QED
      BY <2>1, <2>3, <2>5 DEF I
  <1> DEFINE f == [k \in 0 .. n |-> it[1 .. k]]
  <1>2. f[0] = it[{}]
    <2>1. 1 .. 0 = {}
      BY SMT
    <2>2. f[0] = it[1 .. 0]
      BY SMT
    <2> QED
      BY <2>1, <2>2
  <1>3. \A k \in 1 .. n : f[k - 1] \in V => f[k] = F[<<k, f[k - 1]>>]
    <2> SUFFICES ASSUME NEW k \in 1 .. n, f[k - 1] \in V PROVE f[k] = F[<<k, f[k - 1]>>]
      OBVIOUS
    <2>1. f[k - 1] = it[1 .. (k - 1)] /\ f[k] = it[1 .. k]
      BY SMT
    <2> DEFINE I == 1 .. k
    <2>2. I # {} /\ I \in SUBSET (1 .. n) /\ Max(I) = k /\ it[I \ {Max(I)}] = f[k - 1]
      BY <1>1, <2>1
    <2>3. it[I] = f[k]
      BY <2>1
    <2> HIDE DEF I, f
    <2> QED
      BY <2>2, <2>3 DEF TakesLast
  <1>4. f = [k \in 0 .. n |-> f[k]] /\ f[n] = it[1 .. n]
    BY SMT
  <1> HIDE DEF f
  <1> DEFINE T == {k \in 0 .. n : f[k] \in V}
  <1>5. \A k \in 0 .. n : k \in T
    <2>1. 0 \in T
      BY <1>2, SMT
    <2>2. \A k \in 1 .. n : k - 1 \in T => k \in T
      <3> SUFFICES ASSUME NEW k \in 1 .. n, k - 1 \in T PROVE k \in T
        OBVIOUS
      <3>1. f[k - 1] \in V
        OBVIOUS
      <3>2. <<k, f[k - 1]>> \in (1 .. n) \X V
        BY <3>1
      <3>3. f[k] \in V
        BY <1>3, <3>1, <3>2
      <3> QED
        BY <3>3, SMT
    <2> HIDE DEF T
    <2> QED
      BY <2>1, <2>2, UpTo_n
  <1>6. f \in [0 .. n -> V]
    BY <1>4, <1>5
  <1>7. \A k \in 1 .. n : f[k] = F[<<k, f[k - 1]>>]
    <2> TAKE k \in 1 .. n
    <2>1. k - 1 \in 0 .. n
      BY SMT
    <2> QED
      BY <2>1, <1>3, <1>5
  <1> QED
    BY <1>2, <1>4, <1>6, <1>7 DEF IsChain

\* The ring as a function of its positions.
RingIs(n, r, S) == S \in SUBSET Nat /\ n \in Nat /\ r \in [1 .. n -> S] /\ ring = r

\* The pages that readRing makes of the beginnings of the ring.
PagesOf(f, since, n, r, S) ==
    /\ f \in [0 .. n -> Seq(S)]
    /\ f[0] = <<>> /\ f[n] = RingAfter(since)
    /\ \A k \in 1 .. n : f[k] = IF r[k] > since THEN Append(f[k - 1], r[k]) ELSE f[k - 1]

\* The page that readRing makes of a ring is the last of those of its beginnings.
LEMMA RingAfterChain ==
    ASSUME NEW since \in Nat, NEW n, NEW r, NEW S, RingIs(n, r, S)
    PROVE  \E f : PagesOf(f, since, n, r, S)
  <1>0. S \in SUBSET Nat /\ n \in Nat /\ r \in [1 .. n -> S] /\ ring = r
    BY DEF RingIs
  <1> USE <1>0
  <1> DEFINE D == 1 .. n
             V == Seq(S)
             F == [x \in D \X V |-> IF r[x[1]] > since THEN Append(x[2], r[x[1]]) ELSE x[2]]
             c == [s \in SUBSET D |-> Max(s)]
  <1>1. IsFiniteSet(D)
    BY FS_Interval
  <1>2. <<>> \in V /\ F \in [D \X V -> V]
    OBVIOUS
  <1>3. \A s \in SUBSET D : s # {} => c[s] \in s
    BY LargestIn
  <1>4. PICK g \in [SUBSET D -> V] : Folds(g, D, <<>>, F, c)
    <2> HIDE DEF D, V, F, c
    <2> QED
      BY <1>1, <1>2, <1>3, RecursionExists
  <1> DEFINE Body(it, s) == IF s = {} THEN <<>>
                            ELSE IF r[Max(s)] > since THEN Append(it[s \ {Max(s)}], r[Max(s)])
                                 ELSE it[s \ {Max(s)}]
             it == CHOOSE it : it = [s \in SUBSET D |-> Body(it, s)]
  <1>5. \A h : \A s \in SUBSET D : s # {} /\ h[s \ {Max(s)}] \in V =>
              Body(h, s) = F[<<Max(s), h[s \ {Max(s)}]>>]
    <2> TAKE h
    <2> TAKE s \in SUBSET D
    <2> HAVE s # {} /\ h[s \ {Max(s)}] \in V
    <2>1. <<Max(s), h[s \ {Max(s)}]>> \in D \X V
      BY <1>3
    <2> QED
      BY <2>1
  <1>6. g = [s \in SUBSET D |-> Body(g, s)]
    <2> SUFFICES ASSUME NEW s \in SUBSET D PROVE g[s] = Body(g, s)
      OBVIOUS
    <2>1. CASE s # {}
      <3>1. g[s \ {Max(s)}] \in V /\ g[s] = F[<<Max(s), g[s \ {Max(s)}]>>]
        BY <1>4, <2>1 DEF Folds
      <3> QED
        BY <3>1, <2>1, <1>5
    <2> QED
      BY <2>1, <1>4 DEF Folds
  <1>7. it = [s \in SUBSET D |-> Body(it, s)]
    BY <1>6
  <1>8. RingAfter(since) = it[D]
    BY DEF RingAfter, FoldLeft, MapThenFoldSet
  <1> HIDE DEF it
  <1>9. it[{}] = <<>> /\ TakesLast(it, n, V, F)
    BY <1>2, <1>5, <1>7 DEF TakesLast
  <1>10. PICK f : IsChain(f, it, n, V, F)
    <2> HIDE DEF F, V, D, c, Body
    <2> QED
      BY <1>9, FoldIsChain
  <1>11. \A k \in 1 .. n : f[k] = IF r[k] > since THEN Append(f[k - 1], r[k]) ELSE f[k - 1]
    <2> TAKE k \in 1 .. n
    <2>1. k - 1 \in 0 .. n
      BY SMT
    <2>2. <<k, f[k - 1]>> \in D \X V
      BY <2>1, <1>10 DEF IsChain
    <2> DEFINE x == <<k, f[k - 1]>>
    <2>3. f[k] = F[x]
      BY <1>10 DEF IsChain
    <2>4. x \in D \X V /\ x[1] = k /\ x[2] = f[k - 1]
      BY <2>2
    <2> HIDE DEF x
    <2>5. F[x] = IF r[x[1]] > since THEN Append(x[2], r[x[1]]) ELSE x[2]
      BY <2>4
    <2> QED
      BY <2>3, <2>4, <2>5
  <1> QED
    BY <1>8, <1>9, <1>10, <1>11 DEF IsChain, PagesOf

\* What holds of a subset of a finite set when it holds of all that have one element less.
LEMMA BySize ==
    ASSUME NEW S, IsFiniteSet(S), NEW T,
           \A s \in SUBSET S : (\A x \in s : s \ {x} \in T) => s \in T
    PROVE  \A s \in SUBSET S : s \in T
  <1> DEFINE Upto(k) == {s \in SUBSET S : Cardinality(s) <= k}
             U == {k \in Nat : Upto(k) \subseteq T}
  <1>0. \A s \in SUBSET S : IsFiniteSet(s) /\ Cardinality(s) \in Nat
    BY FS_Subset, FS_CardinalityType
  <1>1. 0 \in U
    <2> SUFFICES ASSUME NEW s \in Upto(0) PROVE s \in T
      OBVIOUS
    <2>1. IsFiniteSet(s) /\ Cardinality(s) = 0
      BY <1>0, SMT
    <2>2. s = {}
      BY <2>1, FS_EmptySet
    <2> QED
      BY <2>2
  <1>2. \A k \in Nat \ {0} : k - 1 \in U => k \in U
    <2> SUFFICES ASSUME NEW k \in Nat \ {0}, k - 1 \in U, NEW s \in Upto(k) PROVE s \in T
      OBVIOUS
    <2>1. Cardinality(s) \in Nat /\ Cardinality(s) <= k /\ IsFiniteSet(s)
      BY <1>0
    <2>2. \A x \in s : s \ {x} \in Upto(k - 1)
      <3> TAKE x \in s
      <3>1. Cardinality(s \ {x}) = Cardinality(s) - 1
        BY <2>1, FS_RemoveElement
      <3>2. Cardinality(s \ {x}) <= k - 1
        BY <2>1, <3>1, SMT
      <3> QED
        BY <3>2
    <2>3. \A x \in s : s \ {x} \in T
      BY <2>2
    <2> QED
      BY <2>3
  <1>3. Cardinality(S) \in Nat
    BY FS_CardinalityType
  <1> HIDE DEF U
  <1>4. \A k \in 1 .. Cardinality(S) : k - 1 \in U => k \in U
    BY <1>2, <1>3, SMT
  <1>5. Cardinality(S) \in U
    BY <1>1, <1>3, <1>4, UpTo_n, SMT
  <1>6. \A s \in SUBSET S : Cardinality(s) <= Cardinality(S)
    BY FS_Subset
  <1> QED
    BY <1>5, <1>6 DEF U

\* What a fold makes of the subsets of S stays where its steps lead.
LEMMA FoldStays ==
    ASSUME NEW S, IsFiniteSet(S), NEW V, NEW it, NEW c, it[{}] \in V,
           \A s \in SUBSET S : s # {} => c[s] \in s,
           \A s \in SUBSET S : s # {} /\ it[s \ {c[s]}] \in V => it[s] \in V
    PROVE  \A s \in SUBSET S : it[s] \in V
  <1> DEFINE T == {s \in SUBSET S : it[s] \in V}
  <1>1. \A s \in SUBSET S : (\A x \in s : s \ {x} \in T) => s \in T
    OBVIOUS
  <1> HIDE DEF T
  <1>2. \A s \in SUBSET S : s \in T
    BY <1>1, BySize
  <1> QED
    BY <1>2 DEF T

-----------------------------------------------------------------------------
(* EventSync: what is in flight and what the client holds *)

\* The sequences that name an event of the log, and with zero the marks.
Logged == 1 .. Len(log)
Known == 0 .. Len(log)
LoggedFrames == [type : {"event", "hello", "clock"}, seq : Known, oldest : 0 .. Len(log) + 1]

\* Nothing on its way to the client is beyond the log.
ServerWithin ==
    /\ log \in Seq(Entities) /\ Len(log) <= MaxSeq
    /\ ring \in Seq(Logged) /\ Len(ring) <= RingCapacity
    /\ outbox \in [Writers -> Seq(Seq(Logged))]
    /\ stage \in [Writers -> {"idle", "ring", "publish", "reply"}]
    /\ result \in [Writers -> [seq : Known, ents : SUBSET Entities]]
    /\ \A w \in Writers : stage[w] \in {"ring", "publish"} => outbox[w] # <<>>
    /\ \A w \in Writers : stage[w] = "reply" => w \in Callers

\* Nor is anything on the socket.
SocketWithin ==
    /\ conn \in {"none", "counted", "attached", "open"} /\ helloSeq \in Known
    /\ wire \in Seq(LoggedFrames)

\* Nor what the client holds or knows of.
ClientWithin ==
    /\ mark \in Known /\ held \in [Entities -> Known]
    /\ serverSeq \in Known /\ oldest \in 0 .. Len(log) + 1
    /\ faults \in 0 .. MaxFaults

LoggedSyncs == [at : Rungs, since : Known, seq : Known, page : Seq(Logged), truncated : BOOLEAN,
                got : [Entities -> Known], left : SUBSET Entities, ragged : BOOLEAN]

\* The page of a replay runs on, without a hole, from the mark it was asked for.
PageIsRun == \A i \in 1 .. Len(sync.page) : sync.page[i] = sync.since + i

\* A replay was asked for from a mark the client has reached, and its page, unless it was
\* read out of order, runs on from there.
ReplayOK ==
    /\ sync.at \in {"asked", "counted", "log", "page"} => sync.since <= mark
    /\ sync.at \in {"asked", "counted", "log"} =>
          sync.page = <<>> /\ ~sync.truncated /\ ~sync.ragged
    /\ sync.at = "page" /\ sync.truncated => sync.page = <<>>
    /\ sync.at = "page" /\ ~sync.ragged => PageIsRun

\* A snapshot counted the log before it read the entities, so that each it has read holds
\* at least the state of that count.
ReadingOK ==
    /\ sync.at \in {"reading", "snapshot"} =>
          \A e \in Entities \ sync.left : \A i \in 1 .. sync.seq : log[i] = e => i <= sync.got[e]
    /\ sync.at = "snapshot" => sync.left = {}

\* The invariant.
SyncIInv ==
    /\ ServerWithin /\ SocketWithin /\ ClientWithin
    /\ sync \in LoggedSyncs /\ ReplayOK /\ ReadingOK

LEMMA LargerOf ==
    ASSUME NEW a \in Int, NEW b \in Int
    PROVE  Max({a, b}) = IF a >= b THEN a ELSE b
  BY DEF Max

LEMMA SmallerOf ==
    ASSUME NEW a \in Int, NEW b \in Int
    PROVE  Min({a, b}) = IF a <= b THEN a ELSE b
  BY DEF Min

\* The state of an entity is the last of the events counted that replaced it.
LEMMA StateAtIs ==
    ASSUME NEW k \in Nat, NEW e
    PROVE  /\ StateAt(e, k) \in 0 .. k
           /\ \A i \in 1 .. k : log[i] = e => i <= StateAt(e, k)
           /\ StateAt(e, k) = 0 \/ log[StateAt(e, k)] = e
  <1> DEFINE S == {0} \cup {i \in 1 .. k : log[i] = e}
  <1>1. S \in SUBSET (0 .. k) /\ S # {}
    BY SMT
  <1>2. StateAt(e, k) = Max(S)
    BY DEF StateAt
  <1>3. \A i \in 1 .. k : log[i] = e => i \in S
    OBVIOUS
  <1>4. \A x \in S : x \in 0 .. k /\ (x = 0 \/ log[x] = e)
    BY <1>1
  <1> HIDE DEF S
  <1>5. Max(S) \in S /\ \A y \in S : y <= Max(S)
    BY <1>1, LargestOf
  <1> QED
    BY <1>2, <1>3, <1>4, <1>5

LEMMA SyncInitial == SyncInit => SyncIInv
  <1> SUFFICES ASSUME SyncInit PROVE SyncIInv
    OBVIOUS
  <1> USE SyncAssumption DEF SyncInit
  <1>0. Len(log) = 0
    OBVIOUS
  <1>1. ServerWithin
    BY <1>0 DEF ServerWithin, Logged, Known, NoResult
  <1>2. SocketWithin
    BY <1>0 DEF SocketWithin, Known
  <1>3. ClientWithin
    BY <1>0 DEF ClientWithin, Known, Nothing
  <1>4. sync \in LoggedSyncs
    BY <1>0 DEF LoggedSyncs, Known, Nothing, Rung, Rungs
  <1>5. ReplayOK /\ ReadingOK
    BY DEF ReplayOK, ReadingOK, Rung
  <1> QED
    BY <1>1, <1>2, <1>3, <1>4, <1>5 DEF SyncIInv

SyncOK == sync \in LoggedSyncs /\ ReplayOK /\ ReadingOK

\* What is in flight stays right while the log stands still and the mark does not fall.
LEMMA SyncKept ==
    ASSUME SyncOK, UNCHANGED <<log, sync>>, mark \in Nat, mark' \in Nat, mark' >= mark,
           log \in Seq(Entities)
    PROVE  SyncOK'
  <1>1. (sync \in LoggedSyncs)'
    BY DEF SyncOK, LoggedSyncs, Known, Logged
  <1>2. sync.since \in Nat
    BY DEF SyncOK, LoggedSyncs, Known
  <1>3. ReplayOK'
    BY <1>2 DEF SyncOK, ReplayOK, PageIsRun
  <1>4. ReadingOK'
    BY DEF SyncOK, ReadingOK
  <1> QED
    BY <1>1, <1>3, <1>4 DEF SyncOK

NewRungs(m) == {Rung("none", 0), Rung("failed", 0), Rung("rebuild", 0), Rung("asked", m)}

\* A rung that starts is right.
LEMMA RungStarts ==
    ASSUME log' \in Seq(Entities), mark' \in Known', sync' \in NewRungs(mark')
    PROVE  SyncOK'
  <1>0. Len(log') \in Nat /\ mark' \in 0 .. Len(log')
    BY DEF Known
  <1>1. (sync \in LoggedSyncs)'
    <2>1. Nothing \in [Entities -> Known'] /\ 0 \in Known' /\ <<>> \in Seq(Logged')
      BY <1>0 DEF Nothing, Known
    <2>2. \A at \in Rungs, k \in Known' : Rung(at, k) \in LoggedSyncs'
      BY <2>1 DEF LoggedSyncs, Rung
    <2>3. NewRungs(mark') \subseteq LoggedSyncs'
      BY <2>1, <2>2 DEF NewRungs, Rungs
    <2> QED
      BY <2>3
  <1>2. ReplayOK'
    BY <1>0 DEF ReplayOK, NewRungs, Rung
  <1>3. ReadingOK'
    BY DEF ReadingOK, NewRungs, Rung
  <1> QED
    BY <1>1, <1>2, <1>3 DEF SyncOK

LEMMA CommitOK ==
    ASSUME SyncIInv, NEW w \in Writers, Commit(w)
    PROVE  SyncIInv'
  <1> USE SyncAssumption
  <1>1. PICK a \in 0 .. MaxAdvance, b \in 0 .. MaxBody :
          /\ Len(log) + a + b <= MaxSeq
          /\ \E es \in [1 .. a + b -> Entities] :
               /\ log' = log \o es
               /\ result' = [result EXCEPT ![w] =
                               IF w \in Callers
                               THEN [seq |-> Len(log) + a + b,
                                     ents |-> {es[i] : i \in a + 1 .. a + b}]
                               ELSE NoResult]
          /\ outbox' = [outbox EXCEPT ![w] = Blocks(Len(log), a, b)]
          /\ stage' = [stage EXCEPT ![w] = After(w, Blocks(Len(log), a, b))]
    BY DEF Commit
  <1>2. PICK es \in [1 .. a + b -> Entities] :
               /\ log' = log \o es
               /\ result' = [result EXCEPT ![w] =
                               IF w \in Callers
                               THEN [seq |-> Len(log) + a + b,
                                     ents |-> {es[i] : i \in a + 1 .. a + b}]
                               ELSE NoResult]
    BY <1>1
  <1>3. UNCHANGED <<ring, conn, helloSeq, wire, mark, held, serverSeq, oldest, sync, faults>>
    BY DEF Commit, socketVars, clientVars
  <1>4. log \in Seq(Entities) /\ Len(log) \in Nat /\ a \in Nat /\ b \in Nat
          /\ es \in Seq(Entities)
        /\ Len(es) = a + b
    BY DEF SyncIInv, ServerWithin
  <1>5. log' \in Seq(Entities) /\ Len(log') = Len(log) + a + b
        /\ \A i \in 1 .. Len(log) : log'[i] = log[i]
    <2>1. log' = log \o es
      BY <1>2
    <2>2. log' \in Seq(Entities)
      BY <2>1, <1>4
    <2>3. Len(log') = Len(log) + (a + b)
      BY <2>1, <1>4, ConcatProperties
    <2>4. \A i \in 1 .. Len(log) : log'[i] = log[i]
      <3> TAKE i \in 1 .. Len(log)
      <3>1. i \in 1 .. Len(log) + Len(es) /\ i <= Len(log)
        BY <1>4, SMT
      <3>2. (log \o es)[i] = log[i]
        BY <3>1, <1>4, ConcatProperties
      <3> QED
        BY <2>1, <3>2
    <2> QED
      BY <2>2, <2>3, <2>4, <1>4, SMT
  <1>6. Len(log') \in Nat /\ Len(log) <= Len(log') /\ Len(log') <= MaxSeq
    BY <1>1, <1>4, <1>5
  <1>7. Logged \subseteq Logged' /\ Known \subseteq Known'
    BY <1>4, <1>6 DEF Logged, Known
  <1>8. Blocks(Len(log), a, b) \in Seq(Seq(Logged'))
    <2>1. Interval(Len(log), Len(log) + a) \in Seq(Logged')
      BY <1>4, <1>5 DEF Interval, Logged
    <2>2. Interval(Len(log) + a, Len(log) + a + b) \in Seq(Logged')
      BY <1>4, <1>5 DEF Interval, Logged
    <2> QED
      BY <2>1, <2>2 DEF Blocks
  <1>9. ServerWithin'
    <2>1. (ring \in Seq(Logged) /\ Len(ring) <= RingCapacity)'
      BY <1>3, <1>7, SeqMonotonic DEF SyncIInv, ServerWithin
    <2>2. (outbox \in [Writers -> Seq(Seq(Logged))])'
      <3>1. \A s \in Seq(Logged) : s \in Seq(Logged')
        BY <1>7, SeqMonotonic
      <3>2. Seq(Logged) \subseteq Seq(Logged')
        BY <3>1
      <3>3. \A v \in Writers : outbox[v] \in Seq(Seq(Logged'))
        <4> TAKE v \in Writers
        <4>1. outbox[v] \in Seq(Seq(Logged))
          BY DEF SyncIInv, ServerWithin
        <4> HIDE DEF Logged
        <4> QED
          BY <4>1, <3>2, SeqMonotonic
      <3> HIDE DEF Blocks
      <3> QED
        BY <1>1, <1>8, <3>3 DEF SyncIInv, ServerWithin
    <2>3. (stage \in [Writers -> {"idle", "ring", "publish", "reply"}])'
      BY <1>1 DEF SyncIInv, ServerWithin, After
    <2>4. (result \in [Writers -> [seq : Known, ents : SUBSET Entities]])'
      <3>1. NoResult \in [seq : Known', ents : SUBSET Entities]
        BY <1>6 DEF NoResult, Known
      <3>2. [seq |-> Len(log) + a + b, ents |-> {es[i] : i \in a + 1 .. a + b}]
              \in [seq : Known', ents : SUBSET Entities]
        BY <1>4, <1>5 DEF Known
      <3>3. \A v \in Writers : result[v] \in [seq : Known', ents : SUBSET Entities]
        BY <1>7 DEF SyncIInv, ServerWithin
      <3> QED
        BY <1>2, <3>1, <3>2, <3>3 DEF SyncIInv, ServerWithin
    <2>5. (\A v \in Writers : stage[v] \in {"ring", "publish"} => outbox[v] # <<>>)'
      BY <1>1 DEF SyncIInv, ServerWithin, After
    <2>6. (\A v \in Writers : stage[v] = "reply" => v \in Callers)'
      BY <1>1 DEF SyncIInv, ServerWithin, After
    <2> QED
      BY <1>5, <1>6, <2>1, <2>2, <2>3, <2>4, <2>5, <2>6 DEF ServerWithin
  <1>10. SocketWithin'
    <2>1. \A f \in LoggedFrames : f \in LoggedFrames'
      BY <1>4, <1>6, <1>7 DEF LoggedFrames
    <2>2. wire \in Seq(LoggedFrames')
      BY <2>1, SeqMonotonic DEF SyncIInv, SocketWithin
    <2> QED
      BY <1>3, <1>7, <2>2 DEF SyncIInv, SocketWithin
  <1>11. ClientWithin'
    BY <1>3, <1>4, <1>6, <1>7 DEF SyncIInv, ClientWithin
  <1>12. (sync \in LoggedSyncs)'
    <2>1. sync.page \in Seq(Logged')
      BY <1>7, SeqMonotonic DEF SyncIInv, LoggedSyncs
    <2>2. sync.got \in [Entities -> Known']
      BY <1>7 DEF SyncIInv, LoggedSyncs
    <2> QED
      BY <1>3, <1>7, <2>1, <2>2 DEF SyncIInv, LoggedSyncs
  <1>13. ReplayOK'
    BY <1>3 DEF SyncIInv, ReplayOK, PageIsRun
  <1>14. ReadingOK'
    <2>1. sync.seq \in 0 .. Len(log)
      BY DEF SyncIInv, LoggedSyncs, Known
    <2>2. \A i \in 1 .. sync.seq : log'[i] = log[i]
      BY <2>1, <1>4, <1>5, SMT
    <2> QED
      BY <1>3, <2>2 DEF SyncIInv, ReadingOK
  <1> QED
    BY <1>9, <1>10, <1>11, <1>12, <1>13, <1>14 DEF SyncIInv

LEMMA PushRingOK ==
    ASSUME SyncIInv, NEW w \in Writers, PushRing(w)
    PROVE  SyncIInv'
  <1> DEFINE block == Head(outbox[w])
             all == ring \o Reverse(block)
             n == Len(all) - RingCapacity + 1
             from == Max({1, n})
  <1>0. /\ stage[w] = "ring" /\ ring' = Push(block)
        /\ stage' = [stage EXCEPT ![w] = "publish"]
        /\ UNCHANGED <<log, outbox, result, conn, helloSeq, wire, mark, held, serverSeq, oldest,
                       sync, faults>>
    BY DEF PushRing, socketVars, clientVars
  <1>1. log \in Seq(Entities) /\ Len(log) \in Nat
    BY DEF SyncIInv, ServerWithin
  <1>2. ring' \in Seq(Logged) /\ Len(ring') <= RingCapacity
    <2>1. outbox[w] \in Seq(Seq(Logged)) /\ outbox[w] # <<>>
      BY <1>0 DEF SyncIInv, ServerWithin
    <2>2. block \in Seq(Logged)
      BY <2>1, HeadTailProperties
    <2>3. Reverse(block) \in Seq(Logged)
      BY <2>2 DEF Reverse
    <2>4. all \in Seq(Logged) /\ Len(all) \in Nat
      BY <2>3, ConcatProperties DEF SyncIInv, ServerWithin
    <2> HIDE DEF all
    <2>5. n \in Int /\ RingCapacity \in Nat \ {0}
      BY <2>4, SyncAssumption
    <2>6. from = IF 1 >= n THEN 1 ELSE n
      BY <2>5, LargerOf
    <2>7. from \in Int /\ from >= 1 /\ from >= n
      BY <2>5, <2>6, SMT
    <2> HIDE DEF from
    <2>8. \A i \in from .. Len(all) : all[i] \in Logged
      <3> TAKE i \in from .. Len(all)
      <3>1. i \in 1 .. Len(all)
        BY <2>4, <2>7, SMT
      <3> QED
        BY <3>1, <2>4, ElementOfSeq
    <2>9. SubSeq(all, from, Len(all)) \in Seq(Logged)
          /\ Len(SubSeq(all, from, Len(all))) =
               IF from <= Len(all) THEN Len(all) - from + 1 ELSE 0
      BY <2>4, <2>7, <2>8, SubSeqProperties
    <2>10. Len(SubSeq(all, from, Len(all))) <= RingCapacity
      BY <2>4, <2>5, <2>7, <2>9, SMT
    <2> QED
      BY <1>0, <2>9, <2>10 DEF Push, all, from
  <1>3. ServerWithin'
    BY <1>0, <1>2 DEF SyncIInv, ServerWithin, Logged, Known
  <1>4. SocketWithin' /\ ClientWithin'
    BY <1>0 DEF SyncIInv, SocketWithin, ClientWithin, LoggedFrames, Known
  <1>5. SyncOK'
    BY <1>0, <1>1, SyncKept DEF SyncIInv, ClientWithin, Known, SyncOK
  <1> QED
    BY <1>3, <1>4, <1>5 DEF SyncIInv, SyncOK

\* What an effect that ends leaves of its writer.
LEMMA NextBlockOK ==
    ASSUME ServerWithin, NEW w \in Writers, stage[w] \in {"ring", "publish"}, NextBlock(w),
           UNCHANGED <<log, ring, result>>
    PROVE  ServerWithin'
  <1>1. outbox[w] \in Seq(Seq(Logged)) /\ outbox[w] # <<>>
    BY DEF ServerWithin
  <1>2. Tail(outbox[w]) \in Seq(Seq(Logged))
    BY <1>1, HeadTailProperties
  <1>3. (outbox \in [Writers -> Seq(Seq(Logged))])'
    BY <1>2 DEF ServerWithin, NextBlock, Logged
  <1>4. (stage \in [Writers -> {"idle", "ring", "publish", "reply"}])'
    BY DEF ServerWithin, NextBlock, After
  <1>5. \A v \in Writers :
           /\ stage'[v] \in {"ring", "publish"} => outbox'[v] # <<>>
           /\ stage'[v] = "reply" => v \in Callers
    BY DEF ServerWithin, NextBlock, After
  <1> QED
    BY <1>3, <1>4, <1>5 DEF ServerWithin, Logged, Known

LEMMA PublishOK ==
    ASSUME SyncIInv, NEW w \in Writers, Publish(w)
    PROVE  SyncIInv'
  <1> DEFINE block == Head(outbox[w])
             live == Live(block)
             sent == [i \in 1 .. Len(live) |-> Frame("event", live[i])]
  <1>0. /\ stage[w] = "publish" /\ NextBlock(w)
        /\ wire' = IF Listening THEN wire \o sent ELSE wire
        /\ UNCHANGED <<log, ring, result, conn, helloSeq, mark, held, serverSeq, oldest, sync,
             faults>>
    BY DEF Publish, clientVars
  <1>1. log \in Seq(Entities) /\ Len(log) \in Nat
    BY DEF SyncIInv, ServerWithin
  <1>2. ServerWithin'
    BY <1>0, NextBlockOK DEF SyncIInv
  <1>3. live \in Seq(Logged)
    <2>1. outbox[w] \in Seq(Seq(Logged)) /\ outbox[w] # <<>>
      BY <1>0 DEF SyncIInv, ServerWithin
    <2>2. block \in Seq(Logged) /\ Len(block) \in Nat
      BY <2>1, HeadTailProperties
    <2> HIDE DEF block
    <2>3. CASE Len(block) <= MaxLive
      BY <2>2, <2>3 DEF Live
    <2>4. CASE ~ (Len(block) <= MaxLive)
      <3>1. Len(block) \in 1 .. Len(block)
        BY <2>2, <2>4, SyncAssumption, SMT
      <3>2. Last(block) \in Logged
        BY <3>1, <2>2, ElementOfSeq DEF Last
      <3> QED
        BY <2>4, <3>2 DEF Live
    <2> QED
      BY <2>3, <2>4
  <1>4. sent \in Seq(LoggedFrames)
    <2>1. Len(live) \in Nat /\ \A i \in 1 .. Len(live) : live[i] \in 1 .. Len(log)
      BY <1>3 DEF Logged
    <2> HIDE DEF live
    <2>2. \A i \in 1 .. Len(live) : Frame("event", live[i]) \in LoggedFrames
      BY <2>1, <1>1 DEF Frame, LoggedFrames, Known
    <2> QED
      BY <2>1, <2>2
  <1>5. (wire \in Seq(LoggedFrames))'
    <2>1. wire' \in Seq(LoggedFrames)
      <3> HIDE DEF sent
      <3> QED
        BY <1>0, <1>4, ConcatProperties DEF SyncIInv, SocketWithin
    <2> QED
      BY <1>0, <2>1 DEF LoggedFrames, Known
  <1>6. SocketWithin' /\ ClientWithin'
    BY <1>0, <1>5 DEF SyncIInv, SocketWithin, ClientWithin, Known
  <1>7. SyncOK'
    BY <1>0, <1>1, SyncKept DEF SyncIInv, ClientWithin, Known, SyncOK
  <1> QED
    BY <1>2, <1>6, <1>7 DEF SyncIInv, SyncOK

LEMMA EffectFailsOK ==
    ASSUME SyncIInv, NEW w \in Writers, EffectFails(w) \/ WriterDies(w)
    PROVE  SyncIInv'
  <1> USE SyncAssumption
  <1>0. /\ faults' \in 0 .. MaxFaults
        /\ UNCHANGED <<log, ring, conn, helloSeq, wire, mark, held, serverSeq, oldest, sync>>
    BY DEF EffectFails, WriterDies, Fault, socketVars, clientVars, SyncIInv, ClientWithin
  <1>1. log \in Seq(Entities) /\ Len(log) \in Nat
    BY DEF SyncIInv, ServerWithin
  <1>2. ServerWithin'
    <2>1. CASE EffectFails(w)
      BY <2>1, NextBlockOK DEF SyncIInv, EffectFails
    <2>2. CASE WriterDies(w)
      BY <1>0, <1>1, <2>2 DEF SyncIInv, ServerWithin, WriterDies, Logged, Known, NoResult
    <2> QED
      BY <2>1, <2>2
  <1>3. SocketWithin' /\ ClientWithin'
    BY <1>0 DEF SyncIInv, SocketWithin, ClientWithin, LoggedFrames, Known
  <1>4. SyncOK'
    BY <1>0, <1>1, SyncKept DEF SyncIInv, ClientWithin, Known, SyncOK
  <1> QED
    BY <1>2, <1>3, <1>4 DEF SyncIInv, SyncOK

\* What no step of the server's side of the socket, nor a loss of the ring, touches.
LEMMA ServerAside ==
    ASSUME SyncIInv,
           UNCHANGED <<log, outbox, stage, result, mark, held, serverSeq, oldest, sync>>,
           ring' \in Seq(Logged), Len(ring') <= RingCapacity, faults' \in 0 .. MaxFaults,
           conn' \in {"none", "counted", "attached", "open"}, helloSeq' \in Known,
           wire' \in Seq(LoggedFrames)
    PROVE  SyncIInv'
  <1>1. log \in Seq(Entities) /\ Len(log) \in Nat
    BY DEF SyncIInv, ServerWithin
  <1>2. ServerWithin'
    BY DEF SyncIInv, ServerWithin, Logged, Known
  <1>3. SocketWithin' /\ ClientWithin'
    BY DEF SyncIInv, SocketWithin, ClientWithin, LoggedFrames, Known
  <1>4. SyncOK'
    BY <1>1, SyncKept DEF SyncIInv, ClientWithin, Known, SyncOK
  <1> QED
    BY <1>2, <1>3, <1>4 DEF SyncIInv, SyncOK

LEMMA OldestIn ==
    ASSUME ServerWithin, NEW k \in Known
    PROVE  /\ OldestInRing(k) \in 0 .. Len(log) + 1
           /\ ring # <<>> => \E i \in 1 .. Len(ring) : OldestInRing(k) = ring[i]
  <1>1. ring \in Seq(Logged) /\ Len(ring) \in Nat /\ Len(log) \in Nat
    BY DEF ServerWithin
  <1>2. CASE ring = <<>>
    BY <1>1, <1>2 DEF OldestInRing, Known
  <1>3. CASE ring # <<>>
    <2> DEFINE S == ToSet(ring)
    <2>1. \A i \in 1 .. Len(ring) : ring[i] \in S /\ ring[i] \in Logged
      BY <1>1 DEF ToSet
    <2>2. S \subseteq Logged
      BY <1>1 DEF ToSet
    <2>3. S # {}
      BY <1>1, <1>3, EmptySeq, <2>1, SMT
    <2>9. \A x \in S : \E i \in 1 .. Len(ring) : x = ring[i]
      BY <1>1, LenProperties DEF ToSet
    <2> HIDE DEF S
    <2>4. S \subseteq Nat
      BY <2>2, <1>1 DEF Logged
    <2>5. \E x \in S : \A y \in S : x <= y
      BY <2>3, <2>4, LeastOf
    <2>6. Min(S) \in S /\ \A y \in S : Min(S) <= y
      BY <2>5 DEF Min
    <2>7. Min(S) \in 0 .. Len(log) + 1
      <3>1. Min(S) \in Logged
        BY <2>2, <2>6
      <3>2. \A x \in Logged : x \in 0 .. Len(log) + 1
        BY <1>1 DEF Logged
      <3> QED
        BY <3>1, <3>2
    <2>8. \E i \in 1 .. Len(ring) : Min(S) = ring[i]
      BY <2>6, <2>9
    <2> QED
      BY <1>3, <2>7, <2>8 DEF OldestInRing, S
  <1> QED
    BY <1>2, <1>3

LEMMA SocketOK ==
    ASSUME SyncIInv, Open \/ Clock \/ Disconnect \/ RingLost
    PROVE  SyncIInv'
  <1> USE SyncAssumption
  <1>0. log \in Seq(Entities) /\ Len(log) \in Nat /\ ring \in Seq(Logged)
          /\ Len(ring) <= RingCapacity
        /\ faults \in 0 .. MaxFaults /\ conn \in {"none", "counted", "attached", "open"}
        /\ helloSeq \in Known /\ wire \in Seq(LoggedFrames) /\ Len(log) \in Known /\ 0 \in Known
    BY DEF SyncIInv, ServerWithin, SocketWithin, ClientWithin, Known
  <1>1. CASE Connect \/ Attach
    BY <1>0, <1>1, ServerAside DEF Connect, Attach, serverVars, clientVars
  <1>2. CASE Hello
    <2> DEFINE f == [Frame("hello", helloSeq) EXCEPT !.oldest = OldestInRing(helloSeq)]
    <2>1. OldestInRing(helloSeq) \in 0 .. Len(log) + 1
      BY <1>0, OldestIn DEF SyncIInv
    <2>2. f \in LoggedFrames
      BY <1>0, <2>1 DEF Frame, LoggedFrames
    <2> HIDE DEF f
    <2>3. Append(wire, f) \in Seq(LoggedFrames)
      BY <1>0, <2>2
    <2> QED
      BY <1>0, <1>2, <2>3, ServerAside DEF Hello, serverVars, clientVars, f
  <1>3. CASE Clock
    <2>1. Frame("clock", Len(log)) \in LoggedFrames
      BY <1>0 DEF Frame, LoggedFrames
    <2>2. Append(wire, Frame("clock", Len(log))) \in Seq(LoggedFrames)
      BY <1>0, <2>1
    <2> QED
      BY <1>0, <1>3, <2>2, ServerAside DEF Clock, serverVars, clientVars
  <1>4. CASE Disconnect
    <2>1. faults' \in 0 .. MaxFaults
      BY <1>0, <1>4 DEF Disconnect, Fault
    <2>2. <<>> \in Seq(LoggedFrames)
      OBVIOUS
    <2> QED
      BY <1>0, <1>4, <2>1, <2>2, ServerAside DEF Disconnect, serverVars, clientVars
  <1>5. CASE RingLost
    <2>1. faults' \in 0 .. MaxFaults
      BY <1>0, <1>5 DEF RingLost, Fault
    <2>2. <<>> \in Seq(Logged) /\ Len(<<>>) <= RingCapacity
      BY EmptySeq
    <2> QED
      BY <1>0, <1>5, <2>1, <2>2, ServerAside DEF RingLost, socketVars, clientVars
  <1> QED
    BY <1>1, <1>2, <1>3, <1>4, <1>5 DEF Open

\* What a frame or a reply leaves alone.
LEMMA ClientMoves ==
    ASSUME SyncIInv, UNCHANGED <<log, ring, outbox, conn, helloSeq, faults>>,
           stage' \in [Writers -> {"idle", "ring", "publish", "reply"}],
           \A v \in Writers : stage'[v] = stage[v] \/ stage'[v] = "idle",
           result' \in [Writers -> [seq : Known, ents : SUBSET Entities]],
           wire' \in Seq(LoggedFrames), mark' \in Known, held' \in [Entities -> Known],
           serverSeq' \in Known, oldest' \in 0 .. Len(log) + 1, SyncOK'
    PROVE  SyncIInv'
  <1>1. ServerWithin'
    BY DEF SyncIInv, ServerWithin, Logged, Known
  <1>2. SocketWithin' /\ ClientWithin'
    BY DEF SyncIInv, SocketWithin, ClientWithin, LoggedFrames, Known
  <1> QED
    BY <1>1, <1>2 DEF SyncIInv, SyncOK

LEMMA HeadOfWire ==
    ASSUME SyncIInv, wire # <<>>
    PROVE  /\ Head(wire) \in LoggedFrames /\ Tail(wire) \in Seq(LoggedFrames)
           /\ Head(wire).seq \in Known /\ Head(wire).oldest \in 0 .. Len(log) + 1
  <1>1. wire \in Seq(LoggedFrames)
    BY DEF SyncIInv, SocketWithin
  <1> HIDE DEF LoggedFrames
  <1>2. Head(wire) \in LoggedFrames /\ Tail(wire) \in Seq(LoggedFrames)
    BY <1>1, HeadTailProperties
  <1> QED
    BY <1>2 DEF LoggedFrames

\* A request for a resynchronisation: the rung in flight, or one that starts at the mark.
LEMMA RequestOK ==
    ASSUME SyncIInv, NEW seq, NEW old, UNCHANGED log, mark' \in Known, mark' >= mark,
           RequestResync(seq, old), mark' = mark \/ UNCHANGED sync
    PROVE  SyncOK'
  <1>1. log \in Seq(Entities) /\ Len(log) \in Nat /\ mark \in Nat /\ mark' \in Nat /\ SyncOK
    BY DEF SyncIInv, ServerWithin, ClientWithin, SyncOK, Known
  <1>2. CASE UNCHANGED sync
    BY <1>1, <1>2, SyncKept
  <1>3. CASE mark' = mark /\ sync' \in NewRungs(mark')
    BY <1>1, <1>3, RungStarts DEF Known
  <1>4. UNCHANGED sync \/ sync' \in NewRungs(mark)
    BY DEF RequestResync, NextRung, NewRungs
  <1> QED
    BY <1>2, <1>3, <1>4

LEMMA ApplyFrameIn ==
    ASSUME SyncIInv, NEW m \in Known, NEW h \in [Entities -> Known], NEW k \in Known
    PROVE  /\ ApplyFrame([mark |-> m, held |-> h], k)
                \in [mark : Known, held : [Entities -> Known]]
           /\ ApplyFrame([mark |-> m, held |-> h], k).mark >= m
           /\ k # m + 1 => ApplyFrame([mark |-> m, held |-> h], k) = [mark |-> m, held |-> h]
           /\ k = m + 1 => ApplyFrame([mark |-> m, held |-> h], k)
                              = [mark |-> k, held |-> [h EXCEPT ![log[k]] = k]]
           /\ k = m + 1 => log[k] \in Entities
  <1>1. Len(log) \in Nat /\ m \in Nat /\ k \in 0 .. Len(log)
    BY DEF SyncIInv, ServerWithin, Known
  <1>2. k = m + 1 => log[k] \in Entities
    <2> HAVE k = m + 1
    <2>1. k \in 1 .. Len(log)
      BY <1>1, SMT
    <2> QED
      BY <2>1, ElementOfSeq DEF SyncIInv, ServerWithin
  <1>3. k = m + 1 => [h EXCEPT ![log[k]] = k] \in [Entities -> Known]
    BY <1>2
  <1> QED
    BY <1>1, <1>2, <1>3 DEF ApplyFrame

LEMMA ReceiveFrameOK ==
    ASSUME SyncIInv, ReceiveFrame
    PROVE  SyncIInv'
  <1>0. /\ log \in Seq(Entities) /\ Len(log) \in Nat /\ mark \in Known /\ mark \in Nat
        /\ held \in [Entities -> Known] /\ serverSeq \in Known /\ oldest \in 0 .. Len(log) + 1
        /\ wire \in Seq(LoggedFrames) /\ SyncOK
        /\ stage \in [Writers -> {"idle", "ring", "publish", "reply"}]
        /\ result \in [Writers -> [seq : Known, ents : SUBSET Entities]]
    BY DEF SyncIInv, ServerWithin, SocketWithin, ClientWithin, Known, SyncOK
  <1>1. wire # <<>> /\ wire' = Tail(wire)
        /\ UNCHANGED <<log, ring, outbox, stage, result, conn, helloSeq, faults>>
    BY DEF ReceiveFrame, ReceiveHello, ReceiveClock, ReceiveEvent, Receive, serverVars
  <1> DEFINE f == Head(wire)
  <1>2. f.seq \in Known /\ f.oldest \in 0 .. Len(log) + 1 /\ wire' \in Seq(LoggedFrames)
    BY <1>1, HeadOfWire
  <1> HIDE DEF f
  <1>3. Max({serverSeq, f.seq}) \in Known
    <2>1. serverSeq \in Int /\ f.seq \in Int
      BY <1>0, <1>2 DEF Known
    <2>2. Max({serverSeq, f.seq}) = IF serverSeq >= f.seq THEN serverSeq ELSE f.seq
      BY <2>1, LargerOf
    <2> QED
      BY <1>0, <1>2, <2>2
  <1>4. CASE ReceiveHello
    <2>1. /\ serverSeq' = f.seq /\ oldest' = f.oldest /\ RequestResync(f.seq, f.oldest)
          /\ UNCHANGED <<mark, held>>
      BY <1>4 DEF ReceiveHello, f
    <2>2. SyncOK'
      BY <1>0, <1>1, <2>1, RequestOK
    <2> QED
      BY <1>0, <1>1, <1>2, <2>1, <2>2, ClientMoves
  <1>5. CASE ReceiveClock
    <2>1. serverSeq' = Max({serverSeq, f.seq}) /\ UNCHANGED <<mark, held, oldest, sync>>
      BY <1>5 DEF ReceiveClock, f
    <2>2. SyncOK'
      BY <1>0, <1>1, <2>1, SyncKept
    <2> QED
      BY <1>0, <1>1, <1>2, <1>3, <2>1, <2>2, ClientMoves
  <1>6. CASE ReceiveEvent
    <2> DEFINE c == ApplyFrame([mark |-> mark, held |-> held], f.seq)
    <2>1. /\ mark' = c.mark /\ held' = c.held
          /\ serverSeq' = IF f.seq <= mark THEN serverSeq ELSE Max({serverSeq, f.seq})
          /\ IF f.seq > mark + 1
             THEN RequestResync(Max({serverSeq, f.seq}), oldest)
             ELSE UNCHANGED sync
          /\ UNCHANGED oldest
      BY <1>6 DEF ReceiveEvent, f
    <2>2. /\ c \in [mark : Known, held : [Entities -> Known]] /\ c.mark >= mark
          /\ f.seq # mark + 1 => c = [mark |-> mark, held |-> held]
      BY <1>0, <1>2, ApplyFrameIn
    <2> HIDE DEF c
    <2>3. mark' \in Known /\ held' \in [Entities -> Known] /\ mark' >= mark
            /\ serverSeq' \in Known
      BY <1>0, <1>3, <2>1, <2>2
    <2>4. SyncOK'
      <3>1. CASE f.seq > mark + 1
        <4>1. mark' = mark
          BY <1>0, <1>2, <2>1, <2>2, <3>1 DEF Known
        <4> QED
          BY <1>1, <2>1, <2>3, <3>1, <4>1, RequestOK
      <3>2. CASE ~ (f.seq > mark + 1)
        <4>1. UNCHANGED sync /\ mark' \in Nat
          BY <1>0, <2>1, <2>3, <3>2 DEF Known
        <4> QED
          BY <1>0, <1>1, <2>3, <4>1, SyncKept
      <3> QED
        BY <3>1, <3>2
    <2> QED
      BY <1>0, <1>1, <1>2, <2>1, <2>3, <2>4, ClientMoves
  <1> QED
    BY <1>4, <1>5, <1>6 DEF ReceiveFrame

LEMMA ReceiveReplyOK ==
    ASSUME SyncIInv, NEW w \in Writers, ReceiveReply(w)
    PROVE  SyncIInv'
  <1>0. /\ log \in Seq(Entities) /\ Len(log) \in Nat /\ mark \in Known /\ mark \in Nat
        /\ held \in [Entities -> Known] /\ serverSeq \in Known /\ oldest \in 0 .. Len(log) + 1
        /\ wire \in Seq(LoggedFrames) /\ SyncOK
        /\ stage \in [Writers -> {"idle", "ring", "publish", "reply"}]
        /\ result \in [Writers -> [seq : Known, ents : SUBSET Entities]]
    BY DEF SyncIInv, ServerWithin, SocketWithin, ClientWithin, Known, SyncOK
  <1> DEFINE r == result[w]
  <1>1. /\ stage' = [stage EXCEPT ![w] = "idle"] /\ result' = [result EXCEPT ![w] = NoResult]
        /\ IF r.seq > mark
           THEN /\ mark' = r.seq
                /\ held' = [e \in Entities |->
                              IF e \in r.ents THEN StateAt(e, r.seq) ELSE held[e]]
           ELSE UNCHANGED <<mark, held>>
        /\ UNCHANGED <<log, ring, outbox, conn, helloSeq, wire, serverSeq, oldest, sync, faults>>
    BY DEF ReceiveReply, socketVars
  <1>2. r.seq \in Known /\ r.seq \in Nat
    BY <1>0 DEF Known
  <1> HIDE DEF r
  <1>3. \A e : StateAt(e, r.seq) \in Known
    <2> TAKE e
    <2>1. StateAt(e, r.seq) \in 0 .. r.seq
      BY <1>2, StateAtIs
    <2> QED
      BY <1>0, <1>2, <2>1 DEF Known
  <1>4. mark' \in Known /\ mark' \in Nat /\ mark' >= mark /\ held' \in [Entities -> Known]
    <2>1. CASE r.seq > mark
      <3>1. mark' = r.seq /\ mark' >= mark
        BY <1>0, <1>1, <1>2, <2>1
      <3>2. held' = [e \in Entities |-> IF e \in r.ents THEN StateAt(e, r.seq) ELSE held[e]]
        BY <1>1, <2>1
      <3> QED
        BY <1>0, <1>2, <1>3, <3>1, <3>2
    <2>2. CASE ~ (r.seq > mark)
      BY <1>0, <1>1, <2>2
    <2> QED
      BY <2>1, <2>2
  <1>5. SyncOK'
    BY <1>0, <1>1, <1>4, SyncKept
  <1>6. /\ stage' \in [Writers -> {"idle", "ring", "publish", "reply"}]
        /\ result' \in [Writers -> [seq : Known, ents : SUBSET Entities]]
        /\ \A v \in Writers : stage'[v] = stage[v] \/ stage'[v] = "idle"
    BY <1>0, <1>1 DEF NoResult, Known
  <1> QED
    BY <1>0, <1>1, <1>4, <1>5, <1>6, ClientMoves

\* A ring without a break that holds the event after "since" yields the run from there on.
LEMMA RingAfterRun ==
    ASSUME ring \in Seq(Logged), Len(log) \in Nat, NEW since \in Nat
    PROVE  /\ RingAfter(since) \in Seq(Logged)
           /\ ring = <<>> => RingAfter(since) = <<>>
           /\ ring # <<>> /\ ~ RingRagged /\ (\E j \in 1 .. Len(ring) : ring[j] <= since + 1) =>
                 \A i \in 1 .. Len(RingAfter(since)) : RingAfter(since)[i] = since + i
  <1> DEFINE n == Len(ring)
  <1>1. n \in Nat /\ ring \in [1 .. n -> Logged] /\ Logged \in SUBSET Nat
    BY DEF Logged
  <1>2. PICK r \in [1 .. n -> Logged] : ring = r
    BY <1>1
  <1>3. PICK f \in [0 .. n -> Seq(Logged)] :
              /\ f[0] = <<>> /\ f[n] = RingAfter(since)
              /\ \A k \in 1 .. n :
                    f[k] = IF r[k] > since THEN Append(f[k - 1], r[k]) ELSE f[k - 1]
    <2>1. RingIs(n, r, Logged)
      BY <1>1, <1>2 DEF RingIs
    <2>2. \E f : PagesOf(f, since, n, r, Logged)
      BY <2>1, RingAfterChain
    <2> QED
      BY <2>2 DEF PagesOf
  <1>4. RingAfter(since) \in Seq(Logged)
    BY <1>1, <1>3
  <1>5. ring = <<>> => RingAfter(since) = <<>>
    BY <1>3
  <1>6. ASSUME ring # <<>>, ~ RingRagged, \E j \in 1 .. n : ring[j] <= since + 1
        PROVE  \A i \in 1 .. Len(RingAfter(since)) : RingAfter(since)[i] = since + i
    <2>0. n >= 1
      BY <1>1, <1>6
    <2> DEFINE a == ring[1]
    <2>1. a \in Nat /\ \A k \in 1 .. n : ring[k] \in Nat
      <3>1. \A k \in 1 .. n : ring[k] \in Nat
        BY <1>1
      <3>2. 1 \in 1 .. n
        BY <1>1, <2>0, SMT
      <3> QED
        BY <3>1, <3>2
    <2>2. \A k \in 1 .. n - 1 : ring[k + 1] = ring[k] + 1
      BY <1>6 DEF RingRagged
    <2> HIDE DEF n, a
    <2> DEFINE T == {k \in 0 .. n : k >= 1 => ring[k] = a + k - 1}
    <2>3. \A k \in 1 .. n : ring[k] = a + k - 1
      <3>1. 0 \in T
        BY <1>1, SMT
      <3>2. \A k \in 1 .. n : k - 1 \in T => k \in T
        <4> SUFFICES ASSUME NEW k \in 1 .. n, k - 1 \in T PROVE ring[k] = a + k - 1
          BY SMT
        <4>1. CASE k = 1
          BY <2>1, <4>1 DEF a
        <4>2. CASE k # 1
          <5>1. k - 1 \in 1 .. n - 1 /\ k - 1 >= 1 /\ (k - 1) + 1 = k
            BY <4>2, <1>1, SMT
          <5>2. ring[k - 1] = a + (k - 1) - 1
            BY <5>1
          <5>3. ring[k] = ring[k - 1] + 1
            BY <2>2, <5>1
          <5> QED
            BY <2>1, <5>2, <5>3, SMT
        <4> QED
          BY <4>1, <4>2
      <3> HIDE DEF T
      <3>3. \A k \in 0 .. n : k \in T
        BY <1>1, <3>1, <3>2, UpTo_n
      <3> QED
        BY <3>3, SMT DEF T
    <2>4. a <= since + 1
      <3>1. PICK j \in 1 .. n : ring[j] <= since + 1
        BY <1>6
      <3>2. ring[j] = a + j - 1 /\ j >= 1
        BY <2>3
      <3> QED
        BY <3>1, <3>2, <2>1, SMT
    <2> DEFINE U == {k \in 0 .. n :
                      /\ Len(f[k]) = IF a + k - 1 > since THEN a + k - 1 - since ELSE 0
                      /\ \A i \in 1 .. Len(f[k]) : f[k][i] = since + i}
    <2>5. 0 \in U
      <3>1. Len(f[0]) = 0
        BY <1>3
      <3> QED
        BY <1>1, <2>1, <2>4, <3>1, SMT
    <2>6. \A k \in 1 .. n : k - 1 \in U => k \in U
      <3> SUFFICES ASSUME NEW k \in 1 .. n, k - 1 \in U PROVE k \in U
        OBVIOUS
      <3> DEFINE g == f[k - 1]
      <3>1. g \in Seq(Logged) /\ r[k] = a + k - 1 /\ r[k] \in Logged
        BY <1>1, <1>2, <2>3, SMT
      <3>2. /\ Len(g) = IF a + (k - 1) - 1 > since THEN a + (k - 1) - 1 - since ELSE 0
            /\ \A i \in 1 .. Len(g) : g[i] = since + i
        OBVIOUS
      <3>3. f[k] = IF r[k] > since THEN Append(g, r[k]) ELSE g
        BY <1>3
      <3> HIDE DEF g
      <3>4. CASE r[k] > since
        <4>1. f[k] = Append(g, r[k])
          BY <3>3, <3>4
        <4>2. Len(g) = a + k - 2 - since /\ Len(g) + 1 = a + k - 1 - since
          BY <2>1, <3>1, <3>2, <3>4, SMT
        <4>3. /\ Len(f[k]) = Len(g) + 1 /\ f[k][Len(g) + 1] = r[k]
              /\ \A i \in 1 .. Len(g) : f[k][i] = g[i]
          BY <3>1, <4>1, AppendProperties
        <4>4. \A i \in 1 .. Len(g) + 1 : f[k][i] = since + i
          <5> TAKE i \in 1 .. Len(g) + 1
          <5>1. CASE i = Len(g) + 1
            <6>1. f[k][i] = a + k - 1
              BY <3>1, <4>3, <5>1
            <6>2. i = a + k - 1 - since /\ k \in Int
              BY <4>2, <5>1
            <6>3. a \in Int /\ since \in Int /\ k \in Int
              BY <2>1, <6>2
            <6>4. since + i = a + k - 1
              BY <6>2, <6>3, SMT
            <6> QED
              BY <6>1, <6>4
          <5>2. CASE i # Len(g) + 1
            <6>1. PICK l \in Nat : l = Len(g)
              BY <3>1
            <6>2. i \in 1 .. l + 1 /\ i # l + 1
              BY <6>1, <5>2
            <6>3. i \in 1 .. l
              BY <6>1, <6>2, SMT
            <6> QED
              BY <3>2, <4>3, <6>1, <6>3
          <5> QED
            BY <5>1, <5>2
        <4> QED
          BY <3>1, <3>4, <4>2, <4>3, <4>4
      <3>5. CASE ~ (r[k] > since)
        <4>1. f[k] = g
          BY <3>3, <3>5
        <4>2. Len(g) = 0 /\ ~ (a + k - 1 > since)
          BY <2>1, <3>1, <3>2, <3>5, SMT
        <4> QED
          BY <3>2, <4>1, <4>2
      <3> QED
        BY <3>4, <3>5
    <2> HIDE DEF U
    <2>7. \A k \in 0 .. n : k \in U
      BY <1>1, <2>5, <2>6, UpTo_n
    <2>8. n \in U
      BY <2>7, <1>1, SMT
    <2> QED
      BY <2>8, <1>3 DEF U
  <1> QED
    BY <1>4, <1>5, <1>6

\* Every event up to the mark m is in h.
HonestWith(m, h) == \A k \in 1 .. m : h[log[k]] >= k

\* The states of the client while the frames of a page are applied.
PageFor(n, p, m, h) ==
    n \in Nat /\ p \in [1 .. n -> Logged] /\ m \in Known /\ h \in [Entities -> Known]
ClientsOf(f, n, p, m, h) ==
    /\ f \in [0 .. n -> [mark : Known, held : [Entities -> Known]]]
    /\ f[0] = [mark |-> m, held |-> h]
    /\ f[n] = FoldLeft(ApplyFrame, [mark |-> m, held |-> h], p)
    /\ \A k \in 1 .. n : f[k] = ApplyFrame(f[k - 1], p[k])

LEMMA ApplyChain ==
    ASSUME SyncIInv, NEW n, NEW p, NEW m, NEW h, PageFor(n, p, m, h)
    PROVE  \E f : ClientsOf(f, n, p, m, h)
  <1>0. n \in Nat /\ p \in [1 .. n -> Logged] /\ m \in Known /\ h \in [Entities -> Known]
    BY DEF PageFor
  <1> USE <1>0
  <1> DEFINE D == 1 .. n
             V == [mark : Known, held : [Entities -> Known]]
             b == [mark |-> m, held |-> h]
             F == [x \in D \X V |-> ApplyFrame(x[2], p[x[1]])]
             c == [s \in SUBSET D |-> Max(s)]
  <1>1. IsFiniteSet(D)
    BY FS_Interval
  <1>2. b \in V /\ F \in [D \X V -> V]
    <2>1. b \in V
      OBVIOUS
    <2>2. \A k \in D, v \in V : ApplyFrame(v, p[k]) \in V
      <3> TAKE k \in D, v \in V
      <3>1. p[k] \in Known
        BY DEF Logged, Known
      <3>2. v.mark \in Known /\ v.held \in [Entities -> Known]
            /\ v = [mark |-> v.mark, held |-> v.held]
        OBVIOUS
      <3> QED
        BY <3>1, <3>2, ApplyFrameIn
    <2> HIDE DEF D, V
    <2> QED
      BY <2>1, <2>2
  <1>3. \A s \in SUBSET D : s # {} => c[s] \in s
    BY LargestIn
  <1>4. PICK g \in [SUBSET D -> V] : Folds(g, D, b, F, c)
    <2> HIDE DEF D, V, F, c, b
    <2> QED
      BY <1>1, <1>2, <1>3, RecursionExists
  <1> DEFINE Body(it, s) == IF s = {} THEN b ELSE ApplyFrame(it[s \ {Max(s)}], p[Max(s)])
             it == CHOOSE it : it = [s \in SUBSET D |-> Body(it, s)]
  <1>5. \A j : \A s \in SUBSET D : s # {} /\ j[s \ {Max(s)}] \in V =>
              Body(j, s) = F[<<Max(s), j[s \ {Max(s)}]>>]
    <2> TAKE j
    <2> TAKE s \in SUBSET D
    <2> HAVE s # {} /\ j[s \ {Max(s)}] \in V
    <2>1. <<Max(s), j[s \ {Max(s)}]>> \in D \X V
      BY <1>3
    <2> HIDE DEF D, V, b
    <2> QED
      BY <2>1
  <1>6. g = [s \in SUBSET D |-> Body(g, s)]
    <2> SUFFICES ASSUME NEW s \in SUBSET D PROVE g[s] = Body(g, s)
      OBVIOUS
    <2>1. CASE s # {}
      <3>1. g[s \ {Max(s)}] \in V /\ g[s] = F[<<Max(s), g[s \ {Max(s)}]>>]
        BY <1>4, <2>1 DEF Folds
      <3> HIDE DEF V, F, b
      <3> QED
        BY <3>1, <2>1, <1>5
    <2> QED
      BY <2>1, <1>4 DEF Folds
  <1>7. it = [s \in SUBSET D |-> Body(it, s)]
    BY <1>6
  <1>8. FoldLeft(ApplyFrame, b, p) = it[D]
    BY DEF FoldLeft, MapThenFoldSet
  <1> HIDE DEF it
  <1>9. it[{}] = b /\ TakesLast(it, n, V, F)
    <2>1. it[{}] = b
      BY <1>7
    <2>2. \A s \in SUBSET D : s # {} => it[s] = Body(it, s)
      BY <1>7
    <2> HIDE DEF V, F, b, Body
    <2> QED
      BY <1>2, <1>5, <2>1, <2>2 DEF TakesLast
  <1>10. PICK f : IsChain(f, it, n, V, F)
    <2> HIDE DEF F, V, D, c, Body
    <2> QED
      BY <1>9, FoldIsChain
  <1>11. \A k \in 1 .. n : f[k] = ApplyFrame(f[k - 1], p[k])
    <2> TAKE k \in 1 .. n
    <2>1. k - 1 \in 0 .. n
      BY SMT
    <2> DEFINE x == <<k, f[k - 1]>>
    <2>2. f[k - 1] \in V
      BY <2>1, <1>10 DEF IsChain
    <2>3. f[k] = F[x]
      BY <1>10 DEF IsChain
    <2>4. x \in D \X V /\ x[1] = k /\ x[2] = f[k - 1]
      BY <2>2
    <2> HIDE DEF x, V
    <2>5. F[x] = ApplyFrame(x[2], p[x[1]])
      BY <2>4
    <2> QED
      BY <2>3, <2>4, <2>5
  <1> QED
    <2>1. f \in [0 .. n -> V] /\ f[0] = b /\ f[n] = FoldLeft(ApplyFrame, b, p)
      BY <1>8, <1>9, <1>10 DEF IsChain
    <2>2. ClientsOf(f, n, p, m, h)
      BY <2>1, <1>11 DEF ClientsOf
    <2> QED
      BY <2>2

\* Steps of a rung that leave the client as it is.
LEMMA RungMoves ==
    ASSUME SyncIInv,
           UNCHANGED <<log, ring, outbox, stage, result, conn, helloSeq, wire, mark, held,
                       serverSeq, oldest>>,
           faults' \in 0 .. MaxFaults, SyncOK'
    PROVE  SyncIInv'
  <1>1. ServerWithin'
    BY DEF SyncIInv, ServerWithin, Logged, Known
  <1>2. SocketWithin' /\ ClientWithin'
    BY DEF SyncIInv, SocketWithin, ClientWithin, LoggedFrames, Known
  <1> QED
    BY <1>1, <1>2 DEF SyncIInv, SyncOK

LEMMA ReplayCountOK ==
    ASSUME SyncIInv, ReplayCount
    PROVE  SyncIInv'
  <1> DEFINE from == Min({sync.since, Len(log)})
  <1>1. /\ sync.at = "asked"
          /\ sync' = [sync EXCEPT !.at = "counted", !.seq = Len(log), !.since = from]
        /\ UNCHANGED <<log, ring, outbox, stage, result, conn, helloSeq, wire, mark, held,
                       serverSeq, oldest, faults>>
    BY DEF ReplayCount, serverVars, socketVars, clientVars
  <1>2. /\ Len(log) \in Nat /\ mark \in 0 .. Len(log) /\ sync \in LoggedSyncs
        /\ sync.since \in 0 .. Len(log) /\ faults \in 0 .. MaxFaults /\ sync.since <= mark
        /\ sync.page = <<>> /\ ~ sync.truncated /\ ~ sync.ragged
    BY <1>1 DEF SyncIInv, ServerWithin, ClientWithin, Known, LoggedSyncs, ReplayOK
  <1>3. from = sync.since
    <2>1. from = IF sync.since <= Len(log) THEN sync.since ELSE Len(log)
      BY <1>2, SmallerOf
    <2> QED
      BY <1>2, <2>1
  <1> HIDE DEF from
  <1>4. (sync \in LoggedSyncs)'
    <2>1. Len(log) \in Known /\ from \in Known /\ "counted" \in Rungs
      BY <1>2, <1>3 DEF Known, Rungs
    <2>2. sync' \in LoggedSyncs
      BY <1>1, <1>2, <2>1 DEF LoggedSyncs
    <2> QED
      BY <1>1, <2>2 DEF LoggedSyncs, Known, Logged
  <1>5. sync'.at = "counted" /\ sync'.since = sync.since /\ sync'.page = sync.page
        /\ sync'.truncated = sync.truncated /\ sync'.ragged = sync.ragged
    BY <1>1, <1>2, <1>3 DEF LoggedSyncs
  <1>6. SyncOK'
    BY <1>1, <1>2, <1>4, <1>5 DEF SyncOK, ReplayOK, ReadingOK
  <1> QED
    BY <1>1, <1>2, <1>6, RungMoves

LEMMA ReplayRingOK ==
    ASSUME SyncIInv, ReplayRing
    PROVE  SyncIInv'
  <1> DEFINE after == RingAfter(sync.since)
             old == OldestInRing(sync.seq)
  <1>1. /\ sync.at = "counted"
        /\ sync' =
             IF sync.seq <= sync.since THEN [sync EXCEPT !.at = "page"]
             ELSE IF sync.seq - sync.since > RingCapacity
                  THEN [sync EXCEPT !.at = "page", !.truncated = TRUE]
             ELSE IF (sync.since + 1 < old /\ sync.since < sync.seq) \/ after = <<>>
                  THEN [sync EXCEPT !.at = "log"]
             ELSE [sync EXCEPT !.at = "page", !.page = after, !.ragged = RingRagged]
        /\ UNCHANGED <<log, ring, outbox, stage, result, conn, helloSeq, wire, mark, held,
                       serverSeq, oldest, faults>>
    BY DEF ReplayRing, RingTruncated, serverVars, socketVars, clientVars
  <1>2. /\ Len(log) \in Nat /\ mark \in 0 .. Len(log) /\ sync \in LoggedSyncs
        /\ sync.since \in 0 .. Len(log) /\ sync.seq \in 0 .. Len(log) /\ sync.seq \in Known
        /\ faults \in 0 .. MaxFaults /\ sync.since <= mark
        /\ sync.page = <<>> /\ ~ sync.truncated /\ ~ sync.ragged
        /\ ring \in Seq(Logged) /\ ServerWithin
    BY <1>1 DEF SyncIInv, ServerWithin, ClientWithin, Known, LoggedSyncs, ReplayOK
  <1>3. /\ after \in Seq(Logged)
        /\ ring = <<>> => after = <<>>
        /\ ring # <<>> /\ ~ RingRagged /\ (\E j \in 1 .. Len(ring) : ring[j] <= sync.since + 1) =>
              \A i \in 1 .. Len(after) : after[i] = sync.since + i
    <2>1. PICK k \in Nat : k = sync.since
      BY <1>2
    <2> QED
      BY <1>2, <2>1, RingAfterRun
  <1>4. /\ old \in 0 .. Len(log) + 1
        /\ ring # <<>> => \E i \in 1 .. Len(ring) : old = ring[i]
    BY <1>2, OldestIn
  <1>5. RingRagged \in BOOLEAN
    BY DEF RingRagged
  <1> HIDE DEF after, old
  <1>6. sync' \in LoggedSyncs
    BY <1>1, <1>2, <1>3, <1>5 DEF LoggedSyncs, Rungs
  <1>7. sync'.since = sync.since /\ sync'.at \in {"log", "page"}
    BY <1>1, <1>2 DEF LoggedSyncs
  <1>8. sync'.at = "log" => sync'.page = <<>> /\ ~ sync'.truncated /\ ~ sync'.ragged
    BY <1>1, <1>2 DEF LoggedSyncs
  <1>9. sync'.truncated => sync'.page = <<>>
    BY <1>1, <1>2 DEF LoggedSyncs
  <1>10. sync'.at = "page" /\ ~ sync'.ragged =>
           \A i \in 1 .. Len(sync'.page) : sync'.page[i] = sync.since + i
    <2>1. CASE sync'.page = <<>>
      BY <2>1, EmptySeq
    <2>2. CASE sync'.page # <<>>
      <3>1. /\ ~ (sync.seq <= sync.since) /\ ~ (sync.since + 1 < old /\ sync.since < sync.seq)
            /\ after # <<>> /\ sync'.page = after /\ sync'.ragged = RingRagged
        BY <1>1, <1>2, <2>2 DEF LoggedSyncs
      <3>2. ring # <<>> /\ old <= sync.since + 1
        BY <1>2, <1>3, <1>4, <3>1, SMT
      <3>3. \E j \in 1 .. Len(ring) : ring[j] <= sync.since + 1
        BY <1>4, <3>2
      <3> QED
        BY <1>3, <3>1, <3>2, <3>3
    <2> QED
      BY <2>1, <2>2
  <1>11. (sync \in LoggedSyncs)'
    BY <1>1, <1>6 DEF LoggedSyncs, Logged, Known
  <1>12. ReplayOK'
    BY <1>1, <1>2, <1>7, <1>8, <1>9, <1>10 DEF ReplayOK, PageIsRun
  <1>13. ReadingOK'
    BY <1>7 DEF ReadingOK
  <1> QED
    BY <1>1, <1>2, <1>11, <1>12, <1>13, RungMoves DEF SyncOK

LEMMA ReplayLogOK ==
    ASSUME SyncIInv, ReplayLog
    PROVE  SyncIInv'
  <1> DEFINE to == Min({Len(log), sync.since + RingCapacity})
             run == Interval(sync.since, to)
  <1>1. /\ sync.at = "log" /\ sync' = [sync EXCEPT !.at = "page", !.page = run]
        /\ UNCHANGED <<log, ring, outbox, stage, result, conn, helloSeq, wire, mark, held,
                       serverSeq, oldest, faults>>
    BY DEF ReplayLog, serverVars, socketVars, clientVars
  <1>2. /\ Len(log) \in Nat /\ mark \in 0 .. Len(log) /\ sync \in LoggedSyncs
        /\ sync.since \in 0 .. Len(log) /\ faults \in 0 .. MaxFaults /\ sync.since <= mark
        /\ sync.page = <<>> /\ ~ sync.truncated /\ ~ sync.ragged
    BY <1>1 DEF SyncIInv, ServerWithin, ClientWithin, Known, LoggedSyncs, ReplayOK
  <1>3. to \in sync.since .. Len(log)
    <2>1. RingCapacity \in Nat
      BY SyncAssumption
    <2>2. to = IF Len(log) <= sync.since + RingCapacity THEN Len(log)
               ELSE sync.since + RingCapacity
      <3>1. Len(log) \in Int /\ sync.since + RingCapacity \in Int
        BY <1>2, <2>1
      <3> QED
        BY <3>1, SmallerOf
    <2> QED
      BY <1>2, <2>1, <2>2, SMT
  <1> HIDE DEF to
  <1>4. run \in Seq(Logged) /\ \A i \in 1 .. Len(run) : run[i] = sync.since + i
    <2>1. to - sync.since \in Nat
      BY <1>2, <1>3, SMT
    <2>2. \A i \in 1 .. (to - sync.since) : sync.since + i \in Logged
      BY <1>2, <1>3, SMT DEF Logged
    <2> QED
      BY <2>1, <2>2 DEF Interval
  <1> HIDE DEF run
  <1>5. sync' \in LoggedSyncs
    BY <1>1, <1>2, <1>4 DEF LoggedSyncs, Rungs
  <1>6. sync'.since = sync.since /\ sync'.at = "page" /\ sync'.page = run /\ ~ sync'.truncated
    BY <1>1, <1>2 DEF LoggedSyncs
  <1>7. SyncOK'
    <2>1. (sync \in LoggedSyncs)'
      BY <1>1, <1>5 DEF LoggedSyncs, Logged, Known
    <2>2. ReplayOK'
      BY <1>1, <1>2, <1>4, <1>6 DEF ReplayOK, PageIsRun
    <2>3. ReadingOK'
      BY <1>6 DEF ReadingOK
    <2> QED
      BY <2>1, <2>2, <2>3 DEF SyncOK
  <1> QED
    BY <1>1, <1>2, <1>7, RungMoves

\* A client that misses nothing misses nothing after a frame either.
LEMMA HonestFrame ==
    ASSUME SyncIInv, NEW m \in Known, NEW h \in [Entities -> Known], NEW k \in Known,
           HonestWith(m, h), k = m + 1
    PROVE  HonestWith(k, [h EXCEPT ![log[k]] = k])
  <1>1. Len(log) \in Nat /\ m \in Nat /\ k \in 1 .. Len(log) /\ log \in Seq(Entities)
    BY DEF SyncIInv, ServerWithin, Known
  <1>2. \A j \in 1 .. k : log[j] \in Entities
    BY <1>1, ElementOfSeq, SMT
  <1>3. \A e \in Entities : h[e] \in Nat
    BY <1>1 DEF Known
  <1>4. \A j \in 1 .. k : [h EXCEPT ![log[k]] = k][log[j]] >= j
    <2> TAKE j \in 1 .. k
    <2>1. CASE log[j] = log[k]
      BY <1>1, <1>2, <2>1
    <2>2. CASE log[j] # log[k]
      <3>1. j # k
        BY <2>2
      <3>2. j \in 1 .. m
        BY <1>1, <3>1, SMT
      <3>3. h[log[j]] >= j
        BY <3>2 DEF HonestWith
      <3> QED
        BY <1>1, <1>2, <2>2, <3>3
    <2> QED
      BY <2>1, <2>2
  <1> QED
    BY <1>4 DEF HonestWith

\* The frames of a page, applied one after the other: the mark does not fall, a client that
\* misses nothing still misses nothing, and a run from the mark or below is applied to its end.
LEMMA PageApplied ==
    ASSUME SyncIInv, NEW n \in Nat, NEW p \in [1 .. n -> Logged], NEW m \in Known,
           NEW h \in [Entities -> Known], NEW since \in 0 .. m
    PROVE  LET c == FoldLeft(ApplyFrame, [mark |-> m, held |-> h], p) IN
           /\ c \in [mark : Known, held : [Entities -> Known]] /\ c.mark >= m
           /\ HonestWith(m, h) => HonestWith(c.mark, c.held)
           /\ (\A i \in 1 .. n : p[i] = since + i) => c.mark >= since + n
  <1> DEFINE b == [mark |-> m, held |-> h]
             V == [mark : Known, held : [Entities -> Known]]
             c == FoldLeft(ApplyFrame, b, p)
  <1>1. PICK f \in [0 .. n -> V] :
              /\ f[0] = b /\ f[n] = c
              /\ \A k \in 1 .. n : f[k] = ApplyFrame(f[k - 1], p[k])
    <2>1. PageFor(n, p, m, h)
      BY DEF PageFor
    <2>2. \E f : ClientsOf(f, n, p, m, h)
      BY <2>1, ApplyChain
    <2> QED
      BY <2>2 DEF ClientsOf
  <1>2. Len(log) \in Nat /\ Known \subseteq Nat /\ Logged \subseteq Known /\ m \in Nat
          /\ since \in Nat
    BY DEF SyncIInv, ServerWithin, Known, Logged
  <1> DEFINE T == {k \in 0 .. n :
                     /\ f[k].mark >= m
                     /\ HonestWith(m, h) => HonestWith(f[k].mark, f[k].held)
                     /\ (\A i \in 1 .. n : p[i] = since + i) => f[k].mark >= since + k}
  <1>3. 0 \in T
    BY <1>1, <1>2
  <1>4. \A k \in 1 .. n : k - 1 \in T => k \in T
    <2> SUFFICES ASSUME NEW k \in 1 .. n, k - 1 \in T PROVE k \in T
      OBVIOUS
    <2>1. k - 1 \in 0 .. n /\ k \in 0 .. n
      BY SMT
    <2>2. PICK gm \in Known, gh \in [Entities -> Known] : f[k - 1] = [mark |-> gm, held |-> gh]
      BY <1>1, <2>1
    <2>3. /\ gm >= m
          /\ HonestWith(m, h) => HonestWith(gm, gh)
          /\ (\A i \in 1 .. n : p[i] = since + i) => gm >= since + (k - 1)
      BY <2>2
    <2>4. PICK q \in Known : q = p[k]
      BY <1>2
    <2>5. gm \in Nat /\ q \in Nat
      BY <1>2, <2>4
    <2>6. f[k] = ApplyFrame([mark |-> gm, held |-> gh], q)
      BY <1>1, <2>2, <2>4
    <2>7. CASE q # gm + 1
      <3>1. f[k] = [mark |-> gm, held |-> gh]
        BY <2>6, <2>7, ApplyFrameIn
      <3>2. (\A i \in 1 .. n : p[i] = since + i) => gm >= since + k
        <4> HAVE \A i \in 1 .. n : p[i] = since + i
        <4>1. q = since + k /\ gm >= since + (k - 1)
          BY <2>3, <2>4
        <4> QED
          BY <1>2, <2>5, <2>7, <4>1, SMT
      <3>3. f[k].mark = gm /\ f[k].held = gh
        BY <3>1
      <3> QED
        BY <2>1, <2>3, <3>2, <3>3
    <2>8. CASE q = gm + 1
      <3>1. f[k] = [mark |-> q, held |-> [gh EXCEPT ![log[q]] = q]]
        BY <2>6, <2>8, ApplyFrameIn
      <3>2. HonestWith(m, h) => HonestWith(q, [gh EXCEPT ![log[q]] = q])
        BY <2>3, <2>8, HonestFrame
      <3>3. (\A i \in 1 .. n : p[i] = since + i) => q >= since + k
        BY <2>4, <1>2, <2>5
      <3>4. q >= m
        BY <2>3, <2>5, <2>8, <1>2, SMT
      <3>5. f[k].mark = q /\ f[k].held = [gh EXCEPT ![log[q]] = q]
        BY <3>1
      <3> QED
        BY <2>1, <3>2, <3>3, <3>4, <3>5
    <2> QED
      BY <2>7, <2>8
  <1>5. n \in T
    <2> HIDE DEF T
    <2>1. \A k \in 0 .. n : k \in T
      BY <1>3, <1>4, UpTo_n
    <2> QED
      BY <2>1
  <1>6. c \in V
    BY <1>1
  <1> QED
    BY <1>1, <1>5, <1>6

\* What applyReplay makes of the client.
LEMMA ReplayApplied ==
    ASSUME SyncIInv, ApplyReplay
    PROVE  /\ mark' \in Known /\ mark' >= mark /\ held' \in [Entities -> Known]
           /\ HonestWith(mark, held) /\ ~ sync.ragged => HonestWith(mark', held')
  <1> DEFINE n == Len(sync.page)
             c == FoldLeft(ApplyFrame, [mark |-> mark, held |-> held], sync.page)
             top == Max({c.mark, Through})
  <1>1. /\ sync.at = "page" /\ held' = c.held
        /\ mark' = IF sync.truncated THEN c.mark ELSE top
    BY DEF ApplyReplay
  <1>2. /\ Len(log) \in Nat /\ mark \in Known /\ mark \in Nat /\ held \in [Entities -> Known]
        /\ sync.page \in Seq(Logged) /\ sync.since \in 0 .. mark
    BY <1>1 DEF SyncIInv, ServerWithin, ClientWithin, Known, LoggedSyncs, ReplayOK
  <1>3. n \in Nat /\ sync.page \in [1 .. n -> Logged]
    BY <1>2
  <1>4. PICK since \in 0 .. mark : since = sync.since
    BY <1>2
  <1>5. PICK p \in [1 .. n -> Logged] : p = sync.page
    BY <1>3
  <1>6. /\ c \in [mark : Known, held : [Entities -> Known]] /\ c.mark >= mark
        /\ HonestWith(mark, held) => HonestWith(c.mark, c.held)
        /\ (\A i \in 1 .. n : sync.page[i] = sync.since + i) => c.mark >= sync.since + n
    <2>1. PICK l \in Nat : l = n
      BY <1>3
    <2>2. PICK m \in Known, h \in [Entities -> Known] : m = mark /\ h = held
      BY <1>2
    <2>3. p \in [1 .. l -> Logged] /\ since \in 0 .. m
      BY <1>4, <1>5, <2>1, <2>2
    <2>4. LET d == FoldLeft(ApplyFrame, [mark |-> m, held |-> h], p) IN
           /\ d \in [mark : Known, held : [Entities -> Known]] /\ d.mark >= m
           /\ HonestWith(m, h) => HonestWith(d.mark, d.held)
           /\ (\A i \in 1 .. l : p[i] = since + i) => d.mark >= since + l
      BY <2>1, <2>2, <2>3, PageApplied
    <2> QED
      BY <1>4, <1>5, <2>1, <2>2, <2>4
  <1>7. Through \in Known
    <2>1. CASE sync.page = <<>>
      BY <1>2, <2>1 DEF Through, Known
    <2>2. CASE sync.page # <<>>
      <3>1. n \in 1 .. n
        BY <1>2, <1>3, <2>2, EmptySeq, SMT
      <3>2. sync.page[n] \in Logged
        BY <1>3, <3>1
      <3>3. Logged \subseteq Known
        BY <1>2 DEF Logged, Known
      <3> QED
        BY <2>2, <3>2, <3>3 DEF Through, Last
    <2> QED
      BY <2>1, <2>2
  <1>8. c.mark \in Known /\ c.held \in [Entities -> Known] /\ c.mark \in Int /\ Through \in Int
    BY <1>2, <1>6, <1>7 DEF Known
  <1> HIDE DEF c
  <1>9. top = IF c.mark >= Through THEN c.mark ELSE Through
    BY <1>8, LargerOf
  <1>10. top \in Known /\ top >= c.mark
    BY <1>7, <1>8, <1>9
  <1> HIDE DEF top
  <1>11. mark' \in Known /\ mark' >= mark /\ held' \in [Entities -> Known]
    BY <1>1, <1>2, <1>6, <1>8, <1>10, SMT DEF Known
  <1>12. ASSUME ~ sync.ragged PROVE mark' = c.mark
    <2>1. \A i \in 1 .. n : sync.page[i] = sync.since + i
      BY <1>1, <1>12 DEF SyncIInv, ReplayOK, PageIsRun
    <2>2. c.mark >= sync.since + n
      BY <1>6, <2>1
    <2>3. Through = sync.since + n
      <3>1. CASE sync.page = <<>>
        <4>1. n = 0
          BY <3>1, EmptySeq
        <4> HIDE DEF n
        <4> QED
          BY <1>2, <3>1, <4>1 DEF Through
      <3>2. CASE sync.page # <<>>
        <4>1. n \in 1 .. n
          BY <1>2, <1>3, <3>2, EmptySeq, SMT
        <4> QED
          BY <2>1, <3>2, <4>1 DEF Through, Last
      <3> QED
        BY <3>1, <3>2
    <2>4. top = c.mark
      BY <1>8, <1>9, <2>2, <2>3
    <2> QED
      BY <1>1, <2>4
  <1> QED
    BY <1>1, <1>6, <1>11, <1>12

LEMMA ApplyReplayOK ==
    ASSUME SyncIInv, ApplyReplay
    PROVE  SyncIInv'
  <1>1. /\ UNCHANGED <<log, ring, outbox, stage, result, conn, helloSeq, wire, serverSeq, oldest,
          faults>>
        /\ sync' \in NewRungs(mark')
    BY DEF ApplyReplay, serverVars, socketVars, Again, NextRung, NewRungs
  <1>2. mark' \in Known /\ held' \in [Entities -> Known]
    BY ReplayApplied
  <1>3. /\ log \in Seq(Entities) /\ wire \in Seq(LoggedFrames) /\ serverSeq \in Known
        /\ oldest \in 0 .. Len(log) + 1
        /\ stage \in [Writers -> {"idle", "ring", "publish", "reply"}]
        /\ result \in [Writers -> [seq : Known, ents : SUBSET Entities]]
    BY DEF SyncIInv, ServerWithin, SocketWithin, ClientWithin
  <1>4. mark' \in Known'
    BY <1>1, <1>2 DEF Known
  <1>5. SyncOK'
    BY <1>1, <1>3, <1>4, RungStarts
  <1> QED
    BY <1>1, <1>2, <1>3, <1>5, ClientMoves

LEMMA SnapshotCountOK ==
    ASSUME SyncIInv, SnapshotCount
    PROVE  SyncIInv'
  <1>1. /\ sync' = [sync EXCEPT !.at = "reading", !.seq = Len(log), !.left = Entities]
        /\ UNCHANGED <<log, ring, outbox, stage, result, conn, helloSeq, wire, mark, held,
                       serverSeq, oldest, faults>>
    BY DEF SnapshotCount, serverVars, socketVars, clientVars
  <1>2. Len(log) \in Nat /\ sync \in LoggedSyncs /\ faults \in 0 .. MaxFaults
    BY DEF SyncIInv, ServerWithin, ClientWithin
  <1>3. Len(log) \in Known /\ "reading" \in Rungs /\ Entities \in SUBSET Entities
    BY <1>2 DEF Known, Rungs
  <1>4. sync' \in LoggedSyncs
    BY <1>1, <1>2, <1>3 DEF LoggedSyncs
  <1>5. sync'.at = "reading" /\ sync'.left = Entities
    BY <1>1, <1>2 DEF LoggedSyncs
  <1>6. SyncOK'
    <2>1. (sync \in LoggedSyncs)'
      BY <1>1, <1>4 DEF LoggedSyncs, Logged, Known
    <2>2. ReplayOK' /\ ReadingOK'
      BY <1>5 DEF ReplayOK, ReadingOK
    <2> QED
      BY <2>1, <2>2 DEF SyncOK
  <1> QED
    BY <1>1, <1>2, <1>6, RungMoves

LEMMA SnapshotReadOK ==
    ASSUME SyncIInv, NEW e \in Entities, SnapshotRead(e)
    PROVE  SyncIInv'
  <1> DEFINE now == StateAt(e, Len(log))
  <1>1. /\ sync.at = "reading" /\ e \in sync.left
        /\ sync' = [sync EXCEPT !.left = @ \ {e}, !.got[e] = now,
                                !.at = IF sync.left = {e} THEN "snapshot" ELSE "reading"]
        /\ UNCHANGED <<log, ring, outbox, stage, result, conn, helloSeq, wire, mark, held,
                       serverSeq, oldest, faults>>
    BY DEF SnapshotRead, serverVars, socketVars, clientVars
  <1>2. /\ Len(log) \in Nat /\ sync \in LoggedSyncs /\ faults \in 0 .. MaxFaults
        /\ sync.seq \in 0 .. Len(log) /\ sync.got \in [Entities -> Known]
        /\ sync.left \in SUBSET Entities
    BY DEF SyncIInv, ServerWithin, ClientWithin, LoggedSyncs, Known
  <1>3. now \in 0 .. Len(log) /\ \A i \in 1 .. Len(log) : log[i] = e => i <= now
    BY <1>2, StateAtIs
  <1> HIDE DEF now
  <1>4. now \in Known /\ {"snapshot", "reading"} \subseteq Rungs
    BY <1>3 DEF Known, Rungs
  <1>5. sync' \in LoggedSyncs
    <2>1. [sync.got EXCEPT ![e] = now] \in [Entities -> Known]
      BY <1>2, <1>4
    <2>2. sync.left \ {e} \in SUBSET Entities
      BY <1>2
    <2> QED
      BY <1>1, <1>2, <1>4, <2>1, <2>2 DEF LoggedSyncs
  <1>6. /\ sync'.left = sync.left \ {e} /\ sync'.got = [sync.got EXCEPT ![e] = now]
        /\ sync'.seq = sync.seq
        /\ sync'.at = IF sync.left = {e} THEN "snapshot" ELSE "reading"
    BY <1>1, <1>2 DEF LoggedSyncs
  <1>7. ReadingOK'
    <2>1. ASSUME NEW d \in Entities \ (sync.left \ {e}), NEW i \in 1 .. sync.seq, log[i] = d
          PROVE  i <= [sync.got EXCEPT ![e] = now][d]
      <3>1. CASE d = e
        <4>1. i \in 1 .. Len(log)
          BY <1>2, SMT
        <4>2. i <= now
          BY <1>3, <2>1, <3>1, <4>1
        <4> QED
          BY <1>2, <3>1, <4>2
      <3>2. CASE d # e
        <4>1. d \in Entities \ sync.left
          BY <3>2
        <4>2. i <= sync.got[d]
          BY <1>1, <2>1, <4>1 DEF SyncIInv, ReadingOK
        <4> QED
          BY <1>2, <3>2, <4>2
      <3> QED
        BY <3>1, <3>2
    <2>2. sync'.at = "snapshot" => sync'.left = {}
      BY <1>6
    <2> QED
      BY <1>1, <1>6, <2>1, <2>2 DEF ReadingOK
  <1>8. SyncOK'
    <2>1. (sync \in LoggedSyncs)'
      BY <1>1, <1>5 DEF LoggedSyncs, Logged, Known
    <2>2. ReplayOK'
      BY <1>6 DEF ReplayOK
    <2> QED
      BY <1>7, <2>1, <2>2 DEF SyncOK
  <1> QED
    BY <1>1, <1>2, <1>8, RungMoves

LEMMA ApplySnapshotOK ==
    ASSUME SyncIInv, ApplySnapshot
    PROVE  SyncIInv'
  <1>1. /\ UNCHANGED <<log, ring, outbox, stage, result, conn, helloSeq, wire, serverSeq, oldest,
          faults>>
        /\ mark' = sync.seq /\ held' = sync.got /\ sync' \in NewRungs(mark')
    BY DEF ApplySnapshot, serverVars, socketVars, Again, NextRung, NewRungs
  <1>2. mark' \in Known /\ held' \in [Entities -> Known]
    BY <1>1 DEF SyncIInv, LoggedSyncs
  <1>3. /\ log \in Seq(Entities) /\ wire \in Seq(LoggedFrames) /\ serverSeq \in Known
        /\ oldest \in 0 .. Len(log) + 1
        /\ stage \in [Writers -> {"idle", "ring", "publish", "reply"}]
        /\ result \in [Writers -> [seq : Known, ents : SUBSET Entities]]
    BY DEF SyncIInv, ServerWithin, SocketWithin, ClientWithin
  <1>4. mark' \in Known'
    BY <1>1, <1>2 DEF Known
  <1>5. SyncOK'
    BY <1>1, <1>3, <1>4, RungStarts
  <1> QED
    BY <1>1, <1>2, <1>3, <1>5, ClientMoves

LEMMA RungFailsOK ==
    ASSUME SyncIInv, RungFails
    PROVE  SyncIInv'
  <1>1. /\ UNCHANGED <<log, ring, outbox, stage, result, conn, helloSeq, wire, mark, held,
          serverSeq, oldest>>
        /\ sync' \in NewRungs(mark')
    BY DEF RungFails, serverVars, socketVars, clientVars, NewRungs
  <1>2. faults' \in 0 .. MaxFaults
    BY SyncAssumption DEF RungFails, Fault, SyncIInv, ClientWithin
  <1>3. log \in Seq(Entities) /\ mark \in Known
    BY DEF SyncIInv, ServerWithin, ClientWithin
  <1>4. mark' \in Known'
    BY <1>1, <1>3 DEF Known
  <1>5. SyncOK'
    BY <1>1, <1>3, <1>4, RungStarts
  <1> QED
    BY <1>1, <1>2, <1>5, RungMoves

LEMMA SyncStutters == SyncIInv /\ UNCHANGED syncVars => SyncIInv'
  BY DEF SyncIInv, ServerWithin, SocketWithin, ClientWithin, ReplayOK, ReadingOK, PageIsRun,
     LoggedSyncs, LoggedFrames, Logged, Known, syncVars, serverVars, socketVars, clientVars

LEMMA SyncInductive == SyncSpec => []SyncIInv
  <1>1. SyncIInv /\ [SyncNext]_syncVars => SyncIInv'
    <2> SUFFICES ASSUME SyncIInv, [SyncNext]_syncVars PROVE SyncIInv'
      OBVIOUS
    <2>1. ASSUME NEW w \in Writers, Write(w) \/ EffectFails(w) \/ WriterDies(w) PROVE SyncIInv'
      BY <2>1, CommitOK, PushRingOK, PublishOK, ReceiveReplyOK, EffectFailsOK DEF Write
    <2>2. CASE Open \/ Clock \/ Disconnect \/ RingLost
      BY <2>2, SocketOK
    <2>3. CASE ReceiveFrame
      BY <2>3, ReceiveFrameOK
    <2>4. CASE Resync
      BY <2>4, ReplayCountOK, ReplayRingOK, ReplayLogOK, ApplyReplayOK, SnapshotCountOK,
         SnapshotReadOK, ApplySnapshotOK DEF Resync
    <2>5. CASE RungFails
      BY <2>5, RungFailsOK
    <2>6. CASE UNCHANGED syncVars
      BY <2>6, SyncStutters
    <2> QED
      BY <2>1, <2>2, <2>3, <2>4, <2>5, <2>6 DEF SyncNext
  <1> QED
    BY SyncInitial, <1>1, PTL DEF SyncSpec

\* The types of the log, the ring, the socket and the client: no frame, page or mark is ever
\* beyond the log, and the ring never beyond its capacity (pushRing, net/sequence.ts).
THEOREM SyncTypeCorrect == SyncSpec => []SyncTypeOK
  <1>1. SyncIInv => SyncTypeOK
    <2> SUFFICES ASSUME SyncIInv PROVE SyncTypeOK
      OBVIOUS
    <2>1. Len(log) \in Nat /\ Len(log) <= MaxSeq /\ MaxSeq \in Nat
      BY SyncAssumption DEF SyncIInv, ServerWithin
    <2>2. Logged \subseteq Seqs /\ Known \subseteq Marks
            /\ 0 .. Len(log) + 1 \subseteq 0 .. MaxSeq + 1
      BY <2>1 DEF Logged, Known, Seqs, Marks
    <2>3. Seq(Logged) \subseteq Seq(Seqs)
      BY <2>2, SeqMonotonic
    <2>4. ring \in Seq(Seqs) /\ sync.page \in Seq(Seqs)
      BY <2>3 DEF SyncIInv, ServerWithin, LoggedSyncs
    <2>5. outbox \in [Writers -> Seq(Seq(Seqs))]
      <3>1. \A w \in Writers : outbox[w] \in Seq(Seq(Seqs))
        <4> TAKE w \in Writers
        <4>1. outbox[w] \in Seq(Seq(Logged))
          BY DEF SyncIInv, ServerWithin
        <4> QED
          BY <4>1, <2>3, SeqMonotonic
      <3> QED
        BY <3>1 DEF SyncIInv, ServerWithin
    <2>6. result \in [Writers -> Results]
      BY <2>2 DEF SyncIInv, ServerWithin, Results
    <2>7. wire \in Seq(Frames)
      <3>1. LoggedFrames \subseteq Frames
        BY <2>2 DEF LoggedFrames, Frames
      <3>2. wire \in Seq(LoggedFrames)
        BY DEF SyncIInv, SocketWithin
      <3> HIDE DEF LoggedFrames, Frames
      <3> QED
        BY <3>1, <3>2, SeqMonotonic
    <2>8. sync \in Syncs
      <3>1. sync.got \in [Entities -> Marks]
        BY <2>2 DEF SyncIInv, LoggedSyncs
      <3> QED
        BY <2>2, <2>4, <3>1 DEF SyncIInv, LoggedSyncs, Syncs
    <2>9. mark \in Marks /\ held \in [Entities -> Marks] /\ serverSeq \in Marks
            /\ helloSeq \in Marks
          /\ oldest \in 0 .. MaxSeq + 1
      BY <2>2 DEF SyncIInv, ClientWithin, SocketWithin
    <2> QED
      BY <2>4, <2>5, <2>6, <2>7, <2>8, <2>9 DEF SyncTypeOK, SyncIInv, ServerWithin, SocketWithin,
         ClientWithin
  <1> QED
    BY SyncInductive, <1>1, PTL

\* A snapshot holds, of every entity, at least the state of the sequence it reports, whatever
\* is written while its statements run (buildSnapshot): its count comes first.
THEOREM SnapshotHoldsWhatItReports == SyncSpec => []SnapshotNotBehind
  <1>1. SyncIInv => SnapshotNotBehind
    <2> SUFFICES ASSUME SyncIInv, sync.at = "snapshot", NEW e \in Entities
                 PROVE  sync.got[e] >= StateAt(e, sync.seq)
      BY DEF SnapshotNotBehind
    <2>1. /\ sync.seq \in Nat /\ sync.got[e] \in Nat /\ sync.left = {}
          /\ \A i \in 1 .. sync.seq : log[i] = e => i <= sync.got[e]
      BY DEF SyncIInv, LoggedSyncs, Known, ReadingOK
    <2>2. /\ StateAt(e, sync.seq) \in 0 .. sync.seq
          /\ StateAt(e, sync.seq) = 0 \/ log[StateAt(e, sync.seq)] = e
      BY <2>1, StateAtIs
    <2> QED
      BY <2>1, <2>2
  <1> QED
    BY SyncInductive, <1>1, PTL

\* A page that is not out of order has no hole: it runs on from the mark it was asked for,
\* whether it came from the ring or from the log, after any loss, trim or expiry of the
\* ring (readRing and its test of the first sequence, the replay route).
PagesRunOn == sync.at = "page" /\ ~ sync.ragged => PageIsRun

THEOREM ReplaysRunOn == SyncSpec => []PagesRunOn
  <1>1. SyncIInv => PagesRunOn
    BY DEF SyncIInv, ReplayOK, PagesRunOn
  <1> QED
    BY SyncInductive, <1>1, PTL

\* The client alone decides what it has missed.
LEMMA HonestIs == Honest <=> HonestWith(mark, held)
  BY DEF Honest, HonestWith

LEMMA HonestKept ==
    ASSUME SyncIInv, UNCHANGED <<mark, held>>, Honest,
           \A i \in 1 .. Len(log) : log'[i] = log[i]
    PROVE  Honest'
  <1>1. mark \in 0 .. Len(log) /\ Len(log) \in Nat
    BY DEF SyncIInv, ServerWithin, ClientWithin, Known
  <1>2. \A k \in 1 .. mark : log'[k] = log[k]
    BY <1>1, SMT
  <1> QED
    BY <1>2 DEF Honest

LEMMA CommitHonest ==
    ASSUME SyncIInv, NEW w \in Writers, Commit(w), Honest
    PROVE  Honest'
  <1>1. UNCHANGED <<mark, held>>
    BY DEF Commit, clientVars
  <1>2. PICK a \in 0 .. MaxAdvance, b \in 0 .. MaxBody : \E es \in [1 .. a + b -> Entities] :
          log' = log \o es
    BY DEF Commit
  <1>3. PICK es \in [1 .. a + b -> Entities] : log' = log \o es
    BY <1>2
  <1>4. log \in Seq(Entities) /\ Len(log) \in Nat /\ a \in Nat /\ b \in Nat
          /\ es \in Seq(Entities)
        /\ Len(es) \in Nat
    BY SyncAssumption DEF SyncIInv, ServerWithin
  <1>5. \A i \in 1 .. Len(log) : log'[i] = log[i]
    <2> TAKE i \in 1 .. Len(log)
    <2>1. i \in 1 .. Len(log) + Len(es) /\ i <= Len(log)
      BY <1>4, SMT
    <2>2. (log \o es)[i] = log[i]
      BY <2>1, <1>4, ConcatProperties
    <2> QED
      BY <1>3, <2>2
  <1> QED
    BY <1>1, <1>5, HonestKept

LEMMA ReceiveEventHonest ==
    ASSUME SyncIInv, ReceiveEvent, Honest
    PROVE  Honest'
  <1> DEFINE k == Head(wire).seq
             c == ApplyFrame([mark |-> mark, held |-> held], k)
  <1>1. wire # <<>> /\ UNCHANGED log /\ mark' = c.mark /\ held' = c.held
    BY DEF ReceiveEvent, Receive, serverVars
  <1>2. k \in Known /\ mark \in Known /\ held \in [Entities -> Known] /\ HonestWith(mark, held)
    BY <1>1, HeadOfWire, HonestIs DEF SyncIInv, ClientWithin
  <1> HIDE DEF k
  <1>3. HonestWith(c.mark, c.held)
    <2>1. PICK m \in Known, h \in [Entities -> Known], q \in Known : m = mark /\ h = held /\ q = k
      BY <1>2
    <2>2. c = ApplyFrame([mark |-> m, held |-> h], q) /\ HonestWith(m, h)
      BY <1>2, <2>1
    <2> HIDE DEF c
    <2>3. CASE q = m + 1
      <3>1. c = [mark |-> q, held |-> [h EXCEPT ![log[q]] = q]]
        BY <2>2, <2>3, ApplyFrameIn
      <3>2. HonestWith(q, [h EXCEPT ![log[q]] = q])
        BY <2>2, <2>3, HonestFrame
      <3>3. c.mark = q /\ c.held = [h EXCEPT ![log[q]] = q]
        BY <3>1
      <3> QED
        BY <3>2, <3>3
    <2>4. CASE q # m + 1
      <3>1. c = [mark |-> m, held |-> h]
        BY <2>2, <2>4, ApplyFrameIn
      <3>2. c.mark = m /\ c.held = h
        BY <3>1
      <3> QED
        BY <2>2, <3>2
    <2> QED
      BY <2>3, <2>4
  <1> HIDE DEF c
  <1> QED
    BY <1>1, <1>3 DEF Honest, HonestWith

LEMMA ApplySnapshotHonest ==
    ASSUME SyncIInv, ApplySnapshot
    PROVE  Honest'
  <1>1. UNCHANGED log /\ mark' = sync.seq /\ held' = sync.got /\ sync.at = "snapshot"
    BY DEF ApplySnapshot, serverVars
  <1>2. /\ sync.seq \in 0 .. Len(log) /\ Len(log) \in Nat /\ log \in Seq(Entities)
        /\ sync.left = {} /\ sync.got \in [Entities -> Nat]
    BY <1>1 DEF SyncIInv, ServerWithin, LoggedSyncs, Known, ReadingOK
  <1>3. ASSUME NEW k \in 1 .. sync.seq PROVE sync.got[log[k]] >= k
    <2>1. k \in 1 .. Len(log)
      BY <1>2, SMT
    <2>2. log[k] \in Entities
      BY <1>2, <2>1, ElementOfSeq
    <2>3. k <= sync.got[log[k]]
      BY <1>1, <1>2, <2>2 DEF SyncIInv, ReadingOK
    <2> QED
      BY <1>2, <2>2, <2>3
  <1> QED
    BY <1>1, <1>3 DEF Honest

\* A client that holds every event up to its mark goes on holding them, except by the reply
\* of an action, which moves the mark over what other writers committed, and by a page read
\* out of order (net/sequence.ts, pushRing): not by frames lost, repeated, late or early, a
\* replay of any length, a ring lost or trimmed, a rung that fails or a snapshot.
THEOREM EventsAreMissedOnlyByJump == SyncSpec => MissedOnlyByJump
  <1> DEFINE Jump == \/ sync.at = "page" /\ sync.ragged
                     \/ \E w \in Callers : stage[w] = "reply" /\ stage'[w] = "idle"
  <1>1. SyncIInv /\ [SyncNext]_syncVars => [Honest /\ ~ Honest' => Jump]_syncVars
    <2> SUFFICES ASSUME SyncIInv, SyncNext, Honest, ~ Honest', ~ Jump PROVE FALSE
      OBVIOUS
    <2>0. ASSUME UNCHANGED <<log, mark, held>> PROVE FALSE
      BY <2>0 DEF Honest
    <2>1. ASSUME NEW w \in Writers, Write(w) \/ EffectFails(w) \/ WriterDies(w) PROVE FALSE
      <3>1. CASE Commit(w)
        BY <3>1, CommitHonest
      <3>2. CASE PushRing(w) \/ Publish(w) \/ EffectFails(w) \/ WriterDies(w)
        BY <3>2, <2>0 DEF PushRing, Publish, EffectFails, WriterDies, clientVars
      <3>3. CASE ReceiveReply(w)
        <4>1. stage[w] = "reply" /\ w \in Callers
                /\ stage \in [Writers -> {"idle", "ring", "publish", "reply"}]
          BY <3>3 DEF ReceiveReply, SyncIInv, ServerWithin
        <4>2. stage'[w] = "idle"
          BY <3>3, <4>1 DEF ReceiveReply
        <4> QED
          BY <4>1, <4>2
      <3> QED
        BY <2>1, <3>1, <3>2, <3>3 DEF Write
    <2>2. CASE Open \/ Clock \/ Disconnect \/ RingLost \/ RungFails
      BY <2>0, <2>2 DEF Open, Connect, Attach, Hello, Clock, Disconnect, RingLost, RungFails,
         serverVars, clientVars
    <2>3. CASE ReceiveFrame
      <3>1. CASE ReceiveHello \/ ReceiveClock
        BY <2>0, <3>1 DEF ReceiveHello, ReceiveClock, Receive, serverVars
      <3>2. CASE ReceiveEvent
        BY <3>2, ReceiveEventHonest
      <3> QED
        BY <2>3, <3>1, <3>2 DEF ReceiveFrame
    <2>4. CASE Resync
      <3>1. CASE \/ ReplayCount \/ ReplayRing \/ ReplayLog \/ SnapshotCount
                 \/ \E e \in Entities : SnapshotRead(e)
        BY <2>0, <3>1 DEF ReplayCount, ReplayRing, ReplayLog, SnapshotCount, SnapshotRead,
           serverVars, clientVars
      <3>2. CASE ApplyReplay
        <4>1. sync.at = "page" /\ UNCHANGED log
          BY <3>2 DEF ApplyReplay, serverVars
        <4>2. ~ sync.ragged /\ HonestWith(mark, held)
          BY <4>1, HonestIs
        <4>3. HonestWith(mark', held')
          BY <3>2, <4>2, ReplayApplied
        <4> QED
          BY <4>1, <4>3 DEF Honest, HonestWith
      <3>3. CASE ApplySnapshot
        BY <3>3, ApplySnapshotHonest
      <3> QED
        BY <2>4, <3>1, <3>2, <3>3 DEF Resync
    <2> QED
      BY <2>1, <2>2, <2>3, <2>4 DEF SyncNext
  <1> QED
    BY SyncInductive, <1>1, PTL DEF SyncSpec, MissedOnlyByJump

-----------------------------------------------------------------------------
(* ChunkCopies: the versions of the copies of the chunk store *)

\* What an answer says of the version it carries: an `unchanged` repeats the version that
\* was asked about, and cells are never older than the version read before them.
AnswersTrue ==
    \A s \in Slots :
        /\ fetch[s].stage = "READ" => fetch[s].version <= version[fetch[s].chunk]
        /\ fetch[s].stage = "ANSWERED" =>
             IF fetch[s].content = Whole THEN fetch[s].version = fetch[s].rev
             ELSE fetch[s].version <= fetch[s].content

\* A chunk that is not held starts afresh when it is held again.
NotHeldIsBlank == \A ch \in Chunks \ kept : copy[ch] = Blank /\ known[ch] = 0

\* The invariant.
CopiesIInv == CopiesTypeOK /\ AnswersTrue /\ NotHeldIsBlank /\ HonestVersion /\ LagIsMarked

-------------------------------------------------------------------------------
(* ChunkCopies: records *)

Copies == [version : Nat, content : Nat]
Patches == [chunk : Chunks, version : Nat]

LEMMA FetchType ==
    ASSUME NEW f \in Fetches
    PROVE  /\ f.stage \in {"FREE", "ASKED", "READ", "ANSWERED"} /\ f.chunk \in Chunks \cup {Whole}
           /\ f.rev \in {Whole} \cup Nat /\ f.version \in Nat /\ f.content \in {Whole} \cup Nat
  BY DEF Fetches

LEMMA FreeIsFetch == Free \in Fetches
  BY DEF Free, Fetches

LEMMA BlankIsCopy == Blank \in Copies
  BY DEF Blank, Copies

\* What an answer makes of a copy is a copy.
LEMMA AnsweredType ==
    ASSUME NEW c \in Copies, NEW f \in Fetches
    PROVE  /\ Answered(c, f) \in Copies
           /\ Answered(c, f).version = f.version
           /\ Answered(c, f).content = IF f.content = Whole THEN c.content ELSE f.content
  BY FetchType DEF Answered, Copies

LEMMA HeadOfChannel ==
    ASSUME CopiesTypeOK, channel # <<>>
    PROVE  /\ Head(channel) \in Patches /\ Tail(channel) \in Seq(Patches)
           /\ Head(channel).chunk \in Chunks /\ Head(channel).version \in Nat
  <1>1. channel \in Seq(Patches)
    BY DEF CopiesTypeOK, Patches
  <1>2. Head(channel) \in Patches /\ Tail(channel) \in Seq(Patches)
    BY <1>1, HeadTailProperties
  <1> QED
    BY <1>2 DEF Patches

-------------------------------------------------------------------------------
(* ChunkCopies: types *)

LEMMA CopiesInitType == CopiesInit => CopiesTypeOK
  BY CopiesAssumption, FreeIsFetch, SMT DEF CopiesInit, CopiesTypeOK, Blank, Free

LEMMA OwnWriteType ==
    ASSUME CopiesTypeOK, NEW ch \in Chunks, NEW steps \in 1 .. 2, OwnWrite(ch, steps)
    PROVE  CopiesTypeOK'
  <1>1. version[ch] + steps \in Nat
    BY SMT DEF CopiesTypeOK
  <1>2. [chunk |-> ch, version |-> version[ch] + steps] \in Patches
    BY <1>1 DEF Patches
  <1>3. channel' \in Seq(Patches)
    BY <1>2, AppendProperties DEF CopiesTypeOK, OwnWrite, Patches
  <1>4. version' \in [Chunks -> Nat]
    BY <1>1 DEF CopiesTypeOK, OwnWrite
  <1> QED
    BY <1>3, <1>4 DEF CopiesTypeOK, OwnWrite, Patches, storeVars, streamerVars, historyVars

LEMMA OthersWriteType ==
    ASSUME CopiesTypeOK, NEW ch \in Chunks, OthersWrite(ch)
    PROVE  CopiesTypeOK'
  <1>1. version[ch] + 1 \in Nat
    BY SMT DEF CopiesTypeOK
  <1> QED
    BY <1>1 DEF CopiesTypeOK, OthersWrite, storeVars, streamerVars, historyVars

LEMMA ReachedType ==
    ASSUME NEW f \in Fetches, NEW at \in {"READ", "ANSWERED"}, NEW v \in Nat,
           NEW content \in {Whole} \cup Nat
    PROVE  Reached(f, at, v, content) \in Fetches
  BY FetchType DEF Reached, Fetches

LEMMA ReadVersionType ==
    ASSUME CopiesTypeOK, NEW s \in Slots, ReadVersion(s)
    PROVE  CopiesTypeOK'
  <1> DEFINE v == version[fetch[s].chunk]
             f == Reached(fetch[s], IF fetch[s].rev = v \/ v = 0 THEN "ANSWERED" ELSE "READ", v,
                          IF v = 0 /\ fetch[s].rev # v THEN 0 ELSE Whole)
  <1>1. fetch[s] \in Fetches /\ fetch[s].chunk \in Chunks /\ v \in Nat
    BY DEF CopiesTypeOK, ReadVersion
  <1>2. fetch' = [fetch EXCEPT ![s] = f]
    BY DEF ReadVersion
  <1>3. f \in Fetches /\ f.chunk = fetch[s].chunk
    BY <1>1, ReachedType DEF Reached
  <1> HIDE DEF f
  <1> QED
    BY <1>1, <1>2, <1>3 DEF CopiesTypeOK, ReadVersion, worldVars, storeVars, streamerVars,
       historyVars

LEMMA ReadCellsType ==
    ASSUME CopiesTypeOK, NEW s \in Slots, ReadCells(s)
    PROVE  CopiesTypeOK'
  <1> DEFINE f == Reached(fetch[s], "ANSWERED", fetch[s].version, version[fetch[s].chunk])
  <1>1. fetch[s] \in Fetches /\ fetch[s].chunk \in Chunks /\ version[fetch[s].chunk] \in Nat
    BY DEF CopiesTypeOK, ReadCells
  <1>2. fetch' = [fetch EXCEPT ![s] = f]
    BY DEF ReadCells
  <1>3. f \in Fetches /\ f.chunk = fetch[s].chunk
    BY <1>1, FetchType, ReachedType DEF Reached
  <1> HIDE DEF f
  <1> QED
    BY <1>1, <1>2, <1>3 DEF CopiesTypeOK, ReadCells, worldVars, storeVars, streamerVars,
       historyVars

LEMMA ApplyReplyType ==
    ASSUME CopiesTypeOK, NEW s \in Slots, ApplyReply(s)
    PROVE  CopiesTypeOK'
  <1> DEFINE f == fetch[s]
             ch == f.chunk
  <1>1. f \in Fetches /\ ch \in Chunks
    BY DEF CopiesTypeOK, ApplyReply
  <1>2. copy[ch] \in Copies
    BY <1>1 DEF CopiesTypeOK, Copies
  <1>3. Answered(copy[ch], f) \in Copies
    BY <1>1, <1>2, AnsweredType
  <1>4. copy' \in [Chunks -> Copies]
    BY <1>1, <1>3 DEF ApplyReply, CopiesTypeOK, Copies
  <1>5. /\ kept' \subseteq Chunks /\ stale' \subseteq Chunks /\ requested' \subseteq Chunks
        /\ settled' \subseteq Chunks /\ hollow' \subseteq Chunks /\ overtaken' \subseteq Chunks
    BY <1>1 DEF ApplyReply, CopiesTypeOK
  <1>6. /\ fetch' \in [Slots -> Fetches]
        /\ \A z \in Slots : fetch'[z].stage # "FREE" => fetch'[z].chunk \in Chunks
    BY FreeIsFetch DEF ApplyReply, CopiesTypeOK, Free
  <1> QED
    BY <1>4, <1>5, <1>6 DEF ApplyReply, CopiesTypeOK, Copies, worldVars

LEMMA FailFetchType ==
    ASSUME CopiesTypeOK, NEW s \in Slots, FailFetch(s)
    PROVE  CopiesTypeOK'
  BY FreeIsFetch DEF FailFetch, CopiesTypeOK, Free, worldVars, storeVars, historyVars

LEMMA ReceivePatchType ==
    ASSUME CopiesTypeOK, ReceivePatch
    PROVE  CopiesTypeOK'
  <1> DEFINE frame == Head(channel)
             ch == frame.chunk
  <1>1. /\ channel' \in Seq([chunk : Chunks, version : Nat])
        /\ ch \in Chunks /\ frame.version \in Nat
    BY HeadOfChannel DEF ReceivePatch, Patches
  <1>2. [version |-> frame.version, content |-> frame.version] \in [version : Nat, content : Nat]
    BY <1>1
  <1>3. /\ \/ copy' = [copy EXCEPT ![ch] = [version |-> frame.version, content |-> frame.version]]
           \/ copy' = copy
        /\ hollow' \subseteq hollow /\ stale' \subseteq stale \cup {ch}
        /\ known' = [known EXCEPT ![ch] = frame.version] \/ known' = known
        /\ overtaken' \subseteq overtaken
    BY DEF ReceivePatch
  <1> HIDE DEF frame, ch
  <1>4. /\ copy' \in [Chunks -> [version : Nat, content : Nat]]
        /\ known' \in [Chunks -> Nat]
    BY <1>1, <1>2, <1>3 DEF CopiesTypeOK
  <1>5. UNCHANGED <<version, kept, camera, views, requested, settled, fetch>>
    BY DEF ReceivePatch, streamerVars
  <1> QED
    BY <1>1, <1>3, <1>4, <1>5 DEF CopiesTypeOK

LEMMA RebuildType ==
    ASSUME CopiesTypeOK, Rebuild
    PROVE  CopiesTypeOK'
  BY BlankIsCopy DEF Rebuild, CopiesTypeOK, Dropped, Copies, streamerVars

LEMMA PanType ==
    ASSUME CopiesTypeOK, NEW ch \in Chunks, Pan(ch)
    PROVE  CopiesTypeOK'
  BY DEF Pan, CopiesTypeOK, worldVars, storeVars, historyVars

\* A tick forgets some chunks altogether, starts a copy of some that have none, and asks.
LEMMA TickFacts ==
    ASSUME CopiesTypeOK, Tick
    PROVE  \E gone, fresh, asked \in SUBSET Chunks :
             /\ kept' = (kept \cup fresh) \ gone /\ Forget(gone)
             /\ requested' = (requested \ gone) \cup asked /\ views' \subseteq Chunks
             /\ Dispatch(asked) /\ UNCHANGED <<worldVars, camera>>
  <1> DEFINE Body(load, out, live, victims, gone) ==
                /\ views' = live \ victims
                /\ kept' = (kept \cup load) \ gone
                /\ Forget(gone)
                /\ \E asked \in
                        UpTo(Wanted(views', stale', requested \ gone, settled'), MaxLoads) :
                     /\ requested' = (requested \ gone) \cup asked
                     /\ Dispatch(asked)
                /\ UNCHANGED <<worldVars, camera>>
  <1>1. PICK load \in UpTo(Ring[camera] \ views, MaxLoads) :
          LET out == views \ Keep[camera]
              live == (views \cup load) \ out
          IN \E victims \in Overflow(live) : Body(load, out, live, victims, out \cup victims)
    BY DEF Tick
  <1> DEFINE out == views \ Keep[camera]
             live == (views \cup load) \ out
  <1>2. PICK victims \in Overflow(live) : Body(load, out, live, victims, out \cup victims)
    BY <1>1
  <1>3. load \subseteq Chunks /\ out \subseteq Chunks /\ live \subseteq Chunks
    BY CopiesAssumption DEF CopiesTypeOK, UpTo
  <1> HIDE DEF out, live
  <1>4. victims \subseteq Chunks
    BY <1>3 DEF Overflow, UpTo
  <1> DEFINE gone == out \cup victims
  <1>5. gone \subseteq Chunks /\ views' \subseteq Chunks
    BY <1>2, <1>3, <1>4
  <1>6. /\ kept' = (kept \cup load) \ gone /\ Forget(gone) /\ UNCHANGED <<worldVars, camera>>
        /\ \E asked \in UpTo(Wanted(views', stale', requested \ gone, settled'), MaxLoads) :
             requested' = (requested \ gone) \cup asked /\ Dispatch(asked)
    BY <1>2
  <1>7. PICK asked \in UpTo(Wanted(views', stale', requested \ gone, settled'), MaxLoads) :
             requested' = (requested \ gone) \cup asked /\ Dispatch(asked)
    BY <1>6
  <1>8. asked \subseteq Chunks
    BY <1>5 DEF UpTo, Wanted
  <1> HIDE DEF gone
  <1> QED
    BY <1>3, <1>5, <1>6, <1>7, <1>8

\* What the slots hold after the requests of a tick: what they held, or a request for one
\* of the chunks that were asked for.
LEMMA DispatchFacts ==
    ASSUME CopiesTypeOK, NEW asked \in SUBSET Chunks, Dispatch(asked)
    PROVE  /\ fetch' \in [Slots -> Fetches]
           /\ \A s \in Slots : fetch'[s] = fetch[s]
                              \/ (fetch'[s].stage = "ASKED" /\ fetch'[s].chunk \in Chunks)
  <1>1. PICK slot : fetch' = [s \in Slots |-> IF \E ch \in asked : slot[ch] = s
                                    THEN Asked(CHOOSE ch \in asked : slot[ch] = s)
                                    ELSE fetch[s]]
    BY DEF Dispatch
  <1>2. ASSUME NEW ch \in Chunks
        PROVE  Asked(ch) \in Fetches /\ Asked(ch).stage = "ASKED" /\ Asked(ch).chunk = ch
    <2>1. copy[ch].version \in Nat
      BY DEF CopiesTypeOK
    <2> QED
      BY <2>1 DEF Asked, Fetches
  <1>3. ASSUME NEW s \in Slots
        PROVE  /\ fetch'[s] \in Fetches
               /\ \/ fetch'[s] = fetch[s]
                  \/ fetch'[s].stage = "ASKED" /\ fetch'[s].chunk \in Chunks
    <2>1. CASE \E ch \in asked : slot[ch] = s
      <3> DEFINE c == CHOOSE ch \in asked : slot[ch] = s
      <3>1. c \in Chunks
        BY <2>1
      <3>2. fetch'[s] = Asked(c)
        BY <1>1, <2>1
      <3> HIDE DEF c
      <3> QED
        BY <1>2, <3>1, <3>2
    <2>2. CASE ~ \E ch \in asked : slot[ch] = s
      <3>1. fetch'[s] = fetch[s]
        BY <1>1, <2>2
      <3> QED
        BY <3>1 DEF CopiesTypeOK
    <2> QED
      BY <2>1, <2>2
  <1>4. fetch' = [s \in Slots |-> fetch'[s]]
    BY <1>1
  <1> QED
    BY <1>3, <1>4

LEMMA TickType ==
    ASSUME CopiesTypeOK, Tick
    PROVE  CopiesTypeOK'
  <1>1. PICK gone, fresh, asked \in SUBSET Chunks :
             /\ kept' = (kept \cup fresh) \ gone /\ Forget(gone)
             /\ requested' = (requested \ gone) \cup asked /\ views' \subseteq Chunks
             /\ Dispatch(asked) /\ UNCHANGED <<worldVars, camera>>
    BY TickFacts
  <1>2. /\ fetch' \in [Slots -> Fetches]
        /\ \A s \in Slots : fetch'[s].stage # "FREE" => fetch'[s].chunk \in Chunks
    BY <1>1, DispatchFacts DEF CopiesTypeOK
  <1>3. copy' \in [Chunks -> Copies]
    <2>1. copy \in [Chunks -> Copies]
      BY DEF CopiesTypeOK, Copies
    <2> QED
      BY <1>1, <2>1, BlankIsCopy DEF Forget
  <1>4. known' \in [Chunks -> Nat]
    BY <1>1 DEF Forget, CopiesTypeOK
  <1> QED
    BY <1>1, <1>2, <1>3, <1>4 DEF Forget, CopiesTypeOK, Copies, worldVars

-------------------------------------------------------------------------------
(* Steps *)

\* A version only grows, and nothing else of an answer on its way changes.
LEMMA AnswersKept ==
    ASSUME CopiesTypeOK, AnswersTrue, \A ch \in Chunks : version[ch] <= version'[ch],
           version' \in [Chunks -> Nat],
           \A s \in Slots : fetch'[s] = fetch[s] \/ fetch'[s].stage \in {"FREE", "ASKED"}
    PROVE  AnswersTrue'
  <1> SUFFICES ASSUME NEW s \in Slots
               PROVE  /\ fetch'[s].stage = "READ" =>
                        fetch'[s].version <= version'[fetch'[s].chunk]
                      /\ fetch'[s].stage = "ANSWERED" =>
                           IF fetch'[s].content = Whole THEN fetch'[s].version = fetch'[s].rev
                           ELSE fetch'[s].version <= fetch'[s].content
    BY DEF AnswersTrue
  <1>1. CASE fetch'[s] = fetch[s]
    <2>1. fetch[s] \in Fetches
      BY DEF CopiesTypeOK
    <2>2. fetch[s].stage = "READ" =>
             /\ fetch[s].chunk \in Chunks /\ fetch[s].version \in Nat
             /\ fetch[s].version <= version[fetch[s].chunk] /\ version[fetch[s].chunk] \in Nat
             /\ version'[fetch[s].chunk] \in Nat
             /\ version[fetch[s].chunk] <= version'[fetch[s].chunk]
      BY <2>1, FetchType DEF CopiesTypeOK, AnswersTrue
    <2>3. fetch[s].stage = "READ" => fetch[s].version <= version'[fetch[s].chunk]
      BY <2>2, SMT
    <2> QED
      BY <1>1, <2>3 DEF AnswersTrue
  <1>2. CASE fetch'[s].stage \in {"FREE", "ASKED"}
    BY <1>2
  <1> QED
    BY <1>1, <1>2

\* A step that leaves the copies and what is known of them alone.
LEMMA CopiesKept ==
    ASSUME CopiesIInv, UNCHANGED <<kept, copy, stale, known, hollow, overtaken>>
    PROVE  NotHeldIsBlank' /\ HonestVersion' /\ LagIsMarked'
  BY DEF CopiesIInv, NotHeldIsBlank, HonestVersion, LagIsMarked

LEMMA WriteStep ==
    ASSUME CopiesIInv, NEW ch \in Chunks, NEW steps \in Nat,
           version' = [version EXCEPT ![ch] = @ + steps],
           UNCHANGED <<fetch, kept, copy, stale, known, hollow, overtaken>>
    PROVE  AnswersTrue' /\ NotHeldIsBlank' /\ HonestVersion' /\ LagIsMarked'
  <1>1. version \in [Chunks -> Nat] /\ CopiesTypeOK /\ AnswersTrue
    BY DEF CopiesIInv, CopiesTypeOK
  <1>2. version' \in [Chunks -> Nat] /\ \A c \in Chunks : version[c] <= version'[c]
    BY <1>1, SMT
  <1> QED
    BY <1>1, <1>2, AnswersKept, CopiesKept

LEMMA ReadVersionStep ==
    ASSUME CopiesIInv, NEW s \in Slots, ReadVersion(s)
    PROVE  AnswersTrue' /\ NotHeldIsBlank' /\ HonestVersion' /\ LagIsMarked'
  <1> DEFINE v == version[fetch[s].chunk]
             f == Reached(fetch[s], IF fetch[s].rev = v \/ v = 0 THEN "ANSWERED" ELSE "READ", v,
                          IF v = 0 /\ fetch[s].rev # v THEN 0 ELSE Whole)
  <1>1. fetch \in [Slots -> Fetches] /\ fetch[s].chunk \in Chunks /\ v \in Nat
    BY DEF CopiesIInv, CopiesTypeOK, ReadVersion
  <1>2. fetch' = [fetch EXCEPT ![s] = f]
    BY DEF ReadVersion
  <1>3. /\ f.stage = "READ" => f.version <= version[f.chunk]
        /\ f.stage = "ANSWERED" => IF f.content = Whole THEN f.version = f.rev
                                   ELSE f.version <= f.content
    BY <1>1, CopiesAssumption, SMT DEF Reached
  <1> HIDE DEF f, v
  <1>4. UNCHANGED <<version, kept, copy, stale, known, hollow, overtaken>>
    BY DEF ReadVersion, worldVars, storeVars, historyVars
  <1>5. AnswersTrue'
    BY <1>1, <1>2, <1>3, <1>4 DEF AnswersTrue, CopiesIInv
  <1> QED
    BY <1>4, <1>5, CopiesKept

LEMMA ReadCellsStep ==
    ASSUME CopiesIInv, NEW s \in Slots, ReadCells(s)
    PROVE  AnswersTrue' /\ NotHeldIsBlank' /\ HonestVersion' /\ LagIsMarked'
  <1> DEFINE f == Reached(fetch[s], "ANSWERED", fetch[s].version, version[fetch[s].chunk])
  <1>1. /\ fetch \in [Slots -> Fetches] /\ version[fetch[s].chunk] \in Nat
        /\ fetch[s].version <= version[fetch[s].chunk]
    BY DEF CopiesIInv, CopiesTypeOK, ReadCells, AnswersTrue
  <1>2. fetch' = [fetch EXCEPT ![s] = f]
    BY DEF ReadCells
  <1>3. /\ f.stage = "ANSWERED" /\ f.content # Whole /\ f.version <= f.content
    BY <1>1, CopiesAssumption DEF Reached
  <1> HIDE DEF f
  <1>4. UNCHANGED <<version, kept, copy, stale, known, hollow, overtaken>>
    BY DEF ReadCells, worldVars, storeVars, historyVars
  <1>5. AnswersTrue'
    BY <1>1, <1>2, <1>3, <1>4 DEF AnswersTrue, CopiesIInv
  <1> QED
    BY <1>4, <1>5, CopiesKept

\* An answer that says `unchanged` to the copy that asked renews nothing; one with cells
\* brings a version that these cells have.
LEMMA ApplyReplyStep ==
    ASSUME CopiesIInv, NEW s \in Slots, ApplyReply(s)
    PROVE  AnswersTrue' /\ NotHeldIsBlank' /\ HonestVersion' /\ LagIsMarked'
  <1> DEFINE f == fetch[s]
             ch == f.chunk
  <1>1. /\ CopiesTypeOK /\ f \in Fetches /\ ch \in Chunks /\ f.version \in Nat
          /\ known[ch] \in Nat
        /\ f.content \in {Whole} \cup Nat
        /\ IF f.content = Whole THEN f.version = f.rev ELSE f.version <= f.content
    BY FetchType DEF CopiesIInv, CopiesTypeOK, ApplyReply, AnswersTrue
  <1>2. copy \in [Chunks -> Copies]
    BY DEF CopiesIInv, CopiesTypeOK, Copies
  <1>3. /\ Answered(copy[ch], f) \in Copies /\ Answered(copy[ch], f).version = f.version
        /\ Answered(copy[ch], f).content =
             IF f.content = Whole THEN copy[ch].content ELSE f.content
    BY <1>1, <1>2, AnsweredType
  <1>4. /\ kept' = kept \cup {ch} /\ copy' = [copy EXCEPT ![ch] = Answered(copy[ch], f)]
        /\ stale' = stale \ {ch}
        /\ hollow' = IF f.content # Whole THEN hollow \ {ch}
                     ELSE IF Changed(f) THEN hollow \cup {ch} ELSE hollow
        /\ overtaken' = IF f.version < known[ch] THEN overtaken \cup {ch} ELSE overtaken \ {ch}
        /\ fetch' = [fetch EXCEPT ![s] = Free] /\ UNCHANGED <<version, known>>
    BY DEF ApplyReply, worldVars
  <1>5. AnswersTrue'
    <2>1. version \in [Chunks -> Nat] /\ fetch \in [Slots -> Fetches]
      BY <1>1 DEF CopiesTypeOK
    <2>2. \A z \in Slots : fetch'[z] = fetch[z] \/ fetch'[z].stage \in {"FREE", "ASKED"}
      BY <1>4, <2>1 DEF Free
    <2>3. \A c \in Chunks : version[c] <= version'[c]
      BY <1>4, <2>1
    <2> QED
      BY <1>1, <1>4, <2>1, <2>2, <2>3, AnswersKept DEF CopiesIInv
  <1>6. HonestVersion'
    <2> SUFFICES ASSUME NEW c \in kept' \ hollow' PROVE copy'[c].version <= copy'[c].content
      BY DEF HonestVersion
    <2>1. CASE c # ch
      BY <1>2, <1>4, <2>1 DEF CopiesIInv, HonestVersion, CopiesTypeOK
    <2>2. CASE c = ch /\ f.content # Whole
      BY <1>1, <1>2, <1>3, <1>4, <2>2
    <2>3. CASE c = ch /\ f.content = Whole
      <3>1. ~Changed(f) /\ ch \notin hollow
        BY <1>4, <2>3
      <3>2. ch \in kept /\ copy[ch].version = f.version
        BY <1>1, <2>3, <3>1 DEF Changed
      <3> QED
        BY <1>2, <1>3, <1>4, <2>3, <3>1, <3>2 DEF CopiesIInv, HonestVersion
    <2> QED
      BY <2>1, <2>2, <2>3
  <1>7. LagIsMarked'
    <2> SUFFICES ASSUME NEW c \in kept' \ overtaken', copy'[c].version < known'[c]
                 PROVE  c \in stale'
      BY DEF LagIsMarked
    <2>1. c # ch
      <3>1. SUFFICES ASSUME c = ch PROVE FALSE
        OBVIOUS
      <3>2. copy'[ch].version = f.version /\ known'[ch] = known[ch]
        BY <1>1, <1>2, <1>3, <1>4
      <3>3. f.version < known[ch]
        BY <3>1, <3>2
      <3> QED
        BY <1>4, <3>1, <3>3
    <2> QED
      BY <1>2, <1>4, <2>1 DEF CopiesIInv, LagIsMarked, CopiesTypeOK
  <1>8. NotHeldIsBlank'
    BY <1>2, <1>4 DEF CopiesIInv, NotHeldIsBlank
  <1> QED
    BY <1>5, <1>6, <1>7, <1>8

\* A frame is the next of its copy, or marks it, or is not ahead of it.
LEMMA ReceivePatchStep ==
    ASSUME CopiesIInv, ReceivePatch
    PROVE  AnswersTrue' /\ NotHeldIsBlank' /\ HonestVersion' /\ LagIsMarked'
  <1> DEFINE frame == Head(channel)
             ch == frame.chunk
             v == frame.version
             news == ch \in kept /\ v > known[ch]
  <1>1. ch \in Chunks /\ v \in Nat /\ CopiesTypeOK
    BY HeadOfChannel DEF ReceivePatch, CopiesIInv
  <1>2. copy \in [Chunks -> Copies] /\ known \in [Chunks -> Nat] /\ copy[ch].version \in Nat
    BY <1>1 DEF CopiesTypeOK, Copies
  <1>3. /\ IF ch \in kept /\ Follows(frame)
           THEN /\ copy' = [copy EXCEPT ![ch] = [version |-> v, content |-> v]]
                /\ hollow' = hollow \ {ch}
           ELSE UNCHANGED <<copy, hollow>>
        /\ stale' = IF ch \in kept /\ Jumps(frame) THEN stale \cup {ch} ELSE stale
        /\ known' = IF news THEN [known EXCEPT ![ch] = v] ELSE known
        /\ overtaken' = IF news THEN overtaken \ {ch} ELSE overtaken
        /\ UNCHANGED <<version, kept, fetch>>
    BY DEF ReceivePatch
  <1>4. /\ Follows(frame) <=> v = copy[ch].version + 1
        /\ Jumps(frame) <=> v > copy[ch].version + 1
    BY DEF Follows, Jumps
  <1> HIDE DEF frame, ch, v, news
  <1>5. AnswersTrue'
    BY <1>3 DEF CopiesIInv, AnswersTrue
  <1>6. NotHeldIsBlank'
    BY <1>1, <1>2, <1>3 DEF CopiesIInv, NotHeldIsBlank, news
  <1>7. HonestVersion'
    <2> SUFFICES ASSUME NEW c \in kept' \ hollow' PROVE copy'[c].version <= copy'[c].content
      BY DEF HonestVersion
    <2>1. CASE ch \in kept /\ Follows(frame)
      <3>1. /\ copy' = [copy EXCEPT ![ch] = [version |-> v, content |-> v]]
            /\ hollow' = hollow \ {ch} /\ kept' = kept
        BY <1>3, <2>1
      <3>2. CASE c = ch
        <4>1. copy'[c].version = v /\ copy'[c].content = v
          BY <1>1, <1>2, <3>1, <3>2
        <4> QED
          BY <1>1, <4>1
      <3>3. CASE c # ch
        <4>1. copy'[c] = copy[c] /\ c \in kept \ hollow
          BY <1>1, <1>2, <3>1, <3>3
        <4> QED
          BY <4>1 DEF CopiesIInv, HonestVersion
      <3> QED
        BY <3>2, <3>3
    <2>2. CASE ~(ch \in kept /\ Follows(frame))
      BY <1>3, <2>2 DEF CopiesIInv, HonestVersion
    <2> QED
      BY <2>1, <2>2
  <1>8. LagIsMarked'
    <2> SUFFICES ASSUME NEW c \in kept' \ overtaken', copy'[c].version < known'[c]
                 PROVE  c \in stale'
      BY DEF LagIsMarked
    <2>0. c \in kept /\ c \in Chunks
      BY <1>1, <1>3 DEF CopiesTypeOK
    <2>1. CASE c # ch
      <3>1. copy'[c] = copy[c] /\ known'[c] = known[c] /\ c \notin overtaken
        BY <1>2, <1>3, <2>0, <2>1
      <3> QED
        BY <1>3, <2>0, <3>1 DEF CopiesIInv, LagIsMarked
    <2>2. CASE c = ch /\ Follows(frame)
      <3>1. copy'[c].version = v
        BY <1>1, <1>2, <1>3, <2>0, <2>2
      <3>2. known'[c] = v \/ (known'[c] = known[c] /\ known[c] >= v)
        BY <1>1, <1>2, <1>3, <2>0, <2>2, SMT DEF news
      <3>3. known[c] >= v /\ known'[c] = known[c]
        BY <1>1, <1>2, <2>0, <3>1, <3>2, SMT
      <3>4. ~news
        BY <1>1, <1>2, <1>3, <2>0, <2>2, <3>1, <3>3, SMT DEF news
      <3>5. copy[c].version < known[c] /\ c \notin overtaken
        BY <1>1, <1>2, <1>3, <1>4, <2>0, <2>2, <3>3, <3>4, SMT
      <3> QED
        BY <1>3, <2>0, <3>5 DEF CopiesIInv, LagIsMarked
    <2>3. CASE c = ch /\ Jumps(frame)
      BY <1>3, <2>0, <2>3
    <2>4. CASE c = ch /\ ~Follows(frame) /\ ~Jumps(frame)
      <3>1. v <= copy[c].version /\ copy' = copy
        BY <1>1, <1>2, <1>3, <1>4, <2>0, <2>4, SMT
      <3>2. ~news
        <4>1. SUFFICES ASSUME news PROVE FALSE
          OBVIOUS
        <4>2. known'[c] = v
          BY <1>1, <1>2, <1>3, <2>4, <4>1
        <4> QED
          BY <1>1, <1>2, <2>4, <3>1, <4>2, SMT
      <3> QED
        BY <1>3, <2>0, <3>1, <3>2 DEF CopiesIInv, LagIsMarked
    <2> QED
      BY <2>1, <2>2, <2>3, <2>4
  <1> QED
    BY <1>5, <1>6, <1>7, <1>8

LEMMA RebuildStep ==
    ASSUME CopiesIInv, Rebuild
    PROVE  AnswersTrue' /\ NotHeldIsBlank' /\ HonestVersion' /\ LagIsMarked'
  <1>1. /\ copy' = [ch \in Chunks |-> Blank] /\ known' = [ch \in Chunks |-> 0]
        /\ UNCHANGED <<version, kept, fetch>> /\ kept \subseteq Chunks
    BY DEF Rebuild, Dropped, streamerVars, CopiesIInv, CopiesTypeOK
  <1>2. AnswersTrue'
    BY <1>1 DEF CopiesIInv, AnswersTrue
  <1>3. NotHeldIsBlank'
    BY <1>1 DEF NotHeldIsBlank
  <1>4. HonestVersion' /\ LagIsMarked'
    BY <1>1, SMT DEF HonestVersion, LagIsMarked, Blank
  <1> QED
    BY <1>2, <1>3, <1>4

\* What a tick forgets is blank again, and what it does not forget is as it was.
LEMMA TickStep ==
    ASSUME CopiesIInv, Tick
    PROVE  AnswersTrue' /\ NotHeldIsBlank' /\ HonestVersion' /\ LagIsMarked'
  <1>0. CopiesTypeOK
    BY DEF CopiesIInv
  <1>1. PICK gone, fresh, asked \in SUBSET Chunks :
             /\ kept' = (kept \cup fresh) \ gone /\ Forget(gone)
             /\ requested' = (requested \ gone) \cup asked /\ views' \subseteq Chunks
             /\ Dispatch(asked) /\ UNCHANGED <<worldVars, camera>>
    BY <1>0, TickFacts
  <1>2. AnswersTrue'
    <2>1. version' = version /\ version \in [Chunks -> Nat]
      BY <1>0, <1>1 DEF worldVars, CopiesTypeOK
    <2>2. \A ch \in Chunks : version[ch] <= version'[ch]
      BY <2>1
    <2>3. \A s \in Slots : fetch'[s] = fetch[s] \/ fetch'[s].stage \in {"FREE", "ASKED"}
      BY <1>0, <1>1, DispatchFacts
    <2> QED
      BY <1>0, <2>1, <2>2, <2>3, AnswersKept DEF CopiesIInv
  <1>3. /\ copy' = [ch \in Chunks |-> IF ch \in gone THEN Blank ELSE copy[ch]]
        /\ known' = [ch \in Chunks |-> IF ch \in gone THEN 0 ELSE known[ch]]
        /\ stale' = stale \ gone /\ hollow' = hollow \ gone /\ overtaken' = overtaken \ gone
    BY <1>1 DEF Forget
  <1>4. NotHeldIsBlank'
    <2> SUFFICES ASSUME NEW ch \in Chunks, ch \notin kept'
                 PROVE  copy'[ch] = Blank /\ known'[ch] = 0
      BY DEF NotHeldIsBlank
    <2>1. ch \in gone \/ ch \notin kept
      BY <1>1
    <2> QED
      BY <1>3, <2>1 DEF CopiesIInv, NotHeldIsBlank
  <1>5. \A ch \in kept' :
           /\ ch \in Chunks /\ ch \notin gone /\ copy'[ch] = copy[ch] /\ known'[ch] = known[ch]
           /\ ch \in kept \/ (copy[ch] = Blank /\ known[ch] = 0)
    BY <1>0, <1>1, <1>3 DEF CopiesIInv, NotHeldIsBlank, CopiesTypeOK
  <1>6. HonestVersion' /\ LagIsMarked'
    BY <1>3, <1>5, SMT DEF CopiesIInv, HonestVersion, LagIsMarked, Blank
  <1> QED
    BY <1>2, <1>4, <1>6

LEMMA FailFetchStep ==
    ASSUME CopiesIInv, NEW s \in Slots, FailFetch(s)
    PROVE  AnswersTrue' /\ NotHeldIsBlank' /\ HonestVersion' /\ LagIsMarked'
  <1>1. /\ fetch' = [fetch EXCEPT ![s] = Free] /\ fetch \in [Slots -> Fetches]
        /\ UNCHANGED <<version, kept, copy, stale, known, hollow, overtaken>>
    BY DEF FailFetch, worldVars, storeVars, historyVars, CopiesIInv, CopiesTypeOK
  <1>2. AnswersTrue'
    BY <1>1 DEF CopiesIInv, AnswersTrue, Free
  <1> QED
    BY <1>1, <1>2, CopiesKept

-------------------------------------------------------------------------------
(* ChunkCopies: the invariant *)

LEMMA CopiesInitial == CopiesInit => CopiesIInv
  BY CopiesInitType, SMT DEF CopiesInit, CopiesIInv, AnswersTrue, NotHeldIsBlank, HonestVersion,
     LagIsMarked, Free

LEMMA CopiesNextKeeps ==
    ASSUME CopiesIInv, [CopiesNext]_copiesVars
    PROVE  CopiesIInv'
  <1>0. CopiesTypeOK
    BY DEF CopiesIInv
  <1>1. ASSUME NEW ch \in Chunks, OthersWrite(ch)
        PROVE  CopiesIInv'
    <2>1. CopiesTypeOK'
      BY <1>0, <1>1, OthersWriteType
    <2>2. /\ version' = [version EXCEPT ![ch] = @ + 1]
          /\ UNCHANGED <<fetch, kept, copy, stale, known, hollow, overtaken>>
      BY <1>1 DEF OthersWrite, storeVars, historyVars
    <2> QED
      BY <2>1, <2>2, WriteStep DEF CopiesIInv
  <1>2. ASSUME NEW ch \in Chunks, NEW steps \in 1 .. 2, OwnWrite(ch, steps)
        PROVE  CopiesIInv'
    <2>1. CopiesTypeOK'
      BY <1>0, <1>2, OwnWriteType
    <2>2. /\ version' = [version EXCEPT ![ch] = @ + steps] /\ steps \in Nat
          /\ UNCHANGED <<fetch, kept, copy, stale, known, hollow, overtaken>>
      BY <1>2 DEF OwnWrite, storeVars, historyVars
    <2> QED
      BY <2>1, <2>2, WriteStep DEF CopiesIInv
  <1>3. ASSUME ReceivePatch PROVE CopiesIInv'
    BY <1>0, <1>3, ReceivePatchType, ReceivePatchStep DEF CopiesIInv
  <1>4. ASSUME Rebuild PROVE CopiesIInv'
    BY <1>0, <1>4, RebuildType, RebuildStep DEF CopiesIInv
  <1>5. ASSUME Tick PROVE CopiesIInv'
    BY <1>0, <1>5, TickType, TickStep DEF CopiesIInv
  <1>6. ASSUME NEW ch \in Chunks, Pan(ch)
        PROVE  CopiesIInv'
    <2>1. CopiesTypeOK'
      BY <1>0, <1>6, PanType
    <2>2. UNCHANGED <<version, fetch, kept, copy, stale, known, hollow, overtaken>>
      BY <1>6 DEF Pan, worldVars, storeVars, historyVars
    <2> QED
      BY <2>1, <2>2, CopiesKept DEF CopiesIInv, AnswersTrue
  <1>7. ASSUME NEW s \in Slots, ReadVersion(s) PROVE CopiesIInv'
    BY <1>0, <1>7, ReadVersionType, ReadVersionStep DEF CopiesIInv
  <1>8. ASSUME NEW s \in Slots, ReadCells(s) PROVE CopiesIInv'
    BY <1>0, <1>8, ReadCellsType, ReadCellsStep DEF CopiesIInv
  <1>9. ASSUME NEW s \in Slots, ApplyReply(s) PROVE CopiesIInv'
    BY <1>0, <1>9, ApplyReplyType, ApplyReplyStep DEF CopiesIInv
  <1>10. ASSUME NEW s \in Slots, FailFetch(s) PROVE CopiesIInv'
    BY <1>0, <1>10, FailFetchType, FailFetchStep DEF CopiesIInv
  <1>11. CASE UNCHANGED copiesVars
    BY <1>11 DEF copiesVars, worldVars, storeVars, streamerVars, historyVars, CopiesIInv,
       CopiesTypeOK, AnswersTrue,
                 NotHeldIsBlank, HonestVersion, LagIsMarked
  <1> QED
    BY <1>1, <1>2, <1>3, <1>4, <1>5, <1>6, <1>7, <1>8, <1>9, <1>10, <1>11 DEF CopiesNext, Server

LEMMA CopiesInductive == CopiesSpec => []CopiesIInv
  BY CopiesInitial, CopiesNextKeeps, PTL DEF CopiesSpec

\* The types of the store, the streamer and the requests in flight (world.ts, streamer.ts).
THEOREM CopiesTypeCorrect == CopiesSpec => []CopiesTypeOK
  <1>1. CopiesIInv => CopiesTypeOK
    BY DEF CopiesIInv
  <1> QED
    BY <1>1, CopiesInductive, PTL

\* No copy goes by a version whose cells it lacks, except one that was told `unchanged`
\* about another copy (applyChunkResult): answers and frames in any order, evictions,
\* failures and snapshots in between, for any number of chunks, requests and cameras.
THEOREM CopiesAreHonest == CopiesSpec => []HonestVersion
  <1>1. CopiesIInv => HonestVersion
    BY DEF CopiesIInv
  <1> QED
    BY <1>1, CopiesInductive, PTL

\* A copy that lags behind a frame is marked, so that the streamer asks for it, except one
\* that an older answer has overwritten (applyChunkPatch, applyChunkResult).
THEOREM LagsAreMarked == CopiesSpec => []LagIsMarked
  <1>1. CopiesIInv => LagIsMarked
    BY DEF CopiesIInv
  <1> QED
    BY <1>1, CopiesInductive, PTL

-----------------------------------------------------------------------------
(* WelcomeBack: sums over a ledger that grows *)

\* The sum of some entries of a ledger.
SumOf(l, I) == MapThenSumSet(LAMBDA i : l[i].amount, I)

\* A total over the subsets of the positions: whatever is taken out first.
TotalOf(g, a, n) ==
    /\ g \in [SUBSET (1 .. n) -> Int]
    /\ g[{}] = 0
    /\ \A s \in SUBSET (1 .. n) : \A x \in s : g[s] = a[x] + g[s \ {x}]

LEMMA TotalExists ==
    ASSUME NEW n \in Nat, NEW a \in [1 .. n -> Int]
    PROVE  \E g : TotalOf(g, a, n)
  <1> DEFINE D == 1 .. n
             F == [z \in D \X Int |-> a[z[1]] + z[2]]
             c == [s \in SUBSET D |-> CHOOSE x \in s : TRUE]
  <1>1. IsFiniteSet(D) /\ F \in [D \X Int -> Int] /\ 0 \in Int
    <2>1. IsFiniteSet(D)
      BY FS_Interval
    <2>2. F \in [D \X Int -> Int]
      OBVIOUS
    <2> QED
      BY <2>1, <2>2
  <1>2. \A s \in SUBSET D : s # {} => c[s] \in s
    OBVIOUS
  <1>3. PICK g \in [SUBSET D -> Int] : Folds(g, D, 0, F, c)
    <2> HIDE DEF D, F, c
    <2> QED
      BY <1>1, <1>2, RecursionExists
  <1>4. g[{}] = 0
    BY <1>3 DEF Folds
  <1>5. \A s \in SUBSET D : s # {} => g[s] = a[c[s]] + g[s \ {c[s]}]
    <2> TAKE s \in SUBSET D
    <2> HAVE s # {}
    <2>1. g[s] = F[<<c[s], g[s \ {c[s]}]>>]
      BY <1>3 DEF Folds
    <2>2. c[s] \in D /\ g[s \ {c[s]}] \in Int
      BY <1>2, <1>3
    <2> HIDE DEF c
    <2>3. F[<<c[s], g[s \ {c[s]}]>>] = a[c[s]] + g[s \ {c[s]}]
      BY <2>2
    <2> QED
      BY <2>1, <2>3
  <1> DEFINE T == {s \in SUBSET D : \A x \in s : g[s] = a[x] + g[s \ {x}]}
  <1> HIDE DEF c, F
  <1>6. ASSUME NEW s \in SUBSET D, \A x \in s : s \ {x} \in T
        PROVE  s \in T
    <2> SUFFICES ASSUME NEW x \in s PROVE g[s] = a[x] + g[s \ {x}]
      OBVIOUS
    <2>1. PICK y \in s : y = c[s] /\ g[s] = a[y] + g[s \ {y}]
      BY <1>2, <1>5
    <2>2. CASE y = x
      BY <2>1, <2>2
    <2>3. CASE y # x
      <3>1. g[s \ {y}] = a[x] + g[(s \ {y}) \ {x}]
        BY <1>6, <2>1, <2>3
      <3>2. g[s \ {x}] = a[y] + g[(s \ {x}) \ {y}]
        BY <1>6, <2>1, <2>3
      <3>3. PICK r \in SUBSET D : r = (s \ {x}) \ {y} /\ r = (s \ {y}) \ {x}
        OBVIOUS
      <3>4. a[x] \in Int /\ a[y] \in Int /\ g[r] \in Int
        BY <1>3, <2>1
      <3>5. g[s \ {y}] = a[x] + g[r] /\ g[s \ {x}] = a[y] + g[r]
        BY <3>1, <3>2, <3>3
      <3>6. g[s] = a[y] + (a[x] + g[r])
        BY <2>1, <3>5
      <3>7. a[y] + (a[x] + g[r]) = a[x] + (a[y] + g[r])
        BY <3>4, SMT
      <3> QED
        BY <3>5, <3>6, <3>7
    <2> QED
      BY <2>2, <2>3
  <1>7. \A s \in SUBSET D : s \in T
    <2> HIDE DEF T, D
    <2> QED
      BY <1>1, <1>6, BySize
  <1>8. \A s \in SUBSET (1 .. n) : \A x \in s : g[s] = a[x] + g[s \ {x}]
    BY <1>7
  <1>9. TotalOf(g, a, n)
    BY <1>3, <1>4, <1>8 DEF TotalOf
  <1> QED
    BY <1>9

\* The amounts of a ledger, by position.
Amounts(l, a, n) == n \in Nat /\ a \in [1 .. n -> Int] /\ \A i \in 1 .. n : l[i].amount = a[i]

\* The fold of the library is that total.
LEMMA SumIs ==
    ASSUME NEW n, NEW a, NEW g, TotalOf(g, a, n), NEW l, Amounts(l, a, n),
        NEW S \in SUBSET (1 .. n)
    PROVE  SumOf(l, S) = g[S]
  <1>0. n \in Nat /\ \A i \in 1 .. n : l[i].amount = a[i]
    BY DEF Amounts
  <1> USE <1>0
  <1> DEFINE c == [s \in SUBSET S |-> CHOOSE x \in s : TRUE]
             Body(h, s) == IF s = {} THEN 0
                           ELSE l[CHOOSE x \in s : TRUE].amount
                                  + h[s \ {CHOOSE x \in s : TRUE}]
             it == CHOOSE h : h = [s \in SUBSET S |-> Body(h, s)]
             f == [s \in SUBSET S |-> g[s]]
  <1>1. IsFiniteSet(S)
    <2>1. IsFiniteSet(1 .. n)
      BY FS_Interval
    <2> QED
      BY <2>1, FS_Subset
  <1>2. f = [s \in SUBSET S |-> Body(f, s)]
    <2> SUFFICES ASSUME NEW s \in SUBSET S PROVE g[s] = Body(f, s)
      OBVIOUS
    <2>1. CASE s = {}
      BY <2>1 DEF TotalOf
    <2>2. CASE s # {}
      <3>1. PICK x \in s : x = CHOOSE y \in s : TRUE
        BY <2>2
      <3>2. g[s] = a[x] + g[s \ {x}] /\ l[x].amount = a[x]
        BY DEF TotalOf
      <3>3. f[s \ {x}] = g[s \ {x}]
        OBVIOUS
      <3> QED
        BY <2>2, <3>1, <3>2, <3>3
    <2> QED
      BY <2>1, <2>2
  <1>3. it = [s \in SUBSET S |-> Body(it, s)]
    <2>1. \E h : h = [s \in SUBSET S |-> Body(h, s)]
      <3> HIDE DEF f, Body
      <3> QED
        BY <1>2
    <2> HIDE DEF Body
    <2> QED
      BY <2>1
  <1>4. SumOf(l, S) = it[S]
    BY DEF SumOf, MapThenSumSet, MapThenFoldSet
  <1> HIDE DEF it, f
  <1> DEFINE T == {s \in SUBSET S : it[s] = g[s]}
  <1>5. ASSUME NEW s \in SUBSET S, \A x \in s : s \ {x} \in T
        PROVE  s \in T
    <2>1. CASE s = {}
      BY <2>1, <1>3 DEF TotalOf
    <2>2. CASE s # {}
      <3>1. PICK x \in s : x = CHOOSE y \in s : TRUE
        BY <2>2
      <3>2. it[s] = l[x].amount + it[s \ {x}]
        BY <1>3, <2>2, <3>1
      <3>3. g[s] = a[x] + g[s \ {x}] /\ l[x].amount = a[x]
        BY DEF TotalOf
      <3>4. it[s \ {x}] = g[s \ {x}]
        BY <1>5
      <3> QED
        BY <3>2, <3>3, <3>4
    <2> QED
      BY <2>1, <2>2
  <1>6. \A s \in SUBSET S : s \in T
    <2> HIDE DEF T
    <2> QED
      BY <1>1, <1>5, BySize
  <1> QED
    BY <1>4, <1>6

\* A ledger only grows.
Entries == [at : Instants, amount : Int]
Grown(l, m) == Len(l) <= Len(m) /\ \A i \in 1 .. Len(l) : m[i] = l[i]

\* Every ledger has its amounts and their total.
LEMMA LedgerTotal ==
    ASSUME NEW l, l \in Seq(Entries)
    PROVE  \E n, a, g : n = Len(l) /\ Amounts(l, a, n) /\ TotalOf(g, a, n)
  <1>1. PICK n \in Nat : n = Len(l)
    OBVIOUS
  <1>2. \A i \in 1 .. n : l[i].amount \in Int
    <2> TAKE i \in 1 .. n
    <2>1. l[i] \in Entries
      BY <1>1, ElementOfSeq
    <2> QED
      BY <2>1 DEF Entries
  <1>3. PICK a : a = [i \in 1 .. n |-> l[i].amount]
    OBVIOUS
  <1>4. a \in [1 .. n -> Int] /\ \A i \in 1 .. n : l[i].amount = a[i]
    BY <1>2, <1>3
  <1>5. Amounts(l, a, n)
    BY <1>4 DEF Amounts
  <1>6. \E g : TotalOf(g, a, n)
    BY <1>4, TotalExists
  <1> QED
    BY <1>1, <1>5, <1>6

\* What was summed keeps its sum when the ledger grows.
LEMMA SumGrows ==
    ASSUME NEW l, l \in Seq(Entries), NEW m, Grown(l, m), NEW S \in SUBSET (1 .. Len(l))
    PROVE  SumOf(m, S) = SumOf(l, S)
  <1>1. PICK n, a, g : n = Len(l) /\ Amounts(l, a, n) /\ TotalOf(g, a, n)
    BY LedgerTotal
  <1>2. Amounts(m, a, n)
    BY <1>1 DEF Amounts, Grown
  <1>3. SumOf(l, S) = g[S]
    BY <1>1, <1>2, SumIs
  <1>4. SumOf(m, S) = g[S]
    BY <1>1, <1>2, SumIs
  <1> QED
    BY <1>3, <1>4

LEMMA SumOfNone ==
    ASSUME NEW l, l \in Seq(Entries)
    PROVE  SumOf(l, {}) = 0
  <1>1. PICK n, a, g : n = Len(l) /\ Amounts(l, a, n) /\ TotalOf(g, a, n)
    BY LedgerTotal
  <1>2. {} \in SUBSET (1 .. n)
    OBVIOUS
  <1>3. SumOf(l, {}) = g[{}]
    BY <1>1, <1>2, SumIs
  <1> QED
    BY <1>1, <1>3 DEF TotalOf

\* The sum of two sets of entries without a common one.
LEMMA SumOfTwo ==
    ASSUME NEW l, l \in Seq(Entries), NEW A \in SUBSET (1 .. Len(l)),
        NEW B \in SUBSET (1 .. Len(l)),
           A \cap B = {}
    PROVE  /\ SumOf(l, A \cup B) = SumOf(l, A) + SumOf(l, B)
           /\ SumOf(l, A) \in Int
  <1>1. PICK n, a, g : n = Len(l) /\ Amounts(l, a, n) /\ TotalOf(g, a, n)
    BY LedgerTotal
  <1>2. n \in Nat /\ a \in [1 .. n -> Int]
    BY <1>1 DEF Amounts
  <1>3. A \in SUBSET (1 .. n) /\ B \in SUBSET (1 .. n) /\ A \cup B \in SUBSET (1 .. n)
    BY <1>1
  <1>4. SumOf(l, A) = g[A] /\ SumOf(l, B) = g[B] /\ SumOf(l, A \cup B) = g[A \cup B]
    BY <1>1, <1>3, SumIs
  <1> DEFINE T == {s \in SUBSET B : g[A \cup s] = g[A] + g[s]}
  <1>5. IsFiniteSet(B)
    <2>1. IsFiniteSet(1 .. n)
      BY <1>2, FS_Interval
    <2> QED
      BY <1>3, <2>1, FS_Subset
  <1>6. ASSUME NEW s \in SUBSET B, \A x \in s : s \ {x} \in T
        PROVE  s \in T
    <2>1. CASE s = {}
      <3>1. A \cup s = A
        BY <2>1
      <3>2. g[s] = 0 /\ g[A] \in Int
        BY <1>1, <1>3, <2>1 DEF TotalOf
      <3>3. PICK p \in Int, q \in Int : p = g[A] /\ q = g[s] /\ q = 0
        BY <3>2
      <3>4. p = p + q
        BY <3>3, SMT
      <3>5. g[A \cup s] = p
        BY <3>1, <3>3
      <3>6. g[A] + g[s] = p + q
        BY <3>3
      <3>7. g[A \cup s] = g[A] + g[s]
        BY <3>4, <3>5, <3>6
      <3> QED
        BY <3>7
    <2>2. CASE s # {}
      <3>1. PICK x \in s : TRUE
        BY <2>2
      <3>2. PICK u : u = A \cup s
        OBVIOUS
      <3>3. u \in SUBSET (1 .. n) /\ x \in u /\ u \ {x} = A \cup (s \ {x})
        BY <1>3, <3>1, <3>2
      <3>4. s \in SUBSET (1 .. n) /\ x \in s
        BY <1>3
      <3>5. g[u] = a[x] + g[u \ {x}]
        BY <1>1, <3>3 DEF TotalOf
      <3>6. g[s] = a[x] + g[s \ {x}]
        BY <1>1, <3>4 DEF TotalOf
      <3>7. g[u \ {x}] = g[A] + g[s \ {x}]
        BY <1>6, <3>3
      <3>8. a[x] \in Int /\ g[A] \in Int /\ g[s \ {x}] \in Int
        BY <1>1, <1>2, <1>3, <3>4 DEF TotalOf
      <3>9. g[u] = g[A] + g[s]
        BY <3>5, <3>6, <3>7, <3>8, SMT
      <3> QED
        BY <3>2, <3>9
    <2> QED
      BY <2>1, <2>2
  <1>7. \A s \in SUBSET B : s \in T
    <2> HIDE DEF T
    <2> QED
      BY <1>5, <1>6, BySize
  <1>8. g[A] \in Int
    BY <1>1, <1>3 DEF TotalOf
  <1> QED
    BY <1>4, <1>7, <1>8
-----------------------------------------------------------------------------
(* WelcomeBack: what a summary keeps saying while the ledger grows *)

Books == [ledger : Seq(Entries), accrued : Instants, pending : SUBSET Due]

\* The entries a summary counted: those there were when it was summed.
Window(l, s) == {i \in 1 .. s.seen : s.from < l[i].at /\ l[i].at <= s.to}

\* Each part of a summary, against a ledger that may have grown since it was read: the sum is
\* that of the entries there were, each balance is taken from an entry on its side of the
\* interval and not before any that was counted.
TotalsOK(l, s) ==
    /\ s.seen <= Len(l)
    /\ s.lines = Window(l, s)
    /\ s.net = SumOf(l, s.lines)
PreviousOK(l, s) ==
    /\ s.previous <= Len(l)
    /\ s.previous > 0 => l[s.previous].at <= s.from
    /\ \A i \in 1 .. s.seen : l[i].at <= s.from => i <= s.previous
LatestOK(l, s) ==
    /\ s.latest <= Len(l)
    /\ s.latest > 0 => s.from < l[s.latest].at /\ l[s.latest].at <= s.to
    /\ \A i \in Window(l, s) : i <= s.latest

\* A summary some of whose parts may still have to be read.
SummaryRight(l, s, m, rest) ==
    /\ s.from <= m /\ s.from <= s.to
    /\ TotalsOK(l, s)
    /\ "previous" \notin rest => PreviousOK(l, s)
    /\ "latest" \notin rest => LatestOK(l, s)

\* The ledger grows and the mark rises.
Rises(l, m, a, b) ==
    /\ l \in Seq(Entries) /\ m \in Seq(Entries) /\ Grown(l, m)
    /\ a \in Nat /\ b \in Nat /\ a <= b

LEMMA InstantsAre == Instants \subseteq Nat /\ MaxGame \in Nat /\ 0 \in Instants
  BY WelcomeBackAssumption, SMT DEF Instants

LEMMA SummaryParts ==
    ASSUME NEW s \in Summaries
    PROVE  /\ s.from \in Nat /\ s.to \in Nat /\ s.net \in Int /\ s.previous \in Nat
           /\ s.latest \in Nat /\ s.seen \in Nat
  BY InstantsAre DEF Summaries

LEMMA TotalsKept ==
    ASSUME NEW l, NEW m, NEW a, NEW b, Rises(l, m, a, b), NEW s \in Summaries, TotalsOK(l, s)
    PROVE  TotalsOK(m, s) /\ Window(m, s) = Window(l, s)
  <1>1. PICK n \in Nat, k \in Nat : n = Len(l) /\ k = Len(m)
    BY DEF Rises
  <1>2. n <= k /\ \A i \in 1 .. n : m[i] = l[i]
    BY <1>1 DEF Rises, Grown
  <1>3. s.seen \in Nat /\ s.seen <= n
    BY <1>1, SummaryParts DEF TotalsOK
  <1>4. \A i \in 1 .. s.seen : m[i] = l[i] /\ i \in 1 .. n
    BY <1>2, <1>3, SMT
  <1>5. Window(m, s) = Window(l, s)
    BY <1>4 DEF Window
  <1>6. s.seen <= k
    BY <1>2, <1>3, SMT
  <1>7. s.lines \in SUBSET (1 .. Len(l))
    BY <1>1, <1>4 DEF TotalsOK, Window
  <1>8. SumOf(m, s.lines) = SumOf(l, s.lines)
    BY <1>7, SumGrows DEF Rises
  <1> QED
    BY <1>1, <1>5, <1>6, <1>8 DEF TotalsOK

LEMMA SummaryKept ==
    ASSUME NEW l, NEW m, NEW a, NEW b, Rises(l, m, a, b), NEW s \in Summaries, NEW rest,
           SummaryRight(l, s, a, rest)
    PROVE  SummaryRight(m, s, b, rest)
  <1>1. PICK n \in Nat, k \in Nat : n = Len(l) /\ k = Len(m)
    BY DEF Rises
  <1>2. n <= k /\ \A i \in 1 .. n : m[i] = l[i]
    BY <1>1 DEF Rises, Grown
  <1>3. TotalsOK(l, s) /\ TotalsOK(m, s) /\ Window(m, s) = Window(l, s)
    BY TotalsKept DEF SummaryRight
  <1>4. /\ s.from \in Nat /\ s.to \in Nat /\ s.previous \in Nat
        /\ s.latest \in Nat /\ s.seen \in Nat /\ s.seen <= n
    BY <1>1, <1>3, SummaryParts DEF TotalsOK
  <1>5. \A i \in 1 .. s.seen : m[i] = l[i]
    BY <1>2, <1>4, SMT
  <1>6. s.from <= b
    BY <1>4, SMT DEF SummaryRight, Rises
  <1>7. ASSUME PreviousOK(l, s) PROVE PreviousOK(m, s)
    <2>1. s.previous <= n /\ s.previous <= k
      BY <1>1, <1>2, <1>4, <1>7, SMT DEF PreviousOK
    <2>2. s.previous > 0 => m[s.previous] = l[s.previous]
      BY <1>2, <1>4, <2>1, SMT
    <2> QED
      BY <1>1, <1>5, <1>7, <2>1, <2>2 DEF PreviousOK
  <1>8. ASSUME LatestOK(l, s) PROVE LatestOK(m, s)
    <2>1. s.latest <= n /\ s.latest <= k
      BY <1>1, <1>2, <1>4, <1>8, SMT DEF LatestOK
    <2>2. s.latest > 0 => m[s.latest] = l[s.latest]
      BY <1>2, <1>4, <2>1, SMT
    <2> QED
      BY <1>1, <1>3, <1>8, <2>1, <2>2 DEF LatestOK
  <1> QED
    BY <1>3, <1>6, <1>7, <1>8 DEF SummaryRight

LEMMA GrownTrans ==
    ASSUME NEW l \in Seq(Entries), NEW m \in Seq(Entries), NEW o \in Seq(Entries),
           Grown(l, m), Grown(m, o)
    PROVE  Grown(l, o)
  <1>1. PICK n \in Nat, k \in Nat, j \in Nat : n = Len(l) /\ k = Len(m) /\ j = Len(o)
    OBVIOUS
  <1>2. n <= k /\ k <= j
    BY <1>1 DEF Grown
  <1>3. \A i \in 1 .. n : i \in 1 .. k
    BY <1>2, SMT
  <1>4. \A i \in 1 .. n : o[i] = l[i]
    BY <1>1, <1>3 DEF Grown
  <1>5. n <= j
    BY <1>2, SMT
  <1> QED
    BY <1>1, <1>4, <1>5 DEF Grown

\* What the writes make of the books: the ledger only grows.
Later(b) == {c \in Books : Grown(b.ledger, c.ledger)}

LEMMA LaterTrans ==
    ASSUME NEW b \in Books, NEW c \in Later(b), NEW d \in Later(c)
    PROVE  d \in Later(b)
  BY GrownTrans DEF Later, Books

LEMMA LaterSelf ==
    ASSUME NEW b \in Books
    PROVE  b \in Later(b)
  <1>1. b.ledger \in Seq(Entries)
    BY DEF Books
  <1>2. Len(b.ledger) \in Nat
    BY <1>1
  <1>3. Len(b.ledger) <= Len(b.ledger)
    BY <1>2, SMT
  <1> QED
    BY <1>3 DEF Later, Grown

LEMMA RecordLater ==
    ASSUME NEW b \in Books, NEW at \in Instants, NEW amount \in Int
    PROVE  Record(b, at, amount) \in Later(b)
  <1>1. PICK l \in Seq(Entries) : l = b.ledger
    BY DEF Books
  <1>2. [at |-> at, amount |-> amount] \in Entries
    BY DEF Entries
  <1>3. PICK e \in Entries : e = [at |-> at, amount |-> amount]
    BY <1>2
  <1>4. PICK m \in Seq(Entries) : m = Append(l, e)
    BY AppendProperties
  <1>5. Len(m) = Len(l) + 1 /\ \A i \in 1 .. Len(l) : m[i] = l[i]
    BY <1>4, AppendProperties
  <1>6. Grown(l, m)
    <2>1. Len(l) \in Nat
      OBVIOUS
    <2> QED
      BY <1>5, <2>1, SMT DEF Grown
  <1>7. Record(b, at, amount) = [b EXCEPT !.ledger = m]
    BY <1>1, <1>3, <1>4 DEF Record
  <1>8. [b EXCEPT !.ledger = m] \in Books /\ [b EXCEPT !.ledger = m].ledger = m
    BY DEF Books
  <1> QED
    BY <1>1, <1>6, <1>7, <1>8 DEF Later

LEMMA SettledLater ==
    ASSUME NEW b \in Books, NEW t \in Instants
    PROVE  Settled(b, t) \in Later(b)
  <1>1. CASE ~ (t > b.accrued)
    BY <1>1, LaterSelf DEF Settled
  <1>2. CASE t > b.accrued
    <2>1. b.accrued - t \in Int
      <3>1. PICK a \in Instants : a = b.accrued
        BY DEF Books
      <3>2. a - t \in Int
        BY InstantsAre, SMT
      <3> QED
        BY <3>1, <3>2
    <2>2. PICK c \in Later(b) : c = Record(b, t, b.accrued - t)
      BY <2>1, RecordLater
    <2>3. Settled(b, t) = [c EXCEPT !.accrued = t]
      BY <1>2, <2>2 DEF Settled
    <2>4. [c EXCEPT !.accrued = t] \in Books /\ [c EXCEPT !.accrued = t].ledger = c.ledger
      BY DEF Books, Later
    <2> QED
      BY <2>3, <2>4 DEF Later
  <1> QED
    BY <1>1, <1>2

LEMMA AppliedLater ==
    ASSUME NEW b \in Books, NEW e \in Instants
    PROVE  Applied(b, e) \in Later(b)
  <1>1. PICK c \in Later(b) : c = Settled(b, e)
    BY SettledLater
  <1>2. c \in Books
    BY DEF Later
  <1>3. Income \in Int
    BY WelcomeBackAssumption, SMT
  <1>4. PICK d \in Later(c) : d = Record(c, e, Income)
    BY <1>2, <1>3, RecordLater
  <1>5. d \in Later(b)
    BY <1>2, <1>4, LaterTrans
  <1>6. Applied(b, e) = [d EXCEPT !.pending = @ \ {e}]
    BY <1>1, <1>4 DEF Applied
  <1>7. [d EXCEPT !.pending = @ \ {e}] \in Books
          /\ [d EXCEPT !.pending = @ \ {e}].ledger = d.ledger
    BY <1>5 DEF Books, Later
  <1> QED
    BY <1>5, <1>6, <1>7 DEF Later

LEMMA OverdueAre ==
    ASSUME NEW b \in Books, NEW t \in Instants
    PROVE  Overdue(b, t) \in SUBSET Instants
  <1>1. \A e \in Overdue(b, t) : e \in Nat /\ e <= t
    BY WelcomeBackAssumption DEF Overdue, Books
  <1> QED
    BY <1>1, WelcomeBackAssumption, SMT DEF Instants

\* Advancing a player closes a batch of events, earliest first: the ledger only grows.
LEMMA AdvancedLater ==
    ASSUME NEW b \in Books, NEW t \in Instants
    PROVE  Advanced(b, t) \in Later(b)
  <1> DEFINE S == Overdue(b, t)
             V == Later(b)
             F == [z \in S \X V |-> Applied(z[2], z[1])]
             c == [s \in SUBSET S |-> Max(s)]
             Body(h, s) == IF s = {} THEN b ELSE Applied(h[s \ {Max(s)}], Max(s))
             it == CHOOSE h : h = [s \in SUBSET S |-> Body(h, s)]
  <1>1. S \in SUBSET Instants
    BY OverdueAre
  <1>2. IsFiniteSet(S)
    <2>1. IsFiniteSet(Instants)
      BY InstantsAre, FS_Interval, SMT DEF Instants
    <2> QED
      BY <1>1, <2>1, FS_Subset
  <1>3. \A s \in SUBSET S : s # {} => Max(s) \in s
    <2> TAKE s \in SUBSET S
    <2> HAVE s # {}
    <2>1. s \in SUBSET (0 .. MaxGame)
      BY <1>1 DEF Instants
    <2> QED
      BY <2>1, InstantsAre, LargestOf
  <1>4. b \in V
    BY LaterSelf
  <1>5. \A x \in S, v \in V : Applied(v, x) \in V
    <2> TAKE x \in S, v \in V
    <2>1. v \in Books /\ x \in Instants
      BY <1>1 DEF Later
    <2>2. Applied(v, x) \in Later(v)
      BY <2>1, AppliedLater
    <2> QED
      BY <2>2, LaterTrans
  <1> HIDE DEF S, V
  <1>6. F \in [S \X V -> V]
    BY <1>5
  <1>7. PICK g \in [SUBSET S -> V] : Folds(g, S, b, F, c)
    <2>1. \A s \in SUBSET S : s # {} => c[s] \in s
      BY <1>3
    <2> HIDE DEF F, c
    <2> QED
      BY <1>2, <1>4, <1>6, <2>1, RecursionExists
  <1>8. g = [s \in SUBSET S |-> Body(g, s)]
    <2> SUFFICES ASSUME NEW s \in SUBSET S PROVE g[s] = Body(g, s)
      OBVIOUS
    <2>1. CASE s # {}
      <3>1. g[s] = F[<<Max(s), g[s \ {Max(s)}]>>]
        BY <1>7, <2>1 DEF Folds
      <3>2. <<Max(s), g[s \ {Max(s)}]>> \in S \X V
        BY <1>3, <2>1
      <3>3. F[<<Max(s), g[s \ {Max(s)}]>>] = Applied(g[s \ {Max(s)}], Max(s))
        BY <3>2
      <3> QED
        BY <2>1, <3>1, <3>3
    <2> QED
      BY <2>1, <1>7 DEF Folds
  <1>9. it = [s \in SUBSET S |-> Body(it, s)]
    <2>1. \E h : h = [s \in SUBSET S |-> Body(h, s)]
      <3> HIDE DEF Body
      <3> QED
        BY <1>8
    <2> HIDE DEF Body
    <2> QED
      BY <2>1
  <1>10. Advanced(b, t) = Settled(it[S], t)
    BY DEF Advanced, MapThenFoldSet, S
  <1> HIDE DEF it
  <1>11. it[{}] \in V
    BY <1>4, <1>9
  <1>12. \A s \in SUBSET S : s # {} /\ it[s \ {Max(s)}] \in V => it[s] \in V
    <2> TAKE s \in SUBSET S
    <2> HAVE s # {} /\ it[s \ {Max(s)}] \in V
    <2>1. it[s] = Applied(it[s \ {Max(s)}], Max(s))
      BY <1>9
    <2> QED
      BY <2>1, <1>3, <1>5
  <1>13. \A s \in SUBSET S : it[s] \in V
    <2>1. \A s \in SUBSET S : s # {} => c[s] \in s
      BY <1>3
    <2>2. \A s \in SUBSET S : s # {} /\ it[s \ {c[s]}] \in V => it[s] \in V
      BY <1>12
    <2> HIDE DEF c
    <2> QED
      BY <1>2, <1>11, <2>1, <2>2, FoldStays
  <1>14. it[S] \in V
    BY <1>13
  <1>15. Settled(it[S], t) \in Later(it[S])
    BY <1>14, SettledLater DEF V, Later
  <1> QED
    BY <1>10, <1>14, <1>15, LaterTrans DEF V
-----------------------------------------------------------------------------
(* WelcomeBack: the invariant *)

Stages == {"closed", "asked", "advanced", "marked", "building", "replied",
           "shown", "confirming", "confirmed"}
Panels == [at : Stages, now : Instants, asked : Instants, mark : Instants,
           left : SUBSET {"totals", "previous", "latest"}, summary : Summaries]

\* A page, in a world with this ledger, this game time and this mark.
PageRight(p, l, g, m) ==
    /\ p.now <= g /\ p.asked <= m /\ p.asked <= p.now
    /\ p.at \notin {"closed", "asked", "advanced"} => p.asked <= p.mark
    /\ p.at \notin {"closed", "asked", "advanced", "marked"} => p.asked <= p.summary.from
    /\ p.at # "building" => p.left = {}
    /\ SummaryRight(l, p.summary, m, p.left)

BooksRight ==
    /\ books \in Books
    /\ lastSummary \in Instants /\ game \in Instants /\ lastSummary <= game
CacheRight == cache \in Summaries /\ SummaryRight(books.ledger, cache, lastSummary, {})
PanelsRight ==
    /\ tab \in [Tabs -> Panels]
    /\ \A t \in Tabs : PageRight(tab[t], books.ledger, game, lastSummary)
WritersRight == writes \in 0 .. MaxWrites /\ writer \in [Authors -> Instants \cup {Resting}]

\* The invariant.
SummaryIInv == BooksRight /\ CacheRight /\ PanelsRight /\ WritersRight

LEMMA WorldIs ==
    ASSUME SummaryIInv
    PROVE  \E l \in Seq(Entries), g \in Instants, m \in Instants :
              /\ l = books.ledger /\ g = game /\ m = lastSummary
              /\ g \in Nat /\ m \in Nat /\ m <= g
  <1>1. books.ledger \in Seq(Entries)
    BY DEF SummaryIInv, BooksRight, Books
  <1>2. game \in Instants /\ lastSummary \in Instants /\ lastSummary <= game
    BY DEF SummaryIInv, BooksRight
  <1> QED
    BY <1>1, <1>2, InstantsAre

\* A summary of which nothing has been read.
Fresh(s, from, to) ==
    /\ s.from = from /\ s.to = to /\ s.lines = {} /\ s.net = 0
    /\ s.previous = 0 /\ s.latest = 0 /\ s.seen = 0

LEMMA NoneIs == NoSummary \in Summaries /\ Fresh(NoSummary, 0, 0)
  BY InstantsAre DEF NoSummary, Summaries, Fresh

LEMMA FreshIs ==
    ASSUME NEW from \in Instants, NEW to \in Instants
    PROVE  /\ [NoSummary EXCEPT !.from = from, !.to = to] \in Summaries
           /\ Fresh([NoSummary EXCEPT !.from = from, !.to = to], from, to)
  <1>1. [NoSummary EXCEPT !.from = from, !.to = to] \in Summaries
    BY NoneIs DEF Summaries
  <1>2. Fresh([NoSummary EXCEPT !.from = from, !.to = to], from, to)
    BY NoneIs DEF Summaries, Fresh
  <1> QED
    BY <1>1, <1>2

LEMMA FreshRight ==
    ASSUME NEW l \in Seq(Entries), NEW m \in Nat, NEW from \in Instants, NEW to \in Instants,
           from <= m, from <= to, NEW rest, NEW s, Fresh(s, from, to)
    PROVE  SummaryRight(l, s, m, rest)
  <1>1. PICK n \in Nat : n = Len(l)
    OBVIOUS
  <1>2. 1 .. s.seen = {}
    <2>1. 1 .. 0 = {}
      BY SMT
    <2> QED
      BY <2>1 DEF Fresh
  <1>3. Window(l, s) = {}
    BY <1>2 DEF Window
  <1>4. SumOf(l, {}) = 0
    BY SumOfNone
  <1>5. 0 <= n /\ ~ (0 > 0)
    BY SMT
  <1>6. TotalsOK(l, s)
    BY <1>1, <1>3, <1>4, <1>5 DEF TotalsOK, Fresh
  <1>7. PreviousOK(l, s)
    BY <1>1, <1>2, <1>5 DEF PreviousOK, Fresh
  <1>8. LatestOK(l, s)
    BY <1>1, <1>3, <1>5 DEF LatestOK, Fresh
  <1> QED
    BY <1>6, <1>7, <1>8 DEF SummaryRight, Fresh

LEMMA NoneRight ==
    ASSUME NEW l \in Seq(Entries), NEW m \in Nat
    PROVE  NoSummary \in Summaries /\ SummaryRight(l, NoSummary, m, {})
  <1>1. 0 \in Instants /\ 0 <= m /\ 0 <= 0
    BY InstantsAre, SMT
  <1> QED
    BY <1>1, NoneIs, FreshRight

LEMMA PanelParts ==
    ASSUME NEW p \in Panels
    PROVE  /\ p.at \in Stages /\ p.now \in Instants /\ p.asked \in Instants /\ p.mark \in Instants
           /\ p.now \in Nat /\ p.asked \in Nat /\ p.mark \in Nat
           /\ p.left \in SUBSET {"totals", "previous", "latest"} /\ p.summary \in Summaries
           /\ p = [at |-> p.at, now |-> p.now, asked |-> p.asked, mark |-> p.mark,
                   left |-> p.left, summary |-> p.summary]
  BY InstantsAre DEF Panels

LEMMA ClosedRight ==
    ASSUME NEW l \in Seq(Entries), NEW g \in Nat, NEW m \in Nat
    PROVE  Closed \in Panels /\ PageRight(Closed, l, g, m)
  <1>1. NoSummary \in Summaries /\ SummaryRight(l, NoSummary, m, {})
    BY NoneRight
  <1>2. 0 \in Instants /\ 0 <= m /\ 0 <= 0 /\ 0 <= g
    BY InstantsAre, SMT
  <1>3. Closed \in Panels
    BY <1>1, <1>2 DEF Closed, Panels, Stages
  <1> QED
    BY <1>1, <1>2, <1>3 DEF Closed, PageRight

LEMMA PageKept ==
    ASSUME NEW l, NEW m, NEW a, NEW b, Rises(l, m, a, b), NEW g \in Nat, NEW h \in Nat, g <= h,
           NEW p \in Panels, PageRight(p, l, g, a)
    PROVE  PageRight(p, m, h, b)
  <1>1. p.summary \in Summaries /\ p.now \in Nat /\ p.asked \in Nat
    BY PanelParts
  <1>2. SummaryRight(m, p.summary, b, p.left)
    BY <1>1, SummaryKept DEF PageRight
  <1>3. p.now <= g /\ p.asked <= a
    BY DEF PageRight
  <1>4. p.now <= h
    BY <1>1, <1>3, SMT
  <1>5. a \in Nat /\ b \in Nat /\ a <= b
    BY DEF Rises
  <1>6. p.asked <= b
    BY <1>1, <1>3, <1>5, SMT
  <1> QED
    BY <1>2, <1>4, <1>6 DEF PageRight

\* The pages and the cache stay right when the ledger grows and the mark and the clock rise.
LEMMA WorldMoves ==
    ASSUME SummaryIInv,
           NEW b \in Later(books), books' = b,
           NEW g \in Instants, game' = g, game <= g,
           NEW m \in Instants, lastSummary' = m, lastSummary <= m, m <= g,
           NEW k \in Summaries, cache' = k, SummaryRight(books.ledger, k, lastSummary, {}),
           NEW f \in [Tabs -> Panels], tab' = f,
           \A t \in Tabs : PageRight(f[t], books.ledger, game, lastSummary),
           writes' \in 0 .. MaxWrites, writer' \in [Authors -> Instants \cup {Resting}]
    PROVE  SummaryIInv'
  <1>1. PICK l \in Seq(Entries), g0 \in Instants, m0 \in Instants :
              /\ l = books.ledger /\ g0 = game /\ m0 = lastSummary
              /\ g0 \in Nat /\ m0 \in Nat /\ m0 <= g0
    BY WorldIs
  <1>2. PICK l1 \in Seq(Entries) : l1 = b.ledger /\ Grown(l, l1)
    BY <1>1 DEF Later, Books
  <1>3. m \in Nat /\ g \in Nat /\ m0 <= m /\ g0 <= g
    BY <1>1, InstantsAre
  <1>4. Rises(l, l1, m0, m)
    BY <1>1, <1>2, <1>3 DEF Rises
  <1>5. SummaryRight(l1, k, m, {})
    BY <1>1, <1>4, SummaryKept
  <1>6. \A t \in Tabs : PageRight(f[t], l1, g, m)
    <2> TAKE t \in Tabs
    <2>1. f[t] \in Panels /\ PageRight(f[t], l, g0, m0)
      BY <1>1
    <2> QED
      BY <1>1, <1>3, <1>4, <2>1, PageKept
  <1>7. books'.ledger = l1 /\ b \in Books
    BY <1>2 DEF Later
  <1>8. BooksRight'
    BY <1>7 DEF BooksRight
  <1>9. CacheRight'
    BY <1>5, <1>7 DEF CacheRight
  <1>10. PanelsRight'
    BY <1>6, <1>7 DEF PanelsRight
  <1>11. WritersRight'
    BY DEF WritersRight
  <1> QED
    BY <1>8, <1>9, <1>10, <1>11 DEF SummaryIInv

\* One page turns.
LEMMA PageTurns ==
    ASSUME SummaryIInv, NEW t \in Tabs, NEW r \in Panels,
           PageRight(r, books.ledger, game, lastSummary)
    PROVE  /\ [tab EXCEPT ![t] = r] \in [Tabs -> Panels]
           /\ \A u \in Tabs : PageRight([tab EXCEPT ![t] = r][u], books.ledger, game, lastSummary)
  <1>1. tab \in [Tabs -> Panels]
        /\ \A u \in Tabs : PageRight(tab[u], books.ledger, game, lastSummary)
    BY DEF SummaryIInv, PanelsRight
  <1>2. [tab EXCEPT ![t] = r] \in [Tabs -> Panels]
    BY <1>1
  <1>3. \A u \in Tabs : [tab EXCEPT ![t] = r][u] = IF u = t THEN r ELSE tab[u]
    BY <1>1
  <1> QED
    BY <1>1, <1>2, <1>3

LEMMA OnlyPageMoves ==
    ASSUME SummaryIInv, NEW t \in Tabs, NEW r \in Panels,
           PageRight(r, books.ledger, game, lastSummary), Become(t, r), OnlyTab
    PROVE  SummaryIInv'
  <1>1. PICK f : f = [tab EXCEPT ![t] = r]
    OBVIOUS
  <1>2. f \in [Tabs -> Panels] /\ tab' = f
        /\ \A u \in Tabs : PageRight(f[u], books.ledger, game, lastSummary)
    BY <1>1, PageTurns DEF Become
  <1>3. books \in Later(books)
    BY LaterSelf DEF SummaryIInv, BooksRight
  <1>4. PICK l \in Seq(Entries), g \in Instants, m \in Instants :
              /\ l = books.ledger /\ g = game /\ m = lastSummary
              /\ g \in Nat /\ m \in Nat /\ m <= g
    BY WorldIs
  <1>5. game <= g /\ lastSummary <= m
    BY <1>4, SMT
  <1>6. cache \in Summaries /\ SummaryRight(books.ledger, cache, lastSummary, {})
    BY DEF SummaryIInv, CacheRight
  <1>7. writes \in 0 .. MaxWrites /\ writer \in [Authors -> Instants \cup {Resting}]
    BY DEF SummaryIInv, WritersRight
  <1> QED
    BY <1>2, <1>3, <1>4, <1>5, <1>6, <1>7, WorldMoves DEF OnlyTab
-----------------------------------------------------------------------------
(* WelcomeBack: the steps *)

\* The page of t in its world.
PanelIs(p, t, l, g, m) ==
    /\ p = tab[t] /\ p \in Panels /\ PageRight(p, l, g, m)
    /\ l = books.ledger /\ l \in Seq(Entries)
    /\ g = game /\ g \in Instants /\ g \in Nat
    /\ m = lastSummary /\ m \in Instants /\ m \in Nat /\ m <= g

LEMMA PanelOf ==
    ASSUME SummaryIInv, NEW t \in Tabs
    PROVE  \E p, l, g, m : PanelIs(p, t, l, g, m)
  <1>1. PICK l \in Seq(Entries), g \in Instants, m \in Instants :
              /\ l = books.ledger /\ g = game /\ m = lastSummary
              /\ g \in Nat /\ m \in Nat /\ m <= g
    BY WorldIs
  <1>2. tab[t] \in Panels /\ PageRight(tab[t], l, g, m)
    BY <1>1 DEF SummaryIInv, PanelsRight
  <1>3. PanelIs(tab[t], t, l, g, m)
    BY <1>1, <1>2 DEF PanelIs
  <1> QED
    BY <1>3

\* A page that goes on to another stage with what it holds.
LEMMA StageTurns ==
    ASSUME NEW l, NEW g, NEW m, NEW p \in Panels, PageRight(p, l, g, m), p.left = {},
           NEW at \in Stages,
           at \notin {"closed", "asked", "advanced"} => p.asked <= p.mark,
           at \notin {"closed", "asked", "advanced", "marked"} => p.asked <= p.summary.from
    PROVE  [p EXCEPT !.at = at] \in Panels /\ PageRight([p EXCEPT !.at = at], l, g, m)
  <1>1. [p EXCEPT !.at = at] \in Panels
    BY DEF Panels
  <1>2. PICK r \in Panels : r = [p EXCEPT !.at = at]
    BY <1>1
  <1>3. /\ r.at = at /\ r.now = p.now /\ r.asked = p.asked /\ r.mark = p.mark
        /\ r.left = p.left /\ r.summary = p.summary
    BY <1>2 DEF Panels
  <1>4. PageRight(r, l, g, m)
    BY <1>3 DEF PageRight
  <1> QED
    BY <1>2, <1>4

LEMMA AskOK ==
    ASSUME SummaryIInv, NEW t \in Tabs, Ask(t)
    PROVE  SummaryIInv'
  <1>1. PICK p, l, g, m : PanelIs(p, t, l, g, m)
    BY PanelOf
  <1>2. PICK c \in Panels : c = Closed /\ PageRight(c, l, g, m) /\ c.left = {}
          /\ c.summary = NoSummary
    BY <1>1, ClosedRight DEF PanelIs, Closed
  <1>3. PICK r : r = [c EXCEPT !.at = "asked", !.now = g, !.asked = m]
    OBVIOUS
  <1>4. "asked" \in Stages /\ g \in Instants /\ m \in Instants
    BY <1>1 DEF Stages, PanelIs
  <1>5. r \in Panels
    BY <1>3, <1>4 DEF Panels
  <1>6. /\ r.at = "asked" /\ r.now = g /\ r.asked = m /\ r.left = {} /\ r.summary = c.summary
    BY <1>2, <1>3 DEF Panels
  <1>7. g <= g /\ m <= m /\ m <= g
    BY <1>1, SMT DEF PanelIs
  <1>8. PageRight(r, l, g, m)
    BY <1>2, <1>6, <1>7 DEF PageRight
  <1>9. Become(t, r) /\ OnlyTab
    BY <1>1, <1>2, <1>3 DEF Ask, PanelIs
  <1>10. PageRight(r, books.ledger, game, lastSummary)
    BY <1>1, <1>8 DEF PanelIs
  <1> QED
    BY <1>5, <1>9, <1>10, OnlyPageMoves

LEMMA ReadMarkOK ==
    ASSUME SummaryIInv, NEW t \in Tabs, ReadMark(t)
    PROVE  SummaryIInv'
  <1>1. PICK p, l, g, m : PanelIs(p, t, l, g, m)
    BY PanelOf
  <1>2. p \in Panels /\ PageRight(p, l, g, m) /\ p.at = "advanced" /\ p.left = {} /\ p.asked <= m
    BY <1>1 DEF PanelIs, ReadMark, PageRight
  <1>3. PICK r : r = [p EXCEPT !.at = "marked", !.mark = m]
    OBVIOUS
  <1>4. "marked" \in Stages /\ m \in Instants
    BY <1>1 DEF Stages, PanelIs
  <1>5. r \in Panels
    BY <1>2, <1>3, <1>4 DEF Panels
  <1>6. /\ r.at = "marked" /\ r.now = p.now /\ r.asked = p.asked /\ r.mark = m
        /\ r.left = {} /\ r.summary = p.summary
    BY <1>2, <1>3 DEF Panels
  <1>7. PageRight(r, l, g, m)
    BY <1>2, <1>6 DEF PageRight
  <1>8. Become(t, r) /\ OnlyTab
    BY <1>1, <1>3 DEF ReadMark, PanelIs
  <1>9. PageRight(r, books.ledger, game, lastSummary)
    BY <1>1, <1>7 DEF PanelIs
  <1> QED
    BY <1>5, <1>8, <1>9, OnlyPageMoves

LEMMA HitOK ==
    ASSUME SummaryIInv, NEW t \in Tabs, Hit(t)
    PROVE  SummaryIInv'
  <1>1. PICK p, l, g, m : PanelIs(p, t, l, g, m)
    BY PanelOf
  <1>2. p \in Panels /\ PageRight(p, l, g, m) /\ p.at = "marked" /\ p.left = {}
          /\ p.asked <= p.mark
    BY <1>1 DEF PanelIs, Hit, PageRight
  <1>3. PICK c \in Summaries : c = cache /\ SummaryRight(l, c, m, {})
    BY <1>1 DEF SummaryIInv, CacheRight, PanelIs
  <1>4. c.from = p.mark
    BY <1>1, <1>3 DEF PanelIs, Hit, Cached
  <1>5. PICK r : r = [p EXCEPT !.at = "shown", !.summary = c]
    OBVIOUS
  <1>6. "shown" \in Stages
    BY DEF Stages
  <1>7. r \in Panels
    BY <1>2, <1>5, <1>6 DEF Panels
  <1>8. /\ r.at = "shown" /\ r.now = p.now /\ r.asked = p.asked /\ r.mark = p.mark
        /\ r.left = {} /\ r.summary = c
    BY <1>2, <1>5 DEF Panels
  <1>9. PageRight(r, l, g, m)
    BY <1>2, <1>3, <1>4, <1>8 DEF PageRight
  <1>10. Become(t, r) /\ OnlyTab
    BY <1>1, <1>3, <1>5 DEF Hit, PanelIs
  <1>11. PageRight(r, books.ledger, game, lastSummary)
    BY <1>1, <1>9 DEF PanelIs
  <1> QED
    BY <1>7, <1>10, <1>11, OnlyPageMoves

LEMMA EarlierOf ==
    ASSUME NEW a \in Instants, NEW b \in Instants
    PROVE  /\ Min({a, b}) \in Instants /\ Min({a, b}) <= a /\ Min({a, b}) <= b
           /\ Min({a, b}) \in {a, b}
           /\ Max({a, b}) \in Instants /\ a <= Max({a, b}) /\ b <= Max({a, b})
           /\ Max({a, b}) \in {a, b}
  <1>1. a \in Nat /\ b \in Nat
    BY InstantsAre
  <1>2. \E x \in {a, b} : \A y \in {a, b} : x <= y
    BY <1>1, SMT
  <1>3. Min({a, b}) \in {a, b} /\ \A y \in {a, b} : Min({a, b}) <= y
    BY <1>2 DEF Min
  <1>4. \E x \in {a, b} : \A y \in {a, b} : x >= y
    BY <1>1, SMT
  <1>5. Max({a, b}) \in {a, b} /\ \A y \in {a, b} : Max({a, b}) >= y
    BY <1>4 DEF Max
  <1>6. a <= Max({a, b}) /\ b <= Max({a, b})
    BY <1>1, <1>5, SMT
  <1> QED
    BY <1>3, <1>5, <1>6

LEMMA BuildOK ==
    ASSUME SummaryIInv, NEW t \in Tabs, Build(t)
    PROVE  SummaryIInv'
  <1>1. PICK p, l, g, m : PanelIs(p, t, l, g, m)
    BY PanelOf
  <1>2. p \in Panels /\ PageRight(p, l, g, m) /\ p.at = "marked" /\ p.asked <= m
          /\ p.asked <= p.now
        /\ p.asked <= p.mark
    BY <1>1 DEF PanelIs, Build, PageRight
  <1>3. p.now \in Instants
    BY <1>2, PanelParts
  <1>4. PICK f \in Instants : f = Min({m, p.now}) /\ f <= m /\ f <= p.now /\ f \in {m, p.now}
    BY <1>1, <1>3, EarlierOf DEF PanelIs
  <1>5. PICK s : s = [NoSummary EXCEPT !.from = f, !.to = p.now]
    OBVIOUS
  <1>6. s \in Summaries /\ Fresh(s, f, p.now)
    BY <1>3, <1>5, FreshIs
  <1>7. SummaryRight(l, s, m, {"totals"})
    BY <1>1, <1>3, <1>4, <1>6, FreshRight DEF PanelIs
  <1>8. p.asked <= s.from
    BY <1>2, <1>4, <1>6 DEF Fresh
  <1>9. PICK r : r = [p EXCEPT !.at = "building", !.left = {"totals"}, !.summary = s]
    OBVIOUS
  <1>10. "building" \in Stages /\ {"totals"} \in SUBSET {"totals", "previous", "latest"}
    BY DEF Stages
  <1>11. r \in Panels
    BY <1>2, <1>6, <1>9, <1>10 DEF Panels
  <1>12. /\ r.at = "building" /\ r.now = p.now /\ r.asked = p.asked /\ r.mark = p.mark
         /\ r.left = {"totals"} /\ r.summary = s
    BY <1>2, <1>9 DEF Panels
  <1>13. PageRight(r, l, g, m)
    BY <1>2, <1>7, <1>8, <1>12 DEF PageRight
  <1>14. Become(t, r) /\ OnlyTab
    <2>1. Build(t) => Become(t, [tab[t] EXCEPT !.at = "building", !.left = {"totals"},
                         !.summary = [NoSummary EXCEPT !.from = Min({lastSummary, tab[t].now}),
                                                       !.to = tab[t].now]]) /\ OnlyTab
      BY DEF Build
    <2>2. tab[t] = p /\ lastSummary = m
      BY <1>1 DEF PanelIs
    <2> QED
      BY <1>4, <1>5, <1>9, <2>1, <2>2
  <1>15. PageRight(r, books.ledger, game, lastSummary)
    BY <1>1, <1>13 DEF PanelIs
  <1> QED
    BY <1>11, <1>14, <1>15, OnlyPageMoves

Parts == {"totals", "previous", "latest"}

LEMMA ReadOK ==
    ASSUME SummaryIInv, NEW t \in Tabs, NEW part, NEW next \in SUBSET Parts, NEW s \in Summaries,
           Read(t, part, s, next), s.from = tab[t].summary.from,
           SummaryRight(books.ledger, s, lastSummary, (tab[t].left \ {part}) \cup next)
    PROVE  SummaryIInv'
  <1>1. PICK p, l, g, m : PanelIs(p, t, l, g, m)
    BY PanelOf
  <1>2. /\ p \in Panels /\ PageRight(p, l, g, m) /\ p.at = "building" /\ p.left \in SUBSET Parts
        /\ p.asked <= p.summary.from
    BY <1>1, PanelParts DEF PanelIs, Read, PageRight, Parts
  <1>3. PICK q \in SUBSET Parts : q = (p.left \ {part}) \cup next
    BY <1>2
  <1>4. PICK r : r = [p EXCEPT !.summary = s, !.left = q]
    OBVIOUS
  <1>5. r \in Panels
    BY <1>2, <1>4 DEF Panels, Parts
  <1>6. /\ r.at = p.at /\ r.now = p.now /\ r.asked = p.asked /\ r.mark = p.mark
        /\ r.left = q /\ r.summary = s
    BY <1>2, <1>4 DEF Panels
  <1>7. SummaryRight(l, s, m, q) /\ s.from = p.summary.from
    BY <1>1, <1>3 DEF PanelIs
  <1>8. PageRight(r, l, g, m)
    BY <1>2, <1>6, <1>7 DEF PageRight
  <1>9. Become(t, r) /\ OnlyTab
    BY <1>1, <1>3, <1>4 DEF Read, PanelIs
  <1>10. PageRight(r, books.ledger, game, lastSummary)
    BY <1>1, <1>8 DEF PanelIs
  <1> QED
    BY <1>5, <1>9, <1>10, OnlyPageMoves

\* The summary a page is building, in its world.
BuildIs(s, l, m, left) ==
    /\ s \in Summaries /\ SummaryRight(l, s, m, left) /\ left \in SUBSET Parts
    /\ l \in Seq(Entries) /\ m \in Nat

LEMMA BuildOf ==
    ASSUME SummaryIInv, NEW t \in Tabs
    PROVE  BuildIs(tab[t].summary, books.ledger, lastSummary, tab[t].left)
  <1>1. PICK p, l, g, m : PanelIs(p, t, l, g, m)
    BY PanelOf
  <1>2. p.summary \in Summaries /\ p.left \in SUBSET Parts
    BY <1>1, PanelParts DEF PanelIs, Parts
  <1>3. BuildIs(p.summary, l, m, p.left)
    BY <1>1, <1>2 DEF PanelIs, PageRight, BuildIs
  <1> QED
    BY <1>1, <1>3 DEF PanelIs

LEMMA NewestIs ==
    ASSUME NEW n \in Nat, NEW I \in SUBSET (1 .. n)
    PROVE  /\ Newest(I) \in 0 .. n
           /\ Newest(I) > 0 => Newest(I) \in I
           /\ \A i \in I : i <= Newest(I)
  <1>1. I \cup {0} \in SUBSET (0 .. n) /\ I \cup {0} # {}
    BY SMT
  <1>2. PICK J : J = I \cup {0}
    OBVIOUS
  <1>3. Max(J) \in J /\ \A y \in J : y <= Max(J)
    BY <1>1, <1>2, LargestOf
  <1>4. Newest(I) = Max(J)
    BY <1>2 DEF Newest
  <1>5. ~ (0 > 0)
    BY SMT
  <1> QED
    BY <1>1, <1>2, <1>3, <1>4, <1>5

LEMMA ReadTotalsOK ==
    ASSUME SummaryIInv, NEW t \in Tabs, ReadTotals(t)
    PROVE  SummaryIInv'
  <1>1. PICK s, l, m, left : /\ BuildIs(s, l, m, left) /\ s = tab[t].summary /\ l = books.ledger
                             /\ m = lastSummary /\ left = tab[t].left
    BY BuildOf
  <1>2. PICK n \in Nat : n = Len(l)
    BY <1>1 DEF BuildIs
  <1>3. PICK I : I = Inside(s)
    OBVIOUS
  <1>4. I = {i \in 1 .. n : s.from < l[i].at /\ l[i].at <= s.to}
    <2>1. DOMAIN l = 1 .. n
      BY <1>1, <1>2 DEF BuildIs
    <2> QED
      BY <1>1, <1>3, <2>1 DEF Inside
  <1>5. I \in SUBSET Nat /\ I \in SUBSET (1 .. Len(l))
    <2>1. \A i \in I : i \in 1 .. n /\ i \in Nat
      BY <1>4, SMT
    <2> QED
      BY <2>1, <1>2
  <1>6. PICK v \in Int : v = SumOf(l, I) /\ v = Sum(I)
    <2>1. {} \in SUBSET (1 .. Len(l)) /\ I \cap {} = {}
      OBVIOUS
    <2>2. SumOf(l, I) \in Int
      BY <1>1, <1>5, <2>1, SumOfTwo DEF BuildIs
    <2>3. Sum(I) = SumOf(l, I)
      BY <1>1 DEF Sum, SumOf
    <2> QED
      BY <2>2, <2>3
  <1>7. PICK z : z = [s EXCEPT !.lines = I, !.net = v, !.seen = n]
    OBVIOUS
  <1>8. z \in Summaries
    BY <1>1, <1>5, <1>7 DEF Summaries, BuildIs
  <1>9. /\ z.from = s.from /\ z.to = s.to /\ z.lines = I /\ z.net = v /\ z.seen = n
    BY <1>1, <1>7 DEF Summaries, BuildIs
  <1>10. Window(l, z) = I
    BY <1>4, <1>9 DEF Window
  <1>11. n <= n
    BY SMT
  <1>12. TotalsOK(l, z)
    BY <1>2, <1>6, <1>9, <1>10, <1>11 DEF TotalsOK
  <1>13. PICK next \in SUBSET Parts : next = {"previous", "latest"}
    BY DEF Parts
  <1>14. SummaryRight(l, z, m, (left \ {"totals"}) \cup next)
    BY <1>1, <1>9, <1>12, <1>13 DEF SummaryRight, BuildIs
  <1>15. Read(t, "totals", z, next)
    <2>1. Read(t, "totals", [s EXCEPT !.lines = I, !.net = Sum(I), !.seen = Len(l)],
               {"previous", "latest"})
      BY <1>1, <1>3 DEF ReadTotals
    <2> QED
      BY <1>2, <1>6, <1>7, <1>13, <2>1
  <1>16. z.from = tab[t].summary.from
         /\ SummaryRight(books.ledger, z, lastSummary, (tab[t].left \ {"totals"}) \cup next)
    BY <1>1, <1>9, <1>14
  <1> QED
    BY <1>8, <1>15, <1>16, ReadOK

LEMMA ReadPreviousOK ==
    ASSUME SummaryIInv, NEW t \in Tabs, ReadPrevious(t)
    PROVE  SummaryIInv'
  <1>1. PICK s, l, m, left : /\ BuildIs(s, l, m, left) /\ s = tab[t].summary /\ l = books.ledger
                             /\ m = lastSummary /\ left = tab[t].left
    BY BuildOf
  <1>2. PICK n \in Nat : n = Len(l)
    BY <1>1 DEF BuildIs
  <1>3. PICK I : I = Preceding(s)
    OBVIOUS
  <1>4. I = {i \in 1 .. n : l[i].at <= s.from}
    <2>1. DOMAIN l = 1 .. n
      BY <1>1, <1>2 DEF BuildIs
    <2> QED
      BY <1>1, <1>3, <2>1 DEF Preceding
  <1>5. I \in SUBSET (1 .. n)
    BY <1>4
  <1>6. PICK k \in 0 .. n : k = Newest(I) /\ (k > 0 => k \in I) /\ \A i \in I : i <= k
    BY <1>5, NewestIs
  <1>7. PICK z : z = [s EXCEPT !.previous = k]
    OBVIOUS
  <1>8. k \in Nat /\ k <= n
    BY <1>6, SMT
  <1>9. z \in Summaries
    BY <1>1, <1>7, <1>8 DEF Summaries, BuildIs
  <1>10. /\ z.from = s.from /\ z.to = s.to /\ z.lines = s.lines /\ z.net = s.net
         /\ z.seen = s.seen /\ z.previous = k /\ z.latest = s.latest
    BY <1>1, <1>7 DEF Summaries, BuildIs
  <1>11. TotalsOK(l, s) /\ TotalsOK(l, z) /\ Window(l, z) = Window(l, s)
    BY <1>1, <1>10 DEF TotalsOK, Window, SummaryRight, BuildIs
  <1>12. s.seen \in Nat /\ s.seen <= n
    BY <1>1, <1>2, <1>11, SummaryParts DEF TotalsOK, BuildIs
  <1>13. \A i \in 1 .. s.seen : i \in 1 .. n
    BY <1>12, SMT
  <1>14. PreviousOK(l, z)
    BY <1>2, <1>4, <1>6, <1>8, <1>10, <1>13 DEF PreviousOK
  <1>15. LatestOK(l, s) => LatestOK(l, z)
    BY <1>10, <1>11 DEF LatestOK
  <1>16. PICK next \in SUBSET Parts : next = {}
    OBVIOUS
  <1>17. SummaryRight(l, z, m, (left \ {"previous"}) \cup next)
    BY <1>1, <1>10, <1>11, <1>14, <1>15, <1>16 DEF SummaryRight, BuildIs
  <1>18. Read(t, "previous", z, next)
    BY <1>1, <1>3, <1>6, <1>7, <1>16 DEF ReadPrevious
  <1>19. z.from = tab[t].summary.from
         /\ SummaryRight(books.ledger, z, lastSummary, (tab[t].left \ {"previous"}) \cup next)
    BY <1>1, <1>10, <1>17
  <1> QED
    BY <1>9, <1>18, <1>19, ReadOK

LEMMA ReadLatestOK ==
    ASSUME SummaryIInv, NEW t \in Tabs, ReadLatest(t)
    PROVE  SummaryIInv'
  <1>1. PICK s, l, m, left : /\ BuildIs(s, l, m, left) /\ s = tab[t].summary /\ l = books.ledger
                             /\ m = lastSummary /\ left = tab[t].left
    BY BuildOf
  <1>2. PICK n \in Nat : n = Len(l)
    BY <1>1 DEF BuildIs
  <1>3. PICK I : I = Inside(s)
    OBVIOUS
  <1>4. I = {i \in 1 .. n : s.from < l[i].at /\ l[i].at <= s.to}
    <2>1. DOMAIN l = 1 .. n
      BY <1>1, <1>2 DEF BuildIs
    <2> QED
      BY <1>1, <1>3, <2>1 DEF Inside
  <1>5. I \in SUBSET (1 .. n)
    BY <1>4
  <1>6. PICK k \in 0 .. n : k = Newest(I) /\ (k > 0 => k \in I) /\ \A i \in I : i <= k
    BY <1>5, NewestIs
  <1>7. PICK z : z = [s EXCEPT !.latest = k]
    OBVIOUS
  <1>8. k \in Nat /\ k <= n
    BY <1>6, SMT
  <1>9. z \in Summaries
    BY <1>1, <1>7, <1>8 DEF Summaries, BuildIs
  <1>10. /\ z.from = s.from /\ z.to = s.to /\ z.lines = s.lines /\ z.net = s.net
         /\ z.seen = s.seen /\ z.previous = s.previous /\ z.latest = k
    BY <1>1, <1>7 DEF Summaries, BuildIs
  <1>11. TotalsOK(l, s) /\ TotalsOK(l, z) /\ Window(l, z) = Window(l, s)
    BY <1>1, <1>10 DEF TotalsOK, Window, SummaryRight, BuildIs
  <1>12. s.seen \in Nat /\ s.seen <= n
    BY <1>1, <1>2, <1>11, SummaryParts DEF TotalsOK, BuildIs
  <1>13. \A i \in 1 .. s.seen : i \in 1 .. n
    BY <1>12, SMT
  <1>14. LatestOK(l, z)
    <2>1. \A i \in Window(l, z) : i <= k
      BY <1>4, <1>6, <1>11, <1>13 DEF Window
    <2> QED
      BY <1>2, <1>4, <1>6, <1>8, <1>10, <2>1 DEF LatestOK
  <1>15. PreviousOK(l, s) => PreviousOK(l, z)
    BY <1>10 DEF PreviousOK
  <1>16. PICK next \in SUBSET Parts : next = {}
    OBVIOUS
  <1>17. SummaryRight(l, z, m, (left \ {"latest"}) \cup next)
    BY <1>1, <1>10, <1>11, <1>14, <1>15, <1>16 DEF SummaryRight, BuildIs
  <1>18. Read(t, "latest", z, next)
    BY <1>1, <1>3, <1>6, <1>7, <1>16 DEF ReadLatest
  <1>19. z.from = tab[t].summary.from
         /\ SummaryRight(books.ledger, z, lastSummary, (tab[t].left \ {"latest"}) \cup next)
    BY <1>1, <1>10, <1>17
  <1> QED
    BY <1>9, <1>18, <1>19, ReadOK

\* What the steps that leave the cache and the clock say of them.
LEMMA WorldNow ==
    ASSUME SummaryIInv
    PROVE  /\ books \in Books /\ books \in Later(books)
           /\ game \in Instants /\ game <= game
           /\ lastSummary \in Instants /\ lastSummary <= lastSummary /\ lastSummary <= game
           /\ cache \in Summaries /\ SummaryRight(books.ledger, cache, lastSummary, {})
           /\ tab \in [Tabs -> Panels]
           /\ \A t \in Tabs : PageRight(tab[t], books.ledger, game, lastSummary)
           /\ writes \in 0 .. MaxWrites /\ writer \in [Authors -> Instants \cup {Resting}]
  <1>1. books \in Books /\ books \in Later(books)
    BY LaterSelf DEF SummaryIInv, BooksRight
  <1>2. game \in Instants /\ lastSummary \in Instants /\ lastSummary <= game
    BY DEF SummaryIInv, BooksRight
  <1>3. \A a \in Instants : a <= a
    BY InstantsAre, SMT
  <1> QED
    BY <1>1, <1>2, <1>3 DEF SummaryIInv, CacheRight, PanelsRight, WritersRight

\* The page of t at another stage.
LEMMA NextStage ==
    ASSUME SummaryIInv, NEW t \in Tabs, tab[t].left = {}, NEW at \in Stages,
           at \notin {"closed", "asked", "advanced"} =>
               tab[t].at \notin {"closed", "asked", "advanced"},
           at \notin {"closed", "asked", "advanced", "marked"} =>
               tab[t].at \notin {"closed", "asked", "advanced", "marked"}
    PROVE  /\ [tab[t] EXCEPT !.at = at] \in Panels
           /\ PageRight([tab[t] EXCEPT !.at = at], books.ledger, game, lastSummary)
  <1>1. PICK p, l, g, m : PanelIs(p, t, l, g, m)
    BY PanelOf
  <1>2. p \in Panels /\ PageRight(p, l, g, m) /\ p.left = {} /\ p = tab[t]
    BY <1>1 DEF PanelIs
  <1>3. /\ at \notin {"closed", "asked", "advanced"} => p.asked <= p.mark
        /\ at \notin {"closed", "asked", "advanced", "marked"} => p.asked <= p.summary.from
    BY <1>2 DEF PageRight
  <1>4. [p EXCEPT !.at = at] \in Panels /\ PageRight([p EXCEPT !.at = at], l, g, m)
    BY <1>2, <1>3, StageTurns
  <1> QED
    BY <1>1, <1>4 DEF PanelIs

\* A page holds parts to read only while its summary is being built.
LEMMA NothingLeft ==
    ASSUME SummaryIInv, NEW t \in Tabs, tab[t].at # "building"
    PROVE  tab[t].left = {}
  BY WorldNow DEF PageRight

LEMMA ElapseOK ==
    ASSUME SummaryIInv, Elapse
    PROVE  SummaryIInv'
  <1>1. PICK g \in Instants : g = game + 1 /\ game <= g /\ lastSummary <= g
    <2>1. PICK a \in Nat, b \in Nat : a = game /\ b = lastSummary /\ b <= a /\ a < MaxGame
      BY WorldNow, InstantsAre DEF Elapse
    <2>2. a + 1 \in Instants /\ a <= a + 1 /\ b <= a + 1
      BY <2>1, InstantsAre, SMT DEF Instants
    <2> QED
      BY <2>1, <2>2
  <1>2. game' = g /\ books' = books /\ lastSummary' = lastSummary /\ cache' = cache /\ tab' = tab
        /\ writes' = writes /\ writer' = writer
    BY <1>1 DEF Elapse
  <1> QED
    BY <1>1, <1>2, WorldNow, WorldMoves

LEMMA ExpireOK ==
    ASSUME SummaryIInv, Expire
    PROVE  SummaryIInv'
  <1>1. NoSummary \in Summaries /\ SummaryRight(books.ledger, NoSummary, lastSummary, {})
    BY WorldNow, InstantsAre, NoneRight DEF Books
  <1>2. game' = game /\ books' = books /\ lastSummary' = lastSummary /\ cache' = NoSummary
        /\ tab' = tab /\ writes' = writes /\ writer' = writer
    BY DEF Expire
  <1> QED
    BY <1>1, <1>2, WorldNow, WorldMoves

LEMMA StartOK ==
    ASSUME SummaryIInv, NEW w \in Authors, Start(w)
    PROVE  SummaryIInv'
  <1>1. writer' \in [Authors -> Instants \cup {Resting}]
    BY WorldNow DEF Start
  <1>2. writes' \in 0 .. MaxWrites
    <2>1. writes \in 0 .. MaxWrites /\ writes < MaxWrites /\ writes' = writes + 1
      BY WorldNow DEF Start
    <2> QED
      BY <2>1, WelcomeBackAssumption, SMT
  <1>3. game' = game /\ books' = books /\ lastSummary' = lastSummary /\ cache' = cache
        /\ tab' = tab
    BY DEF Start
  <1> QED
    BY <1>1, <1>2, <1>3, WorldNow, WorldMoves

LEMMA WriteRowsOK ==
    ASSUME SummaryIInv, NEW w \in Authors, WriteRows(w)
    PROVE  SummaryIInv'
  <1>1. PICK at \in Instants : at = writer[w]
    BY WorldNow DEF WriteRows
  <1>2. PICK c \in Later(books) : c = Advanced(books, at)
    BY WorldNow, AdvancedLater
  <1>3. c \in Books
    BY DEF Later
  <1>4. Income \in Int
    BY WelcomeBackAssumption, SMT
  <1>5. PICK d \in Later(c) : d = Record(c, at, Income)
    BY <1>3, <1>4, RecordLater
  <1>6. d \in Later(books)
    BY <1>3, <1>5, WorldNow, LaterTrans
  <1>7. books' = d
    BY <1>1, <1>2, <1>5 DEF WriteRows
  <1>8. writer' \in [Authors -> Instants \cup {Resting}]
    BY WorldNow DEF WriteRows
  <1>9. game' = game /\ lastSummary' = lastSummary /\ cache' = cache /\ tab' = tab
        /\ writes' = writes
    BY DEF WriteRows
  <1> QED
    BY <1>6, <1>7, <1>8, <1>9, WorldNow, WorldMoves

\* Steps of one page that go on to another stage and leave everything else.
LEMMA StageOK ==
    ASSUME SummaryIInv, NEW t \in Tabs,
           \/ Show(t) \/ Refuse(t)
    PROVE  SummaryIInv'
  <1>1. tab[t].at \in {"replied", "confirming"} /\ OnlyTab
        /\ Become(t, [tab[t] EXCEPT !.at = "shown"])
    BY DEF Show, Refuse
  <1>2. tab[t].left = {}
    BY <1>1, NothingLeft
  <1>3. "shown" \in Stages
    BY DEF Stages
  <1>4. PICK r \in Panels : /\ r = [tab[t] EXCEPT !.at = "shown"]
                            /\ PageRight(r, books.ledger, game, lastSummary)
    BY <1>1, <1>2, <1>3, NextStage
  <1>5. Become(t, r)
    BY <1>1, <1>4
  <1> QED
    BY <1>1, <1>4, <1>5, OnlyPageMoves

LEMMA DismissOK ==
    ASSUME SummaryIInv, NEW t \in Tabs, Dismiss(t)
    PROVE  SummaryIInv'
  <1>1. Closed \in Panels /\ PageRight(Closed, books.ledger, game, lastSummary)
    BY WorldNow, InstantsAre, ClosedRight DEF Books
  <1>2. Become(t, Closed) /\ OnlyTab
    BY DEF Dismiss
  <1> QED
    BY <1>1, <1>2, OnlyPageMoves

LEMMA ConfirmOK ==
    ASSUME SummaryIInv, NEW t \in Tabs, Confirm(t)
    PROVE  SummaryIInv'
  <1>1. PICK p, l, g, m : PanelIs(p, t, l, g, m)
    BY PanelOf
  <1>2. /\ p \in Panels /\ PageRight(p, l, g, m) /\ p.at = "shown" /\ p.left = {}
        /\ p.asked <= p.mark /\ p.asked <= p.summary.from /\ p.asked <= m
    BY <1>1 DEF PanelIs, Confirm, PageRight
  <1>3. PICK r : r = [p EXCEPT !.at = "confirming", !.now = g]
    OBVIOUS
  <1>4. "confirming" \in Stages /\ g \in Instants /\ m \in Nat /\ g \in Nat /\ m <= g
    BY <1>1 DEF Stages, PanelIs
  <1>5. r \in Panels
    BY <1>2, <1>3, <1>4 DEF Panels
  <1>6. /\ r.at = "confirming" /\ r.now = g /\ r.asked = p.asked /\ r.mark = p.mark
        /\ r.left = {} /\ r.summary = p.summary
    BY <1>2, <1>3 DEF Panels
  <1>7. g <= g /\ p.asked <= g
    BY <1>2, <1>4, PanelParts, SMT
  <1>8. PageRight(r, l, g, m)
    BY <1>2, <1>6, <1>7 DEF PageRight
  <1>9. Become(t, r) /\ OnlyTab
    BY <1>1, <1>3 DEF Confirm, PanelIs
  <1>10. PageRight(r, books.ledger, game, lastSummary)
    BY <1>1, <1>8 DEF PanelIs
  <1> QED
    BY <1>5, <1>9, <1>10, OnlyPageMoves

\* A page turns while the cache changes.
LEMMA CacheMoves ==
    ASSUME SummaryIInv, NEW t \in Tabs, NEW r \in Panels, Become(t, r),
           PageRight(r, books.ledger, game, lastSummary),
           NEW k \in Summaries, cache' = k, SummaryRight(books.ledger, k, lastSummary, {}),
           UNCHANGED <<game, books, lastSummary, writer, writes>>
    PROVE  SummaryIInv'
  <1>1. PICK f : f = [tab EXCEPT ![t] = r]
    OBVIOUS
  <1>2. f \in [Tabs -> Panels] /\ tab' = f
        /\ \A u \in Tabs : PageRight(f[u], books.ledger, game, lastSummary)
    BY <1>1, PageTurns DEF Become
  <1>3. game' = game /\ books' = books /\ lastSummary' = lastSummary
        /\ writes' = writes /\ writer' = writer
    OBVIOUS
  <1> QED
    BY <1>2, <1>3, WorldNow, WorldMoves

LEMMA WriteCacheOK ==
    ASSUME SummaryIInv, NEW t \in Tabs, WriteCache(t)
    PROVE  SummaryIInv'
  <1>1. tab[t].at = "building" /\ tab[t].left = {} /\ cache' \in {cache, tab[t].summary}
        /\ Become(t, [tab[t] EXCEPT !.at = "replied"])
        /\ UNCHANGED <<game, books, lastSummary, writer, writes>>
    BY DEF WriteCache
  <1>2. "replied" \in Stages
    BY DEF Stages
  <1>3. PICK r \in Panels : /\ r = [tab[t] EXCEPT !.at = "replied"]
                            /\ PageRight(r, books.ledger, game, lastSummary)
    BY <1>1, <1>2, NextStage
  <1>4. tab[t].summary \in Summaries
          /\ SummaryRight(books.ledger, tab[t].summary, lastSummary, {})
    BY <1>1, BuildOf DEF BuildIs
  <1>5. PICK k \in Summaries : cache' = k /\ SummaryRight(books.ledger, k, lastSummary, {})
    BY <1>1, <1>4, WorldNow
  <1>6. Become(t, r)
    BY <1>1, <1>3
  <1> QED
    BY <1>1, <1>3, <1>5, <1>6, CacheMoves

LEMMA ClearOK ==
    ASSUME SummaryIInv, NEW t \in Tabs, Clear(t)
    PROVE  SummaryIInv'
  <1>1. /\ cache' \in {cache, NoSummary} /\ tab[t].at = "confirmed"
        /\ Become(t, Closed) \/ Become(t, [tab[t] EXCEPT !.at = "shown"])
        /\ UNCHANGED <<game, books, lastSummary, writer, writes>>
    BY DEF Clear
  <1>2. NoSummary \in Summaries /\ SummaryRight(books.ledger, NoSummary, lastSummary, {})
    BY WorldNow, InstantsAre, NoneRight DEF Books
  <1>3. PICK k \in Summaries : cache' = k /\ SummaryRight(books.ledger, k, lastSummary, {})
    BY <1>1, <1>2, WorldNow
  <1>4. PICK r \in Panels : Become(t, r) /\ PageRight(r, books.ledger, game, lastSummary)
    <2>1. CASE Become(t, Closed)
      BY <2>1, WorldNow, InstantsAre, ClosedRight DEF Books
    <2>2. CASE Become(t, [tab[t] EXCEPT !.at = "shown"])
      <3>1. tab[t].left = {}
        BY <1>1, NothingLeft
      <3>2. "shown" \in Stages
        BY DEF Stages
      <3>3. PICK r \in Panels : /\ r = [tab[t] EXCEPT !.at = "shown"]
                                /\ PageRight(r, books.ledger, game, lastSummary)
        BY <1>1, <3>1, <3>2, NextStage
      <3> QED
        BY <2>2, <3>3
    <2> QED
      BY <1>1, <2>1, <2>2
  <1> QED
    BY <1>1, <1>3, <1>4, CacheMoves

\* A page turns while the player is advanced and the mark rises.
LEMMA BooksMove ==
    ASSUME SummaryIInv, NEW t \in Tabs, NEW r \in Panels, Become(t, r),
           PageRight(r, books.ledger, game, lastSummary),
           books' = Advanced(books, tab[t].now),
           NEW m \in Instants, lastSummary' = m, lastSummary <= m, m <= game,
           UNCHANGED <<game, cache, writer, writes>>
    PROVE  SummaryIInv'
  <1>1. PICK f : f = [tab EXCEPT ![t] = r]
    OBVIOUS
  <1>2. f \in [Tabs -> Panels] /\ tab' = f
        /\ \A u \in Tabs : PageRight(f[u], books.ledger, game, lastSummary)
    BY <1>1, PageTurns DEF Become
  <1>3. PICK now \in Instants : now = tab[t].now
    BY WorldNow, PanelParts
  <1>4. PICK b \in Later(books) : books' = b
    BY <1>3, WorldNow, AdvancedLater
  <1>5. game' = game /\ cache' = cache /\ writes' = writes /\ writer' = writer
    OBVIOUS
  <1> QED
    BY <1>2, <1>4, <1>5, WorldNow, WorldMoves

LEMMA AdvanceGuardOK ==
    ASSUME SummaryIInv, NEW t \in Tabs, AdvanceGuard(t)
    PROVE  SummaryIInv'
  <1>1. tab[t].at = "asked" /\ books' = Advanced(books, tab[t].now)
        /\ Become(t, [tab[t] EXCEPT !.at = "advanced"])
        /\ UNCHANGED <<game, lastSummary, cache, writer, writes>>
    BY DEF AdvanceGuard
  <1>2. tab[t].left = {}
    BY <1>1, NothingLeft
  <1>3. "advanced" \in Stages
    BY DEF Stages
  <1>4. PICK r \in Panels : /\ r = [tab[t] EXCEPT !.at = "advanced"]
                            /\ PageRight(r, books.ledger, game, lastSummary)
    BY <1>1, <1>2, <1>3, NextStage
  <1>5. Become(t, r) /\ lastSummary' = lastSummary
    BY <1>1, <1>4
  <1> QED
    BY <1>1, <1>4, <1>5, WorldNow, BooksMove

\* The mark an acknowledgement leaves: not back, not past the present, and past the end of
\* the summary only if it was already there.
LEMMA MarkRises ==
    ASSUME SummaryIInv, NEW through \in Instants, NEW now \in Instants, now <= game
    PROVE  /\ MarkThrough(through, now) \in Instants
           /\ lastSummary <= MarkThrough(through, now)
           /\ MarkThrough(through, now) <= game
           /\ MarkThrough(through, now) = lastSummary \/ MarkThrough(through, now) <= through
  <1>1. PICK m \in Instants : m = lastSummary
    BY WorldNow
  <1>2. PICK k \in Instants : k = Min({through, now}) /\ k <= through /\ k <= now
    BY EarlierOf
  <1>3. PICK x \in Instants : x = Max({m, k}) /\ m <= x /\ x \in {m, k}
    BY EarlierOf
  <1>4. x = MarkThrough(through, now)
    BY <1>1, <1>2, <1>3 DEF MarkThrough
  <1>5. PICK g \in Nat : g = game /\ m <= g /\ now <= g
    BY <1>1, WorldNow, InstantsAre
  <1>6. m \in Nat /\ k \in Nat /\ now \in Nat
    BY InstantsAre
  <1>7. k <= g
    BY <1>2, <1>5, <1>6, SMT
  <1> QED
    BY <1>1, <1>2, <1>3, <1>4, <1>5, <1>7

LEMMA AcknowledgeOK ==
    ASSUME SummaryIInv, NEW t \in Tabs, Acknowledge(t)
    PROVE  SummaryIInv'
  <1>1. tab[t].at = "confirming" /\ books' = Advanced(books, tab[t].now)
        /\ Become(t, [tab[t] EXCEPT !.at = "confirmed"])
        /\ lastSummary' = MarkThrough(tab[t].summary.to, tab[t].now)
        /\ UNCHANGED <<game, cache, writer, writes>>
    BY DEF Acknowledge
  <1>2. tab[t].left = {}
    BY <1>1, NothingLeft
  <1>3. "confirmed" \in Stages
    BY DEF Stages
  <1>4. PICK r \in Panels : /\ r = [tab[t] EXCEPT !.at = "confirmed"]
                            /\ PageRight(r, books.ledger, game, lastSummary)
    BY <1>1, <1>2, <1>3, NextStage
  <1>5. PICK now \in Instants, to \in Instants :
              now = tab[t].now /\ to = tab[t].summary.to /\ now <= game
    <2>1. tab[t] \in Panels /\ PageRight(tab[t], books.ledger, game, lastSummary)
      BY WorldNow
    <2>2. tab[t].now \in Instants /\ tab[t].summary \in Summaries /\ tab[t].now <= game
      BY <2>1, PanelParts DEF PageRight
    <2> QED
      BY <2>2 DEF Summaries
  <1>6. PICK m \in Instants : m = MarkThrough(to, now) /\ lastSummary <= m /\ m <= game
    BY <1>5, MarkRises
  <1>7. Become(t, r) /\ lastSummary' = m
    BY <1>1, <1>4, <1>5, <1>6
  <1> QED
    BY <1>1, <1>4, <1>6, <1>7, BooksMove

LEMMA SummaryInitial == SummaryInit => SummaryIInv
  <1> SUFFICES ASSUME SummaryInit PROVE SummaryIInv
    OBVIOUS
  <1>1. 0 \in Instants /\ 0 \in Nat /\ 0 <= 0
    BY InstantsAre, SMT
  <1>2. [at |-> 0, amount |-> Opening] \in Entries
    BY <1>1, WelcomeBackAssumption, SMT DEF Entries
  <1>3. PICK e \in Entries : e = [at |-> 0, amount |-> Opening]
    BY <1>2
  <1>4. PICK l \in Seq(Entries) : l = <<e>>
    <2>1. <<e>> \in Seq(Entries)
      OBVIOUS
    <2> QED
      BY <2>1
  <1>5. books = [ledger |-> l, accrued |-> 0, pending |-> Due]
    BY <1>3, <1>4 DEF SummaryInit
  <1>6. books \in Books /\ books.ledger = l
    BY <1>1, <1>5 DEF Books
  <1>7. game = 0 /\ lastSummary = 0 /\ cache = NoSummary /\ writes = 0
        /\ writer = [w \in Authors |-> Resting] /\ tab = [t \in Tabs |-> Closed]
    BY DEF SummaryInit
  <1>8. BooksRight
    BY <1>1, <1>6, <1>7 DEF BooksRight
  <1>9. CacheRight
    BY <1>1, <1>6, <1>7, NoneRight DEF CacheRight
  <1>10. PanelsRight
    <2>1. Closed \in Panels /\ PageRight(Closed, l, 0, 0)
      BY <1>1, ClosedRight
    <2> QED
      BY <1>6, <1>7, <2>1 DEF PanelsRight
  <1>11. WritersRight
    <2>1. 0 \in 0 .. MaxWrites
      BY WelcomeBackAssumption, SMT
    <2> QED
      BY <1>7, <2>1 DEF WritersRight
  <1> QED
    BY <1>8, <1>9, <1>10, <1>11 DEF SummaryIInv

LEMMA SummaryStutters == SummaryIInv /\ UNCHANGED summaryVars => SummaryIInv'
  BY DEF SummaryIInv, BooksRight, CacheRight, PanelsRight, WritersRight, summaryVars

LEMMA SummaryInductive == SummarySpec => []SummaryIInv
  <1>1. SummaryIInv /\ [SummaryNext]_summaryVars => SummaryIInv'
    <2> SUFFICES ASSUME SummaryIInv, [SummaryNext]_summaryVars PROVE SummaryIInv'
      OBVIOUS
    <2>1. CASE Elapse
      BY <2>1, ElapseOK
    <2>2. CASE Expire
      BY <2>2, ExpireOK
    <2>3. ASSUME NEW w \in Authors, Start(w) \/ WriteRows(w) PROVE SummaryIInv'
      BY <2>3, StartOK, WriteRowsOK
    <2>4. ASSUME NEW t \in Tabs, Get(t) PROVE SummaryIInv'
      BY <2>4, AskOK, AdvanceGuardOK, ReadMarkOK, HitOK, BuildOK, ReadTotalsOK,
         ReadPreviousOK, ReadLatestOK, WriteCacheOK, StageOK DEF Get
    <2>5. ASSUME NEW t \in Tabs, Ack(t) PROVE SummaryIInv'
      BY <2>5, DismissOK, ConfirmOK, StageOK, AcknowledgeOK, ClearOK DEF Ack
    <2>6. CASE UNCHANGED summaryVars
      BY <2>6, SummaryStutters
    <2> QED
      BY <2>1, <2>2, <2>3, <2>4, <2>5, <2>6 DEF SummaryNext
  <1> QED
    BY SummaryInitial, <1>1, PTL DEF SummarySpec

\* The types of the books, the mark, the cache and the pages (welcomeBack.ts, cache.ts).
THEOREM SummaryTypeCorrect == SummarySpec => []SummaryTypeOK
  <1>1. SummaryIInv => SummaryTypeOK
    <2> SUFFICES ASSUME SummaryIInv PROVE SummaryTypeOK
      OBVIOUS
    <2>1. /\ books.accrued \in Instants /\ books.pending \subseteq Due
          /\ books.ledger \in Seq([at : Instants, amount : Int])
      BY WorldNow DEF Books, Entries
    <2>2. tab \in [Tabs -> [at : {"closed", "asked", "advanced", "marked", "building", "replied",
                               "shown", "confirming", "confirmed"},
                         now : Instants, asked : Instants, mark : Instants,
                         left : SUBSET {"totals", "previous", "latest"}, summary : Summaries]]
      BY WorldNow DEF Panels, Stages
    <2> QED
      BY <2>1, <2>2, WorldNow DEF SummaryTypeOK
  <1> QED
    BY SummaryInductive, <1>1, PTL

\* A summary that was confirmed does not come back (readCachedWelcomeBack): a page that asks
\* afterwards is shown nothing from before the mark it would have found, for any number of
\* pages, writers and events, whatever the cache kept, lost or failed to clear.
THEOREM ConfirmedStaysAway == SummarySpec => []NeverReappears
  <1>1. SummaryIInv => NeverReappears
    <2> SUFFICES ASSUME SummaryIInv, NEW t \in Tabs, tab[t].at = "shown"
                 PROVE  tab[t].summary.from >= tab[t].asked
      BY DEF NeverReappears
    <2>1. tab[t] \in Panels /\ tab[t].asked <= tab[t].summary.from
      BY WorldNow DEF PageRight
    <2>2. tab[t].asked \in Nat /\ tab[t].summary.from \in Nat
      BY <2>1, PanelParts, SummaryParts
    <2> QED
      BY <2>1, <2>2, SMT
  <1> QED
    BY SummaryInductive, <1>1, PTL

LEMMA OtherPage ==
    ASSUME SummaryIInv, NEW t \in Tabs, NEW u \in Tabs, NEW r, Become(u, r), u # t
    PROVE  tab'[t] = tab[t]
  BY WorldNow DEF Become

LEMMA ThisPage ==
    ASSUME SummaryIInv, NEW t \in Tabs, NEW r, Become(t, r)
    PROVE  tab'[t] = r
  BY WorldNow DEF Become

\* Only the acknowledgement of a page confirms it.
LEMMA OnlyAcknowledge ==
    ASSUME SummaryIInv, [SummaryNext]_summaryVars, NEW t \in Tabs,
           tab[t].at = "confirming", tab'[t].at = "confirmed"
    PROVE  Acknowledge(t)
  <1>1. tab' # tab
    OBVIOUS
  <1>2. PICK u \in Tabs : Get(u) \/ Ack(u)
    BY <1>1 DEF SummaryNext, summaryVars, Elapse, Expire, Start, WriteRows
  <1>3. PICK r : Become(u, r)
    BY <1>2 DEF Get, Ack, Ask, AdvanceGuard, ReadMark, Hit, Build, ReadTotals, ReadPrevious,
                ReadLatest, Read, WriteCache, Show, Dismiss, Confirm, Acknowledge, Refuse, Clear
  <1>4. u = t
    BY <1>3, OtherPage
  <1>5. ~ Get(t)
    BY DEF Get, Ask, AdvanceGuard, ReadMark, Hit, Build, ReadTotals, ReadPrevious, ReadLatest,
           Read, WriteCache, Show
  <1>6. ~ Dismiss(t) /\ ~ Confirm(t) /\ ~ Clear(t)
    BY DEF Dismiss, Confirm, Clear
  <1>7. ~ Refuse(t)
    <2> SUFFICES ASSUME Refuse(t) PROVE FALSE
      OBVIOUS
    <2>1. tab'[t] = [tab[t] EXCEPT !.at = "shown"]
      BY ThisPage DEF Refuse
    <2>2. tab[t] \in Panels
      BY WorldNow
    <2>3. tab'[t].at = "shown"
      BY <2>1, <2>2 DEF Panels
    <2> QED
      BY <2>3
  <1> QED
    BY <1>2, <1>4, <1>5, <1>6, <1>7 DEF Ack

\* Confirming a summary never moves the mark back and sets aside nothing the panel did not
\* show: what lies between the old mark and the new one is within the interval of the panel,
\* and is among its lines or was written after it was summed (the two welcome-back routes,
\* for any number of pages that confirm any summary at any time).
THEOREM NothingConfirmedUnseen == SummarySpec => ConfirmedWasShown
  <1>1. SummaryIInv /\ [SummaryNext]_summaryVars =>
          [\A t \in Tabs : tab[t].at = "confirming" /\ tab'[t].at = "confirmed" =>
             /\ lastSummary <= lastSummary'
             /\ \A i \in DOMAIN books.ledger :
                   lastSummary < books.ledger[i].at /\ books.ledger[i].at <= lastSummary' =>
                       /\ books.ledger[i].at <= tab[t].summary.to
                       /\ i \in tab[t].summary.lines \/ i > tab[t].summary.seen]_summaryVars
    <2> SUFFICES ASSUME SummaryIInv, [SummaryNext]_summaryVars, NEW t \in Tabs,
                        tab[t].at = "confirming", tab'[t].at = "confirmed"
                 PROVE  /\ lastSummary <= lastSummary'
                        /\ \A i \in DOMAIN books.ledger :
                              lastSummary < books.ledger[i].at
                              /\ books.ledger[i].at <= lastSummary' =>
                                  /\ books.ledger[i].at <= tab[t].summary.to
                                  /\ \/ i \in tab[t].summary.lines
                                     \/ i > tab[t].summary.seen
      OBVIOUS
    <2>1. Acknowledge(t)
      BY OnlyAcknowledge
    <2>2. PICK s, l, m, left : /\ BuildIs(s, l, m, left) /\ s = tab[t].summary
                               /\ l = books.ledger /\ m = lastSummary /\ left = tab[t].left
      BY BuildOf
    <2>3. tab[t] \in Panels /\ tab[t].now <= game /\ tab[t].now \in Instants
      BY WorldNow, PanelParts DEF PageRight
    <2>4. s \in Summaries /\ s.to \in Instants /\ s.from \in Nat /\ s.to \in Nat /\ s.seen \in Nat
      BY <2>2, SummaryParts DEF BuildIs, Summaries
    <2>5. PICK m1 \in Nat : m1 = lastSummary' /\ m <= m1 /\ (m1 = m \/ m1 <= s.to)
      BY <2>1, <2>2, <2>3, <2>4, MarkRises, InstantsAre DEF Acknowledge
    <2>6. ASSUME NEW i \in DOMAIN books.ledger,
                 lastSummary < books.ledger[i].at, books.ledger[i].at <= lastSummary'
          PROVE  books.ledger[i].at <= s.to /\ (i \in s.lines \/ i > s.seen)
      <3>1. l \in Seq(Entries) /\ i \in 1 .. Len(l)
        BY <2>2, <2>6 DEF BuildIs
      <3>2. PICK a \in Nat : a = l[i].at
        <4>1. l[i] \in Entries
          BY <3>1, ElementOfSeq
        <4> QED
          BY <4>1, InstantsAre DEF Entries
      <3>3. m < a /\ a <= m1 /\ m \in Nat /\ s.from <= m
        BY <2>2, <2>5, <2>6, <3>2 DEF BuildIs, SummaryRight
      <3>4. s.from < a /\ a <= s.to
        BY <2>4, <2>5, <3>3, SMT
      <3>5. s.lines = {j \in 1 .. s.seen : s.from < l[j].at /\ l[j].at <= s.to}
        BY <2>2 DEF BuildIs, SummaryRight, TotalsOK, Window
      <3>6. i \in 1 .. s.seen \/ i > s.seen
        BY <2>4, <3>1, SMT
      <3> QED
        BY <2>2, <3>2, <3>4, <3>5, <3>6
    <2> QED
      BY <2>2, <2>5, <2>6
  <1> QED
    BY SummaryInductive, <1>1, PTL DEF SummarySpec, ConfirmedWasShown

\* A ledger in which no entry up to the end of the summary is out of order or was written
\* after it was summed.
Calm(l, n, s) ==
    \A i \in 1 .. n : l[i].at <= s.to =>
        i <= s.seen /\ \A j \in 1 .. n : j < i => ~ (l[j].at > l[i].at)

LEMMA CalmIs ==
    ASSUME NEW n \in Nat, n = Len(books.ledger), books.ledger \in Seq(Entries),
           NEW s \in Summaries, ~ Disturbed(s)
    PROVE  Calm(books.ledger, n, s)
  <1> SUFFICES ASSUME NEW i \in 1 .. n, books.ledger[i].at <= s.to
               PROVE  /\ i <= s.seen
                      /\ \A j \in 1 .. n : j < i => ~ (books.ledger[j].at > books.ledger[i].at)
    BY DEF Calm
  <1>1. i \in DOMAIN books.ledger
    OBVIOUS
  <1>2. i \notin Behind /\ ~ (i > s.seen)
    BY <1>1 DEF Disturbed
  <1>3. i <= s.seen
    BY <1>2, SummaryParts, SMT
  <1>4. \A j \in 1 .. i - 1 : ~ (books.ledger[j].at > books.ledger[i].at)
    BY <1>1, <1>2 DEF Behind
  <1>5. \A j \in 1 .. n : j < i => j \in 1 .. i - 1
    BY SMT
  <1> QED
    BY <1>3, <1>4, <1>5

\* The instants of a ledger, by position.
Dated(l, n, a) == n \in Nat /\ a \in [1 .. n -> Nat] /\ \A i \in 1 .. n : l[i].at = a[i]

LEMMA LedgerDates ==
    ASSUME NEW l, l \in Seq(Entries)
    PROVE  \E n, a : n = Len(l) /\ Dated(l, n, a)
  <1>1. PICK n \in Nat : n = Len(l)
    OBVIOUS
  <1>2. \A i \in 1 .. n : l[i].at \in Nat
    <2> TAKE i \in 1 .. n
    <2>1. l[i] \in Entries
      BY <1>1, ElementOfSeq
    <2> QED
      BY <2>1, InstantsAre DEF Entries
  <1>3. PICK a : a = [i \in 1 .. n |-> l[i].at]
    OBVIOUS
  <1>4. Dated(l, n, a)
    BY <1>2, <1>3 DEF Dated
  <1> QED
    BY <1>1, <1>4

\* In a calm ledger the entries up to the first balance are those before the summary, and the
\* entries up to the second are those and its lines.
LEMMA CalmParts ==
    ASSUME NEW l, NEW n, NEW a, Dated(l, n, a), n = Len(l), NEW s \in Summaries,
           s.from <= s.to, TotalsOK(l, s), PreviousOK(l, s), LatestOK(l, s), Calm(l, n, s)
    PROVE  /\ \A i \in 1 .. n : i <= s.previous <=> a[i] <= s.from
           /\ s.lines = {i \in 1 .. n : s.from < a[i] /\ a[i] <= s.to}
           /\ s.latest > 0 => \A i \in 1 .. n : i <= s.latest <=> i <= s.previous \/ i \in s.lines
           /\ s.latest = 0 => s.lines = {}
  <1>1. PICK from \in Nat, to \in Nat, p \in Nat, q \in Nat, e \in Nat :
              /\ from = s.from /\ to = s.to /\ p = s.previous /\ q = s.latest /\ e = s.seen
    BY SummaryParts
  <1>2. n \in Nat /\ a \in [1 .. n -> Nat] /\ from <= to /\ p <= n /\ q <= n /\ e <= n
    BY <1>1 DEF Dated, TotalsOK, PreviousOK, LatestOK
  <1>3. \A i \in 1 .. n : l[i].at = a[i]
    BY DEF Dated
  <1>4. \A i \in 1 .. e : i \in 1 .. n
    BY <1>2, SMT
  <1>5. \A i \in 1 .. n : a[i] <= to => i <= e /\ \A j \in 1 .. n : j < i => ~ (a[j] > a[i])
    BY <1>1, <1>3 DEF Calm
  <1>6. \A i \in 1 .. n : a[i] \in Nat
    BY <1>2
  <1>7. p > 0 => p \in 1 .. n /\ a[p] <= from
    <2> HAVE p > 0
    <2>1. p \in 1 .. n
      BY <1>2, SMT
    <2>2. l[p].at <= from
      BY <1>1 DEF PreviousOK
    <2> QED
      BY <1>3, <2>1, <2>2
  <1>8. \A i \in 1 .. e : a[i] <= from => i <= p
    BY <1>1, <1>3, <1>4 DEF PreviousOK
  <1>9. \A i \in 1 .. n : i <= p <=> a[i] <= from
    <2> TAKE i \in 1 .. n
    <2>1. ASSUME i <= p PROVE a[i] <= from
      <3>1. p > 0 /\ p \in 1 .. n
        BY <1>2, <2>1, SMT
      <3>2. a[p] <= from /\ a[p] \in Nat /\ a[i] \in Nat
        BY <1>6, <1>7, <3>1
      <3>3. CASE i = p
        BY <3>2, <3>3
      <3>4. CASE i # p
        <4>1. i < p /\ a[p] <= to
          BY <1>2, <2>1, <3>2, <3>4, SMT
        <4>2. ~ (a[i] > a[p])
          BY <1>5, <3>1, <4>1
        <4> QED
          BY <3>2, <4>2, SMT
      <3> QED
        BY <3>3, <3>4
    <2>2. ASSUME a[i] <= from PROVE i <= p
      <3>1. a[i] <= to /\ a[i] \in Nat
        BY <1>2, <1>6, <2>2, SMT
      <3>2. i \in 1 .. e
        BY <1>2, <1>5, <3>1, SMT
      <3> QED
        BY <1>8, <2>2, <3>2
    <2> QED
      BY <2>1, <2>2
  <1>10. s.lines = {i \in 1 .. e : from < a[i] /\ a[i] <= to}
    BY <1>1, <1>3, <1>4 DEF TotalsOK, Window
  <1>11. \A i \in 1 .. n : a[i] <= to => i \in 1 .. e
    BY <1>2, <1>5, SMT
  <1>12. s.lines = {i \in 1 .. n : from < a[i] /\ a[i] <= to}
    BY <1>4, <1>10, <1>11
  <1>13. \A i \in s.lines : i <= q
    BY <1>1 DEF TotalsOK, LatestOK
  <1>14. q > 0 => q \in 1 .. n /\ from < a[q] /\ a[q] <= to
    <2> HAVE q > 0
    <2>1. q \in 1 .. n
      BY <1>2, SMT
    <2>2. from < l[q].at /\ l[q].at <= to
      BY <1>1 DEF LatestOK
    <2> QED
      BY <1>3, <2>1, <2>2
  <1>15. q > 0 => \A i \in 1 .. n : i <= q <=> i <= p \/ i \in s.lines
    <2> SUFFICES ASSUME q > 0, NEW i \in 1 .. n PROVE i <= q <=> i <= p \/ i \in s.lines
      OBVIOUS
    <2>1. q \in 1 .. n /\ from < a[q] /\ a[q] <= to /\ a[q] \in Nat /\ a[i] \in Nat
      BY <1>6, <1>14
    <2>2. ASSUME i <= q PROVE i <= p \/ i \in s.lines
      <3>1. i < q => ~ (a[i] > a[q])
        BY <1>5, <2>1
      <3>2. a[i] <= to
        <4>1. CASE i = q
          BY <2>1, <4>1
        <4>2. CASE i # q
          BY <2>1, <2>2, <3>1, <4>2, SMT
        <4> QED
          BY <4>1, <4>2
      <3>3. CASE a[i] <= from
        BY <1>9, <3>3
      <3>4. CASE ~ (a[i] <= from)
        <4>1. from < a[i]
          BY <2>1, <3>4, SMT
        <4> QED
          BY <1>12, <3>2, <4>1
      <3> QED
        BY <3>3, <3>4
    <2>3. ASSUME i <= p PROVE i <= q
      <3>1. a[i] <= from
        BY <1>9, <2>3
      <3>2. a[i] <= to /\ a[q] > a[i]
        BY <1>2, <2>1, <3>1, SMT
      <3>3. ~ (q < i)
        BY <1>5, <2>1, <3>2
      <3> QED
        BY <2>1, <3>3, SMT
    <2> QED
      BY <1>13, <2>2, <2>3
  <1>16. q = 0 => s.lines = {}
    <2> SUFFICES ASSUME q = 0, NEW i \in s.lines PROVE FALSE
      OBVIOUS
    <2>1. i <= 0 /\ i \in 1 .. n
      BY <1>12, <1>13
    <2> QED
      BY <2>1, SMT
  <1> QED
    BY <1>1, <1>9, <1>12, <1>15, <1>16

\* The sum and the two balances of a summary agree (buildEconomy), for every ledger in which
\* no entry within the summary was written after it was summed or after an entry dated
\* later: three statements outside any transaction, in either order.
THEOREM SummariesReconcile == SummarySpec => []Reconciles
  <1>1. SummaryIInv => Reconciles
    <2> SUFFICES ASSUME SummaryIInv, NEW t \in Tabs, tab[t].at = "shown",
                        ~ Disturbed(tab[t].summary)
                 PROVE  Agrees(tab[t].summary)
      BY DEF Reconciles
    <2>1. PICK s, l, m, left : /\ BuildIs(s, l, m, left) /\ s = tab[t].summary
                               /\ l = books.ledger /\ m = lastSummary /\ left = tab[t].left
      BY BuildOf
    <2>2. left = {}
      BY <2>1, NothingLeft
    <2>3. s \in Summaries /\ l \in Seq(Entries) /\ s.from <= s.to
          /\ TotalsOK(l, s) /\ PreviousOK(l, s) /\ LatestOK(l, s)
      BY <2>1, <2>2 DEF BuildIs, SummaryRight
    <2>4. PICK n, a : n = Len(l) /\ Dated(l, n, a)
      BY <2>3, LedgerDates
    <2>5. n \in Nat
      BY <2>4 DEF Dated
    <2>6. Calm(l, n, s)
      BY <2>1, <2>3, <2>4, <2>5, CalmIs
    <2>7. /\ \A i \in 1 .. n : i <= s.previous <=> a[i] <= s.from
          /\ s.lines = {i \in 1 .. n : s.from < a[i] /\ a[i] <= s.to}
          /\ s.latest > 0 => \A i \in 1 .. n : i <= s.latest <=> i <= s.previous \/ i \in s.lines
          /\ s.latest = 0 => s.lines = {}
      BY <2>3, <2>4, <2>6, CalmParts
    <2>8. PICK p \in Nat, q \in Nat : p = s.previous /\ q = s.latest /\ p <= n /\ q <= n
      BY <2>3, <2>4, SummaryParts DEF PreviousOK, LatestOK
    <2>9. PICK P, L : P = 1 .. p /\ L = s.lines
      OBVIOUS
    <2>10. \A i \in P : i \in 1 .. n /\ i <= p
      BY <2>5, <2>8, <2>9, SMT
    <2>11. P \in SUBSET (1 .. Len(l)) /\ L \in SUBSET (1 .. Len(l))
      BY <2>4, <2>7, <2>9, <2>10
    <2>12. P \cap L = {}
      <3> SUFFICES ASSUME NEW i \in 1 .. n, i \in P, i \in L PROVE FALSE
        BY <2>10
      <3>1. a[i] <= s.from /\ s.from < a[i]
        BY <2>7, <2>8, <2>9, <2>10
      <3>2. a[i] \in Nat /\ s.from \in Nat
        BY <2>3, <2>4, SummaryParts DEF Dated
      <3> QED
        BY <3>1, <3>2, SMT
    <2>13. SumOf(l, P \cup L) = SumOf(l, P) + SumOf(l, L) /\ SumOf(l, P) \in Int
      BY <2>3, <2>11, <2>12, SumOfTwo
    <2>14. BalanceBefore(s) = SumOf(l, P) /\ s.net = SumOf(l, L)
      BY <2>1, <2>3, <2>8, <2>9 DEF BalanceBefore, Sum, SumOf, TotalsOK
    <2>15. CASE q = 0
      <3>1. SumOf(l, L) = 0
        BY <2>3, <2>7, <2>8, <2>9, <2>15, SumOfNone
      <3>2. PICK v \in Int : v = SumOf(l, P)
        BY <2>13
      <3>3. v + 0 = v
        BY SMT
      <3>4. BalanceAfter(s) = BalanceBefore(s)
        BY <2>8, <2>15 DEF BalanceAfter
      <3> QED
        BY <2>1, <2>14, <3>1, <3>2, <3>3, <3>4 DEF Agrees
    <2>16. CASE q # 0
      <3>1. q > 0
        BY <2>16, SMT
      <3>2. \A i : i \in 1 .. q <=> i \in P \cup L
        <4> TAKE i
        <4>1. \A j \in 1 .. n : j <= q <=> j <= p \/ j \in L
          BY <2>7, <2>8, <2>9, <3>1
        <4>2. i \in 1 .. q => i \in 1 .. n /\ i <= q
          BY <2>5, <2>8, SMT
        <4>3. i \in 1 .. n /\ i <= q => i \in 1 .. q
          BY <2>8, SMT
        <4>4. i \in 1 .. n /\ i <= p => i \in P
          BY <2>8, <2>9, SMT
        <4>5. i \in L => i \in 1 .. n
          BY <2>7, <2>9
        <4> QED
          BY <2>10, <4>1, <4>2, <4>3, <4>4, <4>5
      <3>3. 1 .. q = P \cup L
        BY <3>2
      <3>4. Sum(1 .. q) = SumOf(l, 1 .. q)
        BY <2>1 DEF Sum, SumOf
      <3>5. BalanceAfter(s) = SumOf(l, P \cup L)
        BY <2>8, <2>16, <3>3, <3>4 DEF BalanceAfter
      <3> QED
        BY <2>1, <2>13, <2>14, <3>5 DEF Agrees
    <2> QED
      BY <2>15, <2>16
  <1> QED
    BY SummaryInductive, <1>1, PTL
=============================================================================
