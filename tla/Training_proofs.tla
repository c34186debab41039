--------------------------- MODULE Training_proofs ---------------------------
(***************************************************************************)
(* For any number of workers, rows and epochs: every step of the weights   *)
(* counts each row once, no goroutine of an epoch outlives it, and Train   *)
(* implements BatchDescent.                                                *)
(***************************************************************************)
EXTENDS Training, SequenceTheorems, FiniteSetTheorems, WellFoundedInduction, TLAPS

USE NodeIdsAssumption, MaxRowsAssumption, EpochsAssumption, NoneAssumption

-----------------------------------------------------------------------------
(* The division of the rows.  DivisionFacts and OffsetFacts are those of    *)
(* Datasets_proofs, which is about the loop; here it is its result.         *)

\* What division with remainder gives.
LEMMA DivisionFacts ==
    ASSUME NEW t \in Nat, NEW c \in Nat \ {0}, c <= t
    PROVE  /\ t \div c \in Nat \ {0}
           /\ t % c \in 0 .. c - 1
           /\ t = c * (t \div c) + (t % c)
<1>1. t \div c \in Int /\ t % c \in 0 .. c - 1
    BY SMT
<1>2. t = c * (t \div c) + (t % c)
    BY <1>1, SMT
<1>3. t \div c >= 1
    <2>1. SUFFICES ASSUME t \div c <= 0 PROVE FALSE
        BY <1>1
    <2>2. c * (t \div c) <= 0
        BY <1>1, <2>1
    <2> QED
        BY <1>1, <1>2, <2>2
<1> QED
    BY <1>1, <1>2, <1>3

\* Where the closed form puts the first shard, the next one, and the end.
LEMMA OffsetFacts ==
    ASSUME NEW t \in Nat \ {0}, NEW n \in Nat \ {0}, NEW k \in 0 .. Cap(t, n) - 1
    PROVE  /\ Offset(t, n, 0) = 0
           /\ Offset(t, n, k) \in Nat
           /\ Offset(t, n, k + 1) = Offset(t, n, k) + Base(t, n)
                                        + (IF k < Remainder(t, n) THEN 1 ELSE 0)
           /\ Offset(t, n, k + 1) <= t
           /\ Offset(t, n, Cap(t, n)) = t
<1> DEFINE c == Cap(t, n)
           b == Base(t, n)
           m == Remainder(t, n)
<1>1. c \in Nat \ {0} /\ c <= t
    BY DEF Cap
<1>2. b \in Nat \ {0} /\ m \in 0 .. c - 1 /\ t = c * b + m
    BY <1>1, DivisionFacts DEF Base, Remainder
<1>3. Cap(m, 0) = 0 /\ Cap(m, c) = m
    BY <1>1, <1>2 DEF Cap
<1>4. Cap(m, k) \in Nat /\ Cap(m, k + 1) = Cap(m, k) + (IF k < m THEN 1 ELSE 0)
    BY <1>1, <1>2 DEF Cap
<1> HIDE DEF c, b, m
<1>5. k * b \in Nat /\ (k + 1) * b = k * b + b /\ 0 * b = 0 /\ c * b \in Nat
    BY <1>1, <1>2 DEF c
<1>6. (k + 1) * b <= c * b
    <2>1. (c - (k + 1)) * b >= 0
        BY <1>1, <1>2 DEF c
    <2>2. (c - (k + 1)) * b = c * b - (k + 1) * b
        BY <1>1, <1>2 DEF c
    <2> QED
        BY <1>1, <1>2, <1>5, <2>1, <2>2
<1>7. Cap(m, k + 1) <= m
    BY <1>2 DEF Cap
<1>8. \A j : Offset(t, n, j) = j * b + Cap(m, j)
    BY DEF Offset, b, m
<1> QED
    BY <1>2, <1>3, <1>4, <1>5, <1>6, <1>7, <1>8 DEF c, b, m

\* Later shards start later.
LEMMA OffsetMonotone ==
    ASSUME NEW t \in Nat \ {0}, NEW n \in Nat \ {0},
           NEW j \in 0 .. Cap(t, n), NEW k \in 0 .. Cap(t, n), j <= k
    PROVE  /\ Offset(t, n, j) \in Nat /\ Offset(t, n, k) \in Nat
           /\ Offset(t, n, j) <= Offset(t, n, k)
<1> DEFINE c == Cap(t, n)
           b == Base(t, n)
           m == Remainder(t, n)
<1>1. c \in Nat \ {0} /\ c <= t
    BY DEF Cap
<1>2. b \in Nat \ {0} /\ m \in 0 .. c - 1
    BY <1>1, DivisionFacts DEF Base, Remainder
<1>3. Cap(m, j) \in Nat /\ Cap(m, k) \in Nat /\ Cap(m, j) <= Cap(m, k)
    BY <1>1, <1>2 DEF Cap
<1>4. Offset(t, n, j) = j * b + Cap(m, j) /\ Offset(t, n, k) = k * b + Cap(m, k)
    BY DEF Offset
<1> HIDE DEF c, b, m
<1>5. j \in Nat /\ k \in Nat
    BY <1>1 DEF c
<1>6. j * b \in Nat /\ k * b \in Nat /\ (k - j) * b \in Nat /\ k * b = j * b + (k - j) * b
    BY <1>2, <1>5
<1> QED
    BY <1>3, <1>4, <1>6

\* Every row lies between the start of a shard and that of the next: in one of the first m
\* shards, which have b + 1 rows, or in a later one, which has b.
LEMMA RowHasPlace ==
    ASSUME NEW t \in Nat \ {0}, NEW n \in Nat \ {0}, NEW r \in 0 .. t - 1
    PROVE  \E k \in 1 .. Cap(t, n) : Offset(t, n, k - 1) <= r /\ r < Offset(t, n, k)
<1> DEFINE c == Cap(t, n)
           b == Base(t, n)
           m == Remainder(t, n)
<1>1. c \in Nat \ {0} /\ c <= t
    BY DEF Cap
<1>2. b \in Nat \ {0} /\ m \in 0 .. c - 1 /\ t = c * b + m
    BY <1>1, DivisionFacts DEF Base, Remainder
<1>3. \A k \in 0 .. c : Offset(t, n, k) = k * b + (IF k > m THEN m ELSE k)
    BY <1>1, <1>2 DEF Offset, Cap
<1> HIDE DEF c, b, m
<1>4. CASE r < m * (b + 1)
    <2> DEFINE q == r \div (b + 1)
    <2>1. q \in Nat /\ q * (b + 1) <= r /\ r < (q + 1) * (b + 1)
        <3>1. q \in Int /\ r % (b + 1) \in 0 .. b
            BY <1>2, SMT
        <3>2. r = (b + 1) * q + (r % (b + 1))
            BY <1>2, <3>1, SMT
        <3> HIDE DEF q
        <3>3. q >= 0
            <4> SUFFICES ASSUME q <= -1 PROVE FALSE
                BY <3>1
            <4>1. (b + 1) * q <= -(b + 1)
                BY <1>2, <3>1
            <4> QED
                BY <1>2, <3>1, <3>2, <4>1
        <3>4. (q + 1) * (b + 1) = (b + 1) * q + (b + 1) /\ q * (b + 1) = (b + 1) * q
            BY <1>2, <3>1
        <3>5. (b + 1) * q \in Int
            BY <1>2, <3>1
        <3> QED
            BY <1>2, <3>1, <3>2, <3>3, <3>4, <3>5
    <2> HIDE DEF q
    <2>2. q < m
        <3> SUFFICES ASSUME m <= q PROVE FALSE
            BY <1>2, <2>1
        <3>1. m * (b + 1) <= q * (b + 1)
            BY <1>2, <2>1
        <3> QED
            BY <1>2, <1>4, <2>1, <3>1
    <2>3. /\ Offset(t, n, q) = q * (b + 1)
          /\ Offset(t, n, q + 1) = (q + 1) * (b + 1)
        BY <1>1, <1>2, <1>3, <2>1, <2>2
    <2>4. q + 1 \in 1 .. c /\ (q + 1) - 1 = q
        BY <1>1, <1>2, <2>1, <2>2
    <2> QED
        BY <2>1, <2>3, <2>4 DEF c
<1>5. CASE m * (b + 1) <= r
    <2> DEFINE s == r - m * (b + 1)
               q == s \div b
    <2>1. s \in Nat /\ r = s + m * (b + 1)
        BY <1>2, <1>5
    <2> HIDE DEF s
    <2>2. q \in Nat /\ q * b <= s /\ s < (q + 1) * b
        <3>1. q \in Int /\ s % b \in 0 .. b - 1
            BY <1>2, <2>1, SMT
        <3>2. s = b * q + (s % b)
            BY <1>2, <2>1, <3>1, SMT
        <3> HIDE DEF q
        <3>3. q >= 0
            <4> SUFFICES ASSUME q <= -1 PROVE FALSE
                BY <3>1
            <4>1. b * q <= -b
                BY <1>2, <3>1
            <4> QED
                BY <1>2, <2>1, <3>1, <3>2, <4>1
        <3>4. (q + 1) * b = b * q + b /\ q * b = b * q /\ b * q \in Int
            BY <1>2, <3>1
        <3> QED
            BY <1>2, <2>1, <3>1, <3>2, <3>3, <3>4
    <2> HIDE DEF q
    <2>3. q < c - m
        <3> SUFFICES ASSUME c - m <= q PROVE FALSE
            BY <1>1, <1>2, <2>2
        <3>1. (c - m) * b <= q * b
            BY <1>1, <1>2, <2>2
        <3>2. (c - m) * b = c * b - m * b /\ m * (b + 1) = m * b + m
            BY <1>1, <1>2
        <3>3. c * b \in Int /\ m * b \in Int /\ q * b \in Int
            BY <1>1, <1>2, <2>2
        <3> QED
            BY <1>1, <1>2, <2>1, <2>2, <3>1, <3>2, <3>3
    <2>4. /\ Offset(t, n, m + q) = (m + q) * b + m
          /\ Offset(t, n, m + q + 1) = (m + q + 1) * b + m
        <3>1. m + q \in 0 .. c /\ m + q + 1 \in 0 .. c /\ m + q >= m /\ m + q + 1 > m
            BY <1>1, <1>2, <2>2, <2>3
        <3> QED
            BY <1>2, <1>3, <3>1
    <2>5. /\ (m + q) * b = m * b + q * b /\ (m + q + 1) * b = m * b + (q + 1) * b
          /\ m * (b + 1) = m * b + m
          /\ m * b \in Int /\ q * b \in Int /\ (q + 1) * b \in Int
        BY <1>2, <2>2
    <2>6. Offset(t, n, m + q) <= r /\ r < Offset(t, n, m + q + 1)
        BY <1>2, <2>1, <2>2, <2>4, <2>5
    <2>7. m + q + 1 \in 1 .. c /\ (m + q + 1) - 1 = m + q
        BY <1>1, <1>2, <2>2, <2>3
    <2> QED
        BY <2>6, <2>7 DEF c
<1> QED
    BY <1>2, <1>4, <1>5

\* Every row is in exactly one shard.
LEMMA ShardsPartition ==
    ASSUME NEW t \in Nat \ {0}, NEW n \in Nat \ {0}
    PROVE  Partitions(Shards(t, n), t)
<1> DEFINE c == Cap(t, n)
           O(k) == Offset(t, n, k)
<1>1. c \in Nat \ {0}
    BY DEF Cap
<1>2. DOMAIN Shards(t, n) = 1 .. c
      /\ \A k \in 1 .. c : Shards(t, n)[k] = [start |-> O(k - 1), end |-> O(k)]
    BY DEF Shards
<1>3. O(0) = 0 /\ O(c) = t
    BY <1>1, OffsetFacts
<1>4. \A j, k \in 0 .. c : O(j) \in Nat /\ (j <= k => O(j) <= O(k))
    BY OffsetMonotone
<1> HIDE DEF c, O
<1> SUFFICES ASSUME NEW r \in 0 .. t - 1
             PROVE  \E k \in 1 .. c : Holding(Shards(t, n), r) = {k}
    BY <1>2 DEF Partitions
<1>5. PICK k \in 1 .. c : O(k - 1) <= r /\ r < O(k)
    BY RowHasPlace DEF c, O
<1>6. ASSUME NEW j \in 1 .. c, O(j - 1) <= r, r < O(j) PROVE j = k
    <2>1. CASE j < k
        <3>1. O(j) <= O(k - 1) /\ O(j) \in Nat /\ O(k - 1) \in Nat
            BY <1>1, <1>4, <2>1
        <3> QED
            BY <1>5, <1>6, <3>1
    <2>2. CASE k < j
        <3>1. O(k) <= O(j - 1) /\ O(k) \in Nat /\ O(j - 1) \in Nat
            BY <1>1, <1>4, <2>2
        <3> QED
            BY <1>5, <1>6, <3>1
    <2> QED
        BY <1>1, <2>1, <2>2
<1>7. \A j \in 1 .. c : j \in Holding(Shards(t, n), r) <=> O(j - 1) <= r /\ r < O(j)
    BY <1>2 DEF Holding
<1>8. Holding(Shards(t, n), r) \subseteq 1 .. c
    BY <1>2 DEF Holding
<1> QED
    BY <1>5, <1>6, <1>7, <1>8

-----------------------------------------------------------------------------
(* The inductive invariant.                                                 *)

\* Train knows how many rows there are before the first epoch, and asks somebody for it.
ProgressInv ==
    /\ status = "init" => nodes # <<>>
    /\ status \in {"new", "init"} => batch = None
    /\ status \in {"epoch", "shards"} => rows > 0
    /\ weights = epoch - 1

\* The shards of an epoch under way are those of its nodes.
DivisionInv ==
    status = "shards" => /\ active # <<>> /\ shards = Shards(rows, Len(active))
                         /\ epoch <= Epochs

\* Its goroutines have the weights of this epoch, and a finished one has left its own gradient.
WorkInv ==
    status = "shards" =>
        \A k \in DOMAIN shards :
            /\ jobs[k].weights = weights
            /\ jobs[k].at = "done" =>
                gradients[k] = [start |-> shards[k].start, end |-> shards[k].end, weights |-> weights]

IInv == TypeOK /\ ProgressInv /\ DivisionInv /\ WorkInv /\ NoStragglers /\ EveryRowOnce

-----------------------------------------------------------------------------
(* Helpers.                                                                 *)

\* Functions on an interval are sequences, and elements of sequences are of their type.
LEMMA SequenceOf ==
    ASSUME NEW S, NEW n \in Nat, NEW f \in [1 .. n -> S]
    PROVE  f \in Seq(S)
    BY IsASeq

\* A shard of rows is a range of the type that Training works with.
LEMMA ShardType ==
    ASSUME TypeOK, NEW k \in DOMAIN shards
    PROVE  shards[k] \in [start : Nat, end : Nat] /\ shards[k].start \in Nat /\ shards[k].end \in Nat
<1>1. shards \in Seq([start : Nat, end : Nat])
    BY DEF TypeOK
<1>2. k \in 1 .. Len(shards)
    BY <1>1, LenProperties
<1>3. shards[k] \in [start : Nat, end : Nat]
    BY <1>1, <1>2, ElementOfSeq
<1> QED
    BY <1>3

\* What healthyNodes returns is a sequence of nodes.
LEMMA SnapshotFacts ==
    ASSUME NEW s \in Snapshots
    PROVE  s \in Seq(NodeIds) /\ (s # <<>> => Len(s) \in Nat \ {0})
<1>1. PICK H \in SUBSET NodeIds : s \in [1 .. Cardinality(H) -> H]
    BY DEF Snapshots
<1>2. Cardinality(H) \in Nat
    BY FS_Subset, FS_CardinalityType
<1>3. s \in [1 .. Cardinality(H) -> NodeIds]
    BY <1>1
<1>4. s \in Seq(NodeIds)
    BY <1>2, <1>3, IsASeq
<1> QED
    BY <1>4, EmptySeq

\* The shards of t rows for n nodes are a sequence of ranges, at most one per node.
LEMMA ShardsType ==
    ASSUME NEW t \in Nat \ {0}, NEW n \in Nat \ {0}
    PROVE  /\ Shards(t, n) \in Seq([start : Nat, end : Nat])
           /\ DOMAIN Shards(t, n) = 1 .. Cap(t, n)
           /\ DOMAIN Shards(t, n) \subseteq 1 .. n
<1>1. Cap(t, n) \in Nat \ {0} /\ Cap(t, n) <= n
    BY DEF Cap
<1>2. \A k \in 0 .. Cap(t, n) : Offset(t, n, k) \in Nat
    BY OffsetMonotone
<1>3. ASSUME NEW k \in 1 .. Cap(t, n)
      PROVE  [start |-> Offset(t, n, k - 1), end |-> Offset(t, n, k)] \in [start : Nat, end : Nat]
    <2>1. k - 1 \in 0 .. Cap(t, n) /\ k \in 0 .. Cap(t, n)
        BY <1>1
    <2> QED
        BY <1>2, <2>1
<1>4. Shards(t, n) \in [1 .. Cap(t, n) -> [start : Nat, end : Nat]]
    BY <1>3 DEF Shards
<1>5. Shards(t, n) \in Seq([start : Nat, end : Nat])
    <2> DEFINE R == [start : Nat, end : Nat]
               f == Shards(t, n)
    <2>1. f \in [1 .. Cap(t, n) -> R] /\ Cap(t, n) \in Nat
        BY <1>1, <1>4
    <2> HIDE DEF R, f
    <2>2. f \in Seq(R)
        BY <2>1, SequenceOf
    <2> QED
        BY <2>2 DEF R, f
<1> QED
    BY <1>1, <1>4, <1>5

\* When all gradients of an epoch are there, each row is counted once.
LEMMA CountedOnce ==
    ASSUME IInv, status = "shards", \A k \in DOMAIN shards : jobs[k].at = "done",
           NEW r \in 0 .. rows - 1
    PROVE  Counted(r) = 1
<1>1. rows \in Nat \ {0} /\ Len(active) \in Nat \ {0} /\ shards = Shards(rows, Len(active))
    BY EmptySeq DEF IInv, TypeOK, ProgressInv, DivisionInv
<1>2. PICK k \in DOMAIN shards : Holding(shards, r) = {k}
    BY <1>1, ShardsPartition DEF Partitions
<1>3. DOMAIN gradients = DOMAIN shards
    BY DEF IInv, TypeOK
<1>4. ASSUME NEW j \in DOMAIN shards
      PROVE  /\ gradients[j] # None /\ gradients[j].weights = weights
             /\ gradients[j].start = shards[j].start /\ gradients[j].end = shards[j].end
    <2>1. gradients[j] = [start |-> shards[j].start, end |-> shards[j].end, weights |-> weights]
        BY DEF IInv, WorkInv
    <2>2. shards[j].start \in Nat /\ shards[j].end \in Nat /\ weights \in 0 .. Epochs
        BY ShardType DEF IInv, TypeOK
    <2>3. gradients[j] \in Gradients
        BY <2>1, <2>2 DEF Gradients
    <2> QED
        BY <2>1, <2>3
<1>5. {j \in DOMAIN gradients : /\ gradients[j] # None /\ gradients[j].weights = weights
                                /\ gradients[j].start <= r /\ r < gradients[j].end}
          = Holding(shards, r)
    BY <1>3, <1>4 DEF Holding
<1> QED
    BY <1>2, <1>5, FS_Singleton DEF Counted

-----------------------------------------------------------------------------
(* The number of rows that an epoch reports.  The fold of CountOfAll is a   *)
(* function defined by recursion on the subsets of the shards; the number   *)
(* of rows that lie in the shards of a subset satisfies the same equation,  *)
(* because shards do not overlap.                                           *)

\* A sum over the subsets of S: each set's is that of the set without one element, plus L of it.
IsSum(f, S, L) ==
    f = [s \in SUBSET S |->
            IF s = {} THEN 0
            ELSE L[CHOOSE x \in s : TRUE] + f[s \ {CHOOSE x \in s : TRUE}]]

\* Two such sums are equal: a smallest set on which they differ cannot exist.
LEMMA SumIsUnique ==
    ASSUME NEW S, IsFiniteSet(S), NEW L, NEW f, NEW g, IsSum(f, S, L), IsSum(g, S, L)
    PROVE  f[S] = g[S]
<1> DEFINE Bad == {s \in SUBSET S : f[s] # g[s]}
<1> SUFFICES ASSUME Bad # {} PROVE FALSE
    OBVIOUS
<1>1. IsWellFoundedOn(StrictSubsetOrdering(S), SUBSET S)
    BY FS_StrictSubsetOrderingWellFounded, FS_FiniteSubsetsOfFinite
<1>2. Bad \subseteq SUBSET S
    OBVIOUS
<1>3. PICK s \in Bad : \A t \in Bad : ~(<<t, s>> \in StrictSubsetOrdering(S))
    BY <1>1, <1>2, WFMin
<1>4. CASE s = {}
    BY <1>4 DEF IsSum
<1>5. CASE s # {}
    <2> DEFINE x == CHOOSE y \in s : TRUE
    <2>1. x \in s
        BY <1>5
    <2>2. f[s] = L[x] + f[s \ {x}] /\ g[s] = L[x] + g[s \ {x}]
        BY <1>5 DEF IsSum
    <2> HIDE DEF x
    <2>3. s \ {x} \in SUBSET S /\ s \ {x} # s
        BY <2>1
    <2>4. <<s \ {x}, s>> \in StrictSubsetOrdering(S)
        BY <2>3 DEF StrictSubsetOrdering
    <2>5. f[s \ {x}] = g[s \ {x}]
        BY <1>3, <2>3, <2>4
    <2> QED
        BY <2>2, <2>5
<1> QED
    BY <1>4, <1>5

Size == [k \in DOMAIN gradients |->
            IF gradients[k] = None THEN 0 ELSE gradients[k].end - gradients[k].start]

\* CountOfAll is such a sum, if there is one.
LEMMA CountIsSum ==
    ASSUME NEW f, IsSum(f, DOMAIN gradients, Size), IsFiniteSet(DOMAIN gradients)
    PROVE  CountOfAll = f[DOMAIN gradients]
<1> DEFINE S == DOMAIN gradients
           Sums(g) == g = [s \in SUBSET S |->
                        IF s = {} THEN 0
                        ELSE LET x == CHOOSE x \in s : TRUE
                             IN  (IF gradients[x] = None THEN 0
                                  ELSE gradients[x].end - gradients[x].start) + g[s \ {x}]]
           iter == CHOOSE g : Sums(g)
<1>1. CountOfAll = iter[S]
    BY DEF CountOfAll, MapThenSumSet, MapThenFoldSet
<1>2. \A g : Sums(g) <=> IsSum(g, S, Size)
    <2> SUFFICES ASSUME NEW g PROVE Sums(g) <=> IsSum(g, S, Size)
        OBVIOUS
    <2>1. ASSUME NEW s \in SUBSET S, s # {}
          PROVE  Size[CHOOSE x \in s : TRUE] =
                    IF gradients[CHOOSE x \in s : TRUE] = None THEN 0
                    ELSE gradients[CHOOSE x \in s : TRUE].end - gradients[CHOOSE x \in s : TRUE].start
        <3>1. (CHOOSE x \in s : TRUE) \in S
            BY <2>1
        <3> QED
            BY <3>1 DEF Size
    <2> QED
        BY <2>1 DEF IsSum
<1> HIDE DEF Sums
<1>3. Sums(iter)
    <2>1. Sums(f)
        BY <1>2
    <2> QED
        BY <2>1, Zenon
<1> HIDE DEF iter
<1>4. IsSum(iter, S, Size)
    BY <1>2, <1>3
<1> QED
    BY <1>1, <1>4, SumIsUnique

\* The rows that lie in the shards of s.
RowsOf(s) == {r \in 0 .. rows - 1 : \E k \in s : shards[k].start <= r /\ r < shards[k].end}

\* One shard more holds the rows of its range more.
LEMMA RowsOfOneMore ==
    ASSUME IInv, status = "shards", NEW s \in SUBSET DOMAIN shards, NEW x \in s
    PROVE  /\ IsFiniteSet(RowsOf(s)) /\ Cardinality(RowsOf(s)) \in Nat
           /\ Cardinality(RowsOf(s)) = (shards[x].end - shards[x].start) + Cardinality(RowsOf(s \ {x}))
<1>1. rows \in Nat \ {0} /\ Len(active) \in Nat \ {0} /\ shards = Shards(rows, Len(active))
    BY EmptySeq DEF IInv, TypeOK, ProgressInv, DivisionInv
<1>2. x \in 1 .. Cap(rows, Len(active))
    BY <1>1 DEF Shards
<1>3. /\ shards[x].start \in Nat /\ shards[x].end \in Nat
      /\ shards[x].start <= shards[x].end /\ shards[x].end <= rows
    <2>1. Cap(rows, Len(active)) \in Nat
        BY <1>1 DEF Cap
    <2>2. x - 1 \in 0 .. Cap(rows, Len(active)) - 1 /\ x - 1 \in 0 .. Cap(rows, Len(active))
          /\ x \in 0 .. Cap(rows, Len(active)) /\ x - 1 <= x /\ (x - 1) + 1 = x
        BY <1>2, <2>1
    <2>3. Offset(rows, Len(active), x - 1) <= Offset(rows, Len(active), x)
          /\ Offset(rows, Len(active), x - 1) \in Nat /\ Offset(rows, Len(active), x) \in Nat
        BY <1>1, <2>2, OffsetMonotone
    <2>4. Offset(rows, Len(active), x) <= rows
        BY <1>1, <2>2, OffsetFacts
    <2>5. shards[x] = [start |-> Offset(rows, Len(active), x - 1), end |-> Offset(rows, Len(active), x)]
        BY <1>1, <1>2 DEF Shards
    <2> QED
        BY <2>3, <2>4, <2>5
<1> DEFINE own == shards[x].start .. shards[x].end - 1
           rest == RowsOf(s \ {x})
<1>4. IsFiniteSet(own) /\ Cardinality(own) = shards[x].end - shards[x].start
    <2>1. shards[x].start \in Int /\ shards[x].end - 1 \in Int
        BY <1>3
    <2>2. IsFiniteSet(own) /\ Cardinality(own) =
            IF shards[x].start > shards[x].end - 1 THEN 0
            ELSE (shards[x].end - 1) - shards[x].start + 1
        BY <2>1, FS_Interval
    <2> QED
        BY <1>3, <2>2
<1>5. IsFiniteSet(rest) /\ Cardinality(rest) \in Nat
    <2>1. IsFiniteSet(0 .. rows - 1)
        BY <1>1, FS_Interval
    <2>2. rest \in SUBSET (0 .. rows - 1)
        BY DEF RowsOf
    <2> QED
        BY <2>1, <2>2, FS_Subset, FS_CardinalityType
<1>6. RowsOf(s) = own \cup rest
    <2>1. \A r \in 0 .. rows - 1 : r \in own <=> shards[x].start <= r /\ r < shards[x].end
        BY <1>1, <1>3
    <2>2. own \subseteq 0 .. rows - 1
        BY <1>1, <1>3
    <2> HIDE DEF own
    <2> QED
        BY <2>1, <2>2 DEF RowsOf
<1>7. own \cap rest = {}
    <2> SUFFICES ASSUME NEW r \in rest, r \in own PROVE FALSE
        OBVIOUS
    <2>1. r \in 0 .. rows - 1 /\ shards[x].start <= r /\ r < shards[x].end
        BY <1>1, <1>3 DEF RowsOf
    <2>2. PICK k \in s \ {x} : shards[k].start <= r /\ r < shards[k].end
        BY DEF RowsOf
    <2>3. PICK j \in DOMAIN shards : Holding(shards, r) = {j}
        BY <1>1, <2>1, ShardsPartition DEF Partitions
    <2> QED
        BY <2>1, <2>2, <2>3 DEF Holding
<1> HIDE DEF own, rest
<1>8. Cardinality(own \cup rest) = Cardinality(own) + Cardinality(rest) /\ IsFiniteSet(own \cup rest)
    <2>1. Cardinality(own \cup rest) = Cardinality(own) + Cardinality(rest) - Cardinality(own \cap rest)
          /\ IsFiniteSet(own \cup rest)
        BY <1>4, <1>5, FS_Union
    <2>2. Cardinality(own \cap rest) = 0
        BY <1>7, FS_EmptySet
    <2> QED
        BY <1>3, <1>4, <1>5, <2>1, <2>2
<1> QED
    BY <1>3, <1>4, <1>5, <1>6, <1>8 DEF rest

\* When all gradients of an epoch are there, all rows are reported.
LEMMA CountedAll ==
    ASSUME IInv, status = "shards", \A k \in DOMAIN shards : jobs[k].at = "done"
    PROVE  CountOfAll = rows
<1> DEFINE f == [s \in SUBSET DOMAIN shards |-> Cardinality(RowsOf(s))]
<1>1. rows \in Nat \ {0} /\ Len(active) \in Nat \ {0} /\ shards = Shards(rows, Len(active))
    BY EmptySeq DEF IInv, TypeOK, ProgressInv, DivisionInv
<1>2. DOMAIN gradients = DOMAIN shards /\ IsFiniteSet(DOMAIN shards)
    <2>1. DOMAIN shards = 1 .. Cap(rows, Len(active)) /\ Cap(rows, Len(active)) \in Nat
        BY <1>1 DEF Shards, Cap
    <2> QED
        BY <2>1, FS_Interval DEF IInv, TypeOK
<1>3. ASSUME NEW j \in DOMAIN shards
      PROVE  Size[j] = shards[j].end - shards[j].start
    <2>1. gradients[j] = [start |-> shards[j].start, end |-> shards[j].end, weights |-> weights]
        BY DEF IInv, WorkInv
    <2>2. shards[j].start \in Nat /\ shards[j].end \in Nat /\ weights \in 0 .. Epochs
        BY ShardType DEF IInv, TypeOK
    <2>3. gradients[j] \in Gradients
        BY <2>1, <2>2 DEF Gradients
    <2>4. gradients[j] # None
        BY <2>3
    <2> QED
        BY <1>2, <2>1, <2>4 DEF Size
<1>4. IsSum(f, DOMAIN shards, Size)
    <2> SUFFICES ASSUME NEW s \in SUBSET DOMAIN shards
                 PROVE  f[s] = IF s = {} THEN 0
                               ELSE Size[CHOOSE x \in s : TRUE] + f[s \ {CHOOSE x \in s : TRUE}]
        BY DEF IsSum
    <2>1. CASE s = {}
        <3>1. RowsOf({}) = {}
            BY DEF RowsOf
        <3> QED
            BY <2>1, <3>1, FS_EmptySet
    <2>2. CASE s # {}
        <3> DEFINE x == CHOOSE y \in s : TRUE
        <3>1. x \in s
            BY <2>2
        <3> HIDE DEF x
        <3>2. f[s] = Cardinality(RowsOf(s)) /\ f[s \ {x}] = Cardinality(RowsOf(s \ {x}))
            OBVIOUS
        <3>3. f[s] = Size[x] + f[s \ {x}]
            BY <1>3, <3>1, <3>2, RowsOfOneMore
        <3> QED
            BY <2>2, <3>3 DEF x
    <2> QED
        BY <2>1, <2>2
<1>5. CountOfAll = f[DOMAIN shards]
    BY <1>2, <1>4, CountIsSum
<1>6. RowsOf(DOMAIN shards) = 0 .. rows - 1
    <2>1. \A r \in 0 .. rows - 1 : \E k \in DOMAIN shards : k \in Holding(shards, r)
        BY <1>1, ShardsPartition DEF Partitions
    <2> QED
        BY <2>1 DEF RowsOf, Holding
<1>7. Cardinality(0 .. rows - 1) = rows
    <2>1. 0 \in Int /\ rows - 1 \in Int
        BY <1>1
    <2>2. Cardinality(0 .. rows - 1) = IF 0 > rows - 1 THEN 0 ELSE (rows - 1) - 0 + 1
        BY <2>1, FS_Interval
    <2> QED
        BY <1>1, <2>2
<1> QED
    BY <1>5, <1>6, <1>7

-----------------------------------------------------------------------------
(* Initially.                                                               *)

\* Before Train begins there is no epoch.
LEMMA Initially == Init => IInv
<1> SUFFICES ASSUME Init PROVE IInv
    OBVIOUS
<1>1. /\ <<>> \in Seq(NodeIds) /\ <<>> \in Seq([start : Nat, end : Nat]) /\ DOMAIN <<>> = {}
    BY EmptySeq
<1>2. <<>> \in [DOMAIN <<>> -> Jobs] /\ <<>> \in [DOMAIN <<>> -> Gradients \cup {None}]
    BY <1>1
<1>3. TypeOK
    BY <1>1, <1>2 DEF Init, TypeOK
<1> QED
    BY <1>1, <1>3 DEF Init, IInv, ProgressInv, DivisionInv, WorkInv, NoStragglers, EveryRowOnce

-----------------------------------------------------------------------------
(* Train's own steps.                                                       *)

\* Finding out the number of rows touches neither shards nor weights.
LEMMA MeasuringKeeps ==
    ASSUME IInv, Begin \/ InitAnswered \/ InitFailed
    PROVE  IInv'
<1> USE DEF IInv, TypeOK, ProgressInv, DivisionInv, WorkInv, NoStragglers, EveryRowOnce, env
<1>1. CASE Begin
    BY <1>1, SnapshotFacts DEF Begin
<1>2. CASE InitAnswered
    <2>1. Head(nodes) \in NodeIds /\ <<Head(nodes)>> \in Seq(NodeIds)
        <3>1. Head(nodes) \in NodeIds
            BY <1>2, HeadTailProperties DEF InitAnswered
        <3> QED
            BY <3>1
    <2>2. rows' \in 0 .. MaxRows
        BY <1>2, <2>1 DEF InitAnswered
    <2>3. /\ status = "init" /\ status' \in {"failed", "epoch"} /\ nodes' = <<Head(nodes)>>
          /\ status' = "epoch" => rows' # 0
          /\ UNCHANGED <<steady, dataset, epoch, active, shards, jobs, gradients, weights, batch>>
        BY <1>2 DEF InitAnswered
    <2>4. TypeOK'
        BY <2>1, <2>2, <2>3
    <2> QED
        BY <2>2, <2>3, <2>4
<1>3. CASE InitFailed
    <2>1. Tail(nodes) \in Seq(NodeIds)
        BY <1>3, HeadTailProperties DEF InitFailed
    <2> QED
        BY <1>3, <2>1 DEF InitFailed
<1> QED
    BY <1>1, <1>2, <1>3

\* A new epoch has as many goroutines and slots as shards, and the shards divide the rows.
LEMMA StartEpochKeeps ==
    ASSUME IInv, StartEpoch
    PROVE  IInv'
<1>1. PICK s \in Snapshots \ {<<>>} : active' = s /\ shards' = Shards(rows, Len(s))
    BY DEF StartEpoch
<1>2. /\ jobs' = [k \in DOMAIN shards' |-> [at |-> "spawned", attempt |-> 0, weights |-> weights]]
      /\ gradients' = [k \in DOMAIN shards' |-> None]
      /\ status = "epoch" /\ status' = "shards" /\ epoch <= Epochs
      /\ UNCHANGED <<steady, dataset, nodes, rows, epoch, weights, batch>>
    BY DEF StartEpoch, EpochsLeft, env
<1>3. s \in Seq(NodeIds) /\ Len(s) \in Nat \ {0} /\ DOMAIN s = 1 .. Len(s)
    BY SnapshotFacts, LenProperties
<1>4. rows \in Nat \ {0} /\ weights \in 0 .. Epochs
    BY <1>2 DEF IInv, TypeOK, ProgressInv
<1>5. shards' \in Seq([start : Nat, end : Nat]) /\ DOMAIN shards' \subseteq DOMAIN active'
    BY <1>1, <1>3, <1>4, ShardsType
<1>6. [at |-> "spawned", attempt |-> 0, weights |-> weights] \in Jobs
    BY <1>4 DEF Jobs
<1>7. jobs' \in [DOMAIN shards' -> Jobs] /\ gradients' \in [DOMAIN shards' -> Gradients \cup {None}]
    BY <1>2, <1>6
<1>8. \A k \in DOMAIN shards' : jobs'[k].weights = weights /\ jobs'[k].at = "spawned"
    BY <1>2
<1>9. TypeOK'
    BY <1>1, <1>2, <1>3, <1>5, <1>7 DEF IInv, TypeOK
<1>10. ProgressInv' /\ DivisionInv' /\ NoStragglers' /\ EveryRowOnce'
    BY <1>1, <1>2, <1>3 DEF IInv, ProgressInv, DivisionInv, NoStragglers, EveryRowOnce
<1>11. WorkInv'
    BY <1>2, <1>8 DEF WorkInv
<1> QED
    BY <1>9, <1>10, <1>11 DEF IInv

\* A step of the weights is taken from the gradients of all shards.
LEMMA ApplyKeeps ==
    ASSUME IInv, Apply
    PROVE  IInv'
<1>1. /\ status = "shards" /\ status' = "epoch" /\ weights' = weights + 1 /\ epoch' = epoch + 1
      /\ batch' = [r \in 0 .. rows - 1 |-> Counted(r)]
      /\ UNCHANGED <<steady, dataset, nodes, rows, active, shards, jobs, gradients>>
      /\ \A k \in DOMAIN jobs : jobs[k].at \in {"done", "failed"}
      /\ \A k \in DOMAIN jobs : jobs[k].at # "failed"
    BY DEF Apply, Joined, Failed, env
<1>2. DOMAIN jobs = DOMAIN shards
    BY DEF IInv, TypeOK
<1>3. \A r \in 0 .. rows - 1 : Counted(r) = 1
    BY <1>1, <1>2, CountedOnce
<1>4. batch' = [r \in 0 .. rows - 1 |-> 1]
    BY <1>1, <1>3
<1>5. epoch' \in 1 .. Epochs + 1 /\ weights' \in 0 .. Epochs /\ weights' = epoch' - 1
    BY <1>1 DEF IInv, TypeOK, ProgressInv, DivisionInv
<1>6. TypeOK'
    BY <1>1, <1>5 DEF IInv, TypeOK
<1> QED
    BY <1>1, <1>4, <1>5, <1>6
       DEF IInv, ProgressInv, DivisionInv, WorkInv, NoStragglers, EveryRowOnce

\* Training that ends, with a model or with an error, has no goroutine left.
LEMMA EndingKeeps ==
    ASSUME IInv, NoNodesLeft \/ GiveUp \/ Finish \/ UNCHANGED vars
    PROVE  IInv'
<1> USE DEF IInv, TypeOK, ProgressInv, DivisionInv, WorkInv, NoStragglers, EveryRowOnce, env
<1>1. CASE NoNodesLeft
    BY <1>1 DEF NoNodesLeft
<1>2. CASE GiveUp
    BY <1>2 DEF GiveUp, Joined
<1>3. CASE Finish
    BY <1>3 DEF Finish
<1>4. CASE UNCHANGED vars
    BY <1>4 DEF vars
<1> QED
    BY <1>1, <1>2, <1>3, <1>4

-----------------------------------------------------------------------------
(* The goroutines of the shards.                                            *)

\* Only an epoch under way has goroutines that run, and they touch jobs and gradients only.
LEMMA ShardKeeps ==
    ASSUME IInv, NEW k \in DOMAIN jobs, Shard(k)
    PROVE  IInv'
<1>1. /\ status = "shards" /\ k \in DOMAIN shards
      /\ UNCHANGED <<steady, dataset, status, nodes, rows, epoch, active, shards, weights, batch>>
    BY DEF Shard, ShardStarts, ShardAnswered, ShardFails, env, IInv, TypeOK, NoStragglers
<1>2. jobs \in [DOMAIN shards -> Jobs] /\ jobs[k] \in Jobs /\ weights \in 0 .. Epochs
    BY <1>1 DEF IInv, TypeOK
<1>3. PICK job \in Jobs : /\ jobs' \in [DOMAIN shards -> Jobs] /\ jobs'[k] = job
                          /\ \A j \in DOMAIN shards : j # k => jobs'[j] = jobs[j]
                          /\ job.weights = weights
                          /\ job.at = "done" => ShardAnswered(k)
    <2>1. CASE ShardStarts(k)
        <3> DEFINE job == [at |-> "calling", attempt |-> jobs[k].attempt, weights |-> weights]
        <3>1. job \in Jobs
            BY <1>2 DEF Jobs
        <3>2. /\ jobs'[k] = job /\ DOMAIN jobs' = DOMAIN shards
              /\ \A j \in DOMAIN shards : j # k => jobs'[j] = jobs[j]
            BY <2>1, <1>1, <1>2 DEF ShardStarts, Jobs
        <3>n. jobs' = [j \in DOMAIN shards |-> jobs'[j]]
            BY <2>1, <1>2 DEF ShardStarts
        <3> QED
            BY <1>2, <3>1, <3>2, <3>n
    <2>2. CASE ShardAnswered(k)
        <3> DEFINE job == [at |-> "done", attempt |-> jobs[k].attempt, weights |-> jobs[k].weights]
        <3>1. job \in Jobs
            BY <1>2 DEF Jobs
        <3>2. /\ jobs'[k] = job /\ DOMAIN jobs' = DOMAIN shards
              /\ \A j \in DOMAIN shards : j # k => jobs'[j] = jobs[j]
            BY <2>2, <1>1, <1>2 DEF ShardAnswered, Jobs
        <3>n. jobs' = [j \in DOMAIN shards |-> jobs'[j]]
            BY <2>2, <1>2 DEF ShardAnswered
        <3>3. job.weights = weights
            BY <1>1 DEF IInv, WorkInv
        <3> QED
            BY <1>2, <2>2, <3>1, <3>2, <3>n, <3>3
    <2>3. CASE ShardFails(k)
        <3> DEFINE at == IF Another(k) < Len(active) THEN "calling" ELSE "failed"
                   job == [at |-> at, attempt |-> Another(k), weights |-> jobs[k].weights]
        <3>1. job \in Jobs
            BY <1>2 DEF Jobs, Another
        <3>2. /\ jobs'[k] = job /\ DOMAIN jobs' = DOMAIN shards
              /\ \A j \in DOMAIN shards : j # k => jobs'[j] = jobs[j]
            BY <2>3, <1>1, <1>2 DEF ShardFails, Jobs
        <3>n. jobs' = [j \in DOMAIN shards |-> jobs'[j]]
            BY <2>3, <1>2 DEF ShardFails
        <3>3. job.weights = weights
            BY <1>1 DEF IInv, WorkInv
        <3> QED
            BY <1>2, <3>1, <3>2, <3>n, <3>3
    <2> QED
        BY <2>1, <2>2, <2>3 DEF Shard
<1>4. /\ gradients' \in [DOMAIN shards -> Gradients \cup {None}]
      /\ \A j \in DOMAIN shards : j # k => gradients'[j] = gradients[j]
      /\ ShardAnswered(k) => gradients'[k] = [start |-> shards[k].start, end |-> shards[k].end,
                                              weights |-> weights]
    <2>1. CASE ShardAnswered(k)
        <3> DEFINE g == [start |-> shards[k].start, end |-> shards[k].end, weights |-> weights]
        <3>1. gradients' = [gradients EXCEPT ![k] = g]
            BY <2>1, <1>1 DEF ShardAnswered, Slot, IInv, WorkInv
        <3>2. shards[k].start \in Nat /\ shards[k].end \in Nat
            BY <1>1, ShardType DEF IInv
        <3>3. g \in Gradients
            BY <3>2, <1>2 DEF Gradients
        <3> HIDE DEF g
        <3>4. /\ gradients' \in [DOMAIN shards -> Gradients \cup {None}]
              /\ \A j \in DOMAIN shards : j # k => gradients'[j] = gradients[j]
              /\ gradients'[k] = g
            BY <1>1, <3>1, <3>3 DEF IInv, TypeOK
        <3> QED
            BY <3>4 DEF g
    <2>2. CASE ShardStarts(k) \/ ShardFails(k)
        <3>1. UNCHANGED gradients /\ ~ShardAnswered(k)
            <4>1. UNCHANGED gradients
                BY <2>2 DEF ShardStarts, ShardFails
            <4>2. jobs'[k].at # "done"
                BY <2>2, <1>2 DEF ShardStarts, ShardFails, Jobs
            <4>3. ShardAnswered(k) => jobs'[k].at = "done"
                BY <1>2 DEF ShardAnswered, Jobs
            <4> QED
                BY <4>1, <4>2, <4>3
        <3> QED
            BY <3>1 DEF IInv, TypeOK
    <2> QED
        BY <2>1, <2>2 DEF Shard
<1>5. jobs' \in [DOMAIN shards -> Jobs] /\ jobs'[k] = job
      /\ \A j \in DOMAIN shards : j # k => jobs'[j] = jobs[j]
    BY <1>1, <1>2, <1>3
<1>6. TypeOK'
    BY <1>1, <1>4, <1>5 DEF IInv, TypeOK
<1>7. WorkInv'
    <2> SUFFICES ASSUME NEW j \in DOMAIN shards
                 PROVE  /\ jobs'[j].weights = weights
                        /\ jobs'[j].at = "done" =>
                            gradients'[j] = [start |-> shards[j].start, end |-> shards[j].end,
                                             weights |-> weights]
        BY <1>1 DEF WorkInv
    <2>1. CASE j = k
        BY <2>1, <1>3, <1>4, <1>5
    <2>2. CASE j # k
        BY <2>2, <1>1, <1>4, <1>5 DEF IInv, WorkInv
    <2> QED
        BY <2>1, <2>2
<1>8. ProgressInv' /\ DivisionInv' /\ NoStragglers' /\ EveryRowOnce'
    BY <1>1 DEF IInv, ProgressInv, DivisionInv, NoStragglers, EveryRowOnce
<1> QED
    BY <1>6, <1>7, <1>8 DEF IInv

-----------------------------------------------------------------------------
(* Train implements BatchDescent.                                           *)

\* Until it is measured, the dataset has no rows.
UnmeasuredInv == status \in {"new", "init"} => rows = 0

\* A dataset that has been measured has rows.
LEMMA UnmeasuredKept == IInv /\ UnmeasuredInv /\ [Next]_vars => UnmeasuredInv'
<1> SUFFICES ASSUME IInv, UnmeasuredInv, [Next]_vars PROVE UnmeasuredInv'
    OBVIOUS
<1> USE DEF UnmeasuredInv
<1>1. CASE Begin \/ InitAnswered \/ InitFailed
    BY <1>1 DEF Begin, InitAnswered, InitFailed
<1>2. CASE StartEpoch \/ NoNodesLeft \/ GiveUp \/ Apply \/ Finish
    BY <1>2 DEF StartEpoch, NoNodesLeft, GiveUp, Apply, Finish
<1>3. ASSUME NEW k \in DOMAIN jobs, Shard(k) PROVE UnmeasuredInv'
    BY <1>3 DEF Shard, ShardStarts, ShardAnswered, ShardFails
<1> QED
    BY <1>1, <1>2, <1>3 DEF Next, vars

\* Every step of Train is a step of BatchDescent, or one that it does not see.
LEMMA StepImplements ==
    IInv /\ UnmeasuredInv /\ [Next]_vars => [BatchDescent!Next]_(BatchDescent!vars)
<1> SUFFICES ASSUME IInv, UnmeasuredInv, [Next]_vars
             PROVE  BatchDescent!Next \/ UNCHANGED BatchDescent!vars
    OBVIOUS
<1>1. ASSUME status \notin {"trained", "failed"}, status' = "failed",
             UNCHANGED <<rows, weights, batch, metric>>
      PROVE  BatchDescent!Next
    BY <1>1 DEF BatchDescent!Next, BatchDescent!Fail
<1>2. ASSUME (status \in {"trained", "failed"} <=> status' \in {"trained", "failed"}),
             status \in {"trained", "failed"} => status' = status,
             UNCHANGED <<rows, weights, batch, metric>>
      PROVE  UNCHANGED BatchDescent!vars
    BY <1>2 DEF BatchDescent!vars
<1>3. CASE Begin \/ InitFailed
    <2>1. status \in {"new", "init"} /\ status' \in {"init", "failed"}
          /\ UNCHANGED <<rows, weights, batch, metric>>
        BY <1>3 DEF Begin, InitFailed
    <2> QED
        BY <1>1, <1>2, <2>1
<1>4. CASE InitAnswered
    <2>1. /\ status = "init" /\ rows = 0 /\ status' = IF rows' = 0 THEN "failed" ELSE "epoch"
          /\ UNCHANGED <<weights, batch, metric>>
        BY <1>4 DEF InitAnswered, UnmeasuredInv
    <2>2. CASE rows' = 0
        BY <1>1, <2>1, <2>2
    <2>3. CASE rows' # 0
        <3>1. rows' \in Nat
            BY <1>4, MeasuringKeeps, MaxRowsAssumption DEF IInv, TypeOK
        <3> QED
            BY <2>1, <2>3, <3>1 DEF BatchDescent!Next, BatchDescent!Measure
    <2> QED
        BY <2>2, <2>3
<1>5. CASE StartEpoch
    <2>1. status = "epoch" /\ status' = "shards" /\ UNCHANGED <<rows, weights, batch, metric>>
        BY <1>5 DEF StartEpoch
    <2> QED
        BY <1>2, <2>1
<1>6. CASE NoNodesLeft \/ GiveUp
    <2>1. status \in {"epoch", "shards"} /\ status' = "failed"
          /\ UNCHANGED <<rows, weights, batch, metric>>
        BY <1>6 DEF NoNodesLeft, GiveUp
    <2> QED
        BY <1>1, <2>1
<1>7. CASE Apply
    <2>1. /\ status = "shards" /\ status' = "epoch" /\ weights' = weights + 1
          /\ batch' = [r \in 0 .. rows - 1 |-> Counted(r)]
          /\ metric' = [epoch |-> epoch, rows |-> CountOfAll]
          /\ UNCHANGED rows
        BY <1>7 DEF Apply
    <2>2. \A k \in DOMAIN shards : jobs[k].at = "done"
        BY <1>7 DEF Apply, Joined, Failed, IInv, TypeOK
    <2>3. batch' = [r \in 0 .. rows - 1 |-> 1]
        <3>1. \A r \in 0 .. rows - 1 : Counted(r) = 1
            BY <2>1, <2>2, CountedOnce
        <3> QED
            BY <2>1, <3>1
    <2>4. metric' = [epoch |-> weights + 1, rows |-> rows]
        <3>1. CountOfAll = rows
            BY <2>1, <2>2, CountedAll
        <3>2. epoch = weights + 1
            BY DEF IInv, TypeOK, ProgressInv
        <3> QED
            BY <2>1, <3>1, <3>2
    <2>5. rows > 0 /\ weights < Epochs
        BY <2>1 DEF IInv, TypeOK, ProgressInv, DivisionInv
    <2> QED
        BY <2>1, <2>3, <2>4, <2>5 DEF BatchDescent!Next, BatchDescent!Step
<1>8. CASE Finish
    <2>1. status = "epoch" /\ status' = "trained" /\ UNCHANGED <<rows, weights, batch, metric>>
          /\ ~(epoch <= Epochs)
        BY <1>8 DEF Finish, EpochsLeft
    <2>2. weights = Epochs
        BY <2>1 DEF IInv, TypeOK, ProgressInv
    <2> QED
        BY <2>1, <2>2 DEF BatchDescent!Next, BatchDescent!Return
<1>9. ASSUME NEW k \in DOMAIN jobs, Shard(k) PROVE UNCHANGED BatchDescent!vars
    <2>1. UNCHANGED <<status, rows, weights, batch, metric>>
        BY <1>9 DEF Shard, ShardStarts, ShardAnswered, ShardFails
    <2> QED
        BY <1>2, <2>1
<1>10. CASE UNCHANGED vars
    BY <1>2, <1>10 DEF vars
<1> QED
    BY <1>3, <1>4, <1>5, <1>6, <1>7, <1>8, <1>9, <1>10 DEF Next

-----------------------------------------------------------------------------
(* Theorems.                                                                *)

(* The invariant from which the rest follows.                               *)
THEOREM Invariance == Spec => []IInv
<1>1. IInv /\ [Next]_vars => IInv'
    BY MeasuringKeeps, StartEpochKeeps, ApplyKeeps, EndingKeeps, ShardKeeps DEF Next
<1> QED
    BY <1>1, Initially, PTL DEF Spec

(* Every variable keeps its type; no range goes beyond the nodes.           *)
THEOREM TypeCorrect == Spec => []TypeOK
<1>1. IInv => TypeOK
    BY DEF IInv
<1> QED
    BY <1>1, Invariance, PTL

(* No goroutine of an epoch outlives it.                                    *)
THEOREM NoStragglersHolds == Spec => []NoStragglers
<1>1. IInv => NoStragglers
    BY DEF IInv
<1> QED
    BY <1>1, Invariance, PTL

(* Every step of the weights counts each row once, whoever fails.           *)
THEOREM EveryRowOnceHolds == Spec => []EveryRowOnce
<1>1. IInv => EveryRowOnce
    BY DEF IInv
<1> QED
    BY <1>1, Invariance, PTL

(* coordinator.go:288-371: for any number of workers, rows and epochs, and  *)
(* whoever fails, Train is full-batch descent: every step takes the         *)
(* gradient of each row once at the weights of the step before, reports all *)
(* the rows, and a model is returned after Epochs steps only.               *)
THEOREM ImplementsBatchDescentHolds == Spec => ImplementsBatchDescent
<1>1. Init => BatchDescent!Init /\ UnmeasuredInv
    BY DEF Init, BatchDescent!Init, UnmeasuredInv
<1>2. IInv /\ UnmeasuredInv /\ [Next]_vars => UnmeasuredInv'
    BY UnmeasuredKept
<1>3. IInv /\ UnmeasuredInv /\ [Next]_vars => [BatchDescent!Next]_(BatchDescent!vars)
    BY StepImplements
<1> QED
    BY <1>1, <1>2, <1>3, Invariance, PTL DEF Spec, ImplementsBatchDescent, BatchDescent!Spec
=============================================================================
