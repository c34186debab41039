-------------------------- MODULE Datasets_proofs --------------------------
(***************************************************************************)
(* What becomes of the rows, for every number of rows, of workers and of   *)
(* thresholds:                                                             *)
(*   - the loop of splitRanges returns a partition into non-empty ranges   *)
(*     of almost equal size (SplitRanges);                                 *)
(*   - the pool builds the windows of a sequential pass, whichever worker  *)
(*     finishes first, and they are divided without loss (Datasets);       *)
(*   - the API describes readings as they were described for training, and *)
(*     the threshold chosen is the best and the lowest (Analysis).         *)
(*                                                                         *)
(* The library's induction theorems take an operator, which the provers    *)
(* cannot instantiate.  The inductions here are over the steps of a        *)
(* specification, or speak of a smallest counterexample (WFMin): so for    *)
(* sums, which are defined by recursion on sets, and for the loop over the *)
(* thresholds.                                                             *)
(***************************************************************************)
EXTENDS Analysis, SequenceTheorems, FiniteSetTheorems, WellFoundedInduction, TLAPS

-----------------------------------------------------------------------------
(* Arithmetic.                                                              *)

\* Quotient and remainder, of a number that is not the smaller one.
LEMMA DivisionFacts ==
    ASSUME NEW t \in Nat, NEW c \in Nat \ {0}, c <= t
    PROVE  /\ t \div c \in Nat \ {0}
           /\ t % c \in 0 .. c - 1
           /\ t = c * (t \div c) + (t % c)
<1>1. t \div c \in Int /\ t % c \in 0 .. c - 1
  BY SMT
<1>2. t = c * (t \div c) + (t % c)
  BY <1>1, SMT
<1>3. t \div c >= 1
  <2>1. SUFFICES ASSUME t \div c <= 0 PROVE FALSE
    BY <1>1
  <2>2. c * (t \div c) <= 0
    BY <1>1, <2>1
  <2> QED
    BY <1>1, <1>2, <2>2
<1> QED
  BY <1>1, <1>2, <1>3

\* Where the closed form puts the first shard, the next one, and the end.
LEMMA OffsetFacts ==
    ASSUME NEW t \in Nat \ {0}, NEW n \in Nat \ {0}, NEW k \in 0 .. Cap(t, n) - 1
    PROVE  /\ Offset(t, n, 0) = 0
           /\ Offset(t, n, k) \in Nat
           /\ Offset(t, n, k + 1) = Offset(t, n, k) + Base(t, n)
                                        + (IF k < Remainder(t, n) THEN 1 ELSE 0)
           /\ Offset(t, n, k + 1) <= t
           /\ Offset(t, n, Cap(t, n)) = t
<1> DEFINE c == Cap(t, n)
           b == Base(t, n)
           m == Remainder(t, n)
<1>1. c \in Nat \ {0} /\ c <= t
  BY DEF Cap
<1>2. b \in Nat \ {0} /\ m \in 0 .. c - 1 /\ t = c * b + m
  BY <1>1, DivisionFacts DEF Base, Remainder
<1>3. Cap(m, 0) = 0 /\ Cap(m, c) = m
  BY <1>1, <1>2 DEF Cap
<1>4. Cap(m, k) \in Nat /\ Cap(m, k + 1) = Cap(m, k) + (IF k < m THEN 1 ELSE 0)
  BY <1>1, <1>2 DEF Cap
<1> HIDE DEF c, b, m
<1>5. k * b \in Nat /\ (k + 1) * b = k * b + b /\ 0 * b = 0 /\ c * b \in Nat
  BY <1>1, <1>2 DEF c
<1>6. (k + 1) * b <= c * b
  <2>1. (c - (k + 1)) * b >= 0
    BY <1>1, <1>2 DEF c
  <2>2. (c - (k + 1)) * b = c * b - (k + 1) * b
    BY <1>1, <1>2 DEF c
  <2> QED
    BY <1>1, <1>2, <1>5, <2>1, <2>2
<1>7. Cap(m, k + 1) <= m
  BY <1>2 DEF Cap
<1>8. \A j : Offset(t, n, j) = j * b + Cap(m, j)
  BY DEF Offset, b, m
<1> QED
  BY <1>2, <1>3, <1>4, <1>5, <1>6, <1>7, <1>8 DEF c, b, m

-----------------------------------------------------------------------------
(* The inductive invariant: the loop's variables follow the closed form,    *)
(* and the ranges so far partition the rows before start.                   *)

ArgsInv ==
    /\ total \in Nat \ {0}
    /\ requested \in Nat \ {0}
    /\ count = Cap(total, requested)

PlaceInv ==
    /\ i \in 0 .. count
    /\ start = Offset(total, requested, i)
    /\ start \in 0 .. total
    /\ result \in Seq([start : Nat, end : Nat])
    /\ Len(result) = i

ShardInv ==
    \A k \in 1 .. i : result[k] = [start |-> Offset(total, requested, k - 1),
                                   end |-> Offset(total, requested, k)]

SizeInv ==
    \A k \in 1 .. i : result[k].end - result[k].start \in {base, base + 1}

OrderInv ==
    \A k \in 1 .. i :
        /\ result[k].start < result[k].end
        /\ result[k].end <= start
        /\ \A j \in 1 .. k - 1 : result[j].end <= result[k].start

CoverInv ==
    \A r \in 0 .. start - 1 : \E k \in 1 .. i : result[k].start <= r /\ r < result[k].end

IInv == ArgsInv /\ PlaceInv /\ ShardInv /\ SizeInv /\ OrderInv /\ CoverInv

\* There is a range at least, and no more of them than rows.
LEMMA CountFacts == ArgsInv => count \in 1 .. total /\ base \in Nat \ {0} /\ remainder \in 0 .. count - 1
<1> SUFFICES ASSUME ArgsInv PROVE count \in 1 .. total /\ base \in Nat \ {0} /\ remainder \in 0 .. count - 1
  OBVIOUS
<1>1. count \in 1 .. total
  BY DEF ArgsInv, Cap
<1> QED
  BY <1>1, DivisionFacts DEF ArgsInv, base, remainder

\* The loop starts in the invariant.
LEMMA Initially == Init => IInv
<1> SUFFICES ASSUME Init PROVE IInv
  OBVIOUS
<1>1. ArgsInv
  BY DEF Init, Capped, ArgsInv, Cap
<1>2. 0 \in 0 .. Cap(total, requested) - 1
  BY <1>1, CountFacts DEF ArgsInv
<1>3. Offset(total, requested, 0) = 0
  BY <1>1, <1>2, OffsetFacts DEF ArgsInv
<1>4. result \in Seq([start : Nat, end : Nat]) /\ Len(result) = 0
  BY EmptySeq DEF Init
<1>5. PlaceInv
  BY <1>1, <1>3, <1>4, CountFacts DEF Init, PlaceInv
<1>6. ShardInv /\ SizeInv /\ OrderInv /\ CoverInv
  BY DEF Init, ShardInv, SizeInv, OrderInv, CoverInv
<1> QED
  BY <1>1, <1>5, <1>6 DEF IInv

\* The elements of result.
LEMMA ResultFacts ==
    ASSUME PlaceInv
    PROVE  /\ DOMAIN result = 1 .. i
           /\ i \in Nat
           /\ \A k \in 1 .. i : result[k].start \in Nat /\ result[k].end \in Nat
<1>1. result \in Seq([start : Nat, end : Nat]) /\ i = Len(result)
  BY DEF PlaceInv
<1>2. DOMAIN result = 1 .. i /\ i \in Nat
  BY <1>1, LenProperties
<1>3. ASSUME NEW k \in 1 .. i PROVE result[k].start \in Nat /\ result[k].end \in Nat
  <2>1. result[k] \in [start : Nat, end : Nat]
    BY <1>1, ElementOfSeq
  <2> QED
    BY <2>1
<1> QED
  BY <1>2, <1>3

\* An iteration keeps the invariant.
LEMMA Preserved == IInv /\ [Next]_vars => IInv'
<1> SUFFICES ASSUME IInv, [Next]_vars PROVE IInv'
  OBVIOUS
<1>1. CASE Iterate
  <2> DEFINE new == [start |-> start, end |-> RangeEnd]
  <2>1. ArgsInv'
    BY <1>1 DEF Iterate, IInv, ArgsInv
  <2>2. base' = base /\ base \in Nat \ {0} /\ remainder \in 0 .. count - 1
    BY <1>1, CountFacts DEF Iterate, IInv, base
  <2>3. i \in 0 .. Cap(total, requested) - 1 /\ i' = i + 1 /\ i' \in 0 .. count'
    BY <1>1, CountFacts DEF Iterate, IInv, ArgsInv, PlaceInv
  <2>4. /\ RangeEnd = Offset(total, requested, i + 1)
        /\ RangeEnd \in 0 .. total
        /\ RangeEnd = start + base \/ RangeEnd = start + base + 1
    BY <2>2, <2>3, OffsetFacts
    DEF IInv, ArgsInv, PlaceInv, RangeEnd, Base, Remainder, base, remainder
  <2>5. /\ start' = RangeEnd
        /\ new \in [start : Nat, end : Nat]
        /\ result' = Append(result, new)
        /\ total' = total /\ requested' = requested
    BY <1>1, <2>4 DEF Iterate, IInv, PlaceInv
  <2>6. /\ result' \in Seq([start : Nat, end : Nat])
        /\ Len(result') = i + 1
        /\ \A k \in 1 .. i : result'[k] = result[k]
        /\ result'[i + 1] = new
    BY <2>5, AppendProperties DEF IInv, PlaceInv
  <2>7. PlaceInv'
    BY <2>3, <2>4, <2>5, <2>6 DEF PlaceInv
  <2>8. ShardInv'
    BY <2>3, <2>4, <2>5, <2>6 DEF ShardInv, IInv, PlaceInv
  <2>9. SizeInv'
    BY <2>2, <2>3, <2>4, <2>5, <2>6 DEF SizeInv, IInv, PlaceInv
  <2>10. /\ new.start = start /\ new.end = RangeEnd
         /\ start \in Nat /\ RangeEnd \in Nat /\ start < RangeEnd
    BY <2>2, <2>4 DEF IInv, PlaceInv
  <2>11. \A k \in 1 .. i : result[k].start \in Nat /\ result[k].end \in Nat
    BY ResultFacts DEF IInv
  <2>12. OrderInv'
    <3> SUFFICES ASSUME NEW k \in 1 .. i + 1
                 PROVE  /\ result'[k].start < result'[k].end
                        /\ result'[k].end <= RangeEnd
                        /\ \A j \in 1 .. k - 1 : result'[j].end <= result'[k].start
      BY <2>3, <2>5 DEF OrderInv
    <3>1. i \in Nat
      BY DEF IInv, PlaceInv
    <3>2. CASE k = i + 1
      BY <2>6, <2>10, <3>1, <3>2 DEF IInv, OrderInv
    <3>3. CASE k \in 1 .. i
      <4>1. /\ result[k].start < result[k].end
            /\ result[k].end <= start
            /\ \A j \in 1 .. k - 1 : result[j].end <= result[k].start
        BY <3>3 DEF IInv, OrderInv
      <4>2. result'[k] = result[k] /\ result[k].end \in Nat
        BY <2>6, <2>11, <3>3
      <4>3. \A j \in 1 .. k - 1 : result'[j] = result[j]
        BY <2>6, <3>1, <3>3
      <4>4. result[k].end <= RangeEnd
        BY <2>10, <4>1, <4>2
      <4> QED
        BY <4>1, <4>2, <4>3, <4>4
    <3> QED
      BY <3>1, <3>2, <3>3
  <2>13. CoverInv'
    <3> SUFFICES ASSUME NEW r \in 0 .. RangeEnd - 1
                 PROVE  \E k \in 1 .. i + 1 : result'[k].start <= r /\ r < result'[k].end
      BY <2>3, <2>5 DEF CoverInv
    <3>1. i \in Nat
      BY DEF IInv, PlaceInv
    <3>2. CASE r < start
      <4>1. r \in 0 .. start - 1
        BY <2>10, <3>2
      <4>2. PICK j \in 1 .. i : result[j].start <= r /\ r < result[j].end
        BY <4>1 DEF IInv, CoverInv
      <4>3. j \in 1 .. i + 1 /\ result'[j] = result[j]
        BY <2>6, <3>1, <4>2
      <4> QED
        BY <4>2, <4>3
    <3>3. CASE start <= r
      <4>1. i + 1 \in 1 .. i + 1
        BY <3>1
      <4> QED
        BY <2>6, <2>10, <3>3, <4>1
    <3> QED
      BY <2>10, <3>2, <3>3
  <2> QED
    BY <2>1, <2>7, <2>8, <2>9, <2>12, <2>13 DEF IInv
<1>2. CASE UNCHANGED vars
  BY <1>2 DEF vars, IInv, ArgsInv, PlaceInv, ShardInv, SizeInv, OrderInv, CoverInv, base
<1> QED
  BY <1>1, <1>2 DEF Next

\* coordinator.go:495-521: what the loop has in hand in every iteration.
THEOREM Invariance == Spec => []IInv
<1> QED
  BY Initially, Preserved, PTL DEF Spec

-----------------------------------------------------------------------------
(* What the loop returns.                                                   *)

\* A row that the loop has passed is in one range, and in one only.
LEMMA OneHolder ==
    ASSUME IInv, NEW r \in 0 .. start - 1
    PROVE  \E k \in DOMAIN result : Holding(result, r) = {k}
<1> USE ResultFacts DEF IInv
<1>1. PICK k \in 1 .. i : result[k].start <= r /\ r < result[k].end
  BY DEF CoverInv
<1>2. ASSUME NEW j \in 1 .. i, result[j].start <= r, r < result[j].end PROVE j = k
  <2> USE DEF PlaceInv
  <2>0. /\ result[j].start \in Nat /\ result[j].end \in Nat
        /\ result[k].start \in Nat /\ result[k].end \in Nat /\ r \in Int
    OBVIOUS
  <2>1. CASE j < k
    <3>1. result[j].end <= result[k].start
      BY <2>1 DEF OrderInv
    <3> QED
      BY <1>1, <1>2, <2>0, <3>1
  <2>2. CASE k < j
    <3>1. result[k].end <= result[j].start
      BY <2>2 DEF OrderInv
    <3> QED
      BY <1>1, <1>2, <2>0, <3>1
  <2> QED
    BY <2>1, <2>2
<1> QED
  BY <1>1, <1>2 DEF Holding

ArgTypes == total \in 1 .. MaxTotal /\ requested \in 1 .. MaxCount

\* The variables keep their types, and start never passes the last row.
THEOREM TypeCorrect == Spec => []TypeOK
<1>1. Init => ArgTypes
  BY DEF Init, ArgTypes
<1>2. ArgTypes /\ [Next]_vars => ArgTypes'
  BY DEF Next, Iterate, vars, ArgTypes
<1>3. IInv /\ ArgTypes => TypeOK
  BY CountFacts DEF IInv, ArgsInv, PlaceInv, ArgTypes, TypeOK
<1> QED
  BY <1>1, <1>2, <1>3, Invariance, PTL DEF Spec

\* Once the last range is made, every row has one holder.
LEMMA ExactCover == IInv => CoversExactlyOnce
<1> SUFFICES ASSUME IInv, Returned PROVE Partitions(result, total) /\ start = total
  BY DEF CoversExactlyOnce
<1>1. 0 \in 0 .. Cap(total, requested) - 1
  BY CountFacts DEF IInv, ArgsInv
<1>2. start = total
  BY <1>1, OffsetFacts DEF Returned, IInv, ArgsInv, PlaceInv
<1> QED
  BY <1>2, OneHolder DEF Partitions

\* coordinator.go:505-520: every row is in exactly one of the ranges returned.
THEOREM CoversExactlyOnceHolds == Spec => []CoversExactlyOnce
<1> QED
  BY ExactCover, Invariance, PTL

\* ml-node/main.go:165: no range is empty, and sizes differ by one at most.
THEOREM RangesAreFairHolds == Spec => []RangesAreFair
<1>1. IInv => RangesAreFair
  <2> SUFFICES ASSUME IInv, NEW j \in DOMAIN result, NEW k \in DOMAIN result
               PROVE  /\ result[j].start < result[j].end
                      /\ (result[j].end - result[j].start)
                             - (result[k].end - result[k].start) <= 1
    BY DEF RangesAreFair
  <2>1. j \in 1 .. i /\ k \in 1 .. i
    BY ResultFacts DEF IInv
  <2>2. base \in Nat
    BY CountFacts DEF IInv
  <2> QED
    BY <2>1, <2>2 DEF IInv, OrderInv, SizeInv
<1> QED
  BY <1>1, Invariance, PTL

\* The loop returns the closed form that the training loop is modelled with.
THEOREM ReturnsShardsHolds == Spec => []ReturnsShards
<1>1. IInv => ReturnsShards
  <2> SUFFICES ASSUME IInv, Returned PROVE result = Shards(total, requested)
    BY DEF ReturnsShards
  <2>1. DOMAIN result = 1 .. Cap(total, requested)
    BY ResultFacts DEF Returned, IInv, ArgsInv
  <2>2. \A k \in 1 .. Cap(total, requested) :
            result[k] = [start |-> Offset(total, requested, k - 1),
                         end |-> Offset(total, requested, k)]
    BY DEF Returned, IInv, ArgsInv, ShardInv
  <2>3. result = [k \in DOMAIN result |-> result[k]]
    BY DEF IInv, PlaceInv
  <2> QED
    BY <2>1, <2>2, <2>3 DEF Shards
<1> QED
  BY <1>1, Invariance, PTL

-----------------------------------------------------------------------------
(* Sums.  SumFunction is a function defined by recursion on the subsets of  *)
(* a domain; cardinalities of unions satisfy the same equation.             *)

\* A sum over the subsets of S: each set's is that of the set without one element, plus L of it.
IsSum(f, S, L) ==
    f = [s \in SUBSET S |->
            IF s = {} THEN 0
            ELSE L[CHOOSE x \in s : TRUE] + f[s \ {CHOOSE x \in s : TRUE}]]

\* Two such sums are equal: a smallest set on which they differ cannot exist.
LEMMA SumIsUnique ==
    ASSUME NEW S, IsFiniteSet(S), NEW L, NEW f, NEW g, IsSum(f, S, L), IsSum(g, S, L)
    PROVE  f[S] = g[S]
<1> DEFINE Bad == {s \in SUBSET S : f[s] # g[s]}
<1> SUFFICES ASSUME Bad # {} PROVE FALSE
  OBVIOUS
<1>1. IsWellFoundedOn(StrictSubsetOrdering(S), SUBSET S)
  BY FS_StrictSubsetOrderingWellFounded, FS_FiniteSubsetsOfFinite
<1>2. Bad \subseteq SUBSET S
  OBVIOUS
<1>3. PICK s \in Bad : \A t \in Bad : ~(<<t, s>> \in StrictSubsetOrdering(S))
  BY <1>1, <1>2, WFMin
<1>4. CASE s = {}
  BY <1>4 DEF IsSum
<1>5. CASE s # {}
  <2> DEFINE x == CHOOSE y \in s : TRUE
  <2>1. x \in s
    BY <1>5
  <2>2. f[s] = L[x] + f[s \ {x}] /\ g[s] = L[x] + g[s \ {x}]
    BY <1>5 DEF IsSum
  <2> HIDE DEF x
  <2>3. s \ {x} \in SUBSET S /\ s \ {x} # s
    BY <2>1
  <2>4. <<s \ {x}, s>> \in StrictSubsetOrdering(S)
    BY <2>3 DEF StrictSubsetOrdering
  <2>5. f[s \ {x}] = g[s \ {x}]
    BY <1>3, <2>3, <2>4
  <2> QED
    BY <2>2, <2>5
<1> QED
  BY <1>4, <1>5

\* SumFunction is such a sum, if there is one.
LEMMA SumFunctionIsSum ==
    ASSUME NEW S, IsFiniteSet(S), NEW L, DOMAIN L = S, NEW f, IsSum(f, S, L)
    PROVE  SumFunction(L) = f[S]
<1> DEFINE Sums(g) == g = [s \in SUBSET S |->
                        IF s = {} THEN 0
                        ELSE LET x == CHOOSE x \in s : TRUE IN L[x] + g[s \ {x}]]
           iter == CHOOSE g : Sums(g)
<1>1. SumFunction(L) = iter[S]
  BY DEF SumFunction, SumFunctionOnSet, FoldFunctionOnSet, MapThenFoldSet
<1>2. \A g : Sums(g) <=> IsSum(g, S, L)
  BY DEF IsSum
<1> HIDE DEF Sums
<1>3. Sums(iter)
  <2>1. Sums(f)
    BY <1>2
  <2> QED
    BY <2>1, Zenon
<1> HIDE DEF iter
<1>4. IsSum(iter, S, L)
  BY <1>2, <1>3
<1> QED
  BY <1>1, <1>4, SumIsUnique

\* The sum of the sizes of disjoint sets is the size of their union.
LEMMA SumOfParts ==
    ASSUME NEW S, IsFiniteSet(S), NEW P, \A k \in S : IsFiniteSet(P[k]),
           \A j, k \in S : j # k => P[j] \cap P[k] = {}
    PROVE  /\ IsFiniteSet(UNION {P[k] : k \in S})
           /\ SumFunction([k \in S |-> Cardinality(P[k])]) = Cardinality(UNION {P[k] : k \in S})
<1> DEFINE All(s) == UNION {P[k] : k \in s}
           L == [k \in S |-> Cardinality(P[k])]
           f == [s \in SUBSET S |-> Cardinality(All(s))]
<1>1. ASSUME NEW s \in SUBSET S PROVE IsFiniteSet(All(s)) /\ Cardinality(All(s)) \in Nat
  <2> DEFINE T == {P[k] : k \in s}
             p == [k \in s |-> P[k]]
  <2>1. p \in Surjection(s, T)
    BY DEF Surjection
  <2>2. IsFiniteSet(s)
    BY FS_Subset
  <2>3. IsFiniteSet(T)
    BY <2>1, <2>2, FS_Surjection
  <2>4. \A t \in T : IsFiniteSet(t)
    OBVIOUS
  <2> HIDE DEF T
  <2>5. IsFiniteSet(UNION T)
    BY <2>3, <2>4, FS_UNION
  <2> QED
    BY <2>5, FS_CardinalityType DEF T
<1>2. ASSUME NEW s \in SUBSET S, NEW x \in s
      PROVE  Cardinality(All(s)) = L[x] + Cardinality(All(s \ {x}))
  <2>1. s \ {x} \in SUBSET S
    OBVIOUS
  <2>2. IsFiniteSet(P[x]) /\ IsFiniteSet(All(s \ {x})) /\ Cardinality(All(s \ {x})) \in Nat
    BY <1>1, <2>1
  <2>3. All(s) = P[x] \cup All(s \ {x})
    OBVIOUS
  <2>4. P[x] \cap All(s \ {x}) = {}
    OBVIOUS
  <2>5. Cardinality(P[x]) \in Nat
    BY <2>2, FS_CardinalityType
  <2> HIDE DEF All
  <2>6. Cardinality(P[x] \cup All(s \ {x}))
          = Cardinality(P[x]) + Cardinality(All(s \ {x})) - Cardinality(P[x] \cap All(s \ {x}))
    BY <2>2, FS_Union
  <2>7. Cardinality(P[x] \cap All(s \ {x})) = 0
    BY <2>4, FS_EmptySet
  <2> QED
    BY <2>2, <2>3, <2>5, <2>6, <2>7
<1>3. IsSum(f, S, L)
  <2> SUFFICES ASSUME NEW s \in SUBSET S
               PROVE  f[s] = IF s = {} THEN 0
                             ELSE L[CHOOSE x \in s : TRUE] + f[s \ {CHOOSE x \in s : TRUE}]
    BY DEF IsSum
  <2>1. CASE s = {}
    <3>1. All({}) = {}
      OBVIOUS
    <3> HIDE DEF All
    <3> QED
      BY <2>1, <3>1, FS_EmptySet
  <2>2. CASE s # {}
    <3> DEFINE x == CHOOSE y \in s : TRUE
    <3>1. x \in s
      BY <2>2
    <3> HIDE DEF x, All, L
    <3>2. f[s] = Cardinality(All(s)) /\ f[s \ {x}] = Cardinality(All(s \ {x}))
      OBVIOUS
    <3>3. f[s] = L[x] + f[s \ {x}]
      BY <1>2, <3>1, <3>2
    <3> QED
      BY <2>2, <3>3 DEF x
  <2> QED
    BY <2>1, <2>2
<1>4. DOMAIN L = S
  OBVIOUS
<1> HIDE DEF f, L
<1>5. SumFunction(L) = f[S]
  BY <1>3, <1>4, SumFunctionIsSum
<1>6. f[S] = Cardinality(All(S))
  BY DEF f
<1> QED
  BY <1>1, <1>5, <1>6 DEF L

\* A number as large as each element's, of things of its own.
Units(S, L) == [k \in S |-> {k} \X (0 .. L[k] - 1)]

\* The sum of L is the number of units.
LEMMA SumOfUnits ==
    ASSUME NEW S, IsFiniteSet(S), NEW L \in [S -> Nat]
    PROVE  /\ IsFiniteSet(UNION {Units(S, L)[k] : k \in S})
           /\ SumFunction(L) = Cardinality(UNION {Units(S, L)[k] : k \in S})
<1> DEFINE P == Units(S, L)
<1>1. ASSUME NEW k \in S PROVE IsFiniteSet(P[k]) /\ Cardinality(P[k]) = L[k]
  <2>1. L[k] \in Nat
    OBVIOUS
  <2>2. IsFiniteSet(0 .. L[k] - 1) /\ Cardinality(0 .. L[k] - 1) = L[k]
    BY <2>1, FS_Interval
  <2>3. IsFiniteSet({k}) /\ Cardinality({k}) = 1
    BY FS_Singleton
  <2>4. IsFiniteSet({k} \X (0 .. L[k] - 1)) /\ Cardinality({k} \X (0 .. L[k] - 1)) = 1 * L[k]
    <3> DEFINE U == 0 .. L[k] - 1
               K == {k}
    <3>1. IsFiniteSet(U) /\ Cardinality(U) = L[k] /\ IsFiniteSet(K) /\ Cardinality(K) = 1
      BY <2>2, <2>3
    <3> HIDE DEF U, K
    <3>2. IsFiniteSet(K \X U) /\ Cardinality(K \X U) = 1 * L[k]
      BY <3>1, FS_Product
    <3> QED
      BY <3>2 DEF U, K
  <2>5. P[k] = {k} \X (0 .. L[k] - 1)
    BY DEF Units
  <2> QED
    BY <2>1, <2>4, <2>5
<1>2. \A j, k \in S : j # k => P[j] \cap P[k] = {}
  BY DEF Units
<1> HIDE DEF P
<1>3. L = [k \in S |-> Cardinality(P[k])]
  BY <1>1
<1>4. \A k \in S : IsFiniteSet(P[k])
  BY <1>1
<1>5. /\ IsFiniteSet(UNION {P[k] : k \in S})
      /\ SumFunction([k \in S |-> Cardinality(P[k])]) = Cardinality(UNION {P[k] : k \in S})
  BY <1>2, <1>4, SumOfParts
<1>6. SumFunction(L) = Cardinality(UNION {P[k] : k \in S})
  BY <1>3, <1>5
<1> QED
  BY <1>5, <1>6 DEF P

\* A sum does not depend on what its terms are named.
LEMMA SumRenamed ==
    ASSUME NEW S, IsFiniteSet(S), NEW L \in [S -> Nat],
           NEW T, IsFiniteSet(T), NEW M \in [T -> Nat],
           NEW b \in Bijection(S, T), \A x \in S : M[b[x]] = L[x]
    PROVE  SumFunction(L) = SumFunction(M) /\ SumFunction(L) \in Nat
<1> DEFINE A == UNION {Units(S, L)[k] : k \in S}
           B == UNION {Units(T, M)[k] : k \in T}
           h == [e \in A |-> <<b[e[1]], e[2]>>]
<1>1. /\ IsFiniteSet(A) /\ SumFunction(L) = Cardinality(A)
      /\ IsFiniteSet(B) /\ SumFunction(M) = Cardinality(B)
  BY SumOfUnits
<1>2. /\ \A e : e \in A <=> e \in S \X Nat /\ e[2] < L[e[1]]
      /\ \A e : e \in B <=> e \in T \X Nat /\ e[2] < M[e[1]]
  BY DEF Units
<1>3. /\ b \in [S -> T] /\ \A x, y \in S : b[x] = b[y] => x = y
      /\ \A t \in T : \E x \in S : b[x] = t
  BY DEF Bijection, Injection, Surjection, IsInjective
<1> HIDE DEF A, B
<1>4. h \in [A -> B]
  BY <1>2, <1>3
<1>5. \A d, e \in A : h[d] = h[e] => d = e
  BY <1>2, <1>3
<1>6. \A e \in B : \E d \in A : h[d] = e
  <2> SUFFICES ASSUME NEW e \in B PROVE \E d \in A : h[d] = e
    OBVIOUS
  <2>1. e \in T \X Nat /\ e[2] < M[e[1]]
    BY <1>2
  <2>2. PICK x \in S : b[x] = e[1]
    BY <1>3, <2>1
  <2>3. <<x, e[2]>> \in A
    BY <1>2, <2>1, <2>2
  <2>4. h[<<x, e[2]>>] = <<b[x], e[2]>>
    BY <2>3
  <2> QED
    BY <2>1, <2>2, <2>3, <2>4
<1> HIDE DEF h
<1>7. ExistsBijection(A, B)
  BY <1>4, <1>5, <1>6 DEF ExistsBijection, Bijection, Injection, Surjection, IsInjective
<1> QED
  BY <1>1, <1>7, FS_Bijection, FS_CardinalityType

-----------------------------------------------------------------------------
(* The windows of one job.                                                  *)

\* The place of a number among the numbers of S.
Rank(S, o) == Cardinality({p \in S : p <= o})

\* Ranks follow the order of the numbers, and run from 1 to how many there are.
LEMMA RankFacts ==
    ASSUME NEW S, S \subseteq Int, IsFiniteSet(S)
    PROVE  /\ Cardinality(S) \in Nat
           /\ \A o \in S : Rank(S, o) \in 1 .. Cardinality(S)
           /\ \A o, q \in S : o < q => Rank(S, o) < Rank(S, q)
           /\ \A k \in 1 .. Cardinality(S) : \E o \in S : Rank(S, o) = k
<1> DEFINE Below(o) == {p \in S : p <= o}
           r == [o \in S |-> Rank(S, o)]
           n == Cardinality(S)
<1>1. n \in Nat
  BY FS_CardinalityType
<1>2. ASSUME NEW o \in S
      PROVE  /\ IsFiniteSet(Below(o)) /\ Cardinality(Below(o)) \in 1 .. n
             /\ Rank(S, o) = Cardinality(Below(o))
  <2>1. Below(o) \in SUBSET S /\ o \in Below(o)
    OBVIOUS
  <2> HIDE DEF Below
  <2>2. IsFiniteSet(Below(o)) /\ Cardinality(Below(o)) <= n
    BY <2>1, FS_Subset
  <2>3. Cardinality(Below(o)) \in Nat
    BY <2>2, FS_CardinalityType
  <2>4. Cardinality(Below(o)) # 0
    BY <2>1, <2>2, FS_EmptySet
  <2>5. Cardinality(Below(o)) \in 1 .. n
    BY <1>1, <2>2, <2>3, <2>4
  <2> QED
    BY <2>2, <2>5 DEF Rank, Below
<1>3. ASSUME NEW o \in S, NEW q \in S, o < q PROVE Rank(S, o) < Rank(S, q)
  <2>1. Below(o) \in SUBSET Below(q) /\ q \in Below(q) /\ q \notin Below(o)
    <3>1. o \in Int /\ q \in Int
      OBVIOUS
    <3>2. \A p \in S : p <= o => p <= q
      BY <1>3, <3>1
    <3>3. ~(q <= o) /\ q <= q
      BY <1>3, <3>1
    <3> QED
      BY <3>2, <3>3
  <2> HIDE DEF Below
  <2>2. Below(o) # Below(q)
    BY <2>1
  <2>3. /\ Cardinality(Below(o)) <= Cardinality(Below(q))
        /\ Cardinality(Below(q)) # Cardinality(Below(o))
    BY <1>2, <2>1, <2>2, FS_Subset
  <2> QED
    BY <1>2, <2>3
<1>4. r \in Injection(S, 1 .. n)
  <2>1. r \in [S -> 1 .. n]
    BY <1>2
  <2>2. ASSUME NEW o \in S, NEW q \in S, r[o] = r[q] PROVE o = q
    <3>1. o \in Int /\ q \in Int /\ Rank(S, o) = Rank(S, q)
      BY <2>2
    <3>2. Rank(S, o) \in 1 .. n
      BY <1>2
    <3> HIDE DEF n
    <3>3. ~(Rank(S, o) < Rank(S, q)) /\ ~(Rank(S, q) < Rank(S, o))
      BY <1>1, <3>1, <3>2
    <3>4. ~(o < q) /\ ~(q < o)
      BY <1>3, <3>3
    <3> QED
      BY <3>1, <3>4
  <2> QED
    BY <2>1, <2>2 DEF Injection, IsInjective
<1>5. IsFiniteSet(1 .. n) /\ Cardinality(1 .. n) = n
  BY <1>1, FS_Interval
<1> HIDE DEF r
<1>6. r \in Surjection(S, 1 .. n)
  BY <1>4, <1>5, FS_Injection
<1>7. \A k \in 1 .. n : \E o \in S : r[o] = k
  BY <1>6 DEF Surjection
<1> QED
  BY <1>1, <1>2, <1>3, <1>7 DEF r

\* The windows of a job are those of its valid anchors, in order.
LEMMA OrdinalFacts ==
    ASSUME NEW job, job.start \in Int, job.end \in Int
    PROVE  /\ Cardinality(Valid(job)) \in Nat
           /\ \A k \in 1 .. Cardinality(Valid(job)) : Ordinal(job, k) \in Valid(job)
           /\ \A j, k \in 1 .. Cardinality(Valid(job)) : j < k => Ordinal(job, j) < Ordinal(job, k)
           /\ \A o \in Valid(job) : \E k \in 1 .. Cardinality(Valid(job)) : Ordinal(job, k) = o
<1> DEFINE S == Valid(job)
           n == Cardinality(S)
<1>1. S \subseteq Int /\ IsFiniteSet(S)
  <2>1. S \in SUBSET (job.start .. job.end - 1)
    BY DEF Valid
  <2>2. IsFiniteSet(job.start .. job.end - 1)
    <3>1. job.end - 1 \in Int
      OBVIOUS
    <3> QED
      BY <3>1, FS_Interval
  <2> QED
    BY <2>1, <2>2, FS_Subset
<1>2. /\ n \in Nat
      /\ \A o \in S : Rank(S, o) \in 1 .. n
      /\ \A o, q \in S : o < q => Rank(S, o) < Rank(S, q)
      /\ \A k \in 1 .. n : \E o \in S : Rank(S, o) = k
  BY <1>1, RankFacts
<1>3. \A k : Ordinal(job, k) = CHOOSE o \in S : Rank(S, o) = k
  BY DEF Ordinal, Rank
<1> HIDE DEF S, n
<1>4. ASSUME NEW k \in 1 .. n PROVE Ordinal(job, k) \in S /\ Rank(S, Ordinal(job, k)) = k
  <2>1. \E o \in S : Rank(S, o) = k
    BY <1>2
  <2> QED
    BY <1>3, <2>1
<1>5. ASSUME NEW j \in 1 .. n, NEW k \in 1 .. n, j < k PROVE Ordinal(job, j) < Ordinal(job, k)
  <2>1. S \subseteq Int
    BY <1>1
  <2>2. Ordinal(job, j) \in S /\ Rank(S, Ordinal(job, j)) = j
    BY <1>4
  <2>3. Ordinal(job, k) \in S /\ Rank(S, Ordinal(job, k)) = k
    BY <1>4
  <2>4. ~(Ordinal(job, k) < Ordinal(job, j)) /\ Ordinal(job, j) # Ordinal(job, k)
    BY <1>2, <1>5, <2>2, <2>3
  <2>5. Ordinal(job, j) \in Int /\ Ordinal(job, k) \in Int
    BY <2>1, <2>2, <2>3
  <2> QED
    BY <2>4, <2>5
<1>6. ASSUME NEW o \in S PROVE \E k \in 1 .. n : Ordinal(job, k) = o
  <2> DEFINE k == Rank(S, o)
  <2>1. k \in 1 .. n
    BY <1>2
  <2>2. Ordinal(job, k) \in S /\ Rank(S, Ordinal(job, k)) = k
    BY <1>4, <2>1
  <2>3. Rank(S, Ordinal(job, k)) \in Int /\ Rank(S, o) \in Int
    BY <1>2, <2>2
  <2>4. Ordinal(job, k) \in Int /\ o \in Int
    BY <1>1, <2>2
  <2>5. Ordinal(job, k) = o
    BY <1>2, <2>2, <2>3, <2>4
  <2> QED
    BY <2>1, <2>5
<1> QED
  BY <1>2, <1>4, <1>5, <1>6 DEF S, n

\* Functions on an interval are sequences.
LEMMA SequenceOf ==
    ASSUME NEW S, NEW n \in Nat, NEW f \in [1 .. n -> S]
    PROVE  f \in Seq(S)
    BY IsASeq

\* A later anchor is of a later row.
LEMMA AnchorMonotone ==
    ASSUME NEW o \in Int, NEW q \in Int, o < q
    PROVE  /\ Anchor(o) \in Int /\ Anchor(q) \in Int
           /\ Anchor(o) < Anchor(q)
<1>1. Stride \in Nat \ {0} /\ History \in Nat
  BY WindowAssumption
<1>2. o * Stride < q * Stride
  <2>1. (q - o) * Stride > 0
    BY <1>1, SMT
  <2>2. (q - o) * Stride = q * Stride - o * Stride
    BY <1>1, SMT
  <2> QED
    BY <1>1, <2>1, <2>2, SMT
<1> QED
  BY <1>1, <1>2 DEF Anchor, FirstAnchor

\* The windows that a job gives: one of each of its valid anchors, in order of time.
LEMMA WindowsFacts ==
    ASSUME NEW job, job.start \in Int, job.end \in Int
    PROVE  /\ Windows(job) \in Seq({Window(a) : a \in Int})
           /\ \A j, k \in DOMAIN Windows(job) : j < k => Windows(job)[j].anchor < Windows(job)[k].anchor
           /\ {Windows(job)[k].anchor : k \in DOMAIN Windows(job)} = {Anchor(o) : o \in Valid(job)}
<1> DEFINE n == Cardinality(Valid(job))
           w == Windows(job)
<1>1. /\ n \in Nat
      /\ \A k \in 1 .. n : Ordinal(job, k) \in Valid(job)
      /\ \A j, k \in 1 .. n : j < k => Ordinal(job, j) < Ordinal(job, k)
      /\ \A o \in Valid(job) : \E k \in 1 .. n : Ordinal(job, k) = o
  BY OrdinalFacts
<1>2. Valid(job) \subseteq Int
  BY DEF Valid
<1>3. \A o \in Int : Anchor(o) \in Int
  BY WindowAssumption DEF Anchor, FirstAnchor
<1>4. \A a : Window(a).anchor = a
  BY DEF Window
<1>5. w = [k \in 1 .. n |-> Window(Anchor(Ordinal(job, k)))]
  BY DEF Windows
<1> HIDE DEF n, w
<1>6. DOMAIN w = 1 .. n /\ \A k \in 1 .. n : w[k] = Window(Anchor(Ordinal(job, k)))
  BY <1>5
<1>7. w \in Seq({Window(a) : a \in Int})
  <2>1. \A k \in 1 .. n : w[k] \in {Window(a) : a \in Int}
    BY <1>1, <1>2, <1>3, <1>6
  <2>2. w \in [1 .. n -> {Window(a) : a \in Int}]
    BY <1>5, <1>6, <2>1
  <2> QED
    BY <1>1, <2>2, SequenceOf
<1>8. \A k \in 1 .. n : w[k].anchor = Anchor(Ordinal(job, k))
  BY <1>4, <1>6
<1>9. ASSUME NEW j \in 1 .. n, NEW k \in 1 .. n, j < k PROVE w[j].anchor < w[k].anchor
  <2>1. Ordinal(job, j) \in Int /\ Ordinal(job, k) \in Int /\ Ordinal(job, j) < Ordinal(job, k)
    BY <1>1, <1>2, <1>9
  <2> QED
    BY <1>8, <2>1, AnchorMonotone
<1>10. {w[k].anchor : k \in 1 .. n} = {Anchor(o) : o \in Valid(job)}
  <2>1. \A k \in 1 .. n : w[k].anchor \in {Anchor(o) : o \in Valid(job)}
    BY <1>1, <1>8
  <2>2. \A o \in Valid(job) : \E k \in 1 .. n : w[k].anchor = Anchor(o)
    BY <1>1, <1>8
  <2> QED
    BY <2>1, <2>2
<1> QED
  BY <1>6, <1>7, <1>9, <1>10 DEF w

-----------------------------------------------------------------------------
(* The inductive invariant of the pool.                                     *)

Elements(seq) == {seq[k] : k \in DOMAIN seq}

\* The job of range k, and what a worker makes of it.
Job(k) == [index |-> k, start |-> Offset(total, requested, k - 1), end |-> Offset(total, requested, k)]
Built(k) == [index |-> k, records |-> Windows(Job(k))]

TableInv == records \in Tables /\ total = TotalAnchors

\* Whatever is on its way is a job of the loop or what was built from one.
PoolInv ==
    /\ jobs \in Seq({Job(k) : k \in Workers})
    /\ doing \in [Workers -> {Job(k) : k \in Workers} \cup {None}]
    /\ results \in Seq({Built(k) : k \in Workers})
    /\ DOMAIN ordered = Workers

\* A range that was sent is in the channel, with a worker, in the other channel, or in place.
NoneLost ==
    \A k \in 1 .. i :
        \/ Job(k) \in Elements(jobs)
        \/ \E w \in Workers : doing[w] = Job(k)
        \/ Built(k) \in Elements(results)
        \/ ordered[k] = Windows(Job(k))

\* The windows joined are those of the ordinals before the next range.
Before(n) == Valid([start |-> 0, end |-> n])

JoinedInv ==
    /\ joined \in 0 .. count
    /\ forecast \in Seq({Window(a) : a \in Int})
    /\ \A j, k \in DOMAIN forecast : j < k => forecast[j].anchor < forecast[k].anchor
    /\ {forecast[k].anchor : k \in DOMAIN forecast}
           = {Anchor(o) : o \in Before(Offset(total, requested, joined))}

SplitInv ==
    training # None => /\ joined = count
                       /\ training = SubSeq(forecast, 1, Cut(Len(forecast)))
                       /\ test = SubSeq(forecast, Cut(Len(forecast)) + 1, Len(forecast))

BuildInv == IInv /\ TableInv /\ PoolInv /\ NoneLost /\ JoinedInv /\ SplitInv

\* All of these depend on nothing else.
LEMMA SameTable ==
    ASSUME records' = records, total' = total, requested' = requested
    PROVE  /\ \A k : Job(k)' = Job(k)
           /\ \A k : Windows(Job(k))' = Windows(Job(k))
           /\ \A k : Built(k)' = Built(k)
           /\ \A a : Window(a)' = Window(a)
           /\ \A n : Valid([start |-> 0, end |-> n])' = Valid([start |-> 0, end |-> n])
<1>1. \A k : Job(k)' = Job(k)
  BY DEF Job
<1>2. \A a : Window(a)' = Window(a)
  BY DEF Window, Features, Rates, Tally, HourOf, DayHourOf, RowNumbers, High, Row, RateLimit,
     FutureHigh, FutureEnd, HistoryStart
<1>3. \A n : Valid([start |-> 0, end |-> n])' = Valid([start |-> 0, end |-> n])
  BY DEF Valid, Anchor, FirstAnchor, LastAnchorExclusive, Unbroken, Row, FutureEnd, HistoryStart
<1>4. \A k : Windows(Job(k))' = Windows(Job(k))
  <2>1. \A k : Valid(Job(k))' = Valid(Job(k))
    BY <1>1 DEF Valid, Anchor, FirstAnchor, LastAnchorExclusive, Unbroken, Row, FutureEnd,
       HistoryStart
  <2>2. \A k, n : Ordinal(Job(k), n)' = Ordinal(Job(k), n)
    <3> SUFFICES ASSUME NEW k, NEW n PROVE Ordinal(Job(k), n)' = Ordinal(Job(k), n)
      OBVIOUS
    <3>1. Valid(Job(k))' = Valid(Job(k))
      BY <2>1
    <3> QED
      BY <3>1, Zenon DEF Ordinal
  <2>3. \A o : Anchor(o)' = Anchor(o)
    BY DEF Anchor, FirstAnchor
  <2> QED
    BY <1>2, <2>1, <2>2, <2>3 DEF Windows
<1> QED
  BY <1>1, <1>2, <1>3, <1>4 DEF Built

\* What an element sent to a channel adds to it.
LEMMA ElementsAppend ==
    ASSUME NEW S, NEW s \in Seq(S), NEW e \in S
    PROVE  Append(s, e) \in Seq(S) /\ Elements(Append(s, e)) = Elements(s) \cup {e}
<1>1. /\ Append(s, e) \in Seq(S) /\ Len(Append(s, e)) = Len(s) + 1
      /\ \A k \in 1 .. Len(s) : Append(s, e)[k] = s[k]
      /\ Append(s, e)[Len(s) + 1] = e
  BY AppendProperties
<1>2. /\ Len(s) \in Nat /\ DOMAIN s = 1 .. Len(s) /\ DOMAIN Append(s, e) = 1 .. Len(Append(s, e))
  BY <1>1, LenProperties
<1>3. \A k : k \in DOMAIN Append(s, e) <=> k \in DOMAIN s \/ k = Len(s) + 1
  BY <1>1, <1>2
<1> QED
  BY <1>1, <1>2, <1>3, Zenon DEF Elements

\* What the element received from a channel takes from it.
LEMMA ElementsTail ==
    ASSUME NEW S, NEW s \in Seq(S), s # <<>>
    PROVE  /\ Head(s) \in S /\ Tail(s) \in Seq(S)
           /\ Elements(s) = {Head(s)} \cup Elements(Tail(s))
<1>1. /\ Head(s) \in S /\ Tail(s) \in Seq(S) /\ Len(Tail(s)) = Len(s) - 1
      /\ \A k \in 1 .. Len(Tail(s)) : Tail(s)[k] = s[k + 1]
  BY HeadTailProperties
<1>2. /\ Len(s) \in Nat \ {0} /\ DOMAIN s = 1 .. Len(s) /\ DOMAIN Tail(s) = 1 .. Len(Tail(s))
  BY <1>1, LenProperties, EmptySeq
<1>3. Head(s) = s[1] /\ 1 \in DOMAIN s
  BY <1>2
<1>4. \A k \in DOMAIN Tail(s) : k + 1 \in DOMAIN s /\ Tail(s)[k] = s[k + 1]
  BY <1>1, <1>2
<1>5. \A k \in DOMAIN s : k = 1 \/ (k - 1 \in DOMAIN Tail(s) /\ Tail(s)[k - 1] = s[k])
  BY <1>1, <1>2
<1>6. ASSUME NEW e \in Elements(s) PROVE e \in {Head(s)} \cup Elements(Tail(s))
  <2>1. PICK k \in DOMAIN s : e = s[k]
    BY DEF Elements
  <2> QED
    BY <1>3, <1>5, <2>1 DEF Elements
<1>7. ASSUME NEW e \in {Head(s)} \cup Elements(Tail(s)) PROVE e \in Elements(s)
  <2>1. CASE e = Head(s)
    BY <1>3, <2>1 DEF Elements
  <2>2. CASE e \in Elements(Tail(s))
    <3>1. PICK k \in DOMAIN Tail(s) : e = Tail(s)[k]
      BY <2>2 DEF Elements
    <3> QED
      BY <1>4, <3>1 DEF Elements
  <2> QED
    BY <1>7, <2>1, <2>2
<1> QED
  BY <1>1, <1>6, <1>7

\* The arguments of the loop stay.
LEMMA ArgsKept ==
    ASSUME IInv, [Next]_vars
    PROVE  /\ total' = total /\ requested' = requested /\ count' = count /\ Workers' = Workers
           /\ i' \in {i, i + 1} /\ count \in Nat \ {0}
  BY CountFacts DEF Next, Iterate, vars, Workers, IInv, ArgsInv

\* A job is not None, and its ends are rows.
LEMMA JobType ==
    ASSUME IInv, NEW k \in 1 .. count
    PROVE  /\ Job(k) \in [index : Nat, start : Nat, end : Nat]
           /\ Job(k).start <= Job(k).end /\ Job(k).end <= total
<1>1. total \in Nat \ {0} /\ requested \in Nat \ {0} /\ count = Cap(total, requested) /\ count \in Nat
  BY CountFacts DEF IInv, ArgsInv
<1>2. k - 1 \in 0 .. Cap(total, requested) - 1 /\ (k - 1) + 1 = k /\ k \in Nat
  BY <1>1
<1>3. /\ Offset(total, requested, k - 1) \in Nat
      /\ Offset(total, requested, k) = Offset(total, requested, k - 1) + Base(total, requested)
                                       + (IF k - 1 < Remainder(total, requested) THEN 1 ELSE 0)
      /\ Offset(total, requested, k) <= total
  BY <1>1, <1>2, OffsetFacts
<1>4. Base(total, requested) \in Nat
  BY <1>1, CountFacts, DivisionFacts DEF Base, IInv
<1> QED
  BY <1>1, <1>2, <1>3, <1>4 DEF Job

\* What was sent is of a range.
LEMMA SentIsRange ==
    ASSUME IInv
    PROVE  count \in Nat /\ i \in Nat /\ 1 .. i \subseteq 1 .. count
<1>1. count \in Nat
  BY CountFacts DEF IInv, ArgsInv
<1> QED
  BY <1>1 DEF IInv, PlaceInv

\* The new range is in the channel.
LEMMA SendKeeps ==
    ASSUME BuildInv, Send
    PROVE  BuildInv'
<1>1. Next /\ IInv /\ IInv'
  BY Preserved DEF Send, Next, BuildInv
<1>2. /\ total' = total /\ requested' = requested /\ count' = count /\ Workers' = Workers
      /\ i' = i + 1 /\ count \in Nat \ {0} /\ records' = records
  BY <1>1, ArgsKept DEF Send, Iterate
<1>3. /\ \A k : Job(k)' = Job(k)
      /\ \A k : Windows(Job(k))' = Windows(Job(k))
      /\ \A k : Built(k)' = Built(k)
      /\ \A a : Window(a)' = Window(a)
      /\ \A n : Before(n)' = Before(n)
  BY <1>2, SameTable DEF Before
<1>4. i \in 0 .. count - 1 /\ i + 1 \in Workers
  BY <1>1, <1>2 DEF Send, IInv, PlaceInv, Workers
<1>5. [index |-> i + 1, start |-> start, end |-> RangeEnd] = Job(i + 1)
  <2>1. start = Offset(total, requested, i) /\ start' = Offset(total, requested, i + 1)
    BY <1>1, <1>2 DEF IInv, PlaceInv
  <2>2. start' = RangeEnd /\ (i + 1) - 1 = i
    BY <1>4 DEF Send, Iterate
  <2> QED
    BY <2>1, <2>2 DEF Job
<1>6. jobs' \in Seq({Job(k) : k \in Workers}) /\ Elements(jobs') = Elements(jobs) \cup {Job(i + 1)}
  <2> DEFINE W == {Job(k) : k \in Workers}
             e == Job(i + 1)
  <2>1. jobs' = Append(jobs, e) /\ jobs \in Seq(W) /\ e \in W
    BY <1>4, <1>5 DEF Send, BuildInv, PoolInv
  <2> HIDE DEF W, e
  <2>2. Append(jobs, e) \in Seq(W) /\ Elements(Append(jobs, e)) = Elements(jobs) \cup {e}
    BY <2>1, ElementsAppend
  <2> QED
    BY <2>1, <2>2 DEF W, e
<1>7. PoolInv'
  BY <1>2, <1>3, <1>6 DEF Send, BuildInv, PoolInv
<1>8. NoneLost'
  <2> SUFFICES ASSUME NEW k \in 1 .. i + 1
               PROVE  \/ Job(k) \in Elements(jobs')
                      \/ \E w \in Workers : doing[w] = Job(k)
                      \/ Built(k) \in Elements(results)
                      \/ ordered[k] = Windows(Job(k))
    BY <1>2, <1>3 DEF NoneLost, Send
  <2>1. k \in 1 .. i \/ k = i + 1
    BY <1>4
  <2> QED
    BY <1>6, <2>1 DEF BuildInv, NoneLost
<1>9. JoinedInv' /\ SplitInv' /\ TableInv'
  BY <1>2, <1>3 DEF Send, BuildInv, JoinedInv, SplitInv, TableInv, TotalAnchors,
     LastAnchorExclusive, FirstAnchor, Anchor, Cut
<1> QED
  BY <1>1, <1>7, <1>8, <1>9 DEF BuildInv

\* The job taken is with the worker.
LEMMA TakeKeeps ==
    ASSUME BuildInv, NEW w \in Workers, Take(w)
    PROVE  BuildInv'
<1>1. /\ UNCHANGED vars /\ records' = records /\ total' = total /\ requested' = requested
      /\ count' = count /\ i' = i /\ Workers' = Workers /\ UNCHANGED <<results, ordered, joined, forecast, training, test>>
  BY DEF Take, vars, Workers
<1>2. IInv'
  BY <1>1, Preserved DEF BuildInv
<1>3. /\ \A k : Job(k)' = Job(k)
      /\ \A k : Windows(Job(k))' = Windows(Job(k))
      /\ \A k : Built(k)' = Built(k)
      /\ \A a : Window(a)' = Window(a)
      /\ \A n : Before(n)' = Before(n)
  BY <1>1, SameTable DEF Before
<1>4. /\ Head(jobs) \in {Job(k) : k \in Workers} /\ Tail(jobs) \in Seq({Job(k) : k \in Workers})
      /\ Elements(jobs) = {Head(jobs)} \cup Elements(Tail(jobs))
  BY ElementsTail DEF Take, BuildInv, PoolInv
<1>5. /\ jobs' = Tail(jobs) /\ doing[w] = None /\ doing' = [doing EXCEPT ![w] = Head(jobs)]
      /\ doing \in [Workers -> {Job(k) : k \in Workers} \cup {None}]
  BY DEF Take, BuildInv, PoolInv
<1>6. PoolInv'
  <2>1. doing' \in [Workers -> {Job(k) : k \in Workers} \cup {None}]
    BY <1>4, <1>5
  <2> QED
    BY <1>1, <1>3, <1>4, <1>5, <2>1 DEF BuildInv, PoolInv
<1>7. doing'[w] = Head(jobs) /\ \A v \in Workers : v # w => doing'[v] = doing[v]
  BY <1>5
<1>8. NoneLost'
  <2> SUFFICES ASSUME NEW k \in 1 .. i
               PROVE  \/ Job(k) \in Elements(jobs')
                      \/ \E v \in Workers : doing'[v] = Job(k)
                      \/ Built(k) \in Elements(results)
                      \/ ordered[k] = Windows(Job(k))
    BY <1>1, <1>3 DEF NoneLost
  <2>1. CASE Job(k) \in Elements(jobs)
    BY <1>4, <1>5, <1>7, <2>1
  <2>2. CASE \E v \in Workers : doing[v] = Job(k)
    <3>1. PICK v \in Workers : doing[v] = Job(k)
      BY <2>2
    <3>2. k \in 1 .. count
      BY SentIsRange DEF BuildInv
    <3>3. Job(k) # None
      BY <3>2, NoneAssumption, JobType DEF BuildInv
    <3> QED
      BY <1>5, <1>7, <3>1, <3>3
  <2> QED
    BY <2>1, <2>2 DEF BuildInv, NoneLost
<1>9. JoinedInv' /\ SplitInv' /\ TableInv'
  BY <1>1, <1>3 DEF BuildInv, JoinedInv, SplitInv, TableInv, TotalAnchors, LastAnchorExclusive,
     FirstAnchor, Anchor, Cut
<1> QED
  BY <1>2, <1>6, <1>8, <1>9 DEF BuildInv

\* What was built from the job is in the other channel.
LEMMA DeliverKeeps ==
    ASSUME BuildInv, NEW w \in Workers, Deliver(w)
    PROVE  BuildInv'
<1>1. /\ UNCHANGED vars /\ records' = records /\ total' = total /\ requested' = requested
      /\ count' = count /\ i' = i /\ Workers' = Workers /\ UNCHANGED <<jobs, ordered, joined, forecast, training, test>>
  BY DEF Deliver, vars, Workers
<1>2. IInv'
  BY <1>1, Preserved DEF BuildInv
<1>3. /\ \A k : Job(k)' = Job(k)
      /\ \A k : Windows(Job(k))' = Windows(Job(k))
      /\ \A k : Built(k)' = Built(k)
      /\ \A a : Window(a)' = Window(a)
      /\ \A n : Before(n)' = Before(n)
  BY <1>1, SameTable DEF Before
<1>4. PICK n \in Workers : doing[w] = Job(n)
  BY DEF Deliver, BuildInv, PoolInv
<1>5. [index |-> doing[w].index, records |-> Windows(doing[w])] = Built(n)
  BY <1>4 DEF Built, Job
<1>6. results' \in Seq({Built(k) : k \in Workers}) /\ Elements(results') = Elements(results) \cup {Built(n)}
  <2>1. results \in Seq({Built(k) : k \in Workers}) /\ Built(n) \in {Built(k) : k \in Workers}
    BY DEF BuildInv, PoolInv
  <2>2. results' = Append(results, Built(n))
    BY <1>5 DEF Deliver
  <2> QED
    BY <2>1, <2>2, ElementsAppend
<1>7. /\ doing \in [Workers -> {Job(k) : k \in Workers} \cup {None}]
      /\ doing' = [doing EXCEPT ![w] = None]
  BY DEF Deliver, BuildInv, PoolInv
<1>8. PoolInv'
  <2>1. doing' \in [Workers -> {Job(k) : k \in Workers} \cup {None}]
    BY <1>7
  <2> QED
    BY <1>1, <1>3, <1>6, <2>1 DEF BuildInv, PoolInv
<1>9. \A v \in Workers : v # w => doing'[v] = doing[v]
  BY <1>7
<1>10. NoneLost'
  <2> SUFFICES ASSUME NEW k \in 1 .. i
               PROVE  \/ Job(k) \in Elements(jobs)
                      \/ \E v \in Workers : doing'[v] = Job(k)
                      \/ Built(k) \in Elements(results')
                      \/ ordered[k] = Windows(Job(k))
    BY <1>1, <1>3 DEF NoneLost
  <2>1. CASE \E v \in Workers : doing[v] = Job(k)
    <3>1. PICK v \in Workers : doing[v] = Job(k)
      BY <2>1
    <3>2. CASE v = w
      <4>1. n = k
        BY <1>4, <3>1, <3>2 DEF Job
      <4> QED
        BY <1>6, <4>1
    <3>3. CASE v # w
      BY <1>9, <3>1, <3>3
    <3> QED
      BY <3>2, <3>3
  <2> QED
    BY <1>6, <2>1 DEF BuildInv, NoneLost
<1>11. JoinedInv' /\ SplitInv' /\ TableInv'
  BY <1>1, <1>3 DEF BuildInv, JoinedInv, SplitInv, TableInv, TotalAnchors, LastAnchorExclusive,
     FirstAnchor, Anchor, Cut
<1> QED
  BY <1>2, <1>8, <1>10, <1>11 DEF BuildInv

\* What is received comes to its place; nothing else does.
LEMMA CollectKeeps ==
    ASSUME BuildInv, Collect
    PROVE  BuildInv'
<1>1. /\ UNCHANGED vars /\ records' = records /\ total' = total /\ requested' = requested
      /\ count' = count /\ i' = i /\ Workers' = Workers /\ UNCHANGED <<jobs, doing, joined, forecast, training, test>>
  BY DEF Collect, vars, Workers
<1>2. IInv'
  BY <1>1, Preserved DEF BuildInv
<1>3. /\ \A k : Job(k)' = Job(k)
      /\ \A k : Windows(Job(k))' = Windows(Job(k))
      /\ \A k : Built(k)' = Built(k)
      /\ \A a : Window(a)' = Window(a)
      /\ \A n : Before(n)' = Before(n)
  BY <1>1, SameTable DEF Before
<1>4. /\ Head(results) \in {Built(k) : k \in Workers} /\ Tail(results) \in Seq({Built(k) : k \in Workers})
      /\ Elements(results) = {Head(results)} \cup Elements(Tail(results))
  BY ElementsTail DEF Collect, BuildInv, PoolInv
<1>5. PICK n \in Workers : Head(results) = Built(n)
  BY <1>4
<1>6. /\ results' = Tail(results) /\ ordered' = [ordered EXCEPT ![n] = Windows(Job(n))]
      /\ DOMAIN ordered = Workers
  <2>1. Head(results).index = n /\ Head(results).records = Windows(Job(n))
    BY <1>5 DEF Built
  <2> QED
    BY <2>1 DEF Collect, BuildInv, PoolInv
<1>7. PoolInv'
  BY <1>1, <1>3, <1>4, <1>6 DEF BuildInv, PoolInv
<1>8. ordered'[n] = Windows(Job(n)) /\ \A k \in Workers : k # n => ordered'[k] = ordered[k]
  BY <1>6
<1>9. NoneLost'
  <2> SUFFICES ASSUME NEW k \in 1 .. i
               PROVE  \/ Job(k) \in Elements(jobs)
                      \/ \E v \in Workers : doing[v] = Job(k)
                      \/ Built(k) \in Elements(results')
                      \/ ordered'[k] = Windows(Job(k))
    BY <1>1, <1>3 DEF NoneLost
  <2>1. k \in Workers
    BY SentIsRange DEF BuildInv, Workers
  <2>2. CASE Built(k) \in Elements(results)
    <3>1. CASE Built(k) = Head(results)
      <4>1. k = n
        BY <1>5, <3>1 DEF Built
      <4> QED
        BY <1>8, <4>1
    <3>2. CASE Built(k) \in Elements(Tail(results))
      BY <1>6, <3>2
    <3> QED
      BY <1>4, <2>2, <3>1, <3>2
  <2>3. CASE ordered[k] = Windows(Job(k))
    BY <1>8, <2>1, <2>3
  <2> QED
    BY <2>2, <2>3 DEF BuildInv, NoneLost
<1>10. JoinedInv' /\ SplitInv' /\ TableInv'
  BY <1>1, <1>3 DEF BuildInv, JoinedInv, SplitInv, TableInv, TotalAnchors, LastAnchorExclusive,
     FirstAnchor, Anchor, Cut
<1> QED
  BY <1>2, <1>7, <1>9, <1>10 DEF BuildInv

\* Dividing the windows touches nothing else.
LEMMA SplitKeeps ==
    ASSUME BuildInv, Split
    PROVE  BuildInv'
<1>1. /\ UNCHANGED vars /\ records' = records /\ total' = total /\ requested' = requested
      /\ count' = count /\ i' = i /\ Workers' = Workers
      /\ UNCHANGED <<jobs, results, doing, ordered, joined, forecast>>
  BY DEF Split, vars, Workers
<1>2. IInv'
  BY <1>1, Preserved DEF BuildInv
<1>3. /\ \A k : Job(k)' = Job(k)
      /\ \A k : Windows(Job(k))' = Windows(Job(k))
      /\ \A k : Built(k)' = Built(k)
      /\ \A a : Window(a)' = Window(a)
      /\ \A n : Before(n)' = Before(n)
  BY <1>1, SameTable DEF Before
<1>4. PoolInv' /\ NoneLost'
  BY <1>1, <1>3 DEF BuildInv, PoolInv, NoneLost
<1>5. JoinedInv' /\ TableInv'
  BY <1>1, <1>3 DEF BuildInv, JoinedInv, TableInv, TotalAnchors, LastAnchorExclusive,
     FirstAnchor, Anchor
<1>6. SplitInv'
  BY <1>1 DEF Split, SplitInv
<1> QED
  BY <1>2, <1>4, <1>5, <1>6 DEF BuildInv

\* The ordinals before the end of a range are those before its start and its own.
LEMMA BeforeNext ==
    ASSUME NEW job, job.start \in Nat, job.end \in Nat, job.start <= job.end
    PROVE  /\ Before(job.end) = Before(job.start) \cup Valid(job)
           /\ \A o \in Before(job.start), q \in Valid(job) : o \in Int /\ q \in Int /\ o < q
<1> DEFINE Good(o) == Anchor(o) < LastAnchorExclusive /\ Unbroken(Anchor(o))
<1>1. /\ \A n, o : o \in Before(n) <=> o \in 0 .. n - 1 /\ Good(o)
      /\ \A o : o \in Valid(job) <=> o \in job.start .. job.end - 1 /\ Good(o)
  BY DEF Before, Valid
<1> HIDE DEF Good
<1>2. \A o : o \in 0 .. job.end - 1 <=> o \in 0 .. job.start - 1 \/ o \in job.start .. job.end - 1
  OBVIOUS
<1>3. \A o \in 0 .. job.start - 1, q \in job.start .. job.end - 1 : o \in Int /\ q \in Int /\ o < q
  OBVIOUS
<1> QED
  BY <1>1, <1>2, <1>3

\* Windows in order of time, followed by later ones in order of time.
LEMMA Joined ==
    ASSUME NEW W, NEW s \in Seq(W), NEW t \in Seq(W),
           \A j, k \in DOMAIN s : j < k => s[j].anchor < s[k].anchor,
           \A j, k \in DOMAIN t : j < k => t[j].anchor < t[k].anchor,
           \A j \in DOMAIN s, k \in DOMAIN t : s[j].anchor < t[k].anchor
    PROVE  /\ s \o t \in Seq(W)
           /\ \A j, k \in DOMAIN (s \o t) : j < k => (s \o t)[j].anchor < (s \o t)[k].anchor
           /\ {(s \o t)[k].anchor : k \in DOMAIN (s \o t)}
                  = {s[k].anchor : k \in DOMAIN s} \cup {t[k].anchor : k \in DOMAIN t}
<1> DEFINE u == s \o t
           m == Len(s)
<1>1. /\ u \in Seq(W) /\ m \in Nat /\ Len(t) \in Nat
      /\ DOMAIN s = 1 .. m /\ DOMAIN t = 1 .. Len(t) /\ DOMAIN u = 1 .. m + Len(t)
      /\ \A k \in 1 .. m + Len(t) : u[k] = IF k <= m THEN s[k] ELSE t[k - m]
  BY ConcatProperties, LenProperties
<1> HIDE DEF u, m
<1>2. \A k \in DOMAIN u : \/ k \in DOMAIN s /\ u[k] = s[k]
                          \/ k - m \in DOMAIN t /\ u[k] = t[k - m] /\ k > m
  <2> SUFFICES ASSUME NEW k \in DOMAIN u
               PROVE  \/ k \in DOMAIN s /\ u[k] = s[k]
                      \/ k - m \in DOMAIN t /\ u[k] = t[k - m] /\ k > m
    OBVIOUS
  <2>1. k \in 1 .. m + Len(t) /\ u[k] = IF k <= m THEN s[k] ELSE t[k - m]
    BY <1>1
  <2>2. CASE k <= m
    BY <1>1, <2>1, <2>2
  <2>3. CASE ~(k <= m)
    <3>1. k - m \in 1 .. Len(t) /\ k > m
      BY <1>1, <2>1, <2>3
    <3> QED
      BY <1>1, <2>1, <2>3, <3>1
  <2> QED
    BY <2>2, <2>3
<1>3. /\ \A k \in DOMAIN s : k \in DOMAIN u /\ u[k] = s[k]
      /\ \A k \in DOMAIN t : k + m \in DOMAIN u /\ u[k + m] = t[k]
  <2>1. ASSUME NEW k \in DOMAIN s PROVE k \in DOMAIN u /\ u[k] = s[k]
    <3>1. k \in 1 .. m + Len(t) /\ k <= m
      BY <1>1
    <3> QED
      BY <1>1, <3>1
  <2>2. ASSUME NEW k \in DOMAIN t PROVE k + m \in DOMAIN u /\ u[k + m] = t[k]
    <3>1. k + m \in 1 .. m + Len(t) /\ ~(k + m <= m) /\ (k + m) - m = k
      BY <1>1
    <3> QED
      BY <1>1, <3>1
  <2> QED
    BY <2>1, <2>2
<1>4. ASSUME NEW j \in DOMAIN u, NEW k \in DOMAIN u, j < k PROVE u[j].anchor < u[k].anchor
  <2>1. j \in Int /\ k \in Int /\ m \in Int
    BY <1>1
  <2>2. CASE k \in DOMAIN s /\ u[k] = s[k]
    <3>1. j \in DOMAIN s /\ u[j] = s[j]
      BY <1>1, <1>4, <2>2
    <3> QED
      BY <1>4, <2>2, <3>1
  <2>3. CASE k - m \in DOMAIN t /\ u[k] = t[k - m] /\ k > m
    <3>1. CASE j \in DOMAIN s /\ u[j] = s[j]
      BY <2>3, <3>1
    <3>2. CASE j - m \in DOMAIN t /\ u[j] = t[j - m] /\ j > m
      <4>1. j - m < k - m
        BY <1>4, <2>1
      <4> QED
        BY <2>3, <3>2, <4>1
    <3> QED
      BY <1>2, <3>1, <3>2
  <2> QED
    BY <1>2, <2>2, <2>3
<1>5. {u[k].anchor : k \in DOMAIN u} = {s[k].anchor : k \in DOMAIN s} \cup {t[k].anchor : k \in DOMAIN t}
  <2>1. \A k \in DOMAIN u : u[k].anchor \in {s[j].anchor : j \in DOMAIN s} \cup {t[j].anchor : j \in DOMAIN t}
    BY <1>2
  <2>2. \A k \in DOMAIN s : s[k].anchor \in {u[j].anchor : j \in DOMAIN u}
    BY <1>3
  <2>3. \A k \in DOMAIN t : t[k].anchor \in {u[j].anchor : j \in DOMAIN u}
    BY <1>3
  <2> QED
    BY <2>1, <2>2, <2>3
<1> QED
  BY <1>1, <1>4, <1>5 DEF u

\* When the pool is done every range is in its place: the next one's windows come later.
LEMMA JoinKeeps ==
    ASSUME BuildInv, Join
    PROVE  BuildInv'
<1>1. /\ UNCHANGED vars /\ records' = records /\ total' = total /\ requested' = requested
      /\ count' = count /\ i' = i /\ Workers' = Workers
      /\ UNCHANGED <<jobs, results, doing, ordered, training, test>>
  BY DEF Join, vars, Workers
<1>2. IInv'
  BY <1>1, Preserved DEF BuildInv
<1>3. /\ \A k : Job(k)' = Job(k)
      /\ \A k : Windows(Job(k))' = Windows(Job(k))
      /\ \A k : Built(k)' = Built(k)
      /\ \A a : Window(a)' = Window(a)
      /\ \A n : Before(n)' = Before(n)
  BY <1>1, SameTable DEF Before
<1>4. PoolInv' /\ NoneLost' /\ TableInv'
  BY <1>1, <1>3 DEF BuildInv, PoolInv, NoneLost, TableInv, TotalAnchors, LastAnchorExclusive,
     FirstAnchor
<1>5. SplitInv'
  BY <1>1 DEF Join, BuildInv, SplitInv, JoinedInv
<1> DEFINE n == joined + 1
           ws == Windows(Job(n))
<1>6. joined \in Nat /\ n \in 1 .. count /\ n \in Workers /\ n \in 1 .. i /\ joined' = n /\ n - 1 = joined
      /\ forecast' = forecast \o ordered[n]
  BY SentIsRange DEF Join, BuildInv, JoinedInv, PoolDone, Returned, Workers
<1>7. /\ Job(n).start = Offset(total, requested, joined) /\ Job(n).end = Offset(total, requested, n)
      /\ Job(n).start \in Nat /\ Job(n).end \in Nat /\ Job(n).start <= Job(n).end
      /\ Job(n) # None
  <2>1. Job(n) \in [index : Nat, start : Nat, end : Nat] /\ Job(n).start <= Job(n).end
    BY <1>6, JobType DEF BuildInv
  <2>2. Job(n) = [index |-> n, start |-> Offset(total, requested, n - 1), end |-> Offset(total, requested, n)]
    BY DEF Job
  <2> QED
    BY <1>6, <2>1, <2>2, NoneAssumption
<1>8. ordered[n] = ws
  <2>1. Elements(jobs) = {} /\ Elements(results) = {} /\ \A w \in Workers : doing[w] = None
    BY DEF Join, PoolDone, Elements
  <2> QED
    BY <1>6, <1>7, <2>1 DEF BuildInv, NoneLost
<1> HIDE DEF n
<1>9. /\ ws \in Seq({Window(a) : a \in Int})
      /\ \A j, k \in DOMAIN ws : j < k => ws[j].anchor < ws[k].anchor
      /\ {ws[k].anchor : k \in DOMAIN ws} = {Anchor(o) : o \in Valid(Job(n))}
  <2>1. Job(n).start \in Int /\ Job(n).end \in Int
    BY <1>7
  <2> QED
    BY <2>1, WindowsFacts
<1> HIDE DEF ws
<1>10. /\ Before(Offset(total, requested, n)) = Before(Offset(total, requested, joined)) \cup Valid(Job(n))
       /\ \A o \in Before(Offset(total, requested, joined)), q \in Valid(Job(n)) : Anchor(o) < Anchor(q)
  BY <1>7, BeforeNext, AnchorMonotone
<1>11. ASSUME NEW j \in DOMAIN forecast, NEW k \in DOMAIN ws PROVE forecast[j].anchor < ws[k].anchor
  <2>1. PICK o \in Before(Offset(total, requested, joined)) : forecast[j].anchor = Anchor(o)
    BY DEF BuildInv, JoinedInv
  <2>2. PICK q \in Valid(Job(n)) : ws[k].anchor = Anchor(q)
    BY <1>9
  <2> QED
    BY <1>10, <2>1, <2>2
<1>12. /\ forecast' \in Seq({Window(a) : a \in Int})
       /\ \A j, k \in DOMAIN forecast' : j < k => forecast'[j].anchor < forecast'[k].anchor
       /\ {forecast'[k].anchor : k \in DOMAIN forecast'} = {forecast[k].anchor : k \in DOMAIN forecast} \cup {ws[k].anchor : k \in DOMAIN ws}
  <2>1. forecast' = forecast \o ws
    BY <1>6, <1>8
  <2>2. /\ forecast \in Seq({Window(a) : a \in Int})
        /\ \A j, k \in DOMAIN forecast : j < k => forecast[j].anchor < forecast[k].anchor
    BY DEF BuildInv, JoinedInv
  <2> DEFINE W == {Window(a) : a \in Int}
  <2>3. ws \in Seq(W) /\ forecast \in Seq(W)
    BY <1>9, <2>2
  <2> HIDE DEF W
  <2>4. /\ forecast \o ws \in Seq(W)
        /\ \A j, k \in DOMAIN (forecast \o ws) : j < k => (forecast \o ws)[j].anchor < (forecast \o ws)[k].anchor
        /\ {(forecast \o ws)[k].anchor : k \in DOMAIN (forecast \o ws)}
               = {forecast[k].anchor : k \in DOMAIN forecast} \cup {ws[k].anchor : k \in DOMAIN ws}
    <3>1. \A j, k \in DOMAIN forecast : j < k => forecast[j].anchor < forecast[k].anchor
      BY <2>2
    <3>2. \A j, k \in DOMAIN ws : j < k => ws[j].anchor < ws[k].anchor
      BY <1>9
    <3>3. \A j \in DOMAIN forecast, k \in DOMAIN ws : forecast[j].anchor < ws[k].anchor
      BY <1>11
    <3>4. forecast \o ws \in Seq(W)
      BY <2>3, <3>1, <3>2, <3>3, Joined
    <3>5. \A j, k \in DOMAIN (forecast \o ws) : j < k => (forecast \o ws)[j].anchor < (forecast \o ws)[k].anchor
      BY <2>3, <3>1, <3>2, <3>3, Joined
    <3>6. {(forecast \o ws)[k].anchor : k \in DOMAIN (forecast \o ws)}
               = {forecast[k].anchor : k \in DOMAIN forecast} \cup {ws[k].anchor : k \in DOMAIN ws}
      BY <2>3, <3>1, <3>2, <3>3, Joined
    <3> QED
      BY <3>4, <3>5, <3>6
  <2> QED
    BY <2>1, <2>4 DEF W
<1>13. {forecast'[k].anchor : k \in DOMAIN forecast'} = {Anchor(o) : o \in Before(Offset(total, requested, n))}
  BY <1>9, <1>10, <1>12 DEF BuildInv, JoinedInv
<1>14. JoinedInv'
  <2>1. (\A o : Anchor(o)' = Anchor(o)) /\ Offset(total, requested, joined)' = Offset(total, requested, n)
    BY <1>1, <1>6 DEF Anchor, FirstAnchor
  <2>2. n \in 0 .. count
    BY <1>6
  <2> QED
    BY <1>1, <1>3, <1>6, <1>12, <1>13, <2>1, <2>2 DEF JoinedInv
<1> QED
  BY <1>2, <1>4, <1>5, <1>14 DEF BuildInv

\* Quotient and remainder.
LEMMA Division ==
    ASSUME NEW t \in Nat, NEW c \in Nat \ {0}
    PROVE  /\ t \div c \in Nat /\ t % c \in 0 .. c - 1
           /\ t = c * (t \div c) + (t % c)
<1> DEFINE d == t \div c
           m == t % c
<1>1. d \in Int /\ m \in 0 .. c - 1
  BY SMT
<1>2. t = c * d + m
  BY <1>1, SMT
<1> HIDE DEF d, m
<1>3. d >= 0
  <2>1. SUFFICES ASSUME d <= -1 PROVE FALSE
    BY <1>1
  <2>2. c * d <= 0 - c
    BY <1>1, <2>1, SMT
  <2> QED
    BY <1>1, <1>2, <2>2
<1>4. d \in Nat
  BY <1>1, <1>3
<1> QED
  BY <1>1, <1>2, <1>4 DEF d, m

\* The constants are positive numbers.
LEMMA ConstantFacts ==
    /\ History \in Nat \ {0} /\ Horizon \in Nat \ {0} /\ Sustained \in Nat \ {0}
    /\ Stride \in Nat \ {0} /\ Threshold \in Nat \ {0}
    /\ MaxRows \in Nat
  BY WindowAssumption

\* Dividing a multiple.
LEMMA MultipleFacts ==
    ASSUME NEW o \in Nat, NEW c \in Nat \ {0}
    PROVE  (o * c) % c = 0
<1>1. (o * c) \in Nat
  BY SMT
<1>2. (o * c) \div c \in Nat /\ (o * c) % c \in 0 .. c - 1 /\ o * c = c * ((o * c) \div c) + ((o * c) % c)
  BY <1>1, Division
<1> DEFINE d == (o * c) \div c
           m == (o * c) % c
<1> HIDE DEF d, m
<1>3. d \in Int /\ m \in 0 .. c - 1 /\ o * c = c * d + m
  BY <1>2 DEF d, m
<1>4. (o - d) * c = m
  BY <1>3, SMT
<1>5. o - d < 1
  <2>1. SUFFICES ASSUME o - d >= 1 PROVE FALSE
    BY <1>3
  <2>2. (o - d) * c >= c
    BY <1>3, <2>1, SMT
  <2> QED
    BY <1>3, <1>4, <2>2
<1>6. o - d > -1
  <2>1. SUFFICES ASSUME o - d <= -1 PROVE FALSE
    BY <1>3
  <2>2. (o - d) * c <= 0 - c
    BY <1>3, <2>1, SMT
  <2> QED
    BY <1>3, <1>4, <2>2
<1>7. o - d = 0
  BY <1>3, <1>5, <1>6
<1> QED
  BY <1>3, <1>4, <1>7 DEF m

\* A table is a sequence of rows in order, with a power that is not negative.
LEMMA TablesFacts ==
    ASSUME NEW table \in Tables
    PROVE  /\ Len(table) \in Nat /\ DOMAIN table = 1 .. Len(table)
           /\ table \in Seq([minute : Nat, power : Nat])
<1> DEFINE Table(n, gap, peak) ==
             [k \in 1 .. n |-> [minute |-> IF k > gap THEN k + 1 ELSE k, power |-> Power(k, peak)]]
           Of(n) == {Table(n, gap, peak) : gap \in 1 .. n, peak \in 0 .. n}
<1>1. PICK n \in History + Horizon .. MaxRows : table \in Of(n)
  <2>1. Tables = UNION {Of(n) : n \in History + Horizon .. MaxRows}
    BY DEF Tables
  <2> HIDE DEF Of
  <2> QED
    BY <2>1
<1>2. PICK gap \in 1 .. n, peak \in 0 .. n : table = Table(n, gap, peak)
  BY <1>1
<1>3. n \in Nat
  BY ConstantFacts
<1>4. \A k : Power(k, peak) \in Nat
  BY ConstantFacts DEF Power
<1>5. \A k \in 1 .. n : table[k] \in [minute : Nat, power : Nat]
  BY <1>2, <1>3, <1>4
<1>6. table \in [1 .. n -> [minute : Nat, power : Nat]]
  BY <1>2, <1>5
<1>7. table \in Seq([minute : Nat, power : Nat])
  BY <1>3, <1>6, SequenceOf
<1> QED
  BY <1>7, LenProperties

\* The ordinals that the loop divides are those of all anchors.
LEMMA AnchorsAreOrdinals ==
    ASSUME TableInv, total \in Nat \ {0}
    PROVE  Anchors = {Anchor(o) : o \in Before(total)}
<1> DEFINE F == FirstAnchor
           E == LastAnchorExclusive
           x == E - F + Stride - 1
           q == x \div Stride
           m == x % Stride
<1>1. Stride \in Nat \ {0} /\ F \in Int /\ E \in Int
  <2>1. Len(records) \in Nat
    BY TablesFacts DEF TableInv
  <2> QED
    BY <2>1, ConstantFacts DEF FirstAnchor, LastAnchorExclusive
<1>2. total = q
  BY DEF TableInv, TotalAnchors
<1>3. \A o : Anchor(o) = F + o * Stride
  BY DEF Anchor
<1>4. \A o : o \in Before(total) <=> o \in 0 .. total - 1 /\ Anchor(o) < E /\ Unbroken(Anchor(o))
  BY DEF Before, Valid
<1>5. \A a : a \in Anchors <=> a \in F .. E - 1 /\ (a - F) % Stride = 0 /\ Unbroken(a)
  BY DEF Anchors
<1> HIDE DEF F, E
<1>6. ASSUME NEW o \in Before(total) PROVE Anchor(o) \in Anchors
  <2>1. o \in Nat /\ Anchor(o) < E /\ Unbroken(Anchor(o)) /\ Anchor(o) = F + o * Stride
    BY <1>3, <1>4
  <2>2. o * Stride \in Nat /\ (o * Stride) % Stride = 0
    BY <1>1, <2>1, MultipleFacts, SMT
  <2>3. Anchor(o) - F = o * Stride /\ Anchor(o) \in F .. E - 1
    BY <1>1, <2>1, <2>2
  <2> QED
    BY <1>5, <2>1, <2>2, <2>3
<1>7. ASSUME NEW a \in Anchors PROVE \E o \in Before(total) : a = Anchor(o)
  <2>1. a \in F .. E - 1 /\ (a - F) % Stride = 0 /\ Unbroken(a)
    BY <1>5
  <2>2. a - F \in Nat /\ a \in Int /\ x \in Nat
    BY <1>1, <2>1
  <2> DEFINE o == (a - F) \div Stride
  <2>3. o \in Nat /\ a - F = Stride * o + ((a - F) % Stride)
    BY <1>1, <2>2, Division
  <2>4. q \in Nat /\ m \in 0 .. Stride - 1 /\ x = Stride * q + m
    BY <1>1, <2>2, Division
  <2> HIDE DEF o, q, m
  <2>5. a - F = o * Stride
    <3>1. a - F = Stride * o + 0
      BY <2>1, <2>3
    <3>2. Stride * o \in Int /\ o * Stride = Stride * o
      BY <1>1, <2>3, SMT
    <3> QED
      BY <3>1, <3>2
  <2>6. o < q
    <3>1. SUFFICES ASSUME q <= o PROVE FALSE
      BY <2>3, <2>4
    <3>2. (o - q) * Stride >= 0
      BY <1>1, <2>3, <2>4, <3>1, SMT
    <3>3. (o - q) * Stride = o * Stride - Stride * q
      BY <1>1, <2>3, <2>4, SMT
    <3>4. o * Stride \in Int /\ Stride * q \in Int
      BY <1>1, <2>3, <2>4, SMT
    <3>5. a < E
      BY <1>1, <2>1, <2>2
    <3> QED
      BY <1>1, <2>2, <2>4, <2>5, <3>2, <3>3, <3>4, <3>5
  <2>7. a = Anchor(o) /\ o \in 0 .. total - 1 /\ a < E
    <3>1. o * Stride \in Int
      BY <1>1, <2>3, SMT
    <3>2. o \in 0 .. total - 1 /\ a < E
      BY <1>1, <1>2, <2>1, <2>2, <2>3, <2>4, <2>6
    <3>3. Anchor(o) = F + o * Stride
      BY <1>3
    <3>4. a = F + o * Stride
      BY <1>1, <2>2, <2>5, <3>1
    <3> QED
      BY <3>2, <3>3, <3>4
  <2>8. o \in Before(total)
    BY <1>4, <2>1, <2>7
  <2> QED
    BY <2>7, <2>8
<1> QED
  BY <1>6, <1>7

\* The pool starts in the invariant.
LEMMA BuildInitially == BuildInit => BuildInv
<1> SUFFICES ASSUME BuildInit PROVE BuildInv
  OBVIOUS
<1>1. IInv /\ TableInv /\ total \in Nat \ {0}
  BY Initially DEF BuildInit, TableInv, IInv, ArgsInv
<1>2. PoolInv
  BY EmptySeq DEF BuildInit, PoolInv
<1>3. NoneLost /\ SplitInv
  BY DEF BuildInit, Init, NoneLost, SplitInv
<1>4. JoinedInv
  <2>1. count \in Nat \ {0} /\ Offset(total, requested, 0) = 0
    <3>1. 0 \in 0 .. Cap(total, requested) - 1 /\ count \in Nat \ {0}
      BY <1>1, CountFacts DEF IInv, ArgsInv
    <3> QED
      BY <1>1, <3>1, OffsetFacts DEF IInv, ArgsInv
  <2>2. Before(0) = {}
    BY DEF Before, Valid
  <2>3. <<>> \in Seq({Window(a) : a \in Int}) /\ DOMAIN <<>> = {}
    BY EmptySeq
  <2> QED
    BY <2>1, <2>2, <2>3 DEF BuildInit, JoinedInv
<1> QED
  BY <1>1, <1>2, <1>3, <1>4 DEF BuildInv

\* A step of the main goroutine or of a worker keeps the invariant.
LEMMA BuildPreserved == BuildInv /\ [BuildNext]_buildVars => BuildInv'
<1> SUFFICES ASSUME BuildInv, [BuildNext]_buildVars PROVE BuildInv'
  OBVIOUS
<1>1. ASSUME NEW w \in Workers, Work(w) PROVE BuildInv'
  BY <1>1, TakeKeeps, DeliverKeeps DEF Work
<1>2. CASE UNCHANGED buildVars
  <2>1. /\ UNCHANGED vars /\ records' = records /\ total' = total /\ requested' = requested
        /\ count' = count /\ i' = i /\ Workers' = Workers
        /\ UNCHANGED <<jobs, results, doing, ordered, joined, forecast, training, test>>
    BY <1>2 DEF buildVars, vars, Workers
  <2>2. /\ \A k : Job(k)' = Job(k)
        /\ \A k : Windows(Job(k))' = Windows(Job(k))
        /\ \A k : Built(k)' = Built(k)
        /\ \A a : Window(a)' = Window(a)
        /\ \A n : Before(n)' = Before(n)
    BY <2>1, SameTable DEF Before
  <2>3. IInv'
    BY <2>1, Preserved DEF BuildInv
  <2>4. PoolInv' /\ NoneLost' /\ SplitInv'
    BY <2>1, <2>2 DEF BuildInv, PoolInv, NoneLost, SplitInv
  <2>5. JoinedInv' /\ TableInv'
    BY <2>1, <2>2 DEF BuildInv, JoinedInv, TableInv, TotalAnchors, LastAnchorExclusive,
       FirstAnchor, Anchor
  <2> QED
    BY <2>3, <2>4, <2>5 DEF BuildInv
<1> QED
  BY <1>1, <1>2, SendKeeps, CollectKeeps, JoinKeeps, SplitKeeps DEF BuildNext

\* forecast.go:24-90: where every range is, and which windows are joined, at any moment.
THEOREM BuildInvariance == BuildSpec => []BuildInv
<1> QED
  BY BuildInitially, BuildPreserved, PTL DEF BuildSpec

\* forecast.go:45-71: the ranges sent to the pool hold every anchor exactly once, while the
\* workers already build windows of the first of them.
THEOREM JobsCoverExactlyOnceHolds == BuildSpec => []CoversExactlyOnce
<1>1. BuildInv => CoversExactlyOnce
  BY ExactCover DEF BuildInv
<1> QED
  BY <1>1, BuildInvariance, PTL

\* The cut leaves a window on either side, if there are two.
LEMMA CutFacts ==
    ASSUME NEW n \in Nat
    PROVE  Cut(n) \in 0 .. n /\ (n >= 2 => Cut(n) \in 1 .. n - 1)
<1>1. (n * 8) \div 10 \in Int
  BY SMT
<1> DEFINE cut == (n * 8) \div 10
<1> HIDE DEF cut
<1>2. Cut(n) = IF n < 2 THEN n ELSE IF cut < 1 THEN 1 ELSE IF cut >= n THEN n - 1 ELSE cut
  BY DEF Cut, cut
<1>3. cut \in Int
  BY <1>1 DEF cut
<1> QED
  BY <1>2, <1>3

\* All windows are there when they have been divided.
LEMMA AllJoined ==
    ASSUME BuildInv, Done
    PROVE  {forecast[k].anchor : k \in DOMAIN forecast} = Anchors
<1>1. total \in Nat \ {0} /\ requested \in Nat \ {0} /\ count = Cap(total, requested) /\ joined = count
  BY DEF BuildInv, IInv, ArgsInv, SplitInv, Done
<1>2. 0 \in 0 .. Cap(total, requested) - 1
  BY <1>1, CountFacts DEF BuildInv, IInv
<1>3. Offset(total, requested, joined) = total
  BY <1>1, <1>2, OffsetFacts
<1> QED
  BY <1>1, <1>3, AnchorsAreOrdinals DEF BuildInv, JoinedInv

\* forecast.go:24-90, ml.go:25-40: with any number of workers and in whatever order they finish,
\* the windows are those of a sequential pass, and each goes either to the training or to the
\* test set.
THEOREM WindowsAreExactHolds == BuildSpec => []WindowsAreExact
<1>1. BuildInv => WindowsAreExact
  <2> SUFFICES ASSUME BuildInv, Done
               PROVE  /\ \A j, k \in DOMAIN forecast : j < k => forecast[j].anchor < forecast[k].anchor
                      /\ {forecast[k].anchor : k \in DOMAIN forecast} = Anchors
                      /\ training \o test = forecast
                      /\ Cardinality(Anchors) >= 2 => training # <<>> /\ test # <<>>
    BY DEF WindowsAreExact
  <2> DEFINE n == Len(forecast)
             c == Cut(n)
             W == {Window(a) : a \in Int}
  <2>1. /\ training = SubSeq(forecast, 1, c) /\ test = SubSeq(forecast, c + 1, n)
        /\ forecast \in Seq(W)
        /\ \A j, k \in DOMAIN forecast : j < k => forecast[j].anchor < forecast[k].anchor
    BY DEF BuildInv, SplitInv, JoinedInv, Done
  <2> HIDE DEF W
  <2>2. n \in Nat /\ DOMAIN forecast = 1 .. n /\ \A k \in 1 .. n : forecast[k] \in W
    BY <2>1, LenProperties, ElementOfSeq
  <2>3. c \in 0 .. n /\ (n >= 2 => c \in 1 .. n - 1)
    BY <2>2, CutFacts
  <2>4. {forecast[k].anchor : k \in DOMAIN forecast} = Anchors
    BY AllJoined
  <2> HIDE DEF n, c
  <2>5. training \o test = forecast
    <3>1. 1 \in 1 .. n + 1 /\ c \in 1 - 1 .. n /\ n \in c .. n
      BY <2>2, <2>3
    <3>2. SubSeq(forecast, 1, c) \o SubSeq(forecast, c + 1, n) = SubSeq(forecast, 1, n)
      BY <2>1, <3>1, ConcatAdjacentSubSeq DEF n
    <3>3. SubSeq(forecast, 1, n) = forecast
      BY <2>1, SubSeqFull DEF n
    <3> QED
      BY <2>1, <3>2, <3>3
  <2>6. ASSUME Cardinality(Anchors) >= 2 PROVE training # <<>> /\ test # <<>>
    <3>1. n >= 2
      <4>1. CASE n = 0
        <5>1. Anchors = {}
          BY <2>2, <2>4, <4>1
        <5> QED
          BY <2>6, <5>1, FS_EmptySet
      <4>2. CASE n = 1
        <5>1. 1 .. 1 = {1}
          OBVIOUS
        <5>2. Anchors = {forecast[1].anchor}
          BY <2>2, <2>4, <4>2, <5>1
        <5>3. Cardinality(Anchors) = 1
          BY <5>2, FS_Singleton
        <5> QED
          BY <2>6, <5>3
      <4> QED
        BY <2>2, <4>1, <4>2
    <3>2. c \in 1 .. n - 1 /\ c \in Int /\ c + 1 \in Int /\ n \in Int
      BY <2>2, <2>3, <3>1
    <3>3. (\A k \in 1 .. c : forecast[k] \in W) /\ \A k \in c + 1 .. n : forecast[k] \in W
      BY <2>2, <3>2
    <3>4. Len(training) = IF 1 <= c THEN c - 1 + 1 ELSE 0
      BY <2>1, <3>2, <3>3, SubSeqProperties
    <3>5. Len(test) = IF c + 1 <= n THEN n - (c + 1) + 1 ELSE 0
      BY <2>1, <3>2, <3>3, SubSeqProperties
    <3>6. Len(training) # 0 /\ Len(test) # 0
      BY <2>2, <3>2, <3>4, <3>5
    <3> QED
      BY <3>6, EmptySeq
  <2> QED
    BY <2>1, <2>4, <2>5, <2>6
<1> QED
  BY <1>1, BuildInvariance, PTL

-----------------------------------------------------------------------------
(* The features and the rates that the API serves with.                     *)

\* A square is no negative number.
LEMMA SquareType ==
    ASSUME NEW x \in Int
    PROVE  Square(x) \in Nat
<1>1. x * x \in Int /\ x * x >= 0
  BY SMT
<1> QED
  BY <1>1 DEF Square

\* The numbers of a row.
LEMMA RowFacts ==
    ASSUME TableInv, NEW k \in 0 .. Len(records) - 1
    PROVE  Row(k).minute \in Nat /\ Row(k).power \in Nat
<1>1. Len(records) \in Nat /\ records \in Seq([minute : Nat, power : Nat])
  BY TablesFacts DEF TableInv
<1>2. k + 1 \in 1 .. Len(records)
  BY <1>1
<1>3. Row(k) \in [minute : Nat, power : Nat]
  BY <1>1, <1>2, ElementOfSeq DEF Row
<1> QED
  BY <1>3

\* The readings of a window, as a request sends them, are its rows; the zone that their times
\* are written in does not matter.
LEMMA ReadingsFacts ==
    ASSUME TableInv, NEW a \in Anchors, NEW zone \in Int,
           NEW readings, readings = Request(a, zone)
    PROVE  /\ HistoryStart(a) \in Nat /\ a \in Nat /\ a = HistoryStart(a) + History - 1
           /\ Len(readings) = History
           /\ \A k \in HistoryStart(a) .. a : k \in RowNumbers
           /\ \A j \in 1 .. History :
                 /\ HistoryStart(a) + j - 1 \in HistoryStart(a) .. a
                 /\ readings[j].power = Row(HistoryStart(a) + j - 1).power
                 /\ Instant(readings[j]) = Row(HistoryStart(a) + j - 1).minute - Location
           /\ \A j \in 2 .. History : Instant(readings[j]) = Instant(readings[j - 1]) + 1
<1> DEFINE H == HistoryStart(a)
           n == Len(records)
           Reading(j) == [written |-> Row(H + j - 1).minute - Location + zone, zone |-> zone,
                          power |-> Row(H + j - 1).power]
<1>1. n \in Nat /\ History \in Nat \ {0} /\ Location \in Int
  BY TablesFacts, ConstantFacts, ZonesAssumption DEF TableInv
<1>2. H \in Nat /\ a \in Nat /\ a = H + History - 1 /\ a + Horizon <= n - 1 /\ Unbroken(a)
  BY <1>1, ConstantFacts DEF Anchors, FirstAnchor, LastAnchorExclusive, HistoryStart
<1>3. \A k \in H .. a : k \in RowNumbers
  BY <1>1, <1>2, ConstantFacts DEF RowNumbers
<1> HIDE DEF H, n
<1>4. \A j \in 1 .. History : H + j - 1 \in H .. a
  BY <1>1, <1>2
<1>5. \A k \in H .. a : Row(k).minute \in Nat
  BY <1>3, RowFacts DEF RowNumbers
<1>6. readings = [j \in 1 .. History |-> Reading(j)]
  BY DEF Request, H
<1>7. Len(readings) = History
  BY <1>1, <1>6, SequenceOf, LenProperties
<1>8. \A j \in 1 .. History : readings[j] = Reading(j)
  BY <1>6
<1>9. ASSUME NEW j \in 1 .. History
      PROVE  /\ readings[j].power = Row(H + j - 1).power
             /\ Instant(readings[j]) = Row(H + j - 1).minute - Location
  <2>1. /\ readings[j].power = Row(H + j - 1).power
        /\ readings[j].written = Row(H + j - 1).minute - Location + zone
        /\ readings[j].zone = zone
    <3> DEFINE written == Row(H + j - 1).minute - Location + zone
               power == Row(H + j - 1).power
    <3>1. readings[j] = [written |-> written, zone |-> zone, power |-> power]
      BY <1>8
    <3> HIDE DEF written, power
    <3>2. readings[j].power = power /\ readings[j].written = written /\ readings[j].zone = zone
      BY <3>1
    <3> QED
      BY <3>2 DEF written, power
  <2>2. Row(H + j - 1).minute \in Int
    BY <1>4, <1>5
  <2> QED
    BY <1>1, <2>1, <2>2 DEF Instant
<1>10. ASSUME NEW j \in 2 .. History PROVE Instant(readings[j]) = Instant(readings[j - 1]) + 1
  <2>1. j \in 1 .. History /\ j - 1 \in 1 .. History /\ H + (j - 1) - 1 = (H + j - 1) - 1
    BY <1>1, <1>2
  <2> DEFINE now == H + j - 1
  <2>2. Instant(readings[j]) = Row(now).minute - Location
    BY <1>9, <2>1
  <2>3. Instant(readings[j - 1]) = Row(now - 1).minute - Location
    BY <1>9, <2>1
  <2>4. now \in H + 1 .. a + Horizon
    BY <1>1, <1>2, ConstantFacts
  <2> HIDE DEF now
  <2>5. Row(now).minute = Row(now - 1).minute + 1
    BY <1>2, <2>4 DEF Unbroken, FutureEnd, H
  <2>6. Row(now - 1).minute \in Int
    BY <1>4, <1>5, <2>1 DEF now
  <2> QED
    BY <1>1, <2>2, <2>3, <2>5, <2>6
<1> QED
  BY <1>2, <1>3, <1>4, <1>7, <1>9, <1>10 DEF H

\* Both sides describe the same readings in the same way, and none is refused.
LEMMA SameFeatures ==
    ASSUME TableInv, NEW a \in Anchors, NEW zone \in Int
    PROVE  ServedFeatures(Request(a, zone)) =
              [features |-> Features(a),
               rates |-> [hour |-> HistoricalRate(Hourly, Calendar(Row(a).minute).hour),
                          dayHour |-> HistoricalRate(DayHour, <<Calendar(Row(a).minute).day,
                                                                Calendar(Row(a).minute).hour>>)]]
<1> DEFINE H == HistoryStart(a)
           n == History
           readings == Request(a, zone)
           b == [j \in 1 .. n |-> H + j - 1]
           L == [j \in 1 .. n |-> readings[j].power]
           M == [k \in H .. a |-> Row(k).power]
           sum == SumFunction(M)
           U == [j \in 1 .. n |-> Square(n * readings[j].power - sum)]
           V == [k \in H .. a |-> Square(n * Row(k).power - sum)]
<1>1. /\ H \in Nat /\ a \in Nat /\ a = H + n - 1 /\ Len(readings) = n
      /\ \A k \in H .. a : k \in RowNumbers
      /\ \A j \in 1 .. n : /\ H + j - 1 \in H .. a
                            /\ readings[j].power = Row(H + j - 1).power
                            /\ Instant(readings[j]) = Row(H + j - 1).minute - Location
      /\ \A j \in 2 .. n : Instant(readings[j]) = Instant(readings[j - 1]) + 1
  BY ReadingsFacts
<1>2. n \in Nat \ {0}
  BY ConstantFacts
<1>3. \A k \in H .. a : Row(k).power \in Nat /\ Row(k).minute \in Nat
  BY <1>1, RowFacts DEF RowNumbers
<1> HIDE DEF readings, n, H
<1>4. b \in Bijection(1 .. n, H .. a)
  <2>1. b \in [1 .. n -> H .. a]
    BY <1>1
  <2>2. \A j, k \in 1 .. n : b[j] = b[k] => j = k
    BY <1>1, <1>2
  <2>3. \A k \in H .. a : \E j \in 1 .. n : b[j] = k
    <3> SUFFICES ASSUME NEW k \in H .. a PROVE \E j \in 1 .. n : b[j] = k
      OBVIOUS
    <3>1. k - H + 1 \in 1 .. n /\ H + (k - H + 1) - 1 = k
      BY <1>1, <1>2
    <3> QED
      BY <3>1
  <2> QED
    BY <2>1, <2>2, <2>3 DEF Bijection, Injection, Surjection, IsInjective
<1>5. IsFiniteSet(1 .. n) /\ IsFiniteSet(H .. a)
  BY <1>1, <1>2, FS_Interval
<1>6. \A j \in 1 .. n : b[j] = H + j - 1 /\ b[j] \in H .. a /\ readings[j].power = Row(b[j]).power
  BY <1>1
<1> HIDE DEF b
<1>7. SumFunction(L) = sum /\ sum \in Nat
  <2>1. M \in [H .. a -> Nat]
    BY <1>3
  <2>2. L \in [1 .. n -> Nat]
    BY <1>3, <1>6
  <2>3. \A j \in 1 .. n : M[b[j]] = L[j]
    BY <1>6
  <2> DEFINE S == 1 .. n
             T == H .. a
  <2>4. /\ IsFiniteSet(S) /\ IsFiniteSet(T) /\ b \in Bijection(S, T)
        /\ L \in [S -> Nat] /\ M \in [T -> Nat] /\ \A j \in S : M[b[j]] = L[j]
    BY <1>4, <1>5, <2>1, <2>2, <2>3
  <2> HIDE DEF L, M, S, T
  <2> QED
    BY <2>4, SumRenamed
<1> HIDE DEF sum
<1>8. SumFunction(U) = SumFunction(V)
  <2>1. \A k \in H .. a : Square(n * Row(k).power - sum) \in Nat
    <3> SUFFICES ASSUME NEW k \in H .. a PROVE Square(n * Row(k).power - sum) \in Nat
      OBVIOUS
    <3>1. n * Row(k).power - sum \in Int
      BY <1>2, <1>3, <1>7, SMT
    <3> QED
      BY <3>1, SquareType
  <2>2. V \in [H .. a -> Nat]
    BY <2>1
  <2>3. U \in [1 .. n -> Nat]
    BY <2>1, <1>6
  <2>4. \A j \in 1 .. n : V[b[j]] = U[j]
    BY <1>6
  <2> DEFINE S == 1 .. n
             T == H .. a
  <2>5. /\ IsFiniteSet(S) /\ IsFiniteSet(T) /\ b \in Bijection(S, T)
        /\ U \in [S -> Nat] /\ V \in [T -> Nat] /\ \A j \in S : V[b[j]] = U[j]
    BY <1>4, <1>5, <2>2, <2>3, <2>4
  <2> HIDE DEF U, V, S, T
  <2> QED
    BY <2>5, SumRenamed
<1>9. {readings[j].power : j \in 1 .. n} = {Row(k).power : k \in H .. a}
  <2>1. \A j \in 1 .. n : readings[j].power \in {Row(k).power : k \in H .. a}
    BY <1>6
  <2>2. \A k \in H .. a : \E j \in 1 .. n : b[j] = k
    BY <1>4 DEF Bijection, Surjection
  <2>3. \A k \in H .. a : Row(k).power \in {readings[j].power : j \in 1 .. n}
    BY <1>6, <2>2
  <2> QED
    BY <2>1, <2>3
<1>10. /\ readings[n].power = Row(a).power /\ readings[1].power = Row(H).power
       /\ Local(readings[n]) = Row(a).minute
  <2>1. n \in 1 .. n /\ 1 \in 1 .. n /\ H + n - 1 = a /\ H + 1 - 1 = H
    BY <1>1, <1>2
  <2>2. Instant(readings[n]) = Row(a).minute - Location
    BY <1>1, <2>1
  <2>3. Row(a).minute \in Int /\ Location \in Int
    BY <1>1, <1>3, <2>1, ZonesAssumption
  <2>4. Local(readings[n]) = Row(a).minute
    BY <2>2, <2>3 DEF Local
  <2> QED
    BY <1>1, <2>1, <2>4
<1>11. /\ ~(Len(readings) # n)
       /\ ~(\E j \in 1 .. n : readings[j].power < 0)
       /\ ~(\E j \in 2 .. n : Instant(readings[j]) # Instant(readings[j - 1]) + 1)
  BY <1>1, <1>3, <1>6
<1> DEFINE latest == Calendar(Local(readings[n]))
           rates == [hour |-> HistoricalRate(Hourly, latest.hour),
                     dayHour |-> HistoricalRate(DayHour, <<latest.day, latest.hour>>)]
<1>12. ServedFeatures(readings) =
          [features |->
             [current |-> readings[n].power, sum |-> sum,
              max |-> Max({readings[j].power : j \in 1 .. n}), variance |-> SumFunction(U),
              trend |-> readings[n].power - readings[1].power, calendar |-> latest],
           rates |-> rates]
  <2>1. Len(readings) = n
    BY <1>1
  <2> QED
    BY <1>7, <1>11, <2>1 DEF ServedFeatures, n
<1>13. Features(a) =
          [current |-> Row(a).power, sum |-> sum,
           max |-> Max({Row(k).power : k \in H .. a}), variance |-> SumFunction(V),
           trend |-> Row(a).power - Row(H).power, calendar |-> Calendar(Row(a).minute)]
  BY DEF Features, n, H, sum
<1> HIDE DEF U, V
<1> QED
  BY <1>8, <1>9, <1>10, <1>12, <1>13 DEF readings

\* What the API reads from the report for the group of a row was counted over all the rows.
LEMMA ReportedRate ==
    ASSUME NEW group, NEW k \in RowNumbers
    PROVE  HistoricalRate(aggregateBy(RowNumbers, group), group[k])
              = Tally({j \in RowNumbers : group[j] = group[k]})
<1> DEFINE g == group[k]
           report == aggregateBy(RowNumbers, group)
           tally(x) == Tally({j \in RowNumbers : group[j] = x})
           Entry(x) == [group |-> x, records |-> tally(x).total, high |-> tally(x).high]
<1>1. report = {Entry(x) : x \in {group[j] : j \in RowNumbers}}
  BY DEF aggregateBy
<1>2. g \in {group[j] : j \in RowNumbers} /\ \A x : Entry(x).group = x
  OBVIOUS
<1>4. tally(g) = [high |-> Entry(g).high, total |-> Entry(g).records]
  BY DEF Tally
<1> HIDE DEF Entry, g, report
<1>5. Entry(g) \in report /\ \A e \in report : e.group = g => e = Entry(g)
  BY <1>1, <1>2
<1> DEFINE e == CHOOSE e \in report : e.group = g
<1>6. e = Entry(g)
  BY <1>2, <1>5
<1>7. HistoricalRate(report, g) = IF \E x \in report : x.group = g
                                  THEN [high |-> e.high, total |-> e.records]
                                  ELSE [high |-> 0, total |-> 0]
  BY DEF HistoricalRate
<1> HIDE DEF e
<1>8. HistoricalRate(report, g) = [high |-> Entry(g).high, total |-> Entry(g).records]
  BY <1>2, <1>5, <1>6, <1>7
<1> QED
  BY <1>4, <1>8 DEF g, report

\* server.go:271-315, forecast.go:92-171, transform.go:25-28, analyze.go:234-270: whatever zone it
\* is written in, the API describes a request with the readings of a window as the ETL described
\* the window, its place in the calendar included, with the rates of the same groups in all rows.
THEOREM ServedLikeTrainedHolds == BuildSpec => []ServedLikeTrained
<1>1. BuildInv => ServedLikeTrained
  <2> SUFFICES ASSUME BuildInv, Done, NEW k \in DOMAIN forecast, NEW zone \in Zones
               PROVE  LET a == forecast[k].anchor
                      IN  ServedFeatures(Request(a, zone)) =
                            [features |-> forecast[k].features, rates |-> Rates(Len(records), a)]
    BY DEF ServedLikeTrained
  <2> DEFINE a == forecast[k].anchor
             now == Calendar(Row(a).minute)
  <2>1. PICK x \in Int : forecast[k] = Window(x)
    <3>1. forecast \in Seq({Window(x) : x \in Int})
      BY DEF BuildInv, JoinedInv
    <3>2. k \in 1 .. Len(forecast)
      BY <3>1, LenProperties
    <3> QED
      BY <3>1, <3>2, ElementOfSeq
  <2>2. a = x /\ forecast[k].features = Features(x)
    BY <2>1 DEF Window
  <2>3. a \in Anchors /\ zone \in Int
    BY AllJoined, ZonesAssumption
  <2>4. a \in RowNumbers
    <3>1. Len(records) \in Nat
      BY TablesFacts DEF BuildInv, TableInv
    <3> QED
      BY <2>3, <3>1, ConstantFacts DEF Anchors, FirstAnchor, LastAnchorExclusive, RowNumbers
  <2> HIDE DEF a
  <2>5. HourOf[a] = now.hour /\ DayHourOf[a] = <<now.day, now.hour>>
    BY <2>4 DEF HourOf, DayHourOf
  <2> HIDE DEF now
  <2>6. /\ HistoricalRate(Hourly, now.hour) = Tally({j \in RowNumbers : HourOf[j] = HourOf[a]})
        /\ HistoricalRate(DayHour, <<now.day, now.hour>>)
              = Tally({j \in RowNumbers : DayHourOf[j] = DayHourOf[a]})
    BY <2>4, <2>5, ReportedRate DEF Hourly, DayHour
  <2>7. [hour |-> HistoricalRate(Hourly, now.hour),
         dayHour |-> HistoricalRate(DayHour, <<now.day, now.hour>>)] = Rates(Len(records), a)
    BY <2>6 DEF Rates, RowNumbers
  <2>8. ServedFeatures(Request(a, zone)) =
           [features |-> Features(a),
            rates |-> [hour |-> HistoricalRate(Hourly, now.hour),
                       dayHour |-> HistoricalRate(DayHour, <<now.day, now.hour>>)]]
    BY <2>3, SameFeatures DEF BuildInv, now
  <2> QED
    BY <2>2, <2>7, <2>8 DEF a
<1> QED
  BY <1>1, BuildInvariance, PTL

-----------------------------------------------------------------------------
(* Counting in parts.                                                       *)

LessThan == {ss \in Nat \X Nat : ss[1] < ss[2]}

\* The numbers are well-founded.
LEMMA LessWF == IsWellFoundedOn(LessThan, Nat)
  BY NatLessThanWellFounded DEF OpToRel, LessThan

\* Every row is in a shard, and in one only.
LEMMA ShardsSplit ==
    ASSUME NEW n \in Nat \ {0}, NEW w \in Nat \ {0}
    PROVE  LET parts == Shards(n, w)
           IN  /\ IsFiniteSet(DOMAIN parts)
               /\ \A k \in DOMAIN parts : parts[k].start \in Nat /\ parts[k].end \in 0 .. n
               /\ \A j, k \in DOMAIN parts : j < k => parts[j].end <= parts[k].start
               /\ \A j \in DOMAIN parts : j \in Int
               /\ \A r \in 1 .. n : \E k \in DOMAIN parts : parts[k].start < r /\ r <= parts[k].end
<1> DEFINE c == Cap(n, w)
           parts == Shards(n, w)
           at == [k \in 0 .. c |-> Offset(n, w, k)]
<1>1. c \in Nat \ {0} /\ c <= n
  BY DEF Cap
<1>2. DOMAIN parts = 1 .. c /\ \A k \in 1 .. c : parts[k] = [start |-> Offset(n, w, k - 1), end |-> Offset(n, w, k)]
  BY DEF Shards
<1>3. /\ \A k \in 0 .. c - 1 : Offset(n, w, k) \in 0 .. n /\ Offset(n, w, k + 1) \in 0 .. n
                               /\ Offset(n, w, k) <= Offset(n, w, k + 1)
      /\ Offset(n, w, 0) = 0 /\ Offset(n, w, c) = n
  <2>1. Base(n, w) \in Nat
    BY <1>1, DivisionFacts DEF Base
  <2>2. \A k \in 0 .. c - 1 : Offset(n, w, k) \in Nat /\ Offset(n, w, k + 1) <= n
            /\ Offset(n, w, k + 1) = Offset(n, w, k) + Base(n, w) + (IF k < Remainder(n, w) THEN 1 ELSE 0)
    BY OffsetFacts
  <2>3. Offset(n, w, 0) = 0 /\ Offset(n, w, c) = n
    <3>1. 0 \in 0 .. Cap(n, w) - 1
      BY <1>1
    <3> QED
      BY <3>1, OffsetFacts
  <2> HIDE DEF c
  <2> QED
    BY <2>1, <2>2, <2>3
<1> HIDE DEF c, parts, at
<1>4. \A k \in 0 .. c : at[k] \in 0 .. n
  <2> SUFFICES ASSUME NEW k \in 0 .. c PROVE at[k] \in 0 .. n
    OBVIOUS
  <2>1. at[k] = Offset(n, w, k)
    BY DEF at
  <2>2. CASE k = c
    BY <1>3, <2>1, <2>2
  <2>3. CASE k \in 0 .. c - 1
    BY <1>3, <2>1, <2>3
  <2> QED
    BY <1>1, <2>2, <2>3
<1>5. \A k \in 0 .. c - 1 : at[k] <= at[k + 1]
  <2> SUFFICES ASSUME NEW k \in 0 .. c - 1 PROVE at[k] <= at[k + 1]
    OBVIOUS
  <2>1. at[k] = Offset(n, w, k) /\ at[k + 1] = Offset(n, w, k + 1)
    BY <1>1 DEF at
  <2> QED
    BY <1>3, <2>1
<1>6. at[0] = 0 /\ at[c] = n
  <2>1. 0 \in 0 .. c /\ c \in 0 .. c
    BY <1>1
  <2> QED
    BY <1>3, <2>1 DEF at
<1>7. \A k \in 1 .. c : parts[k].start = at[k - 1] /\ parts[k].end = at[k]
  <2> SUFFICES ASSUME NEW k \in 1 .. c PROVE parts[k].start = at[k - 1] /\ parts[k].end = at[k]
    OBVIOUS
  <2>1. k - 1 \in 0 .. c /\ k \in 0 .. c
    BY <1>1
  <2> QED
    BY <1>2, <2>1 DEF at
<1>8. \A r \in 1 .. n : \E k \in 1 .. c : parts[k].start < r /\ r <= parts[k].end
  <2> SUFFICES ASSUME NEW r \in 1 .. n
               PROVE  \E k \in 1 .. c : parts[k].start < r /\ r <= parts[k].end
    OBVIOUS
  <2> DEFINE Past == {k \in 0 .. c : r <= at[k]}
  <2>1. Past \subseteq Nat /\ c \in Past
    BY <1>1, <1>6
  <2>2. PICK k \in Past : \A j \in Past : ~(<<j, k>> \in LessThan)
    BY <2>1, LessWF, WFMin
  <2>3. k # 0
    BY <1>6, <2>2
  <2>4. k \in 1 .. c /\ k - 1 \in 0 .. c
    BY <1>1, <2>2, <2>3
  <2>5. ~(k - 1 \in Past)
    <3>1. <<k - 1, k>> \in LessThan
      BY <1>1, <2>4 DEF LessThan
    <3> HIDE DEF Past
    <3> QED
      BY <2>2, <3>1
  <2>6. at[k - 1] < r
    BY <1>4, <2>4, <2>5
  <2> QED
    BY <1>7, <2>2, <2>4, <2>6
<1>9. \A j, k \in 1 .. c : j < k => parts[j].end <= parts[k].start
  <2> SUFFICES ASSUME NEW j \in 1 .. c PROVE \A k \in 1 .. c : j < k => at[j] <= at[k - 1]
    BY <1>7
  <2> DEFINE Bad == {k \in 1 .. c : j < k /\ ~(at[j] <= at[k - 1])}
  <2> SUFFICES ASSUME Bad # {} PROVE FALSE
    OBVIOUS
  <2>1. Bad \subseteq Nat
    BY <1>1
  <2>2. PICK k \in Bad : \A l \in Bad : ~(<<l, k>> \in LessThan)
    BY <2>1, LessWF, WFMin
  <2>3. k \in 1 .. c /\ j < k /\ ~(at[j] <= at[k - 1])
    BY <2>2
  <2>4. CASE j = k - 1
    <3>1. j \in 0 .. c
      BY <1>1
    <3> QED
      BY <1>4, <2>3, <2>4, <3>1
  <2>5. CASE j < k - 1
    <3>1. k - 1 \in 1 .. c /\ k - 2 \in 0 .. c - 1 /\ (k - 2) + 1 = k - 1 /\ (k - 1) - 1 = k - 2
      BY <1>1, <2>3, <2>5
    <3>2. ~(k - 1 \in Bad)
      <4>1. <<k - 1, k>> \in LessThan
        BY <1>1, <3>1, <2>3 DEF LessThan
      <4> HIDE DEF Bad
      <4> QED
        BY <2>2, <4>1
    <3>3. at[j] <= at[(k - 1) - 1]
      BY <2>5, <3>1, <3>2
    <3>4. at[k - 2] <= at[(k - 2) + 1]
      BY <1>5, <3>1
    <3>5. at[j] \in 0 .. n /\ at[k - 2] \in 0 .. n /\ at[k - 1] \in 0 .. n
      <4>1. j \in 0 .. c /\ k - 2 \in 0 .. c /\ k - 1 \in 0 .. c
        BY <1>1, <2>3, <3>1
      <4> QED
        BY <1>4, <4>1
    <3> QED
      BY <2>3, <3>1, <3>3, <3>4, <3>5
  <2> QED
    BY <1>1, <2>3, <2>4, <2>5
<1>10. \A k \in 1 .. c : parts[k].start \in Nat /\ parts[k].end \in 0 .. n
  <2> SUFFICES ASSUME NEW k \in 1 .. c PROVE at[k - 1] \in Nat /\ at[k] \in 0 .. n
    BY <1>7
  <2>1. k - 1 \in 0 .. c /\ k \in 0 .. c
    BY <1>1
  <2> QED
    BY <1>4, <2>1
<1>11. IsFiniteSet(1 .. c)
  BY <1>1, FS_Interval
<1>12. \A j \in 1 .. c : j \in Int
  BY <1>1
<1> QED
  BY <1>2, <1>8, <1>9, <1>10, <1>11, <1>12 DEF parts

\* What is counted shard by shard adds up to the whole.
LEMMA SumOverShards ==
    ASSUME NEW n \in Nat \ {0}, NEW w \in Nat \ {0}, NEW Q, Q \subseteq 1 .. n
    PROVE  LET parts == Shards(n, w)
               In(k) == {r \in parts[k].start + 1 .. parts[k].end : r \in Q}
           IN  /\ SumFunction([k \in DOMAIN parts |-> Cardinality(In(k))]) = Cardinality(Q)
               /\ Cardinality(Q) \in Nat
<1> DEFINE parts == Shards(n, w)
           S == DOMAIN parts
           In(k) == {r \in parts[k].start + 1 .. parts[k].end : r \in Q}
           P == [k \in S |-> In(k)]
<1>1. /\ IsFiniteSet(S)
      /\ \A k \in S : parts[k].start \in Nat /\ parts[k].end \in 0 .. n
      /\ \A j, k \in S : j < k => parts[j].end <= parts[k].start
      /\ \A j \in S : j \in Int
      /\ \A r \in 1 .. n : \E k \in S : parts[k].start < r /\ r <= parts[k].end
  BY ShardsSplit
<1> HIDE DEF parts, S
<1>2. IsFiniteSet(Q) /\ Cardinality(Q) \in Nat
  <2>1. IsFiniteSet(1 .. n)
    BY FS_Interval
  <2> QED
    BY <2>1, FS_Subset, FS_CardinalityType
<1>3. \A k \in S : P[k] = In(k)
  OBVIOUS
<1>4. \A k \in S : IsFiniteSet(P[k])
  <2>1. \A k \in S : P[k] \subseteq Q
    BY <1>3
  <2> QED
    BY <1>2, <2>1, FS_Subset
<1>5. \A j, k \in S : j # k => P[j] \cap P[k] = {}
  <2>1. ASSUME NEW j \in S, NEW k \in S, j < k PROVE P[j] \cap P[k] = {}
    <3>1. parts[j].end <= parts[k].start /\ parts[j].end \in Nat /\ parts[k].start \in Nat
      BY <1>1, <2>1
    <3>2. \A r \in P[j] : r \in Int /\ r <= parts[j].end
      BY <1>1, <1>3
    <3>3. \A r \in P[k] : r \in Int /\ r > parts[k].start
      BY <1>1, <1>3
    <3> QED
      BY <3>1, <3>2, <3>3
  <2> HIDE DEF P
  <2>2. \A j, k \in S : j # k => j < k \/ k < j
    BY <1>1
  <2> QED
    BY <2>1, <2>2
<1>6. UNION {P[k] : k \in S} = Q
  <2>1. ASSUME NEW r \in Q PROVE \E k \in S : r \in P[k]
    <3>1. r \in 1 .. n
      OBVIOUS
    <3>2. PICK k \in S : parts[k].start < r /\ r <= parts[k].end
      BY <1>1, <3>1
    <3>3. parts[k].start \in Nat /\ parts[k].end \in 0 .. n
      BY <1>1
    <3> QED
      BY <1>3, <3>1, <3>2, <3>3
  <2> QED
    BY <1>3, <2>1
<1>7. SumFunction([k \in S |-> Cardinality(P[k])]) = Cardinality(UNION {P[k] : k \in S})
  <2> HIDE DEF P
  <2> QED
    BY <1>1, <1>4, <1>5, SumOfParts
<1>8. [k \in S |-> Cardinality(P[k])] = [k \in S |-> Cardinality(In(k))]
  BY <1>3
<1> QED
  BY <1>2, <1>6, <1>7, <1>8 DEF S, parts

\* Counting the windows in parts finds what counting them in one pass does.
LEMMA TotalIsCounts ==
    ASSUME NEW W, NEW windows \in Seq(W), NEW p, NEW t, NEW w \in Nat \ {0}
    PROVE  LET c == Counts(windows, p, t, [start |-> 0, end |-> Len(windows)])
           IN  /\ Total(windows, p, t, w) = c
               /\ c.tp \in Nat /\ c.tn \in Nat /\ c.fp \in Nat /\ c.fn \in Nat
<1> DEFINE n == Len(windows)
           whole == [start |-> 0, end |-> n]
           c == Counts(windows, p, t, whole)
           Q(class, label) == {k \in 1 .. n : (p[k] >= t) = class /\ windows[k].label = label}
           parts == Shards(n, w)
           In(k, class, label) == {r \in parts[k].start + 1 .. parts[k].end : r \in Q(class, label)}
<1>1. n \in Nat /\ (windows = <<>> <=> n = 0)
  BY LenProperties, EmptySeq
<1>2. c = [tp |-> Cardinality(Q(TRUE, TRUE)), tn |-> Cardinality(Q(FALSE, FALSE)),
           fp |-> Cardinality(Q(TRUE, FALSE)), fn |-> Cardinality(Q(FALSE, TRUE))]
  BY DEF Counts
<1>3. CASE n = 0
  <2>1. \A class, label : Q(class, label) = {}
    BY <1>3
  <2>2. Cardinality({}) = 0
    BY FS_EmptySet
  <2> HIDE DEF Q, c
  <2>3. c = [tp |-> 0, tn |-> 0, fp |-> 0, fn |-> 0]
    BY <1>2, <2>1, <2>2
  <2>4. windows = <<>>
    BY <1>1, <1>3
  <2> QED
    BY <2>3, <2>4 DEF c, Total
<1>4. CASE n # 0
  <2>1. n \in Nat \ {0} /\ windows # <<>>
    BY <1>1, <1>4
  <2>2. \A class, label : Q(class, label) \subseteq 1 .. n
    OBVIOUS
  <2> HIDE DEF n
  <2>3. ASSUME NEW class, NEW label
        PROVE  /\ SumFunction([k \in DOMAIN parts |-> Cardinality(In(k, class, label))])
                    = Cardinality(Q(class, label))
               /\ Cardinality(Q(class, label)) \in Nat
    <3> DEFINE R == Q(class, label)
    <3>1. R \subseteq 1 .. n
      OBVIOUS
    <3> HIDE DEF R
    <3>2. /\ SumFunction([k \in DOMAIN parts |-> Cardinality({r \in parts[k].start + 1 .. parts[k].end : r \in R})])
               = Cardinality(R)
          /\ Cardinality(R) \in Nat
      BY <2>1, <3>1, SumOverShards
    <3>3. SumFunction([k \in DOMAIN parts |-> Cardinality(In(k, class, label))]) = Cardinality(R)
      BY <3>2 DEF R
    <3> QED
      BY <3>2, <3>3 DEF R
  <2>4. \A k \in DOMAIN parts :
           Counts(windows, p, t, parts[k]) =
             [tp |-> Cardinality(In(k, TRUE, TRUE)), tn |-> Cardinality(In(k, FALSE, FALSE)),
              fp |-> Cardinality(In(k, TRUE, FALSE)), fn |-> Cardinality(In(k, FALSE, TRUE))]
    <3> SUFFICES ASSUME NEW k \in DOMAIN parts
                 PROVE  Counts(windows, p, t, parts[k]) =
                          [tp |-> Cardinality(In(k, TRUE, TRUE)), tn |-> Cardinality(In(k, FALSE, FALSE)),
                           fp |-> Cardinality(In(k, TRUE, FALSE)), fn |-> Cardinality(In(k, FALSE, TRUE))]
      OBVIOUS
    <3> DEFINE Here(class, label) == {r \in parts[k].start + 1 .. parts[k].end :
                                        (p[r] >= t) = class /\ windows[r].label = label}
    <3>1. parts[k].start \in Nat /\ parts[k].end \in 0 .. n
      BY <2>1, ShardsSplit
    <3>2. \A r \in parts[k].start + 1 .. parts[k].end : r \in 1 .. n
      BY <2>1, <3>1
    <3>3. Counts(windows, p, t, parts[k]) =
            [tp |-> Cardinality(Here(TRUE, TRUE)), tn |-> Cardinality(Here(FALSE, FALSE)),
             fp |-> Cardinality(Here(TRUE, FALSE)), fn |-> Cardinality(Here(FALSE, TRUE))]
      BY DEF Counts
    <3> HIDE DEF parts
    <3>4. \A class, label : Here(class, label) = In(k, class, label)
      BY <3>2
    <3> HIDE DEF Here, In
    <3> QED
      BY <3>3, <3>4
  <2> DEFINE Of(k) == Counts(windows, p, t, parts[k])
  <2>5. Total(windows, p, t, w) =
          [tp |-> SumFunction([k \in DOMAIN parts |-> Of(k).tp]),
           tn |-> SumFunction([k \in DOMAIN parts |-> Of(k).tn]),
           fp |-> SumFunction([k \in DOMAIN parts |-> Of(k).fp]),
           fn |-> SumFunction([k \in DOMAIN parts |-> Of(k).fn])]
    BY <2>1 DEF Total, n
  <2> HIDE DEF parts
  <2>6. \A k \in DOMAIN parts :
          /\ Of(k).tp = Cardinality(In(k, TRUE, TRUE)) /\ Of(k).tn = Cardinality(In(k, FALSE, FALSE))
          /\ Of(k).fp = Cardinality(In(k, TRUE, FALSE)) /\ Of(k).fn = Cardinality(In(k, FALSE, TRUE))
    <3> SUFFICES ASSUME NEW k \in DOMAIN parts
                 PROVE  /\ Of(k).tp = Cardinality(In(k, TRUE, TRUE))
                        /\ Of(k).tn = Cardinality(In(k, FALSE, FALSE))
                        /\ Of(k).fp = Cardinality(In(k, TRUE, FALSE))
                        /\ Of(k).fn = Cardinality(In(k, FALSE, TRUE))
      OBVIOUS
    <3> HIDE DEF In
    <3>1. Of(k) =
             [tp |-> Cardinality(In(k, TRUE, TRUE)), tn |-> Cardinality(In(k, FALSE, FALSE)),
              fp |-> Cardinality(In(k, TRUE, FALSE)), fn |-> Cardinality(In(k, FALSE, TRUE))]
      BY <2>4
    <3> HIDE DEF Of
    <3> QED
      BY <3>1
  <2> HIDE DEF Of, In
  <2>7. /\ [k \in DOMAIN parts |-> Of(k).tp] = [k \in DOMAIN parts |-> Cardinality(In(k, TRUE, TRUE))]
        /\ [k \in DOMAIN parts |-> Of(k).tn] = [k \in DOMAIN parts |-> Cardinality(In(k, FALSE, FALSE))]
        /\ [k \in DOMAIN parts |-> Of(k).fp] = [k \in DOMAIN parts |-> Cardinality(In(k, TRUE, FALSE))]
        /\ [k \in DOMAIN parts |-> Of(k).fn] = [k \in DOMAIN parts |-> Cardinality(In(k, FALSE, TRUE))]
    BY <2>6
  <2>8. Total(windows, p, t, w) =
          [tp |-> Cardinality(Q(TRUE, TRUE)), tn |-> Cardinality(Q(FALSE, FALSE)),
           fp |-> Cardinality(Q(TRUE, FALSE)), fn |-> Cardinality(Q(FALSE, TRUE))]
    <3> HIDE DEF Q
    <3> QED
      BY <2>3, <2>5, <2>7
  <2> HIDE DEF Q
  <2>9. Cardinality(Q(TRUE, TRUE)) \in Nat /\ Cardinality(Q(FALSE, FALSE)) \in Nat
        /\ Cardinality(Q(TRUE, FALSE)) \in Nat /\ Cardinality(Q(FALSE, TRUE)) \in Nat
    BY <2>3
  <2> HIDE DEF c
  <2>10. Total(windows, p, t, w) = c /\ c.tp \in Nat /\ c.tn \in Nat /\ c.fp \in Nat /\ c.fn \in Nat
    BY <1>2, <2>8, <2>9
  <2> QED
    BY <2>10 DEF c, n
<1> QED
  BY <1>3, <1>4

-----------------------------------------------------------------------------
(* Fractions.                                                               *)

Fractions == Int \X (Nat \ {0})

\* Fractions in order: less and not-greater combine as they do for numbers.
LEMMA LessChain ==
    ASSUME NEW a \in Fractions, NEW b \in Fractions, NEW c \in Fractions
    PROVE  /\ ~Less(b, a) /\ Less(b, c) => Less(a, c)
           /\ Less(a, b) /\ ~Less(c, b) => Less(a, c)
           /\ Less(a, b) => ~Less(b, a)
           /\ ~Less(a, a)
<1>1. ASSUME NEW u \in Int, NEW v \in Int, NEW m \in Nat \ {0}
      PROVE  (u < v <=> m * u < m * v) /\ (u <= v <=> m * u <= m * v)
  <2>1. m * v - m * u = m * (v - u)
    OBVIOUS
  <2>2. CASE u < v
    <3>1. m * (v - u) > 0
      BY <2>2
    <3> QED
      BY <2>1, <2>2, <3>1
  <2>3. CASE u = v
    BY <2>3
  <2>4. CASE u > v
    <3>1. m * (v - u) < 0
      BY <2>4
    <3> QED
      BY <2>1, <2>4, <3>1
  <2> QED
    BY <2>2, <2>3, <2>4
<1>2. /\ a[1] \in Int /\ b[1] \in Int /\ c[1] \in Int
      /\ a[2] \in Nat \ {0} /\ b[2] \in Nat \ {0} /\ c[2] \in Nat \ {0}
  BY DEF Fractions
<1>3. \A x, y, z \in Int : x * (y * z) = z * (x * y) /\ x * (y * z) = y * (x * z)
  OBVIOUS
<1>4. ASSUME NEW x1 \in Int, NEW x2 \in Nat \ {0}, NEW y1 \in Int, NEW y2 \in Nat \ {0},
             NEW z1 \in Int, NEW z2 \in Nat \ {0},
             x1 * y2 <= y1 * x2, y1 * z2 <= z1 * y2,
             x1 * y2 < y1 * x2 \/ y1 * z2 < z1 * y2
      PROVE  x1 * z2 < z1 * x2
  <2> DEFINE A == x1 * y2
             B == y1 * x2
             C == y1 * z2
             D == z1 * y2
             E == x1 * z2
             F == z1 * x2
  <2>1. A \in Int /\ B \in Int /\ C \in Int /\ D \in Int /\ E \in Int /\ F \in Int
    OBVIOUS
  <2>2. z2 * A = y2 * E
    OBVIOUS
  <2>3. z2 * B = x2 * C
    OBVIOUS
  <2>4. x2 * D = y2 * F
    OBVIOUS
  <2>5. A <= B /\ C <= D /\ (A < B \/ C < D)
    BY <1>4
  <2> HIDE DEF A, B, C, D, E, F
  <2>6. z2 * A <= z2 * B /\ x2 * C <= x2 * D
    BY <1>1, <2>1, <2>5
  <2>7. z2 * A < z2 * B \/ x2 * C < x2 * D
    BY <1>1, <2>1, <2>5
  <2>8. y2 * E < y2 * F
    <3> DEFINE zA == z2 * A
               zB == z2 * B
               xC == x2 * C
               xD == x2 * D
    <3>1. zA \in Int /\ zB \in Int /\ xC \in Int /\ xD \in Int
      BY <2>1
    <3>2. zA <= zB /\ xC <= xD /\ (zA < zB \/ xC < xD) /\ zB = xC /\ y2 * E = zA /\ y2 * F = xD
      BY <2>2, <2>3, <2>4, <2>6, <2>7
    <3> HIDE DEF zA, zB, xC, xD
    <3> QED
      BY <3>1, <3>2
  <2>9. E < F
    BY <1>1, <2>1, <2>8
  <2> QED
    BY <2>9 DEF E, F
<1>5. ASSUME NEW x \in Fractions, NEW y \in Fractions
      PROVE  /\ x[1] \in Int /\ x[2] \in Nat \ {0}
             /\ Less(x, y) => x[1] * y[2] < y[1] * x[2]
             /\ ~Less(y, x) => x[1] * y[2] <= y[1] * x[2]
  BY DEF Fractions, Less
<1>6. ~Less(b, a) /\ Less(b, c) => Less(a, c)
  <2> SUFFICES ASSUME ~Less(b, a), Less(b, c) PROVE a[1] * c[2] < c[1] * a[2]
    BY DEF Less
  <2>1. a[1] * b[2] <= b[1] * a[2] /\ b[1] * c[2] < c[1] * b[2]
    BY <1>5
  <2>2. b[1] * c[2] <= c[1] * b[2]
    BY <1>2, <2>1
  <2> QED
    BY <1>2, <1>4, <2>1, <2>2
<1>7. Less(a, b) /\ ~Less(c, b) => Less(a, c)
  <2> SUFFICES ASSUME Less(a, b), ~Less(c, b) PROVE a[1] * c[2] < c[1] * a[2]
    BY DEF Less
  <2>1. a[1] * b[2] < b[1] * a[2] /\ b[1] * c[2] <= c[1] * b[2]
    BY <1>5
  <2>2. a[1] * b[2] <= b[1] * a[2]
    BY <1>2, <2>1
  <2> QED
    BY <1>2, <1>4, <2>1, <2>2
<1>8. (Less(a, b) => ~Less(b, a)) /\ ~Less(a, a)
  <2>1. a[1] * b[2] \in Int /\ b[1] * a[2] \in Int /\ a[1] * a[2] \in Int
    BY <1>2
  <2> QED
    BY <2>1 DEF Less
<1> QED
  BY <1>6, <1>7, <1>8

\* f2, computed from the two ratios, is the F2 of the counts, also where a ratio would divide
\* by zero.
LEMMA ScoreIsF2 ==
    ASSUME NEW c, c.tp \in Nat, c.fp \in Nat, c.fn \in Nat
    PROVE  LET value == Ratio(5 * c.tp, 5 * c.tp + 4 * c.fn + c.fp)
           IN  /\ f2(c) \in Fractions /\ value \in Fractions
               /\ f2(c)[1] >= 0
               /\ ~Less(f2(c), value) /\ ~Less(value, f2(c))
<1> DEFINE tp == c.tp
           Y == c.tp + c.fp
           Z == c.tp + c.fn
           value == Ratio(5 * c.tp, 5 * c.tp + 4 * c.fn + c.fp)
<1>1. value \in Fractions /\ value = Ratio(5 * tp, 4 * Z + Y)
  BY DEF Ratio, Fractions
<1>2. CASE tp = 0
  <2>1. Precision(c)[1] = 0 /\ Recall(c)[1] = 0
    BY <1>2 DEF Precision, Recall, Ratio
  <2>2. Precision(c)[2] \in Nat /\ Recall(c)[2] \in Nat
    BY <1>2 DEF Precision, Recall, Ratio
  <2>3. f2(c) = <<0, 1>>
    <3> DEFINE A == Times(<<5, 1>>, Times(Precision(c), Recall(c)))
               B == Plus(Times(<<4, 1>>, Precision(c)), Recall(c))
    <3>1. B[1] = 0
      BY <2>1, <2>2 DEF Plus, Times
    <3>2. A[2] \in Nat
      BY <2>1, <2>2 DEF Times
    <3>3. f2(c) = Ratio(A[1] * B[2], A[2] * B[1])
      BY DEF f2, Over
    <3> HIDE DEF A, B
    <3> QED
      BY <3>1, <3>2, <3>3 DEF Ratio
  <2>4. value[1] = 0 /\ value[2] \in Nat
    BY <1>2 DEF Ratio
  <2> HIDE DEF value
  <2> QED
    BY <1>1, <2>3, <2>4 DEF Less, Fractions, value
<1>3. CASE tp # 0
  <2> DEFINE YZ == Y * Z
             D == 4 * (tp * Z) + tp * Y
             N == 5 * (tp * tp)
             E == 4 * Z + Y
  <2>1. tp \in Nat \ {0} /\ Y \in Nat \ {0} /\ Z \in Nat \ {0}
    BY <1>3
  <2>2. Precision(c) = <<tp, Y>> /\ Recall(c) = <<tp, Z>>
    BY <2>1 DEF Precision, Recall, Ratio
  <2>3. value = <<5 * tp, E>> /\ E \in Nat \ {0}
    BY <1>1, <2>1 DEF Ratio
  <2> HIDE DEF tp, Y, Z, value
  <2>4. YZ \in Nat \ {0} /\ N \in Nat \ {0} /\ tp * Z \in Nat \ {0} /\ tp * Y \in Nat \ {0}
    <3>1. ASSUME NEW u \in Nat \ {0}, NEW v \in Nat \ {0} PROVE u * v \in Nat \ {0}
      OBVIOUS
    <3> QED
      BY <2>1, <3>1
  <2>5. D \in Nat \ {0}
    BY <2>4
  <2>6. Times(<<5, 1>>, Times(Precision(c), Recall(c))) = <<N, YZ>>
    <3>1. Times(Precision(c), Recall(c)) = <<tp * tp, YZ>>
      BY <2>2 DEF Times
    <3> QED
      BY <2>1, <2>4, <3>1 DEF Times
  <2>7. Plus(Times(<<4, 1>>, Precision(c)), Recall(c)) = <<D, YZ>>
    <3>1. Times(<<4, 1>>, Precision(c)) = <<4 * tp, Y>>
      BY <2>1, <2>2 DEF Times
    <3>2. (4 * tp) * Z = 4 * (tp * Z)
      BY <2>1
    <3> QED
      BY <2>2, <3>1, <3>2 DEF Plus
  <2>8. f2(c) = Ratio(N * YZ, YZ * D)
    BY <2>6, <2>7 DEF f2, Over
  <2> HIDE DEF N, YZ, D, E
  <2>9. f2(c) = <<N * YZ, YZ * D>> /\ N * YZ \in Nat /\ YZ * D \in Nat \ {0}
    <3>1. N * YZ \in Nat /\ YZ * D \in Nat \ {0}
      BY <2>4, <2>5
    <3> QED
      BY <2>8, <3>1 DEF Ratio
  <2>10. (N * YZ) * E = (5 * tp) * (YZ * D)
    <3>1. D = tp * E
      BY <2>1 DEF D, E
    <3>2. N * E = (5 * tp) * D
      <4>1. N = (5 * tp) * tp
        BY <2>1 DEF N
      <4>2. ((5 * tp) * tp) * E = (5 * tp) * (tp * E)
        BY <2>1, <2>3
      <4> QED
        BY <3>1, <4>1, <4>2
    <3>3. (N * YZ) * E = YZ * (N * E)
      BY <2>3, <2>4
    <3>4. (5 * tp) * (YZ * D) = YZ * ((5 * tp) * D)
      BY <2>1, <2>4, <2>5
    <3> QED
      BY <3>2, <3>3, <3>4
  <2>11. (N * YZ) * E \in Int
    BY <2>3, <2>9
  <2>12. /\ f2(c) \in Fractions /\ f2(c)[1] >= 0
         /\ ~Less(f2(c), value) /\ ~Less(value, f2(c))
    BY <2>1, <2>3, <2>9, <2>10, <2>11 DEF Less, Fractions
  <2> QED
    BY <1>1, <2>12 DEF value
<1> QED
  BY <1>2, <1>3

-----------------------------------------------------------------------------
(* The loop over the thresholds.                                            *)

\* What the loop has chosen after each threshold up to n, when threshold t scores S[t].
IsChoice(g, n, S) ==
    g = [t \in 0 .. n |->
            IF t = 0 THEN [threshold |-> 0, f2 |-> <<-1, 1>>]
            ELSE IF Improves(g[t - 1].f2, S[t]) THEN [threshold |-> t, f2 |-> S[t]]
                 ELSE g[t - 1]]

\* The definition of the loop by recursion has a solution.
LEMMA ChoiceExists ==
    ASSUME NEW n \in Nat, NEW S
    PROVE  \E g : IsChoice(g, n, S)
<1> DEFINE Bad == {m \in Nat : ~\E g : IsChoice(g, m, S)}
<1> SUFFICES ASSUME Bad # {} PROVE FALSE
  OBVIOUS
<1>1. Bad \subseteq Nat
  OBVIOUS
<1>2. PICK m \in Bad : \A k \in Bad : ~(<<k, m>> \in LessThan)
  BY <1>1, LessWF, WFMin
<1>3. m \in Nat /\ ~\E g : IsChoice(g, m, S)
  BY <1>2
<1> DEFINE first == [threshold |-> 0, f2 |-> <<-1, 1>>]
           Step(old, t) == IF Improves(old.f2, S[t]) THEN [threshold |-> t, f2 |-> S[t]] ELSE old
<1>4. \A g, k : IsChoice(g, k, S) <=> g = [t \in 0 .. k |-> IF t = 0 THEN first ELSE Step(g[t - 1], t)]
  BY DEF IsChoice
<1> HIDE DEF first, Step, Bad
<1>5. CASE m = 0
  <2> DEFINE g == [t \in 0 .. m |-> first]
  <2>1. \A t \in 0 .. m : t = 0
    BY <1>5
  <2>2. g = [t \in 0 .. m |-> IF t = 0 THEN first ELSE Step(g[t - 1], t)]
    BY <2>1
  <2> HIDE DEF g
  <2>3. IsChoice(g, m, S)
    BY <1>4, <2>2
  <2> QED
    BY <1>3, <2>3
<1>6. CASE m # 0
  <2>1. m - 1 \in Nat /\ <<m - 1, m>> \in LessThan
    BY <1>3, <1>6 DEF LessThan
  <2>2. PICK f : IsChoice(f, m - 1, S)
    BY <1>2, <2>1 DEF Bad
  <2> DEFINE g == [t \in 0 .. m |-> IF t = m THEN Step(f[m - 1], m) ELSE f[t]]
  <2>3. f = [t \in 0 .. m - 1 |-> IF t = 0 THEN first ELSE Step(f[t - 1], t)]
    BY <1>4, <2>2
  <2>4. \A t \in 0 .. m - 1 : f[t] = IF t = 0 THEN first ELSE Step(f[t - 1], t)
    BY <2>3
  <2>5. ASSUME NEW t \in 0 .. m PROVE g[t] = IF t = 0 THEN first ELSE Step(g[t - 1], t)
    <3>1. CASE t = m
      <4>1. m - 1 \in 0 .. m /\ m - 1 # m /\ t - 1 = m - 1
        BY <2>1, <3>1
      <4>2. g[m - 1] = f[m - 1] /\ g[t] = Step(f[m - 1], m)
        BY <3>1, <4>1
      <4> HIDE DEF g
      <4> QED
        BY <1>6, <3>1, <4>1, <4>2
    <3>2. CASE t # m /\ t = 0
      <4>1. t \in 0 .. m - 1
        BY <2>1, <3>2
      <4> QED
        BY <2>4, <3>2, <4>1
    <3>3. CASE t # m /\ t # 0
      <4>1. t \in 0 .. m - 1 /\ t - 1 \in 0 .. m /\ t - 1 # m
        BY <1>3, <2>1, <3>3
      <4>2. g[t] = f[t] /\ g[t - 1] = f[t - 1]
        BY <3>3, <4>1
      <4> HIDE DEF g
      <4> QED
        BY <2>4, <3>3, <4>1, <4>2
    <3> QED
      BY <3>1, <3>2, <3>3
  <2>6. g = [t \in 0 .. m |-> g[t]]
    OBVIOUS
  <2> HIDE DEF g
  <2>7. g = [t \in 0 .. m |-> IF t = 0 THEN first ELSE Step(g[t - 1], t)]
    BY <2>5, <2>6
  <2>8. IsChoice(g, m, S)
    BY <1>4, <2>7
  <2> QED
    BY <1>3, <2>8
<1> QED
  BY <1>5, <1>6

\* After threshold t the loop holds the best of 1 .. t, and the lowest of them.
LEMMA ChoiceIsBest ==
    ASSUME NEW n \in Nat, NEW S, \A t \in 1 .. n : S[t] \in Fractions /\ S[t][1] >= 0,
           NEW g, IsChoice(g, n, S), NEW t \in 1 .. n
    PROVE  /\ g[t].threshold \in 1 .. t
           /\ g[t].f2 = S[g[t].threshold]
           /\ \A s \in 1 .. t : /\ ~Less(g[t].f2, S[s])
                                /\ s < g[t].threshold => Less(S[s], g[t].f2)
<1> DEFINE Best(u) == /\ g[u].threshold \in 1 .. u
                      /\ g[u].f2 = S[g[u].threshold]
                      /\ \A s \in 1 .. u : /\ ~Less(g[u].f2, S[s])
                                           /\ s < g[u].threshold => Less(S[s], g[u].f2)
           Bad == {u \in 1 .. n : ~Best(u)}
<1> SUFFICES ASSUME Bad # {} PROVE FALSE
  OBVIOUS
<1>1. Bad \subseteq Nat
  OBVIOUS
<1>2. PICK u \in Bad : \A k \in Bad : ~(<<k, u>> \in LessThan)
  BY <1>1, LessWF, WFMin
<1>3. u \in 1 .. n /\ ~Best(u)
  BY <1>2
<1> DEFINE first == [threshold |-> 0, f2 |-> <<-1, 1>>]
           Step(old, k) == IF Improves(old.f2, S[k]) THEN [threshold |-> k, f2 |-> S[k]] ELSE old
<1>4. \A k \in 0 .. n : g[k] = IF k = 0 THEN first ELSE Step(g[k - 1], k)
  BY DEF IsChoice
<1> HIDE DEF first, Step
<1>5. g[u] = Step(g[u - 1], u)
  <2>1. u \in 0 .. n /\ u # 0
    BY <1>3
  <2> QED
    BY <1>4, <2>1
<1>6. S[u] \in Fractions /\ S[u][1] >= 0
  BY <1>3
<1>7. CASE u = 1
  <2>1. g[0] = first
    BY <1>3, <1>4
  <2>2. Improves(first.f2, S[u])
    BY <1>6 DEF first, Improves, Less, Fractions
  <2>3. g[u] = [threshold |-> u, f2 |-> S[u]]
    BY <1>5, <1>7, <2>1, <2>2 DEF Step
  <2>4. ~Less(S[u], S[u])
    BY <1>6, LessChain
  <2>5. \A s \in 1 .. u : s = u
    BY <1>7
  <2>6. Best(u)
    BY <1>3, <1>7, <2>3, <2>4, <2>5
  <2> QED
    BY <1>3, <2>6
<1>8. CASE u # 1
  <2> DEFINE old == g[u - 1]
             th == old.threshold
  <2>1. u - 1 \in 1 .. n /\ <<u - 1, u>> \in LessThan
    BY <1>3, <1>8 DEF LessThan
  <2>2. Best(u - 1)
    <3>1. ~(u - 1 \in Bad)
      <4> HIDE DEF Bad
      <4> QED
        BY <1>2, <2>1
    <3> HIDE DEF Best
    <3> QED
      BY <2>1, <3>1
  <2>3. /\ th \in 1 .. u - 1 /\ old.f2 = S[th]
        /\ \A s \in 1 .. u - 1 : ~Less(S[th], S[s]) /\ (s < th => Less(S[s], S[th]))
    BY <2>2
  <2>4. th \in 1 .. u /\ th \in 1 .. n /\ S[th] \in Fractions
    BY <1>3, <2>3
  <2>5. \A s \in 1 .. u : s \in 1 .. u - 1 \/ s = u
    BY <1>3
  <2> HIDE DEF old, th
  <2>6. CASE Less(S[th], S[u])
    <3>1. g[u] = [threshold |-> u, f2 |-> S[u]]
      BY <1>5, <2>3, <2>6 DEF Step, Improves, old
    <3>2. ASSUME NEW s \in 1 .. u
          PROVE  ~Less(S[u], S[s]) /\ (s < u => Less(S[s], S[u]))
      <4>1. CASE s = u
        <5>1. ~Less(S[u], S[u])
          BY <1>6, LessChain
        <5> QED
          BY <1>3, <4>1, <5>1
      <4>2. CASE s \in 1 .. u - 1
        <5>1. S[s] \in Fractions
          BY <1>3, <4>2
        <5>2. ~Less(S[th], S[s])
          BY <2>3, <4>2
        <5>3. Less(S[s], S[u])
          BY <1>6, <2>4, <2>6, <5>1, <5>2, LessChain
        <5>4. ~Less(S[u], S[s])
          BY <1>6, <5>1, <5>3, LessChain
        <5> QED
          BY <5>3, <5>4
      <4> QED
        BY <2>5, <4>1, <4>2
    <3>3. g[u].threshold = u /\ g[u].f2 = S[u] /\ u \in 1 .. u
      BY <1>3, <3>1
    <3>4. Best(u)
      BY <3>2, <3>3
    <3> QED
      BY <1>3, <3>4
  <2>7. CASE ~Less(S[th], S[u])
    <3>1. g[u].threshold = th /\ g[u].f2 = S[th]
      BY <1>5, <2>3, <2>7 DEF Step, Improves, old, th
    <3>2. ~(u < th)
      BY <1>3, <2>3
    <3>3. \A s \in 1 .. u : ~Less(S[th], S[s]) /\ (s < th => Less(S[s], S[th]))
      BY <2>3, <2>5, <2>7, <3>2
    <3>4. Best(u)
      BY <2>4, <3>1, <3>3
    <3> QED
      BY <1>3, <3>4
  <2> QED
    BY <2>6, <2>7
<1> QED
  BY <1>7, <1>8

\* The threshold chosen for any sequence of windows.
LEMMA ThresholdFacts ==
    ASSUME NEW W, NEW windows \in Seq(W), NEW p, NEW w \in Nat \ {0}
    PROVE  LET t == chooseDecisionThreshold(windows, p, w)
           IN  /\ t \in 1 .. Thresholds
               /\ \A s \in 1 .. Thresholds :
                    /\ ~Less(F2(windows, p, t), F2(windows, p, s))
                    /\ s < t => Less(F2(windows, p, s), F2(windows, p, t))
<1> DEFINE S == [t \in 1 .. Thresholds |-> f2(Total(windows, p, t, w))]
           V(t) == F2(windows, p, t)
           Choice(g) == g = [t \in 0 .. Thresholds |->
                        IF t = 0 THEN [threshold |-> 0, f2 |-> <<-1, 1>>]
                        ELSE LET score == f2(Total(windows, p, t, w))
                             IN  IF Improves(g[t - 1].f2, score) THEN [threshold |-> t, f2 |-> score]
                                                                 ELSE g[t - 1]]
           best == CHOOSE g : Choice(g)
           th == best[Thresholds].threshold
<1>1. Thresholds \in Nat \ {0}
  BY ThresholdsAssumption
<1>2. chooseDecisionThreshold(windows, p, w) = th
  BY DEF chooseDecisionThreshold
<1>3. \A g : Choice(g) <=> IsChoice(g, Thresholds, S)
  <2>1. \A t \in 0 .. Thresholds : t # 0 => f2(Total(windows, p, t, w)) = S[t]
    BY <1>1
  <2> SUFFICES ASSUME NEW g
               PROVE  [t \in 0 .. Thresholds |->
                        IF t = 0 THEN [threshold |-> 0, f2 |-> <<-1, 1>>]
                        ELSE LET score == f2(Total(windows, p, t, w))
                             IN  IF Improves(g[t - 1].f2, score) THEN [threshold |-> t, f2 |-> score]
                                                                 ELSE g[t - 1]]
                      = [t \in 0 .. Thresholds |->
                           IF t = 0 THEN [threshold |-> 0, f2 |-> <<-1, 1>>]
                           ELSE IF Improves(g[t - 1].f2, S[t]) THEN [threshold |-> t, f2 |-> S[t]]
                                ELSE g[t - 1]]
    BY DEF IsChoice
  <2> HIDE DEF S
  <2> QED
    BY <2>1
<1> HIDE DEF Choice
<1>4. Choice(best)
  <2>1. \E g : Choice(g)
    BY <1>1, <1>3, ChoiceExists
  <2> QED
    BY <2>1, Zenon
<1> HIDE DEF best
<1>5. ASSUME NEW s \in 1 .. Thresholds
      PROVE  /\ S[s] \in Fractions /\ S[s][1] >= 0 /\ V(s) \in Fractions
             /\ ~Less(S[s], V(s)) /\ ~Less(V(s), S[s])
  <2> DEFINE c == Counts(windows, p, s, [start |-> 0, end |-> Len(windows)])
  <2>1. Total(windows, p, s, w) = c /\ c.tp \in Nat /\ c.fp \in Nat /\ c.fn \in Nat
    BY TotalIsCounts
  <2>2. S[s] = f2(c) /\ V(s) = Ratio(5 * c.tp, 5 * c.tp + 4 * c.fn + c.fp)
    BY <2>1 DEF F2
  <2> HIDE DEF c, S, V
  <2> QED
    BY <2>1, <2>2, ScoreIsF2
<1> HIDE DEF S, V
<1>6. /\ th \in 1 .. Thresholds
      /\ \A s \in 1 .. Thresholds : ~Less(S[th], S[s]) /\ (s < th => Less(S[s], S[th]))
  <2>1. IsChoice(best, Thresholds, S)
    BY <1>3, <1>4
  <2>2. Thresholds \in 1 .. Thresholds
    BY <1>1
  <2>3. \A t \in 1 .. Thresholds : S[t] \in Fractions /\ S[t][1] >= 0
    BY <1>5
  <2>4. /\ th \in 1 .. Thresholds
        /\ best[Thresholds].f2 = S[th]
        /\ \A s \in 1 .. Thresholds : /\ ~Less(best[Thresholds].f2, S[s])
                                      /\ s < th => Less(S[s], best[Thresholds].f2)
    BY <1>1, <2>1, <2>2, <2>3, ChoiceIsBest
  <2> QED
    BY <2>4
<1> HIDE DEF th
<1>7. ASSUME NEW s \in 1 .. Thresholds
      PROVE  ~Less(V(th), V(s)) /\ (s < th => Less(V(s), V(th)))
  <2>1. /\ S[s] \in Fractions /\ V(s) \in Fractions /\ ~Less(S[s], V(s)) /\ ~Less(V(s), S[s])
        /\ S[th] \in Fractions /\ V(th) \in Fractions /\ ~Less(S[th], V(th)) /\ ~Less(V(th), S[th])
    BY <1>5, <1>6
  <2>2. ASSUME Less(V(th), V(s)) PROVE FALSE
    <3>1. Less(S[th], V(s))
      BY <2>1, <2>2, LessChain
    <3>2. Less(S[th], S[s])
      BY <2>1, <3>1, LessChain
    <3> QED
      BY <1>6, <3>2
  <2>3. ASSUME s < th PROVE Less(V(s), V(th))
    <3>1. Less(S[s], S[th])
      BY <1>6, <2>3
    <3>2. Less(V(s), S[th])
      BY <2>1, <3>1, LessChain
    <3> QED
      BY <2>1, <3>2, LessChain
  <2> QED
    BY <2>2, <2>3
<1> QED
  BY <1>2, <1>6, <1>7 DEF V

\* dataset/ml.go:97-166: whatever the model predicts for the training windows and however many
\* goroutines count, the threshold chosen is one of those tried, none has a better F2, and
\* among the best it is the lowest.
THEOREM ThresholdIsBestHolds == BuildSpec => []ThresholdIsBest
<1>1. BuildInv => ThresholdIsBest
  <2> SUFFICES ASSUME BuildInv, Done, NEW p, NEW w \in 1 .. MaxCount
               PROVE  LET t == chooseDecisionThreshold(training, p, w)
                      IN  /\ t \in 1 .. Thresholds
                          /\ \A s \in 1 .. Thresholds :
                                /\ ~Less(F2(training, p, t), F2(training, p, s))
                                /\ s < t => Less(F2(training, p, s), F2(training, p, t))
    BY DEF ThresholdIsBest
  <2> DEFINE W == {Window(a) : a \in Int}
  <2>1. training = SubSeq(forecast, 1, Cut(Len(forecast))) /\ forecast \in Seq(W)
    BY DEF BuildInv, SplitInv, JoinedInv, Done
  <2> HIDE DEF W
  <2>2. Len(forecast) \in Nat /\ DOMAIN forecast = 1 .. Len(forecast)
    BY <2>1, LenProperties
  <2>3. Cut(Len(forecast)) \in 0 .. Len(forecast)
    BY <2>2, CutFacts
  <2>4. training \in Seq(W)
    <3> DEFINE c == Cut(Len(forecast))
    <3>1. c \in Int /\ 1 \in 1 .. Len(forecast) + 1 /\ c \in 1 - 1 .. Len(forecast)
      BY <2>2, <2>3
    <3> HIDE DEF c
    <3> QED
      BY <2>1, <3>1, SubSeqProperties DEF c
  <2>5. w \in Nat \ {0}
    BY MaxCountAssumption
  <2> QED
    BY <2>4, <2>5, ThresholdFacts
<1> QED
  BY <1>1, BuildInvariance, PTL
=============================================================================
