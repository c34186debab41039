---------------------------- MODULE SplitRanges -----------------------------
(***************************************************************************)
(* The loop of splitRanges, one iteration per step.  ComputeGradient-      *)
(* Concurrent and the ETL's buildIndexJobs run the same loop over a        *)
(* worker's rows and over a table's rows.  Every caller has excluded       *)
(* total = 0 before (the loop would divide by zero) and asks for at least  *)
(* one range.                                                              *)
(***************************************************************************)
EXTENDS Shards, Sequences

CONSTANTS MaxTotal, MaxCount            \* bounds of the arguments

ASSUME MaxTotalAssumption == MaxTotal \in Nat
ASSUME MaxCountAssumption == MaxCount \in Nat

VARIABLES
    total, requested,   \* the arguments
    count,              \* count, after it is capped
    i, start, result    \* the loop's variables

vars == <<total, requested, count, i, start, result>>

base == total \div count
remainder == total % count

TypeOK ==
    /\ total \in 1 .. MaxTotal
    /\ requested \in 1 .. MaxCount
    /\ count \in Nat \ {0}
    /\ i \in 0 .. count
    /\ start \in 0 .. total
    /\ result \in Seq([start : Nat, end : Nat])

Capped == IF requested > total THEN total ELSE requested

Init ==
    /\ total \in 1 .. MaxTotal
    /\ requested \in 1 .. MaxCount
    /\ count = Capped
    /\ i = 0
    /\ start = 0
    /\ result = <<>>

RangeEnd_Bug == IF i <= remainder THEN start + base + 1 ELSE start + base
RangeEnd == IF i < remainder THEN start + base + 1 ELSE start + base

Iterate ==
    /\ i < count
    /\ result' = Append(result, [start |-> start, end |-> RangeEnd])
    /\ start' = RangeEnd
    /\ i' = i + 1
    /\ UNCHANGED <<total, requested, count>>

Next == Iterate

Spec == Init /\ [][Next]_vars

-----------------------------------------------------------------------------
Returned == i = count

\* coordinator.go:505-520 (also ml.go:110-119, dataset/ml.go:188-206): whatever the
\* numbers, the ranges returned hold every row exactly once; no row is skipped or trained
\* on twice at a boundary, and the last range ends with the last row.
CoversExactlyOnce == Returned => Partitions(result, total) /\ start = total

\* ml-node/main.go:165: no range is empty (a worker refuses one with start >= end), and no
\* node gets more than one row more than another.
RangesAreFair ==
    \A j, k \in DOMAIN result :
        /\ result[j].start < result[j].end
        /\ (result[j].end - result[j].start) - (result[k].end - result[k].start) <= 1

\* The loop computes the closed form that Training uses.
ReturnsShards == Returned => result = Shards(total, requested)
=============================================================================
