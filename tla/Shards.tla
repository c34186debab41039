------------------------------- MODULE Shards -------------------------------
(***************************************************************************)
(* The division of a dataset into contiguous shards, in closed form.  Rows *)
(* are numbered from 0 and a shard [start, end) leaves its end out, as Go  *)
(* slices do.  SplitRanges models the loop that produces the shards; the   *)
(* training loop (Training) uses the closed form.                          *)
(***************************************************************************)
EXTENDS Integers

Cap(total, count) == IF count > total THEN total ELSE count

Base(total, count) == total \div Cap(total, count)
Remainder(total, count) == total % Cap(total, count)

\* Where shard k (from 0) starts: the first Remainder shards have one row more.
Offset(total, count, k) ==
    k * Base(total, count) + Cap(Remainder(total, count), k)

Shards(total, count) ==
    [k \in 1 .. Cap(total, count) |->
        [start |-> Offset(total, count, k - 1), end |-> Offset(total, count, k)]]

\* The shards of a list that hold row r.
Holding(shards, r) == {k \in DOMAIN shards : shards[k].start <= r /\ r < shards[k].end}

Partitions(shards, total) ==
    \A r \in 0 .. total - 1 : \E k \in DOMAIN shards : Holding(shards, r) = {k}
=============================================================================
