------------------------------ MODULE Training ------------------------------
(***************************************************************************)
(* Coordinator.Train: distributed gradient descent.  Each epoch splits the *)
(* rows over the nodes that are healthy then, one goroutine per shard asks *)
(* its preferred node and, when a call fails, the other nodes of the epoch *)
(* in turn; the epoch waits for all of them, adds the gradients up and     *)
(* moves the weights.                                                      *)
(*                                                                         *)
(* A call is seen through its contract (CallContract): the answer to this  *)
(* very request, or an error.  A node that is not steady may leave or join *)
(* the balancer (Registry) and fail a call at any time.  A gradient is     *)
(* what it was computed from: the rows and the weights; weights are the    *)
(* number of steps they have taken.                                        *)
(***************************************************************************)
EXTENDS Shards, Sequences, FiniteSets, FiniteSetsExt

CONSTANTS
    NodeIds,    \* worker names; numbers, because snapshots are sorted by name
    MaxRows,    \* bound of a dataset's size
    Epochs,     \* options.Epochs
    None

ASSUME NodeIdsAssumption == NodeIds \subseteq Nat /\ IsFiniteSet(NodeIds)
ASSUME MaxRowsAssumption == MaxRows \in Nat
ASSUME EpochsAssumption == Epochs \in Nat \ {0}

VARIABLES
    steady,     \* the workers that stay healthy and always answer in time
    dataset,    \* the number of rows in each worker's dataset file
    status,     \* where Train is: "new", "init", "epoch", "shards", "trained", "failed"
    nodes,      \* the nodes still to be asked for the dataset's size; then the one that told it
    rows,       \* initResult.Rows
    epoch,      \* the loop variable
    active,     \* the nodes of this epoch
    shards,     \* the ranges of this epoch
    jobs,       \* the goroutine of each shard
    gradients,  \* what they returned
    weights,    \* the weights, as the number of steps they have taken
    metric,     \* the last metric given to onEpoch
    batch       \* history: how often each row was counted in the last step

env == <<steady, dataset>>      \* fixed for a run of Train
vars == <<env, status, nodes, rows, epoch, active, shards, jobs, gradients, weights, metric, batch>>

Jobs == [at : {"spawned", "calling", "done", "failed"}, attempt : Nat, weights : 0 .. Epochs]
Gradients == [start : Nat, end : Nat, weights : 0 .. Epochs]

ASSUME NoneAssumption == None \notin Gradients

TypeOK ==
    /\ steady \subseteq NodeIds
    /\ dataset \in [NodeIds -> 0 .. MaxRows]
    /\ status \in {"new", "init", "epoch", "shards", "trained", "failed"}
    /\ nodes \in Seq(NodeIds)
    /\ rows \in 0 .. MaxRows
    /\ epoch \in 1 .. Epochs + 1
    /\ active \in Seq(NodeIds)
    /\ shards \in Seq([start : Nat, end : Nat])
    /\ DOMAIN shards \subseteq DOMAIN active
    /\ jobs \in [DOMAIN shards -> Jobs]
    /\ gradients \in [DOMAIN shards -> Gradients \cup {None}]
    /\ weights \in 0 .. Epochs

Init ==
    /\ steady \in SUBSET NodeIds
    /\ dataset \in [NodeIds -> 0 .. MaxRows]
    /\ status = "new"
    /\ nodes = <<>>
    /\ rows = 0
    /\ epoch = 1
    /\ active = <<>>
    /\ shards = <<>>
    /\ jobs = <<>>
    /\ gradients = <<>>
    /\ weights = 0
    /\ metric = None
    /\ batch = None

-----------------------------------------------------------------------------
(* The environment, as Train sees it.                                       *)

\* What healthyNodes may return: a set of nodes, sorted by name.
Snapshots ==
    {s \in UNION {[1 .. Cardinality(H) -> H] : H \in SUBSET NodeIds} :
        /\ \A j, k \in DOMAIN s : j < k => s[j] < s[k]
        /\ \A n \in steady : \E k \in DOMAIN s : s[k] = n}

\* The worker's check of a range against its own rows.
Accepts(n, shard) == 0 <= shard.start /\ shard.end <= dataset[n] /\ shard.start < shard.end

-----------------------------------------------------------------------------
(* Finding out how large the dataset is.                                    *)

Begin ==
    /\ status = "new"
    /\ \E s \in Snapshots :
          /\ nodes' = s
          /\ status' = IF s = <<>> THEN "failed" ELSE "init"
    /\ UNCHANGED <<env, rows, epoch, active, shards, jobs, gradients, weights, metric, batch>>

InitAnswered ==
    /\ status = "init"
    /\ rows' = dataset[Head(nodes)]
    /\ status' = IF rows' = 0 THEN "failed" ELSE "epoch"
    /\ nodes' = <<Head(nodes)>>
    /\ UNCHANGED <<env, epoch, active, shards, jobs, gradients, weights, metric, batch>>

InitFailed ==
    /\ status = "init"
    /\ Head(nodes) \notin steady
    /\ nodes' = Tail(nodes)
    /\ status' = IF nodes' = <<>> THEN "failed" ELSE "init"
    /\ UNCHANGED <<env, rows, epoch, active, shards, jobs, gradients, weights, metric, batch>>

-----------------------------------------------------------------------------
(* One epoch.  Names ending in _Bug are deliberately wrong variants of the   *)
(* definition below them.                                                   *)

EpochsLeft == epoch <= Epochs

StartEpoch ==
    /\ status = "epoch"
    /\ EpochsLeft
    /\ \E s \in Snapshots \ {<<>>} :
          /\ active' = s
          /\ shards' = Shards(rows, Len(s))
    /\ jobs' = [k \in DOMAIN shards' |-> [at |-> "spawned", attempt |-> 0, weights |-> weights]]
    /\ gradients' = [k \in DOMAIN shards' |-> None]
    /\ status' = "shards"
    /\ UNCHANGED <<env, nodes, rows, epoch, weights, metric, batch>>

NoNodesLeft ==
    /\ status = "epoch"
    /\ EpochsLeft
    /\ <<>> \in Snapshots
    /\ status' = "failed"
    /\ UNCHANGED <<env, nodes, rows, epoch, active, shards, jobs, gradients, weights, metric, batch>>

\* The goroutine of shard k starts and reads the captured weights.
ShardStarts(k) ==
    /\ jobs[k].at = "spawned"
    /\ jobs' = [jobs EXCEPT ![k].at = "calling", ![k].weights = weights]
    /\ UNCHANGED <<env, status, nodes, rows, epoch, active, shards, gradients, weights, metric, batch>>

Asked_Bug(k) == active[k]                           \* always the preferred node
Asked(k) == active[((k - 1 + jobs[k].attempt) % Len(active)) + 1]

Slot_Bug(k) == (((k - 1) + jobs[k].attempt) % Len(shards)) + 1   \* indexed by the node
Slot(k) == k

ShardAnswered(k) ==
    /\ jobs[k].at = "calling"
    /\ Accepts(Asked(k), shards[k])
    /\ gradients' = [gradients EXCEPT ![Slot(k)] =
                        [start |-> shards[k].start, end |-> shards[k].end,
                         weights |-> jobs[k].weights]]
    /\ jobs' = [jobs EXCEPT ![k].at = "done"]
    /\ UNCHANGED <<env, status, nodes, rows, epoch, active, shards, weights, metric, batch>>

Another_Bug(k) == jobs[k].attempt                   \* the attempt is not counted
Another(k) == jobs[k].attempt + 1

ShardFails(k) ==
    /\ jobs[k].at = "calling"
    /\ Asked(k) \notin steady \/ ~Accepts(Asked(k), shards[k])
    /\ jobs' = [jobs EXCEPT ![k].attempt = Another(k),
                            ![k].at = IF Another(k) < Len(active) THEN "calling" ELSE "failed"]
    /\ UNCHANGED <<env, status, nodes, rows, epoch, active, shards, gradients, weights, metric, batch>>

Failed == \E k \in DOMAIN jobs : jobs[k].at = "failed"

Joined_Bug == Failed \/ \A k \in DOMAIN jobs : jobs[k].at = "done"   \* first error returns
Joined == \A k \in DOMAIN jobs : jobs[k].at \in {"done", "failed"}

GiveUp ==
    /\ status = "shards"
    /\ Joined
    /\ Failed
    /\ status' = "failed"
    /\ UNCHANGED <<env, nodes, rows, epoch, active, shards, jobs, gradients, weights, metric, batch>>

\* How often the sum of the gradients counts row r at the current weights.
Counted(r) ==
    Cardinality({k \in DOMAIN gradients :
        /\ gradients[k] # None
        /\ gradients[k].weights = weights
        /\ gradients[k].start <= r
        /\ r < gradients[k].end})

\* AggregateGradients' Count.
CountOfAll ==
    MapThenSumSet(LAMBDA k : IF gradients[k] = None THEN 0
                             ELSE gradients[k].end - gradients[k].start,
                  DOMAIN gradients)

Apply ==
    /\ status = "shards"
    /\ Joined
    /\ ~Failed
    /\ batch' = [r \in 0 .. rows - 1 |-> Counted(r)]
    /\ metric' = [epoch |-> epoch, rows |-> CountOfAll]
    /\ weights' = weights + 1
    /\ epoch' = epoch + 1
    /\ status' = "epoch"
    /\ UNCHANGED <<env, nodes, rows, active, shards, jobs, gradients>>

Finish ==
    /\ status = "epoch"
    /\ ~EpochsLeft
    /\ status' = "trained"
    /\ UNCHANGED <<env, nodes, rows, epoch, active, shards, jobs, gradients, weights, metric, batch>>

-----------------------------------------------------------------------------
Shard(k) == ShardStarts(k) \/ ShardAnswered(k) \/ ShardFails(k)

Next ==
    \/ Begin \/ InitAnswered \/ InitFailed
    \/ StartEpoch \/ NoNodesLeft
    \/ \E k \in DOMAIN jobs : Shard(k)
    \/ GiveUp \/ Apply \/ Finish

Spec == Init /\ [][Next]_vars

(* Train's own goroutine and those of the shards run, and every call ends   *)
(* (CallReturns of NodeRpc).                                                *)
FairSpec ==
    /\ Spec
    /\ WF_vars(Begin \/ InitAnswered \/ InitFailed)
    /\ WF_vars(StartEpoch \/ NoNodesLeft)
    /\ WF_vars(GiveUp \/ Apply \/ Finish)
    /\ \A k \in 1 .. Cardinality(NodeIds) : WF_vars(k \in DOMAIN jobs /\ Shard(k))

-----------------------------------------------------------------------------
(* Properties.                                                              *)

\* coordinator.go:324-359: however shards are reassigned and nodes come and go, every step
\* of the weights adds each row of the dataset exactly once, at the weights of the step
\* before, and the metrics report every epoch once, in order, with all the rows.
BatchDescent == INSTANCE BatchDescent WITH
    outcome <- IF status \in {"trained", "failed"} THEN status ELSE "running"
ImplementsBatchDescent == BatchDescent!Spec

\* coordinator.go:320-355: after every step of the weights each row has been counted once.
EveryRowOnce == batch # None => batch = [r \in 0 .. rows - 1 |-> 1]

\* coordinator.go:332-350: when Train has returned, or is between two epochs, none of its
\* goroutines is left that could still compute on, or record a gradient of, older weights.
NoStragglers ==
    status # "shards" => \A k \in DOMAIN jobs : jobs[k].at \notin {"spawned", "calling"}

\* coordinator.go:288-371: Train always returns, whatever the nodes do.
TrainReturns == <>(status \in {"trained", "failed"})

\* docs/PRESENTACION.md:21, "tolerancia a caida en el coordinador": as long as one node that has
\* all the rows stays up, training succeeds however the others fail, come back or lack rows,
\* with one exception, coordinator.go:301-318: the first node that answers has an empty file,
\* and its answer is taken for the size of the dataset.
HasAllRows(n) == 0 < dataset[n] /\ \A m \in NodeIds : dataset[m] <= dataset[n]
ToldEmpty == status = "failed" /\ nodes # <<>> /\ dataset[Head(nodes)] = 0
TrainingSurvivesFailures ==
    (\E n \in steady : HasAllRows(n)) => <>(status = "trained" \/ ToldEmpty)
=============================================================================
