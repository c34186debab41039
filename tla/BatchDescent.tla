---------------------------- MODULE BatchDescent ----------------------------
(***************************************************************************)
(* What Coordinator.Train promises, with no nodes, shards or goroutines:   *)
(* full-batch gradient descent over one dataset.  Each step takes the      *)
(* gradient of every row once, at the weights of the step before, reports  *)
(* one metric, and after Epochs steps the model is returned.  It may fail  *)
(* instead, at any time, and then returns no model.                        *)
(***************************************************************************)
EXTENDS Naturals

CONSTANTS Epochs, None

VARIABLES
    outcome,    \* "running", "trained" or "failed"
    rows,       \* the size of the dataset, 0 while it is not known
    weights,    \* the weights, as the number of steps they have taken
    batch,      \* how often the last step counted each row
    metric      \* the metric reported last

vars == <<outcome, rows, weights, batch, metric>>

Init ==
    /\ outcome = "running"
    /\ rows = 0
    /\ weights = 0
    /\ batch = None
    /\ metric = None

Measure ==
    /\ outcome = "running"
    /\ rows = 0
    /\ rows' \in Nat \ {0}
    /\ UNCHANGED <<outcome, weights, batch, metric>>

Step ==
    /\ outcome = "running"
    /\ rows > 0
    /\ weights < Epochs
    /\ weights' = weights + 1
    /\ batch' = [r \in 0 .. rows - 1 |-> 1]
    /\ metric' = [epoch |-> weights + 1, rows |-> rows]
    /\ UNCHANGED <<outcome, rows>>

Return ==
    /\ outcome = "running"
    /\ weights = Epochs
    /\ outcome' = "trained"
    /\ UNCHANGED <<rows, weights, batch, metric>>

Fail ==
    /\ outcome = "running"
    /\ outcome' = "failed"
    /\ UNCHANGED <<rows, weights, batch, metric>>

Next == Measure \/ Step \/ Return \/ Fail

Spec == Init /\ [][Next]_vars
=============================================================================
