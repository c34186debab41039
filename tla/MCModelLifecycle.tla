-------------------------- MODULE MCModelLifecycle --------------------------
(* Three runs and three faults: a run that fails, one that is cut by a     *)
(* restart and one that completes, in any order.                           *)
EXTENDS ModelLifecycle
=============================================================================
