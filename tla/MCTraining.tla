----------------------------- MODULE MCTraining -----------------------------
(* Training with three workers, every size of their datasets up to MaxRows  *)
(* and every choice of the workers that stay up.                            *)
EXTENDS Training
=============================================================================
