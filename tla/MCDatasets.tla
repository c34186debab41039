----------------------------- MODULE MCDatasets -----------------------------
(* Tables of up to twelve rows with at most one gap, which give up to four *)
(* anchors, up to three workers, and three thresholds.  An hour has four   *)
(* minutes and a day two hours, and requests are written in one of two     *)
(* zones.                                                                  *)
EXTENDS Analysis
=============================================================================
