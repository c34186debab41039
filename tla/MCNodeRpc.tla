----------------------------- MODULE MCNodeRpc ------------------------------
(* Two calls over a socket that holds one message: the second write meets  *)
(* a full socket, and either answer may come late or for the other caller. *)
(* No symmetry: the run checks liveness.                                   *)
EXTENDS NodeRpc
=============================================================================
