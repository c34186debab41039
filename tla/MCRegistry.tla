----------------------------- MODULE MCRegistry -----------------------------
(* Two nodes and two connections: one node that dials twice, so that its   *)
(* first client is replaced while heartbeats and disconnections are under  *)
(* way, or two nodes that are probed one after the other.                  *)
EXTENDS Registry
=============================================================================
