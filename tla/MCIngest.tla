------------------------------ MODULE MCIngest ------------------------------
(* Every file of up to five bytes, cut for up to three workers.            *)
EXTENDS Ingest
=============================================================================
