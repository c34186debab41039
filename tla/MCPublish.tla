----------------------------- MODULE MCPublish ------------------------------
(* Three runs of the ETL, any of which may stop at any file.               *)
EXTENDS Publish
=============================================================================
