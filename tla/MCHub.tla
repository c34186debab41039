------------------------------- MODULE MCHub --------------------------------
(* Two connections, one of which may leave, two broadcasts at once, and    *)
(* sockets that hold one message.                                          *)
EXTENDS Hub
=============================================================================
