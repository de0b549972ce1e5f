------------------------------ MODULE MCBacklog ------------------------------
(* A small instance of the router, with its acknowledgements counted, for TLC. *)
EXTENDS MCRouter, RouterBacklog
=============================================================================
