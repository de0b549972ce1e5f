------------------------------ MODULE MCDriver ------------------------------
(* Small instances of a live subscription for TLC. *)
EXTENDS DriverProps

CONSTANTS h1, h2
=============================================================================
