---------------------------- MODULE MCConnection ----------------------------
(* Small instances of a broker's connection for TLC. *)
EXTENDS ConnectionProps

CONSTANTS b1, b2, c1, c2, c3, t1, t2
=============================================================================
