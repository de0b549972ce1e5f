------------------------------ MODULE MCListing ------------------------------
(* Pattern consumers beside a list, and a clock, for TLC. *)
EXTENDS ListingProps, RouterProps, TLC

CONSTANTS s1, k0, m1

OneHash == [k \in Keys |-> 0]

Reg(sharing, pattern, topics) ==
  [name |-> s1, sharing |-> sharing, pattern |-> pattern, topics |-> topics,
   dead |-> None]

\* A pattern, whose consumers list in turns or at once, and a list that makes a
\* topic they wait for.
Readers == {Reg("Failover", "p", {1, 2}), Reg("Failover", "", {1})}

NoSeek == {}
=============================================================================
