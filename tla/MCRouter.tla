------------------------------ MODULE MCRouter ------------------------------
(* Small instances of the router for TLC: who may subscribe, and to what. *)
EXTENDS RouterProps, TLC

CONSTANTS s1, s2, k0, k1, m1, m2

OneKey == [k \in Keys |-> 0]
TwoKeys == [k \in Keys |-> IF k = k0 THEN 0 ELSE 1]

On(name, sharing, topics) ==
  [name |-> name, sharing |-> sharing, pattern |-> "", topics |-> topics,
   dead |-> None]
Matching(name, sharing, pattern, topics) ==
  [On(name, sharing, topics) EXCEPT !.pattern = pattern]
Capped(r, topic, limit) ==
  [r EXCEPT !.dead = [topic |-> topic, limit |-> limit]]

\* One shared subscription whose spent messages move to topic 2, which a
\* reader of the same kind caps too.
Capping == {Capped(On(s1, "Shared", {1}), 2, 2), Capped(On(s2, "Shared", {2}), 3, 1)}

\* A failover subscription over two topics that an exclusive pattern consumer of the
\* first contends for.
Contending == {On(s1, "Failover", {1, 2}), Matching(s1, "Exclusive", "p", {1})}

\* A capped consumer beside one that also reads what its spent messages move to.
Mingled == {Capped(On(s1, "Shared", {1}), 2, 1), On(s1, "Shared", {1, 2})}

NoSeek == {}
\* Moves to the end, and to a time that lies within the logs of both topics.
Seeks == {[kind |-> "Latest", arg |-> 0], [kind |-> "Timestamp", arg |-> 2]}
\* Moves to the start and past the end.
Cursors == {[kind |-> "Earliest", arg |-> 0], [kind |-> "MessageId", arg |-> 2]}

SlotSymmetry == Permutations(Slots)
=============================================================================
