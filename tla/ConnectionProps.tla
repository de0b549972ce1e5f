--------------------------- MODULE ConnectionProps ---------------------------
(***************************************************************************)
(* What a broker's connection promises.                                    *)
(***************************************************************************)
EXTENDS Connection

Clone ==
  [at : {"new", "dialing", "failed", "connected", "marked", "lining", "closing", "turn",
         "shut"},
   left : SUBSET Producers, now : 0..MaxPublishes]

Caller ==
  [at : {"idle", "checked", "lining", "building", "found", "turn", "receipt"},
   to : Topics, with : 0..MaxPublishes]

Producer ==
  [of : Topics, is : {"none", "building", "open", "gone", "closed", "refused"}]

\* Every variable stays in its set.
TypeOK ==
  /\ clients \in Nat
  /\ filled \in BOOLEAN /\ closed \in BOOLEAN
  /\ broker \in [Brokers -> Clone]
  /\ caller \in [Callers -> Caller]
  /\ line \in Seq(Callers \cup Brokers)
  /\ cache \in [Topics -> 0..MaxPublishes]
  /\ producer \in [Producers -> Producer]
  /\ turns \in [Producers -> Seq(Callers \cup Brokers)]
  /\ publishes \in 0..MaxPublishes

\* However many clones connect at once, one client is built, and everything
\* that is connected shares it.
OneClient ==
  /\ clients = IF filled THEN 1 ELSE 0
  /\ \A b \in Brokers : broker[b].at \notin {"new", "dialing", "failed"} => filled

\* "Two callers cannot race a double producer for the same topic": until the
\* shutdown, all that publish to a topic send through the one producer the map
\* has for it, so that a topic's messages go out in one order.
OneProducerPerTopic ==
  ~closed => \A c \in Callers :
               caller[c].at \in {"found", "turn", "receipt"}
                 => cache[caller[c].to] = caller[c].with

\* A producer that is open is in the map, where the next shutdown finds it, or
\* is one that a shutdown has still to close: a shutdown that returned asked
\* every producer it found to close, also when one of them failed to.
NoneOutOfReach ==
  \A p \in Producers :
    producer[p].is = "open" => \/ cache[producer[p].of] = p
                               \/ \E b \in Brokers : p \in broker[b].left

\* "At shutdown it closes each of them": no producer is open, or comes to be
\* open, once a shutdown returned.
AllClosedAtShutdown ==
  \A b \in Brokers : broker[b].at = "shut" =>
    \A p \in Producers : producer[p].is # "open"

\* A shutdown returns, whatever publishes are under way and however many
\* producers fail to close.
ShutdownReturns == \A b \in Brokers : broker[b].at = "marked" ~> broker[b].at = "shut"

\* A publish that found the connection open comes to an end, also one that a
\* shutdown overtakes.
PublishEnds == \A c \in Callers : caller[c].at = "checked" ~> caller[c].at = "idle"
=============================================================================
