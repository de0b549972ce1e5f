---------------------------- MODULE RouterBacklog ----------------------------
(***************************************************************************)
(* The router keeps what Backlog promises: the refinement mapping counts,  *)
(* per subscription and log entry, the live copies of a delivery wherever  *)
(* the router keeps them.                                                  *)
(***************************************************************************)
EXTENDS Router, Functions

Of(s) == {c \in Ids : c <= nextId /\ reg[c].name = s}

Carries(d, e) == <<d.topic, d.seq>> = e

CopiesIn(ds, e) == Cardinality({n \in 1..Len(ds) : Carries(ds[n], e)})

\* Kept for the consumers C, in queues or dropped by their handlers.
CopiesAt(qs, C, e) ==
  SumFunction([c \in Ids |-> IF c \in C THEN CopiesIn(qs[c], e) ELSE 0])

\* Held by a handler of the consumers C, or waiting for a delayed retry.
CopiesOut(C, e) ==
  Cardinality({m \in Slots : /\ settle[m].duty \in {"handle", "timer"}
                             /\ settle[m].id \in C
                             /\ Carries(settle[m].d, e)})

LiveCopies(s, e) ==
  CopiesAt(queue, Of(s), e) + CopiesAt(unacked, Of(s), e)
    + CopiesIn(parked[s], e) + CopiesOut(Of(s), e)

\* Acknowledgements so far, modulo 2, while the broker is open: it tells a
\* delivery that was acknowledged from one that was lost.
VARIABLE acked

CountedInit == Init /\ acked = 0

CountedNext ==
  \/ Settled /\ acked' = IF up THEN 1 - acked ELSE acked
  \/ Others /\ UNCHANGED acked

CountedSpec == CountedInit /\ [][CountedNext]_<<vars, acked>>

Tip == [t \in Topics |-> IF up THEN Len(log[t]) ELSE 0]
Outstanding == [s \in Names |-> [e \in Topics \X (1..MaxEntries) |->
                  IF up THEN LiveCopies(s, e) ELSE 0]]
Swapped == IF up THEN swap ELSE 0

Promise == INSTANCE Backlog WITH
  open <- up, tip <- Tip, owed <- Outstanding, moving <- Swapped

\* Every step of the router is one Backlog allows: no interleaving of closes,
\* takeovers, drops, retries, timers and seeks loses a delivery a subscription
\* owes or hands one out twice.
KeepsPromise == Promise!Spec
=============================================================================
