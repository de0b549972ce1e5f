----------------------------- MODULE DriverProps -----------------------------
(***************************************************************************)
(* What a live subscription promises.                                      *)
(***************************************************************************)
EXTENDS Driver

\* Every variable stays in its set, and the stream's channel in its capacity.
TypeOK ==
  /\ pc \in {"idle", "pending", "errored", "ended", "seeking", "drain", "draining",
             "closed"}
  /\ pending \in Item
  /\ out \in Seq(Item) /\ Len(out) <= Capacity
  /\ cmds \in Seq(Command)
  /\ epoch \in Nat
  /\ life \in [Pulls -> Lives]
  /\ pulled \in 0..MaxPulls /\ errors \in 0..MaxErrors
  /\ reading \in BOOLEAN /\ closed \in BOOLEAN
  /\ handle \in [Handles -> {"kept", "asking", "seeking", "released"}]
  /\ seeks \in 0..MaxSeeks
  /\ moved \in Nat
  /\ pulledAt \in [Pulls -> Nat]

\* How many elements of sequence q are in S.
Places(q, S) == Cardinality({i \in 1..Len(q) : q[i] \in S})

ItemsOf(n) == {x \in Item : x.n = n}
CommandsOf(n) == {x \in Command : x.kind # "seek" /\ x.of = n}

\* A delivery that waits for capacity is the driver's, one that is queued is in
\* the channel once, and one that somebody asked to settle has one command on
\* its way: no served command, seek or drop mislays a delivery or answers one
\* twice.
NothingMislaid ==
  \A n \in Pulls :
    /\ life[n] = "pending" <=> pc = "pending" /\ pending.n = n
    /\ Places(out, ItemsOf(n)) = IF life[n] = "queued" THEN 1 ELSE 0
    /\ Places(cmds, CommandsOf(n))
         = IF life[n] \in {"asked", "delayed", "retried"} THEN 1 ELSE 0

\* "Outstanding message handles may still settle": the driver closes its
\* consumer only when no delivery is with a handler, a timer or on its way to
\* be settled.
ClosedWhenSettled ==
  pc = "closed" => /\ cmds = <<>>
                   /\ In({"pending", "queued", "held", "asked", "delayed",
                          "timer", "retried"}) = {}

\* "A reposition must not deliver stale buffered messages": a delivery goes to
\* a handler only when the cursor was not moved since the client yielded it.
\* Once the client gave up and the driver only drains its commands, a seek
\* opens no generation (DrainSeek) and nothing is promised.
NoStaleDelivery ==
  [][\A n \in Pulls : life[n] = "queued" /\ life'[n] = "held"
       => pulledAt[n] = moved \/ pc \in {"drain", "draining"}]_vars

\* "Deliveries already queued when the seek lands are dropped", and no others: as
\* long as every seek that opened a generation moved the cursor, of one topic at
\* least, a delivery is discarded only when the cursor was moved after its pull.
\* A refused seek drops what was queued all the same (drive, poll_next).
DiscardedByAMove ==
  pc # "seeking" /\ epoch <= moved =>
    \A n \in Pulls : life[n] = "stale" => pulledAt[n] < moved

-----------------------------------------------------------------------------
(* Progress *)

\* The driver has an error of the client to report and the stream's channel is full.
Wedged == pc \in {"errored", "ended"} /\ Len(out) = Capacity

\* It is not left so: the dispatch makes room in the end.
Unwedged == []<>(~Wedged)

\* "An unpolled stream can never wedge in-flight acks": every settlement a
\* handler awaits is answered (drive).
Answered == \A n \in Pulls : life[n] = "asked" ~> life[n] # "asked"

\* It is, whatever seeks, errors, shutdowns and drops come in between, unless an
\* error finds the channel full and it stays so (drive).
AnsweredUnlessWedged == Unwedged => Answered

\* An accepted delayed retry goes to the client, also when the subscriber is
\* dropped in the meantime, with the same exception (wait_then_nack).
RetryAsked ==
  Unwedged => \A n \in Pulls : life[n] = "delayed" ~> life[n] \in {"done", "failed"}

\* What the client yielded reaches a handler, or is discarded for a seek or
\* with the subscriber, with the same exception (drive).
Delivered ==
  Unwedged => \A n \in Pulls : life[n] = "pending" ~> life[n] \notin {"pending", "queued"}

\* "Dropping the subscriber stops the driver task, which closes the client
\* consumer", also when an error waits for room (drive).
DropCloses == ~reading ~> pc = "closed"

\* "The engine gave up (retries exhausted): the stream is dead for good": the
\* stream ends, which takes the driver's end of the channel going (drive).
StreamEnds == pc = "ended" ~> ~reading \/ pc = "closed"
=============================================================================
