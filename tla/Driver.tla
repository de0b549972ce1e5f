------------------------------- MODULE Driver -------------------------------
(***************************************************************************)
(* A live subscription: the driver task that owns the client's consumer    *)
(* (subscriber.rs), the stream its subscriber reads, the handlers and the  *)
(* timers that settle deliveries through it (message.rs), and the seek     *)
(* handles.                                                                *)
(*                                                                         *)
(* They share two channels: the driver sends deliveries down a bounded one *)
(* and everybody else sends commands up an unbounded one, whose senders    *)
(* are counted: the driver leaves when the last one is gone.  The client   *)
(* is external: it hands out deliveries, reports errors, gives up, and     *)
(* accepts or refuses what it is asked, as it likes.                       *)
(*                                                                         *)
(* A delivery is the number of its pull; a redelivery is a new pull.       *)
(***************************************************************************)
EXTENDS Integers, Sequences, FiniteSets

CONSTANTS
  MaxPulls,   \* bound: deliveries pulled off the client
  Capacity,   \* CHANNEL_CAPACITY, 16 in the code
  MaxHeld,    \* handlers the dispatch runs at once; 1 is one after another
  Handles,    \* seek handles
  MaxSeeks,   \* bound: seeks asked for
  MaxErrors,  \* bound: errors the client reports
  MayEnd      \* the client may give up

ASSUME DriverAssumption ==
  /\ MaxPulls \in Nat /\ Capacity \in Nat \ {0} /\ MaxHeld \in Nat \ {0}
  /\ MaxSeeks \in Nat /\ MaxErrors \in Nat /\ MayEnd \in BOOLEAN

Pulls == 1..MaxPulls

\* Where a delivery is.
\*   none      not pulled yet            pending   waiting for capacity
\*   queued    in the stream's channel   held      a handler has it
\*   asked     a handler awaits its settlement
\*   delayed   its delayed retry is not yet taken in
\*   timer     waiting for its retry     retried   the retry was asked for
\*   done      the client took its settlement
\*   failed    the client refused it
\*   dropped   nobody settled it         stale     discarded for a seek
Lives == {"none", "pending", "queued", "held", "asked", "delayed", "timer",
          "retried", "done", "failed", "dropped", "stale"}

\* What goes down the stream's channel: delivery n, or an error when n is 0,
\* with the generation it was pulled in.
Item == [stamp : Nat, n : 0..MaxPulls]
Nothing == [stamp |-> 0, n |-> 0]

\* What goes up to the driver.
Command == [kind : {"settle", "after"}, of : Pulls] \cup [kind : {"seek"}, of : Handles]

VARIABLES
  pc,       \* where the driver is
  pending,  \* the delivery waiting for channel capacity
  out,      \* the stream's channel
  cmds,     \* the command channel
  epoch,    \* the generation of deliveries
  life,     \* where each delivery is
  pulled,   \* deliveries pulled so far
  errors,   \* errors the client reported
  reading,  \* the subscriber is held
  handle,   \* each seek handle
  seeks,    \* seeks asked for
  closed,   \* the broker shut down
  moved,    \* times a seek moved the subscription's cursor, on all its topics or some
  pulledAt  \* how often it had been moved when a delivery was pulled

vars == <<pc, pending, out, cmds, epoch, life, pulled, errors, reading, handle,
          seeks, closed, moved, pulledAt>>

stream == <<pending, out>>
client == <<pulled, errors, moved, pulledAt>>
others == <<reading, handle, seeks, closed>>

In(lives) == {n \in Pulls : life[n] \in lives}

Put(n, where) == life' = [life EXCEPT ![n] = where]

\* The deliveries N are discarded, each to `where'.
PutAll(N, where) == life' = [n \in Pulls |-> IF n \in N THEN where ELSE life[n]]

\* The driver's loop: it holds a sender of its own while it is in it.
Looping == pc \in {"idle", "pending", "errored", "ended", "seeking"}

\* Mutant: the driver keeps the sender of its own when it leaves its loop.
SendersForever ==
  \/ pc # "closed"
  \/ reading
  \/ In({"pending", "queued", "held", "asked", "delayed", "timer", "retried"}) # {}
  \/ \E h \in Handles : handle[h] # "released"

\* Somebody can still send the driver a command.
Senders ==
  \/ Looping
  \/ reading
  \/ In({"pending", "queued", "held", "asked", "delayed", "timer", "retried"}) # {}
  \/ \E h \in Handles : handle[h] # "released"

-----------------------------------------------------------------------------
(* The driver task *)

\* The select serves commands first; its other branches see none waiting.
Free(at) == pc = at /\ cmds = <<>>

\* Mutant: a delivery is stamped with the generation the subscription opened in.
PullUnstamped ==
  /\ Free("idle") /\ reading
  /\ pulled < MaxPulls
  /\ pulled' = pulled + 1
  /\ pulledAt' = [pulledAt EXCEPT ![pulled'] = moved]
  /\ pc' = "pending"
  /\ pending' = [stamp |-> 0, n |-> pulled']
  /\ Put(pulled', "pending")
  /\ UNCHANGED <<out, cmds, epoch, errors, moved, others>>

\* The client yields a delivery, stamped with the generation of its pull.
Pull ==
  /\ Free("idle") /\ reading
  /\ pulled < MaxPulls
  /\ pulled' = pulled + 1
  /\ pulledAt' = [pulledAt EXCEPT ![pulled'] = moved]
  /\ pc' = "pending"
  /\ pending' = [stamp |-> epoch, n |-> pulled']
  /\ Put(pulled', "pending")
  /\ UNCHANGED <<out, cmds, epoch, errors, moved, others>>

\* Mutant: the channel takes one delivery more than it has places.
OfferBeyond ==
  /\ Free("pending") /\ reading
  /\ Len(out) <= Capacity
  /\ out' = Append(out, pending)
  /\ Put(pending.n, "queued")
  /\ pending' = Nothing
  /\ pc' = "idle"
  /\ UNCHANGED <<cmds, epoch, client, others>>

\* The delivery gets its place in the channel.
Offer ==
  /\ Free("pending") /\ reading
  /\ Len(out) < Capacity
  /\ out' = Append(out, pending)
  /\ Put(pending.n, "queued")
  /\ pending' = Nothing
  /\ pc' = "idle"
  /\ UNCHANGED <<cmds, epoch, client, others>>

\* The client reports an error, which the driver is then to forward.
Fail ==
  /\ Free("idle") /\ reading
  /\ errors < MaxErrors
  /\ errors' = errors + 1
  /\ pc' = "errored"
  /\ UNCHANGED <<stream, cmds, epoch, life, pulled, moved, pulledAt, others>>

\* The client gives up for good.
End ==
  /\ Free("idle") /\ reading /\ MayEnd
  /\ pc' = "ended"
  /\ UNCHANGED <<stream, cmds, epoch, life, client, others>>

\* The error goes down the channel.  The driver awaits its place there and
\* does nothing else meanwhile.
Forward ==
  /\ pc \in {"errored", "ended"} /\ reading
  /\ Len(out) < Capacity
  /\ out' = Append(out, [stamp |-> epoch, n |-> 0])
  /\ pc' = IF pc = "errored" THEN "idle" ELSE "drain"
  /\ UNCHANGED <<pending, cmds, epoch, life, client, others>>

\* The subscriber is gone: the driver leaves its loop, and with it what waits.
Leave ==
  /\ Free("idle") \/ Free("pending") \/ pc \in {"errored", "ended"}
  /\ ~reading
  /\ pc' = "drain"
  /\ pending' = Nothing
  /\ PutAll(In({"pending"}), "dropped")
  /\ UNCHANGED <<out, cmds, epoch, client, others>>

\* Mutant: a settlement served while a delivery waits makes it forget that one.
ServeAndForget ==
  /\ pc \in {"idle", "pending", "drain"}
  /\ cmds # <<>> /\ Head(cmds).kind = "settle"
  /\ \E answer \in {"done", "failed"} : Put(Head(cmds).of, answer)
  /\ cmds' = Tail(cmds)
  /\ pc' = IF pc = "pending" THEN "idle" ELSE pc
  /\ pending' = Nothing
  /\ UNCHANGED <<out, epoch, client, others>>

\* Mutant: no settlement is served while a delivery waits for capacity.
ServeUnlessPending ==
  /\ pc \in {"idle", "drain"}
  /\ cmds # <<>> /\ Head(cmds).kind = "settle"
  /\ \E answer \in {"done", "failed"} : Put(Head(cmds).of, answer)
  /\ cmds' = Tail(cmds)
  /\ UNCHANGED <<pc, stream, epoch, client, others>>

\* A settlement reaches the client, whose answer goes back.
Serve ==
  /\ pc \in {"idle", "pending", "drain"}
  /\ cmds # <<>> /\ Head(cmds).kind = "settle"
  /\ \E answer \in {"done", "failed"} : Put(Head(cmds).of, answer)
  /\ cmds' = Tail(cmds)
  /\ UNCHANGED <<pc, stream, epoch, client, others>>

\* Mutant: a delayed retry is taken in only while the subscriber is held.
WaitWhileReading ==
  /\ pc \in {"idle", "pending", "drain"}
  /\ cmds # <<>> /\ Head(cmds).kind = "after"
  /\ Put(Head(cmds).of, IF reading THEN "timer" ELSE "dropped")
  /\ cmds' = Tail(cmds)
  /\ UNCHANGED <<pc, stream, epoch, client, others>>

\* A delayed retry starts its wait on a task of its own.
Wait ==
  /\ pc \in {"idle", "pending", "drain"}
  /\ cmds # <<>> /\ Head(cmds).kind = "after"
  /\ Put(Head(cmds).of, "timer")
  /\ cmds' = Tail(cmds)
  /\ UNCHANGED <<pc, stream, epoch, client, others>>

\* Mutant: the generation moves on only when the client has answered.
StartSeekUnmarked ==
  /\ pc \in {"idle", "pending"}
  /\ cmds # <<>> /\ Head(cmds).kind = "seek"
  /\ cmds' = Tail(cmds)
  /\ UNCHANGED epoch
  /\ pending' = Nothing
  /\ PutAll(In({"pending"}), "stale")
  /\ pc' = IF closed THEN "idle" ELSE "seeking"
  /\ handle' = [handle EXCEPT ![Head(cmds).of] = IF closed THEN "kept" ELSE "seeking"]
  /\ UNCHANGED <<out, client, reading, seeks, closed>>

\* A seek opens a generation and drops the delivery that waits for capacity,
\* whatever becomes of it; then it is refused once the broker shut down, or
\* goes to the client.
StartSeek ==
  /\ pc \in {"idle", "pending"}
  /\ cmds # <<>> /\ Head(cmds).kind = "seek"
  /\ cmds' = Tail(cmds)
  /\ epoch' = epoch + 1
  /\ pending' = Nothing
  /\ PutAll(In({"pending"}), "stale")
  /\ pc' = IF closed THEN "idle" ELSE "seeking"
  /\ handle' = [handle EXCEPT ![Head(cmds).of] = IF closed THEN "kept" ELSE "seeking"]
  /\ UNCHANGED <<out, client, reading, seeks, closed>>

\* The same once the driver left its loop, where no generation is opened.
DrainSeek ==
  /\ pc = "drain"
  /\ cmds # <<>> /\ Head(cmds).kind = "seek"
  /\ cmds' = Tail(cmds)
  /\ pc' = IF closed THEN "drain" ELSE "draining"
  /\ handle' = [handle EXCEPT ![Head(cmds).of] = IF closed THEN "kept" ELSE "seeking"]
  /\ UNCHANGED <<stream, epoch, life, client, reading, seeks, closed>>

\* The client moved the cursor; failed before it moved it on any topic; or moved
\* it on some and failed on the next, which is a move here.
FinishSeek ==
  /\ pc \in {"seeking", "draining"}
  /\ pc' = IF pc = "seeking" THEN "idle" ELSE "drain"
  /\ moved' \in {moved, moved + 1}
  /\ handle' = [h \in Handles |-> IF handle[h] = "seeking" THEN "kept" ELSE handle[h]]
  /\ UNCHANGED <<stream, cmds, epoch, life, pulled, errors, pulledAt, reading,
                 seeks, closed>>

\* Mutant: the driver closes as soon as no command waits.
CloseEarly ==
  /\ Free("drain")
  /\ pc' = "closed"
  /\ UNCHANGED <<stream, cmds, epoch, life, client, others>>

\* No sender is left: the driver closes the consumer and is gone, and with it
\* its end of the stream.
Close ==
  /\ Free("drain") /\ ~Senders
  /\ pc' = "closed"
  /\ UNCHANGED <<stream, cmds, epoch, life, client, others>>

-----------------------------------------------------------------------------
(* The subscriber, its handlers, the timers and the seek handles *)

\* The dispatch polls the stream while a handler is free: an item of an older
\* generation is skipped, a delivery goes to a handler, an error is reported.
Take ==
  /\ reading /\ out # <<>>
  /\ Cardinality(In({"held", "asked"})) < MaxHeld
  /\ out' = Tail(out)
  /\ LET item == Head(out)
     IN  IF item.n = 0 THEN UNCHANGED life
         ELSE Put(item.n, IF item.stamp = epoch THEN "held" ELSE "stale")
  /\ UNCHANGED <<pc, pending, cmds, epoch, client, others>>

\* The subscriber is dropped, with what its channel held.
DropSubscriber ==
  /\ reading
  /\ reading' = FALSE
  /\ out' = <<>>
  /\ PutAll(In({"queued"}), "dropped")
  /\ UNCHANGED <<pc, pending, cmds, epoch, client, handle, seeks, closed>>

Ask(n, kind, where) ==
  /\ cmds' = Append(cmds, [kind |-> kind, of |-> n])
  /\ Put(n, where)
  /\ UNCHANGED <<pc, stream, epoch, client, others>>

\* A handler ends: it acknowledges or negatively acknowledges its delivery and
\* awaits the answer, asks for a delayed retry, or leaves the delivery unsettled.
Settle(n) ==
  /\ life[n] = "held"
  /\ \/ Ask(n, "settle", "asked")
     \/ Ask(n, "after", "delayed")
     \/ Put(n, "dropped") /\ UNCHANGED <<pc, stream, cmds, epoch, client, others>>

\* The delay of a retry is over.
Fire(n) == life[n] = "timer" /\ Ask(n, "settle", "retried")

Seek(h) ==
  /\ handle[h] = "kept" /\ seeks < MaxSeeks
  /\ pc # "closed"
  /\ seeks' = seeks + 1
  /\ handle' = [handle EXCEPT ![h] = "asking"]
  /\ cmds' = Append(cmds, [kind |-> "seek", of |-> h])
  /\ UNCHANGED <<pc, stream, epoch, life, client, reading, closed>>

Release(h) ==
  /\ handle[h] = "kept"
  /\ handle' = [handle EXCEPT ![h] = "released"]
  /\ UNCHANGED <<pc, stream, cmds, epoch, life, client, reading, seeks, closed>>

Shutdown ==
  /\ ~closed
  /\ closed' = TRUE
  /\ UNCHANGED <<pc, stream, cmds, epoch, life, client, reading, handle, seeks>>

-----------------------------------------------------------------------------
Init ==
  /\ pc = "idle"
  /\ pending = Nothing
  /\ out = <<>>
  /\ cmds = <<>>
  /\ epoch = 0
  /\ life = [n \in Pulls |-> "none"]
  /\ pulled = 0 /\ errors = 0
  /\ reading = TRUE
  /\ handle = [h \in Handles |-> "kept"]
  /\ seeks = 0
  /\ closed = FALSE
  /\ moved = 0
  /\ pulledAt = [n \in Pulls |-> 0]

\* What the driver does of its own accord once it is scheduled.
Drive == \/ Offer \/ Forward \/ Leave \/ Serve \/ Wait \/ StartSeek \/ DrainSeek
         \/ FinishSeek \/ Close

Next ==
  \/ Drive \/ Pull \/ Fail \/ End
  \/ Take \/ DropSubscriber \/ Shutdown
  \/ \E n \in Pulls : Settle(n) \/ Fire(n)
  \/ \E h \in Handles : Seek(h) \/ Release(h)

Spec == Init /\ [][Next]_vars

\* The runtime runs the driver, the client answers a seek, the dispatch polls
\* while a handler is free, handlers end and timers fire.  Nothing makes the
\* client yield, the service drop its subscriber or release a seek handle.
Fairness ==
  /\ WF_vars(Drive)
  /\ WF_vars(Take)
  /\ \A n \in Pulls : WF_vars(Settle(n)) /\ WF_vars(Fire(n))

FairSpec == Spec /\ Fairness

\* And the service lets its seek handles go in the end.
ReleasingSpec == FairSpec /\ \A h \in Handles : WF_vars(Release(h))
=============================================================================
