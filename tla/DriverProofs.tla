---------------------------- MODULE DriverProofs ----------------------------
(***************************************************************************)
(* Theorems about the live subscription, for every number of pulls, every  *)
(* capacity, every set of seek handles and any number of handlers.         *)
(***************************************************************************)
EXTENDS DriverProps, Folding, FunctionTheorems, SequenceTheorems

-----------------------------------------------------------------------------
(* Counting places in a channel *)

\* What a channel holds after an append it held before, or it was appended.
LEMMA Appended ==
  ASSUME NEW T, NEW q \in Seq(T), NEW e \in T,
         NEW i \in 1..Len(Append(q, e))
  PROVE  \/ Append(q, e)[i] = e
         \/ i \in 1..Len(q) /\ Append(q, e)[i] = q[i]
<1>1. Len(q) \in Nat /\ Len(Append(q, e)) = Len(q) + 1
  OBVIOUS
<1>2. CASE i = Len(q) + 1
  BY <1>2
<1>3. CASE i # Len(q) + 1
  <2>1. i \in 1..Len(q)
    BY <1>1, <1>3
  <2> QED BY <2>1
<1> QED
  BY <1>2, <1>3

\* The places of a channel are the hits in a sequence, and Folding says the rest.
LEMMA PlacesAreHits == \A q, S : Places(q, S) = Hits(q, S)
BY DEF Places, Hits

LEMMA PlacesFinite ==
  ASSUME NEW T, NEW q \in Seq(T), NEW S
  PROVE  Places(q, S) \in Nat
BY HitsFinite, PlacesAreHits

LEMMA PlacesEmpty ==
  ASSUME NEW S
  PROVE  Places(<<>>, S) = 0
BY HitsEmpty, PlacesAreHits

LEMMA PlacesAppend ==
  ASSUME NEW T, NEW q \in Seq(T), NEW S, NEW e \in T
  PROVE  Places(Append(q, e), S) = Places(q, S) + IF e \in S THEN 1 ELSE 0
BY HitsAppend, PlacesAreHits

LEMMA PlacesTail ==
  ASSUME NEW T, NEW q \in Seq(T), q # <<>>, NEW S
  PROVE  Places(q, S) = Places(Tail(q), S) + IF Head(q) \in S THEN 1 ELSE 0
BY HitsTail, PlacesAreHits

-----------------------------------------------------------------------------
(* The inductive invariant *)

\* Nothing became of a delivery that was not pulled yet.
Unpulled == \A n \in Pulls : n > pulled => life[n] = "none"

\* The driver is gone only when nobody is left who could send it a command.
Gone == pc = "closed" => cmds = <<>> /\ ~Senders

\* What carries the present generation was pulled since the last move, until
\* the driver leaves its loop; while a move is under way nothing carries it.
Current ==
  /\ \A i \in 1..Len(out) : out[i].stamp <= epoch
  /\ pc \notin {"drain", "draining", "closed"} =>
       \A i \in 1..Len(out) :
         out[i].n # 0 /\ out[i].stamp = epoch
           => pc # "seeking" /\ pulledAt[out[i].n] = moved
  /\ pc = "pending" =>
       /\ pending.n # 0 /\ pending.stamp = epoch
       /\ pulledAt[pending.n] = moved

IInv == TypeOK /\ Unpulled /\ NothingMislaid /\ Gone /\ Current

\* Each action keeps every variable in its set.
LEMMA TypeStep == TypeOK /\ [Next]_vars => TypeOK'
<1> SUFFICES ASSUME TypeOK, [Next]_vars PROVE TypeOK'
  OBVIOUS
<1> USE DriverAssumption DEF TypeOK, stream, client, others
<1>1. CASE UNCHANGED vars
  BY <1>1 DEF vars
<1>2. CASE Pull
  BY <1>2 DEF Pull, Free, Put, Item, Pulls, Lives
<1>3. CASE Offer
  <2>1. out' \in Seq(Item) /\ Len(out') <= Capacity
    BY <1>3 DEF Offer, Free
  <2>2. life' \in [Pulls -> Lives]
    BY <1>3 DEF Offer, Put, Lives
  <2>3. pending' \in Item
    BY <1>3 DEF Offer, Nothing, Item
  <2> QED BY <1>3, <2>1, <2>2, <2>3 DEF Offer
<1>4. CASE Fail
  BY <1>4 DEF Fail, Free
<1>5. CASE End
  BY <1>5 DEF End, Free
<1>6. CASE Forward
  BY <1>6 DEF Forward, Item
<1>7. CASE Leave
  BY <1>7 DEF Leave, Free, PutAll, Item, Nothing, Lives
<1>8. CASE Serve
  <2>1. cmds' \in Seq(Command)
    BY <1>8, HeadTailProperties DEF Serve
  <2>2. life' \in [Pulls -> Lives]
    BY <1>8 DEF Serve, Put, Lives
  <2> QED BY <1>8, <2>1, <2>2 DEF Serve
<1>9. CASE Wait
  <2>1. cmds' \in Seq(Command)
    BY <1>9, HeadTailProperties DEF Wait
  <2>2. life' \in [Pulls -> Lives]
    BY <1>9 DEF Wait, Put, Lives
  <2> QED BY <1>9, <2>1, <2>2 DEF Wait
<1>10. CASE StartSeek
  <2>1. cmds' \in Seq(Command)
    BY <1>10, HeadTailProperties DEF StartSeek
  <2>2. life' \in [Pulls -> Lives] /\ pending' \in Item
    BY <1>10 DEF StartSeek, PutAll, Lives, Nothing, Item
  <2>3. handle' \in [Handles -> {"kept", "asking", "seeking", "released"}]
    BY <1>10 DEF StartSeek
  <2> QED BY <1>10, <2>1, <2>2, <2>3 DEF StartSeek
<1>11. CASE DrainSeek
  <2>1. cmds' \in Seq(Command)
    BY <1>11, HeadTailProperties DEF DrainSeek
  <2>2. handle' \in [Handles -> {"kept", "asking", "seeking", "released"}]
    BY <1>11 DEF DrainSeek
  <2> QED BY <1>11, <2>1, <2>2 DEF DrainSeek
<1>12. CASE FinishSeek
  BY <1>12 DEF FinishSeek
<1>13. CASE Close
  BY <1>13 DEF Close, Free
<1>14. CASE Take
  <2>1. out' \in Seq(Item) /\ Len(out') <= Capacity
    BY <1>14, HeadTailProperties DEF Take
  <2>2. life' \in [Pulls -> Lives]
    BY <1>14 DEF Take, Put, Lives
  <2> QED BY <1>14, <2>1, <2>2 DEF Take
<1>15. CASE DropSubscriber
  <2>1. out' \in Seq(Item) /\ Len(out') <= Capacity
    BY <1>15 DEF DropSubscriber
  <2>2. life' \in [Pulls -> Lives]
    BY <1>15 DEF DropSubscriber, PutAll, Lives
  <2> QED BY <1>15, <2>1, <2>2 DEF DropSubscriber
<1>16. CASE Shutdown
  BY <1>16 DEF Shutdown
<1>17. ASSUME NEW n \in Pulls, Settle(n) PROVE TypeOK'
  <2>1. CASE Put(n, "dropped") /\ UNCHANGED <<pc, stream, cmds, epoch, client, others>>
    BY <2>1 DEF Put, Lives
  <2>2. ASSUME NEW kind \in {"settle", "after"}, NEW where \in Lives, Ask(n, kind, where)
        PROVE  TypeOK'
    <3>1. [kind |-> kind, of |-> n] \in Command
      BY DEF Command
    <3>2. cmds' \in Seq(Command)
      BY <2>2, <3>1 DEF Ask
    <3> QED BY <2>2, <3>2 DEF Ask, Put
  <2> QED BY <1>17, <2>1, <2>2 DEF Settle, Lives
<1>18. ASSUME NEW n \in Pulls, Fire(n) PROVE TypeOK'
  BY <1>18 DEF Fire, Ask, Put, Command, Lives
<1>19. ASSUME NEW h \in Handles, Seek(h) PROVE TypeOK'
  BY <1>19 DEF Seek, Command
<1>20. ASSUME NEW h \in Handles, Release(h) PROVE TypeOK'
  BY <1>20 DEF Release
<1> QED
  BY <1>1, <1>2, <1>3, <1>4, <1>5, <1>6, <1>7, <1>8, <1>9, <1>10, <1>11, <1>12,
     <1>13, <1>14, <1>15, <1>16, <1>17, <1>18, <1>19, <1>20 DEF Next, Drive

\* Where delivery n is, as Unpulled and NothingMislaid say of every delivery.
Placed(n) ==
  /\ n > pulled => life[n] = "none"
  /\ life[n] = "pending" <=> pc = "pending" /\ pending.n = n
  /\ Places(out, ItemsOf(n)) = IF life[n] = "queued" THEN 1 ELSE 0
  /\ Places(cmds, CommandsOf(n))
       = IF life[n] \in {"asked", "delayed", "retried"} THEN 1 ELSE 0

\* An item put in or taken off the stream's channel is one place of its own
\* delivery, and a delivery taken off it was queued.
LEMMA OutPlaces ==
  ASSUME TypeOK, NEW n \in Pulls
  PROVE  /\ \A e \in Item : Places(Append(out, e), ItemsOf(n))
              = Places(out, ItemsOf(n)) + IF e.n = n THEN 1 ELSE 0
         /\ out # <<>> => Places(out, ItemsOf(n))
              = Places(Tail(out), ItemsOf(n)) + IF Head(out).n = n THEN 1 ELSE 0
         /\ out # <<>> /\ Head(out).n = n => Places(out, ItemsOf(n)) # 0
         /\ out # <<>> => Head(out) \in Item /\ Places(Tail(out), ItemsOf(n)) \in Nat
         /\ Places(out, ItemsOf(n)) \in Nat
<1>1. \A e \in Item : e \in ItemsOf(n) <=> e.n = n
  BY DEF ItemsOf
<1>2. out \in Seq(Item)
  BY DEF TypeOK
<1>3. out # <<>> => Head(out) \in Item /\ Tail(out) \in Seq(Item)
  BY <1>2, HeadTailProperties
<1>4. \A e \in Item : Places(Append(out, e), ItemsOf(n))
        = Places(out, ItemsOf(n)) + IF e.n = n THEN 1 ELSE 0
  BY <1>1, <1>2, PlacesAppend
<1>5. out # <<>> => Places(out, ItemsOf(n))
        = Places(Tail(out), ItemsOf(n)) + IF Head(out).n = n THEN 1 ELSE 0
  BY <1>1, <1>2, <1>3, PlacesTail
<1>6. Places(out, ItemsOf(n)) \in Nat /\ (out # <<>> => Places(Tail(out), ItemsOf(n)) \in Nat)
  BY <1>2, <1>3, PlacesFinite
<1> QED
  BY <1>3, <1>4, <1>5, <1>6

\* The same of the command channel.
LEMMA CommandPlaces ==
  ASSUME TypeOK, NEW n \in Pulls
  PROVE  /\ \A e \in Command : Places(Append(cmds, e), CommandsOf(n))
              = Places(cmds, CommandsOf(n)) + IF e.kind # "seek" /\ e.of = n THEN 1 ELSE 0
         /\ cmds # <<>> => Places(cmds, CommandsOf(n))
              = Places(Tail(cmds), CommandsOf(n))
                  + IF Head(cmds).kind # "seek" /\ Head(cmds).of = n THEN 1 ELSE 0
         /\ cmds # <<>> => Head(cmds) \in Command /\ Places(Tail(cmds), CommandsOf(n)) \in Nat
         /\ Places(cmds, CommandsOf(n)) \in Nat
<1>1. \A e \in Command : e \in CommandsOf(n) <=> e.kind # "seek" /\ e.of = n
  BY DEF CommandsOf
<1>2. cmds \in Seq(Command)
  BY DEF TypeOK
<1>3. cmds # <<>> => Head(cmds) \in Command /\ Tail(cmds) \in Seq(Command)
  BY <1>2, HeadTailProperties
<1>4. \A e \in Command : Places(Append(cmds, e), CommandsOf(n))
        = Places(cmds, CommandsOf(n)) + IF e.kind # "seek" /\ e.of = n THEN 1 ELSE 0
  BY <1>1, <1>2, PlacesAppend
<1>5. cmds # <<>> => Places(cmds, CommandsOf(n))
        = Places(Tail(cmds), CommandsOf(n))
            + IF Head(cmds).kind # "seek" /\ Head(cmds).of = n THEN 1 ELSE 0
  BY <1>1, <1>2, <1>3, PlacesTail
<1>6. Places(cmds, CommandsOf(n)) \in Nat
      /\ (cmds # <<>> => Places(Tail(cmds), CommandsOf(n)) \in Nat)
  BY <1>2, <1>3, PlacesFinite
<1> QED
  BY <1>3, <1>4, <1>5, <1>6

\* No action mislays a delivery or sends a command for it twice.
LEMMA PlacedStep ==
  ASSUME TypeOK, [Next]_vars, NEW n \in Pulls, Placed(n)
  PROVE  Placed(n)'
<1> USE DEF Placed
<1> DEFINE Q == Places(out, ItemsOf(n))
           C == Places(cmds, CommandsOf(n))
<1>q. Q \in Nat /\ C \in Nat /\ n \in Nat /\ pulled \in Nat /\ life \in [Pulls -> Lives]
  BY OutPlaces, CommandPlaces, DriverAssumption DEF TypeOK, Pulls
<1>1. CASE UNCHANGED vars
  BY <1>1 DEF vars
<1>2. CASE Pull
  BY <1>2, <1>q DEF Pull, Free, Put, others
<1>3. CASE Offer
  <2>1. pending \in Item /\ out' = Append(out, pending) /\ UNCHANGED <<cmds, pulled>>
    BY <1>3 DEF Offer, TypeOK, client
  <2>2. Places(out', ItemsOf(n)) = Q + IF pending.n = n THEN 1 ELSE 0
    BY <2>1, OutPlaces
  <2>3. life' = [life EXCEPT ![pending.n] = "queued"] /\ pc = "pending" /\ pc' = "idle"
    BY <1>3 DEF Offer, Free, Put
  <2> QED BY <1>q, <2>1, <2>2, <2>3
<1>4. CASE Fail
  BY <1>4 DEF Fail, Free, stream
<1>5. CASE End
  BY <1>5 DEF End, Free, stream, client
<1>6. CASE Forward
  <2>1. /\ out' = Append(out, [stamp |-> epoch, n |-> 0])
        /\ [stamp |-> epoch, n |-> 0] \in Item
        /\ UNCHANGED <<cmds, pulled, life, pending>>
        /\ pc \in {"errored", "ended"} /\ pc' \in {"idle", "drain"}
    BY <1>6, DriverAssumption DEF Forward, TypeOK, client, Item
  <2>2. Places(out', ItemsOf(n)) = Q
    BY <2>1, <1>q, OutPlaces DEF Pulls
  <2> QED BY <1>q, <2>1, <2>2
<1>7. CASE Leave
  BY <1>7 DEF Leave, Free, PutAll, In, client
<1>8. CASE Serve \/ Wait
  <2>1. /\ cmds # <<>> /\ Head(cmds).kind # "seek" /\ cmds' = Tail(cmds)
        /\ \E where \in {"done", "failed", "timer"} :
             life' = [life EXCEPT ![Head(cmds).of] = where]
        /\ UNCHANGED <<pc, pending, out, pulled>>
    BY <1>8 DEF Serve, Wait, Put, stream, client
  <2>2. C = Places(cmds', CommandsOf(n)) + IF Head(cmds).of = n THEN 1 ELSE 0
    BY <2>1, CommandPlaces
  <2>3. Places(cmds', CommandsOf(n)) \in Nat
    BY <2>1, CommandPlaces
  <2> QED BY <1>q, <2>1, <2>2, <2>3
<1>9. CASE StartSeek \/ DrainSeek
  <2>1. /\ cmds # <<>> /\ Head(cmds).kind = "seek" /\ cmds' = Tail(cmds)
        /\ UNCHANGED <<out, pulled>>
    BY <1>9 DEF StartSeek, DrainSeek, stream, client
  <2>2. Places(cmds', CommandsOf(n)) = C
    BY <1>q, <2>1, CommandPlaces
  <2>3. CASE DrainSeek
    BY <1>q, <2>1, <2>2, <2>3 DEF DrainSeek, stream
  <2>4. CASE StartSeek
    BY <1>q, <2>1, <2>2, <2>4 DEF StartSeek, PutAll, In
  <2> QED BY <1>9, <2>3, <2>4
<1>10. CASE FinishSeek
  BY <1>10 DEF FinishSeek, stream
<1>11. CASE Close
  BY <1>11 DEF Close, Free, stream, client
<1>12. CASE Take
  <2>1. /\ out # <<>> /\ out' = Tail(out) /\ UNCHANGED <<pc, pending, cmds, pulled>>
        /\ \/ Head(out).n = 0 /\ UNCHANGED life
           \/ /\ Head(out).n # 0
              /\ \E where \in {"held", "stale"} :
                   life' = [life EXCEPT ![Head(out).n] = where]
    BY <1>12 DEF Take, Put, client
  <2>2. Q = Places(out', ItemsOf(n)) + IF Head(out).n = n THEN 1 ELSE 0
    BY <2>1, OutPlaces
  <2>3. Places(out', ItemsOf(n)) \in Nat /\ n # 0
    BY <2>1, OutPlaces DEF Pulls
  <2> QED BY <1>q, <2>1, <2>2, <2>3
<1>13. CASE DropSubscriber
  <2>1. Places(out', ItemsOf(n)) = 0
    BY <1>13, PlacesEmpty DEF DropSubscriber
  <2> QED BY <1>13, <1>q, <2>1 DEF DropSubscriber, PutAll, In, client
<1>14. CASE Shutdown
  BY <1>14 DEF Shutdown, stream, client
<1>15. ASSUME NEW m \in Pulls, NEW kind \in {"settle", "after"},
              NEW where \in {"asked", "delayed", "retried"},
              life[m] \in {"held", "timer"}, Ask(m, kind, where)
       PROVE  Placed(n)'
  <2>1. [kind |-> kind, of |-> m] \in Command
    BY DEF Command
  <2>2. Places(cmds', CommandsOf(n)) = C + IF m = n THEN 1 ELSE 0
    BY <1>15, <2>1, CommandPlaces DEF Ask
  <2>3. life' = [life EXCEPT ![m] = where] /\ UNCHANGED <<pc, pending, out, pulled>>
    BY <1>15 DEF Ask, Put, stream, client
  <2> QED BY <1>15, <1>q, <2>2, <2>3
<1>16. ASSUME NEW m \in Pulls, Settle(m) PROVE Placed(n)'
  <2>1. CASE Put(m, "dropped") /\ UNCHANGED <<pc, stream, cmds, epoch, client, others>>
    BY <1>16, <1>q, <2>1 DEF Settle, Put, stream, client
  <2> QED BY <1>15, <1>16, <2>1 DEF Settle
<1>17. ASSUME NEW m \in Pulls, Fire(m) PROVE Placed(n)'
  BY <1>15, <1>17 DEF Fire
<1>18. ASSUME NEW h \in Handles, Seek(h) PROVE Placed(n)'
  <2>1. [kind |-> "seek", of |-> h] \in Command
    BY DEF Command
  <2>2. Places(cmds', CommandsOf(n)) = C
    BY <1>18, <1>q, <2>1, CommandPlaces DEF Seek
  <2> QED BY <1>18, <1>q, <2>2 DEF Seek, stream, client
<1>19. ASSUME NEW h \in Handles, Release(h) PROVE Placed(n)'
  BY <1>19 DEF Release, stream, client
<1> QED
  BY <1>1, <1>2, <1>3, <1>4, <1>5, <1>6, <1>7, <1>8, <1>9, <1>10, <1>11, <1>12,
     <1>13, <1>14, <1>16, <1>17, <1>18, <1>19 DEF Next, Drive

\* Once the driver is gone nobody comes to hold a sender again.
LEMMA GoneStep ==
  ASSUME TypeOK, Gone, [Next]_vars
  PROVE  Gone'
<1> USE DEF Gone
<1>1. CASE Close
  BY <1>1 DEF Close, Free, Senders, Looping, In, stream, client, others
<1>2. CASE pc' # "closed"
  BY <1>2
<1>3. CASE pc = "closed" /\ pc' = "closed"
  <2>1. /\ cmds = <<>> /\ ~reading
        /\ \A n \in Pulls : life[n] \notin {"pending", "queued", "held", "asked",
                                           "delayed", "timer", "retried"}
        /\ \A h \in Handles : handle[h] = "released"
    BY <1>3 DEF Senders, In
  <2>2. UNCHANGED <<cmds, reading, life, handle>>
    <3>1. CASE UNCHANGED vars
      BY <3>1 DEF vars
    <3>2. CASE Shutdown
      BY <3>2 DEF Shutdown
    <3>3. ASSUME NEW n \in Pulls, Settle(n) \/ Fire(n) PROVE FALSE
      BY <2>1, <3>3 DEF Settle, Fire
    <3>4. ASSUME NEW h \in Handles, Seek(h) \/ Release(h) PROVE FALSE
      BY <2>1, <3>4 DEF Seek, Release
    <3>5. ~Take /\ ~DropSubscriber
      BY <2>1 DEF Take, DropSubscriber
    <3>6. ~Pull /\ ~Fail /\ ~End
      BY <1>3 DEF Pull, Fail, End, Free
    <3>7. ~Drive
      BY <1>3 DEF Drive, Offer, Forward, Leave, Serve, Wait, StartSeek, DrainSeek,
                  FinishSeek, Close, Free
    <3> QED BY <3>1, <3>2, <3>3, <3>4, <3>5, <3>6, <3>7 DEF Next
  <2> QED BY <1>3, <2>2 DEF Senders, Looping, In
<1>4. ASSUME pc # "closed", pc' = "closed" PROVE Close
  <2>1. ~(UNCHANGED vars)
    BY <1>4 DEF vars
  <2>2. ~Pull /\ ~Fail /\ ~End /\ ~Take /\ ~DropSubscriber /\ ~Shutdown
    BY <1>4 DEF Pull, Fail, End, Take, DropSubscriber, Shutdown
  <2>3. ASSUME NEW n \in Pulls PROVE ~Settle(n) /\ ~Fire(n)
    BY <1>4 DEF Settle, Fire, Ask
  <2>4. ASSUME NEW h \in Handles PROVE ~Seek(h) /\ ~Release(h)
    BY <1>4 DEF Seek, Release
  <2>5. ~Offer /\ ~Forward /\ ~Leave /\ ~Serve /\ ~Wait /\ ~StartSeek /\ ~DrainSeek /\ ~FinishSeek
    BY <1>4 DEF Offer, Forward, Leave, Serve, Wait, StartSeek, DrainSeek, FinishSeek
  <2> QED BY <2>1, <2>2, <2>3, <2>4, <2>5 DEF Next, Drive
<1> QED
  BY <1>1, <1>2, <1>3, <1>4

\* A generation is opened with every move, before it, and what is put in the
\* stream carries the present one.
LEMMA CurrentStep ==
  ASSUME TypeOK, Gone, Current, [Next]_vars
  PROVE  Current'
<1> USE DEF Current, TypeOK
<1>1. CASE UNCHANGED vars
  BY <1>1 DEF vars
<1>2. CASE Pull
  <2> DEFINE p == pulled + 1
  <2>1. /\ p \in Pulls /\ p # 0 /\ pc' = "pending"
        /\ pending' = [stamp |-> epoch, n |-> p]
        /\ pulledAt' = [pulledAt EXCEPT ![p] = moved]
        /\ pc = "idle" /\ UNCHANGED <<out, epoch, moved>>
    BY <1>2, DriverAssumption DEF Pull, Free, Pulls
  <2> HIDE DEF p
  <2>2. \A n \in 1..MaxPulls : pulledAt'[n] = IF n = p THEN moved ELSE pulledAt[n]
    BY <2>1 DEF Pulls
  <2>3. \A i \in 1..Len(out) : out[i].n \in 0..MaxPulls
    <3>1. \A i \in 1..Len(out) : out[i] \in Item
      OBVIOUS
    <3> QED BY <3>1 DEF Item
  <2>4. \A i \in 1..Len(out) : out[i].n # 0 => out[i].n \in 1..MaxPulls
    BY <2>3, DriverAssumption
  <2>5. pulledAt'[p] = moved
    BY <2>1, <2>2 DEF Pulls
  <2>6. \A i \in 1..Len(out') :
          out'[i].n # 0 /\ out'[i].stamp = epoch' => pulledAt'[out'[i].n] = moved'
    BY <2>1, <2>2, <2>4
  <2> QED BY <2>1, <2>5, <2>6
<1>3. CASE Offer
  <2>1. /\ out' = Append(out, pending) /\ pc = "pending" /\ pc' = "idle"
        /\ UNCHANGED <<epoch, moved, pulledAt>>
    BY <1>3 DEF Offer, Free, client
  <2>2. \A i \in 1..Len(out') : out'[i] = pending \/ (i \in 1..Len(out) /\ out'[i] = out[i])
    BY <2>1, Appended
  <2> QED BY <2>1, <2>2
<1>4. CASE Forward
  <2>1. /\ out' = Append(out, [stamp |-> epoch, n |-> 0])
        /\ [stamp |-> epoch, n |-> 0] \in Item
        /\ pc \in {"errored", "ended"} /\ pc' \in {"idle", "drain"}
        /\ UNCHANGED <<epoch, moved, pulledAt>>
    BY <1>4, DriverAssumption DEF Forward, client, Item
  <2>2. \A i \in 1..Len(out') : out'[i] = [stamp |-> epoch, n |-> 0]
                              \/ (i \in 1..Len(out) /\ out'[i] = out[i])
    BY <2>1, Appended
  <2> QED BY <2>1, <2>2
<1>5. CASE Fail \/ End
  BY <1>5 DEF Fail, End, Free, stream, client
<1>6. CASE Leave
  BY <1>6 DEF Leave, client
<1>7. CASE Serve \/ Wait
  BY <1>7 DEF Serve, Wait, stream, client
<1>8. CASE StartSeek
  <2>1. /\ UNCHANGED out /\ epoch' = epoch + 1 /\ epoch \in Nat
        /\ pc' \in {"idle", "seeking"}
    BY <1>8 DEF StartSeek
  <2>2. \A i \in 1..Len(out) : out[i].stamp \in Nat /\ out[i].stamp <= epoch
    <3>1. \A i \in 1..Len(out) : out[i] \in Item
      OBVIOUS
    <3> QED BY <3>1 DEF Item
  <2>3. \A i \in 1..Len(out') : out'[i].stamp <= epoch' /\ out'[i].stamp # epoch'
    BY <2>1, <2>2
  <2> QED BY <2>1, <2>3
<1>9. CASE DrainSeek
  BY <1>9 DEF DrainSeek, stream, client
<1>10. CASE FinishSeek
  BY <1>10 DEF FinishSeek, stream
<1>11. CASE Close
  BY <1>11 DEF Close, stream, client
<1>12. CASE Take
  <2>1. /\ out # <<>> /\ out' = Tail(out)
        /\ UNCHANGED <<pc, pending, epoch, moved, pulledAt>>
    BY <1>12 DEF Take, client
  <2>2. \A i \in 1..Len(out') : i + 1 \in 1..Len(out) /\ out'[i] = out[i + 1]
    BY <2>1, HeadTailProperties
  <2> QED BY <2>1, <2>2
<1>13. CASE DropSubscriber
  BY <1>13 DEF DropSubscriber, client
<1>14. CASE Shutdown
  BY <1>14 DEF Shutdown, stream, client
<1>15. ASSUME NEW n \in Pulls, Settle(n) \/ Fire(n) PROVE Current'
  BY <1>15 DEF Settle, Fire, Ask, stream, client
<1>16. ASSUME NEW h \in Handles, Seek(h) \/ Release(h) PROVE Current'
  BY <1>16 DEF Seek, Release, stream, client
<1> QED
  BY <1>1, <1>2, <1>3, <1>4, <1>5, <1>6, <1>7, <1>8, <1>9, <1>10, <1>11, <1>12,
     <1>13, <1>14, <1>15, <1>16 DEF Next, Drive

-----------------------------------------------------------------------------
(* What a seek discards *)

\* Until the driver leaves its loop each move of the cursor has a generation of its
\* own, opened before it; so a delivery was yielded after at most as many moves as
\* the generation it carries, and one that was discarded after fewer than there are.
Dated ==
  /\ pc \notin {"drain", "draining", "closed"} => moved <= epoch
  /\ pc = "seeking" => moved < epoch
  /\ \A i \in 1..Len(out) : out[i].n # 0 =>
       out[i].n <= pulled /\ pulledAt[out[i].n] <= out[i].stamp
  /\ pc = "pending" => pending.n <= pulled
  /\ \A n \in Pulls : life[n] = "stale" => n <= pulled /\ pulledAt[n] < epoch

\* A generation that is opened outdates what it discards, whether the client then
\* moves the cursor or refuses.
LEMMA DatedStep ==
  ASSUME TypeOK, Current, NothingMislaid, Dated, [Next]_vars
  PROVE  Dated'
<1> USE DEF Dated
<1>t. /\ epoch \in Nat /\ moved \in Nat /\ pulled \in Nat /\ out \in Seq(Item)
      /\ life \in [Pulls -> Lives] /\ pulledAt \in [Pulls -> Nat] /\ pending \in Item
      /\ cmds \in Seq(Command)
  BY DriverAssumption DEF TypeOK
<1>n. \A i \in 1..Len(out) : /\ out[i].n # 0 => out[i].n \in Pulls
                             /\ out[i].stamp \in Nat /\ out[i].stamp <= epoch
  <2>1. \A i \in 1..Len(out) : out[i] \in Item
    BY <1>t
  <2> QED BY <2>1, DriverAssumption DEF Item, Pulls, Current
<1>1. CASE UNCHANGED vars
  BY <1>1 DEF vars
<1>2. CASE Pull
  <2> DEFINE p == pulled + 1
  <2>1. /\ p \in Pulls /\ pc = "idle" /\ pc' = "pending" /\ pulled' = p
        /\ pending' = [stamp |-> epoch, n |-> p]
        /\ pulledAt' = [pulledAt EXCEPT ![p] = moved]
        /\ life' = [life EXCEPT ![p] = "pending"]
        /\ UNCHANGED <<out, epoch, moved>>
    <3>1. pulled' = p /\ pulled \in Nat /\ pulled < MaxPulls
      BY <1>2, <1>t DEF Pull
    <3>2. p \in Pulls
      BY <3>1, DriverAssumption DEF Pulls
    <3> HIDE DEF p
    <3> QED BY <1>2, <3>1, <3>2 DEF Pull, Free, Put
  <2>2. \A n \in Pulls : n <= pulled => n # p /\ n <= p
    BY <1>t DEF Pulls
  <2> HIDE DEF p
  <2>3. \A n \in Pulls : n # p => pulledAt'[n] = pulledAt[n] /\ life'[n] = life[n]
    BY <2>1, <1>t
  <2>4. life'[p] # "stale" /\ pending'.n = p
    BY <2>1, <1>t
  <2>5. p <= p
    BY <2>1 DEF Pulls
  <2> QED BY <2>1, <2>2, <2>3, <2>4, <2>5, <1>n
<1>3. CASE Offer
  <2>1. /\ out' = Append(out, pending) /\ pc = "pending" /\ pc' = "idle"
        /\ life' = [life EXCEPT ![pending.n] = "queued"]
        /\ UNCHANGED <<epoch, moved, pulledAt, pulled>>
    BY <1>3 DEF Offer, Free, client, Put
  <2>2. \A i \in 1..Len(out') : out'[i] = pending \/ (i \in 1..Len(out) /\ out'[i] = out[i])
    BY <2>1, <1>t, Appended
  <2>3. pending.n \in Pulls /\ pending.stamp = epoch /\ pulledAt[pending.n] = moved
    BY <2>1, <1>t, DriverAssumption DEF Current, Item, Pulls
  <2>4. \A n \in Pulls : life'[n] = "stale" => life[n] = "stale"
    BY <2>1, <1>t
  <2> QED BY <2>1, <2>2, <2>3, <2>4
<1>4. CASE Forward
  <2>1. /\ out' = Append(out, [stamp |-> epoch, n |-> 0])
        /\ [stamp |-> epoch, n |-> 0] \in Item
        /\ pc \in {"errored", "ended"} /\ pc' \in {"idle", "drain"}
        /\ UNCHANGED <<epoch, moved, pulledAt, pulled, life>>
    BY <1>4, <1>t, DriverAssumption DEF Forward, client, Item
  <2>2. \A i \in 1..Len(out') : out'[i] = [stamp |-> epoch, n |-> 0]
                              \/ (i \in 1..Len(out) /\ out'[i] = out[i])
    BY <2>1, <1>t, Appended
  <2> QED BY <2>1, <2>2
<1>5. CASE Fail \/ End
  BY <1>5 DEF Fail, End, Free, stream, client
<1>6. CASE Leave
  <2>1. \A n \in Pulls : life'[n] = "stale" => life[n] = "stale"
    BY <1>6, <1>t DEF Leave, PutAll
  <2> QED BY <1>6, <2>1 DEF Leave, client
<1>7. CASE Serve \/ Wait
  <2>1. \A n \in Pulls : life'[n] = "stale" => life[n] = "stale"
    BY <1>7, <1>t DEF Serve, Wait, Put
  <2> QED BY <1>7, <2>1 DEF Serve, Wait, stream, client
<1>8. CASE StartSeek
  <2>1. /\ pc \in {"idle", "pending"} /\ pc' \in {"idle", "seeking"}
        /\ epoch' = epoch + 1
        /\ UNCHANGED <<out, moved, pulledAt, pulled>>
    BY <1>8 DEF StartSeek, client
  <2>2. \A n \in Pulls : life'[n] = "stale" => life[n] = "stale" \/ life[n] = "pending"
    BY <1>8, <1>t DEF StartSeek, PutAll, In
  <2>3. \A n \in Pulls : life[n] = "pending" => n <= pulled /\ pulledAt[n] = moved
    BY DEF NothingMislaid, Current
  <2>4. \A n \in Pulls : pulledAt[n] \in Nat
    BY <1>t
  <2> QED BY <2>1, <2>2, <2>3, <2>4, <1>t
<1>9. CASE DrainSeek
  BY <1>9 DEF DrainSeek, stream, client
<1>10. CASE FinishSeek
  <2>1. /\ \/ pc = "seeking" /\ pc' = "idle"
           \/ pc = "draining" /\ pc' = "drain"
        /\ moved' \in {moved, moved + 1}
        /\ UNCHANGED <<out, epoch, pulledAt, pulled, life>>
    BY <1>10 DEF FinishSeek, stream
  <2> QED BY <2>1, <1>t
<1>11. CASE Close
  BY <1>11 DEF Close, stream, client
<1>12. CASE Take
  <2>1. /\ out # <<>> /\ out' = Tail(out)
        /\ UNCHANGED <<pc, pending, epoch, moved, pulledAt, pulled>>
    BY <1>12 DEF Take, client
  <2>2. \A i \in 1..Len(out') : i + 1 \in 1..Len(out) /\ out'[i] = out[i + 1]
    BY <2>1, <1>t, HeadTailProperties
  <2>3. 1 \in 1..Len(out) /\ out[1] = Head(out)
    BY <2>1, <1>t
  <2>4. \A n \in Pulls : life'[n] = "stale" =>
          life[n] = "stale" \/ (n # 0 /\ out[1].n = n /\ out[1].stamp # epoch)
    <3>1. CASE Head(out).n = 0
      BY <1>12, <3>1 DEF Take
    <3>2. CASE Head(out).n # 0
      BY <1>12, <1>t, <2>3, <3>2 DEF Take, Put
    <3> QED BY <3>1, <3>2
  <2>5. out[1].n # 0 => out[1].n <= pulled /\ pulledAt[out[1].n] \in Nat
                        /\ pulledAt[out[1].n] <= out[1].stamp
    BY <2>3, <1>n, <1>t
  <2>6. \A n \in Pulls : life'[n] = "stale" => n <= pulled /\ pulledAt[n] < epoch
    BY <2>3, <2>4, <2>5, <1>n, <1>t
  <2> QED BY <2>1, <2>2, <2>6
<1>13. CASE DropSubscriber
  <2>1. \A n \in Pulls : life'[n] = "stale" => life[n] = "stale"
    BY <1>13, <1>t DEF DropSubscriber, PutAll
  <2> QED BY <1>13, <2>1 DEF DropSubscriber, client
<1>14. CASE Shutdown
  BY <1>14 DEF Shutdown, stream, client
<1>15. ASSUME NEW m \in Pulls, Settle(m) \/ Fire(m) PROVE Dated'
  <2>1. \A n \in Pulls : life'[n] = "stale" => life[n] = "stale"
    BY <1>15, <1>t DEF Settle, Fire, Ask, Put
  <2> QED BY <1>15, <2>1 DEF Settle, Fire, Ask, stream, client
<1>16. ASSUME NEW h \in Handles, Seek(h) \/ Release(h) PROVE Dated'
  BY <1>16 DEF Seek, Release, stream, client
<1> QED
  BY <1>1, <1>2, <1>3, <1>4, <1>5, <1>6, <1>7, <1>8, <1>9, <1>10, <1>11, <1>12,
     <1>13, <1>14, <1>15, <1>16 DEF Next, Drive

-----------------------------------------------------------------------------
(* Theorems *)

\* The inductive invariant holds in every reachable state.
THEOREM Invariance == Spec => []IInv
<1>1. Init => IInv
  <2> SUFFICES ASSUME Init PROVE IInv
    OBVIOUS
  <2>1. TypeOK
    <3>1. out \in Seq(Item) /\ Len(out) <= Capacity /\ cmds \in Seq(Command)
      BY DriverAssumption DEF Init
    <3>2. pending \in Item /\ life \in [Pulls -> Lives]
      BY DriverAssumption DEF Init, Nothing, Item, Lives
    <3>3. /\ pulled \in 0..MaxPulls /\ errors \in 0..MaxErrors /\ seeks \in 0..MaxSeeks
          /\ epoch \in Nat /\ moved \in Nat
      BY DriverAssumption DEF Init
    <3>4. /\ pulledAt \in [Pulls -> Nat] /\ reading \in BOOLEAN /\ closed \in BOOLEAN
          /\ handle \in [Handles -> {"kept", "asking", "seeking", "released"}]
          /\ pc = "idle"
      BY DEF Init
    <3> QED BY <3>1, <3>2, <3>3, <3>4 DEF TypeOK
  <2>2. Unpulled /\ Gone /\ Current
    BY DEF Init, Unpulled, Gone, Current
  <2>3. NothingMislaid
    BY PlacesEmpty DEF Init, NothingMislaid
  <2> QED BY <2>1, <2>2, <2>3 DEF IInv
<1>2. IInv /\ [Next]_vars => IInv'
  <2> SUFFICES ASSUME IInv, [Next]_vars PROVE IInv'
    OBVIOUS
  <2>1. \A n \in Pulls : Placed(n)
    BY DEF IInv, Unpulled, NothingMislaid, Placed
  <2>2. \A n \in Pulls : Placed(n)'
    BY <2>1, PlacedStep DEF IInv
  <2>3. Unpulled' /\ NothingMislaid'
    BY <2>2 DEF Unpulled, NothingMislaid, Placed
  <2> QED BY <2>3, TypeStep, GoneStep, CurrentStep DEF IInv
<1> QED
  BY <1>1, <1>2, PTL DEF Spec

\* Every variable of the driver and its channels keeps its type.
THEOREM TypeCorrect == Spec => []TypeOK
<1>1. IInv => TypeOK
  BY DEF IInv
<1> QED
  BY <1>1, Invariance, PTL

\* No served command, seek, error or drop loses a delivery, queues it twice or
\* has it settled twice, whatever the capacity of the channel.
THEOREM NeverMislaid == Spec => []NothingMislaid
<1>1. IInv => NothingMislaid
  BY DEF IInv
<1> QED
  BY <1>1, Invariance, PTL

\* The driver closes its consumer after the last settlement, however many
\* handlers, timers and seek handles outlive the subscriber.
THEOREM ClosedAfterSettled == Spec => []ClosedWhenSettled
<1>1. IInv => ClosedWhenSettled
  BY DEF IInv, Gone, ClosedWhenSettled, Senders
<1> QED
  BY <1>1, Invariance, PTL

\* No handler is given a delivery from before the last move of the cursor,
\* until the client gave up, however many seeks overtake each other.
THEOREM NeverStale == Spec => NoStaleDelivery
<1> DEFINE Timely == \A n \in Pulls : life[n] = "queued" /\ life'[n] = "held"
                       => pulledAt[n] = moved \/ pc \in {"drain", "draining"}
<1>1. IInv /\ [Next]_vars => [Timely]_vars
  <2> SUFFICES ASSUME IInv, [Next]_vars, NEW n \in Pulls,
                      life[n] = "queued", life'[n] = "held",
                      pc \notin {"drain", "draining"}, ~(UNCHANGED vars)
               PROVE  pulledAt[n] = moved
    OBVIOUS
  <2> USE DEF IInv
  <2>1. CASE Take
    <3>1. /\ reading /\ out # <<>> /\ Head(out).n = n /\ Head(out).stamp = epoch
      <4>1. life \in [Pulls -> Lives]
        BY DEF TypeOK
      <4> QED BY <2>1, <4>1 DEF Take, Put
    <3>2. 1 \in 1..Len(out) /\ out[1] = Head(out)
      BY <3>1 DEF TypeOK
    <3>3. pc # "closed"
      BY <3>1 DEF Gone, Senders
    <3>4. n # 0
      BY DEF Pulls
    <3> QED BY <3>1, <3>2, <3>3, <3>4 DEF Current
  <2>2. CASE ~Take
    <3>1. life \in [Pulls -> Lives]
      BY DEF TypeOK
    <3>2. ASSUME Pull \/ Serve \/ Wait \/ Offer PROVE FALSE
      BY <3>1, <3>2 DEF Pull, Serve, Wait, Offer, Put
    <3>3. ASSUME Leave \/ StartSeek \/ DropSubscriber PROVE FALSE
      BY <3>1, <3>3 DEF Leave, StartSeek, DropSubscriber, PutAll
    <3>4. ASSUME Fail \/ End \/ Forward \/ DrainSeek \/ FinishSeek \/ Close \/ Shutdown
          PROVE  FALSE
      BY <3>4 DEF Fail, End, Forward, DrainSeek, FinishSeek, Close, Shutdown
    <3>5. ASSUME NEW m \in Pulls, Settle(m) \/ Fire(m) PROVE FALSE
      BY <3>1, <3>5 DEF Settle, Fire, Ask, Put
    <3>6. ASSUME NEW h \in Handles, Seek(h) \/ Release(h) PROVE FALSE
      BY <3>6 DEF Seek, Release
    <3> QED BY <2>2, <3>2, <3>3, <3>4, <3>5, <3>6 DEF Next, Drive
  <2> QED BY <2>1, <2>2
<1> HIDE DEF Timely
<1>2. Spec => [][Timely]_vars
  BY <1>1, Invariance, PTL DEF Spec
<1> QED
  BY <1>2 DEF NoStaleDelivery, Timely

\* What a seek discards was yielded before the cursor moved, as long as the client
\* refused no seek that opened a generation, however many seeks overtake each other.
THEOREM DiscardedAlways == Spec => []DiscardedByAMove
<1>1. Init => Dated
  BY DEF Init, Dated
<1>2. IInv /\ Dated /\ [Next]_vars => Dated'
  BY DatedStep DEF IInv
<1>3. TypeOK /\ Dated => DiscardedByAMove
  BY DEF TypeOK, Dated, DiscardedByAMove
<1> QED
  BY <1>1, <1>2, <1>3, Invariance, TypeCorrect, PTL DEF Spec
=============================================================================
