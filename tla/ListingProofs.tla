---------------------------- MODULE ListingProofs ----------------------------
(***************************************************************************)
(* Theorems about the runtime's clock, for every refresh interval, every   *)
(* set of topics and patterns and every order of opens and creations.      *)
(***************************************************************************)
EXTENDS ListingProps, RouterProofs

-----------------------------------------------------------------------------
(* Ticks *)

LEMMA MaxTimeIs == MaxTime \in Nat /\ RefreshEvery \in Nat \ {0}
BY ListingAssumption

\* A refresh later is a refresh further, and no less than a unit of the clock.
LEMMA RefreshesGrow ==
  ASSUME NEW R \in Nat \ {0}, NEW k \in Nat, NEW l \in Nat
  PROVE  /\ k * R \in Nat /\ k <= k * R
         /\ k <= l => k * R <= l * R
         /\ k < l => k * R + R <= l * R
OBVIOUS

\* TicksTo is the least number of refreshes, one at least, that reach `since'.
LEMMA TicksIs ==
  ASSUME NEW since \in Nat
  PROVE  LET q == TicksTo(since)
         IN  /\ q \in Nat \ {0}
             /\ since <= q * RefreshEvery
             /\ \A k \in Nat \ {0} : since <= k * RefreshEvery => q <= k
<1> DEFINE R == RefreshEvery
           x == since + R - 1
           w == x \div R
           q == TicksTo(since)
<1>1. R \in Nat \ {0} /\ x \in Nat
  BY MaxTimeIs
<1>2. q = IF w = 0 THEN 1 ELSE w
  BY DEF TicksTo
<1> HIDE DEF R, q
<1>3. w \in Nat /\ R * w <= x /\ x < R * w + R
  <2> HIDE DEF x
  <2>1. w \in Nat /\ x % R \in 0..(R - 1) /\ x = R * w + (x % R)
    BY <1>1
  <2>2. R * w \in Nat
    BY <1>1, <2>1
  <2> QED BY <1>1, <2>1, <2>2
<1> HIDE DEF w
<1>4. R * w = w * R /\ R * w \in Nat
  BY <1>1, <1>3
<1>5. q \in Nat \ {0} /\ since <= q * R
  <2>1. CASE w = 0
    BY <1>1, <1>2, <1>3, <1>4, <2>1
  <2>2. CASE w # 0
    <3>1. since <= w * R
      BY <1>1, <1>3, <1>4
    <3> QED BY <1>2, <1>3, <2>2, <3>1
  <2> QED BY <2>1, <2>2
<1>6. ASSUME NEW k \in Nat \ {0}, since <= k * R PROVE q <= k
  <2>1. CASE w = 0
    BY <1>2, <2>1
  <2>2. CASE w # 0
    <3> SUFFICES ASSUME k < w PROVE FALSE
      BY <1>2, <1>3, <2>2
    <3>1. k * R + R <= w * R /\ k * R \in Nat
      BY <1>1, <1>3, RefreshesGrow
    <3> QED BY <1>1, <1>3, <1>4, <1>6, <3>1
  <2> QED BY <2>1, <2>2
<1> QED
  BY <1>5, <1>6 DEF q, R

-----------------------------------------------------------------------------
(* What a consumer has listed *)

\* The moment of an event, no later than the clock and the last event.
Stamp(e, time, n) == e.at \in 0..time /\ e.order \in 1..n

\* The order of an open and a creation is that of the clock.
Agreeing(open, creation) == open.order <= creation.order => open.at <= creation.at

\* A listing of a consumer opened at `open', after the open, is due at `at'.
Lists(open, at) == \E k \in 1..MaxTime : at = open.at + k * RefreshEvery

\* A topic that is not older than a consumer is listed from the first listing on
\* that did not come before it.
LEMMA ListedIs ==
  ASSUME NEW n, n \in Nat, NEW time \in 0..MaxTime, NEW open, NEW creation,
         Stamp(open, time, n), Stamp(creation, time, n), Agreeing(open, creation)
  PROVE  ListedBy(open, creation, time) <=>
           \/ creation.order < open.order
           \/ \E at \in 0..time : Lists(open, at) /\ creation.at <= at
<1> DEFINE o == open.at
           m == creation.at
           R == RefreshEvery
           q == TicksTo(m - o)
<1>1. o \in Nat /\ m \in Nat /\ open.order \in Nat /\ creation.order \in Nat
      /\ MaxTime \in Nat /\ time \in Nat /\ time <= MaxTime /\ R \in Nat \ {0}
  BY MaxTimeIs DEF Stamp
<1>2. CASE creation.order < open.order
  BY <1>2 DEF ListedBy
<1>3. CASE ~(creation.order < open.order)
  <2>1. o <= m /\ m - o \in Nat
    BY <1>1, <1>3 DEF Agreeing
  <2>2. /\ q \in Nat \ {0} /\ m - o <= q * R
        /\ \A k \in Nat \ {0} : m - o <= k * R => q <= k
    BY <2>1, TicksIs
  <2>3. ListedBy(open, creation, time) <=> o + q * R <= time
    BY <1>3 DEF ListedBy
  <2>4. \A at : Lists(open, at) <=> \E k \in 1..MaxTime : at = o + k * R
    BY DEF Lists
  <2> HIDE DEF o, m, R, q
  <2>5. ASSUME o + q * R <= time
        PROVE  \E at \in 0..time : Lists(open, at) /\ m <= at
    <3>1. q * R \in Nat /\ q <= q * R
      BY <1>1, <2>2, RefreshesGrow
    <3>2. q \in 1..MaxTime /\ o + q * R \in 0..time /\ m <= o + q * R
      BY <1>1, <2>1, <2>2, <2>5, <3>1
    <3> QED BY <2>4, <3>2
  <2>6. ASSUME NEW at \in 0..time, Lists(open, at), m <= at
        PROVE  o + q * R <= time
    <3>1. PICK k \in 1..MaxTime : at = o + k * R
      BY <2>4, <2>6
    <3>2. k \in Nat \ {0} /\ k * R \in Nat
      BY <1>1, RefreshesGrow
    <3>3. m - o <= k * R
      BY <1>1, <2>1, <2>6, <3>1, <3>2
    <3>4. q <= k
      BY <2>2, <3>2, <3>3
    <3>5. q * R <= k * R /\ q * R \in Nat
      BY <1>1, <2>2, <3>2, <3>4, RefreshesGrow
    <3> QED BY <1>1, <3>1, <3>2, <3>5
  <2>7. ListedBy(open, creation, time) <=>
          \E at \in 0..time : Lists(open, at) /\ m <= at
    BY <2>3, <2>5, <2>6
  <2> QED BY <1>3, <2>7 DEF m
<1> QED
  BY <1>2, <1>3

\* What a tick of the clock changes: at a listing everything there is listed, and
\* between two of them nothing is.
LEMMA ListedTick ==
  ASSUME NEW n, n \in Nat, NEW time \in 0..MaxTime, time + 1 <= MaxTime,
         NEW open, NEW creation,
         Stamp(open, time, n), Stamp(creation, time, n), Agreeing(open, creation)
  PROVE  ListedBy(open, creation, time + 1) <=>
           ListedBy(open, creation, time) \/ Lists(open, time + 1)
<1>1. time + 1 \in 0..MaxTime /\ Stamp(open, time + 1, n) /\ Stamp(creation, time + 1, n)
  BY MaxTimeIs DEF Stamp
<1>2. \A at \in 0..(time + 1) : at \in 0..time \/ at = time + 1
  BY MaxTimeIs
<1>3. creation.at <= time + 1 /\ 0..time \subseteq 0..(time + 1) /\ time + 1 \in 0..(time + 1)
  BY MaxTimeIs DEF Stamp
<1>4. ListedBy(open, creation, time + 1) <=>
        \/ creation.order < open.order
        \/ \E at \in 0..(time + 1) : Lists(open, at) /\ creation.at <= at
  BY <1>1, ListedIs
<1>5. ListedBy(open, creation, time) <=>
        \/ creation.order < open.order
        \/ \E at \in 0..time : Lists(open, at) /\ creation.at <= at
  BY ListedIs
<1> QED
  BY <1>2, <1>3, <1>4, <1>5

-----------------------------------------------------------------------------
(* The registry *)

\* What is selected of such a list is in order too, and its head is the least of it.
LEMMA SelectInOrder ==
  ASSUME NEW n \in Nat, NEW ids \in Seq(1..n), Rising(ids), NEW S
  PROVE  /\ Rising(Select(ids, S))
         /\ \A i \in 1..Len(ids) : ids[i] \in S =>
              /\ Select(ids, S) # <<>> /\ Select(ids, S)[1] <= ids[i]
         /\ Select(ids, S) # <<>> =>
              /\ Select(ids, S)[1] \in S
              /\ \E i \in 1..Len(ids) : Select(ids, S)[1] = ids[i]
<1> DEFINE M == Select(ids, S)
<1>1. /\ M \in Seq(1..n) /\ Rising(M)
      /\ \A x : x \in Consumers(M) <=> x \in Consumers(ids) /\ x \in S
      /\ M # <<>> => /\ M[1] \in S /\ M[1] \in Consumers(ids)
                     /\ \A x \in Consumers(ids) : x < M[1] => x \notin S
  BY SelectRising, Zenon
<1> HIDE DEF M
<1>2. ASSUME NEW i \in 1..Len(ids), ids[i] \in S
      PROVE  M # <<>> /\ M[1] <= ids[i]
  <2>1. ids[i] \in Consumers(ids) /\ ids[i] \in 1..n
    BY DEF Consumers
  <2>2. ids[i] \in Consumers(M)
    BY <1>1, <1>2, <2>1
  <2>3. M # <<>>
    BY <2>2 DEF Consumers
  <2>4. M[1] \in 1..n
    BY <1>1, <2>3
  <2> QED BY <1>1, <1>2, <2>1, <2>3, <2>4
<1>3. M # <<>> => M[1] \in S /\ \E i \in 1..Len(ids) : M[1] = ids[i]
  BY <1>1 DEF Consumers
<1> QED
  BY <1>1, <1>2, <1>3 DEF M

\* How a step changes who is attached and which topics exist: one consumer joins
\* with the next id, some leave, or the broker forgets all of it.
LEMMA RegistryMoves ==
  ASSUME IInv, Next
  PROVE  \/ /\ nextId < MaxConsumers /\ nextId' = nextId + 1
            /\ attached' = Append(attached, nextId + 1)
            /\ \A c \in 1..nextId : reg'[c] = reg[c]
            /\ created \subseteq created'
         \/ /\ UNCHANGED <<nextId, reg>>
            /\ \/ attached' = <<>> /\ created' = {}
               \/ \E S : attached' = Select(attached, S) /\ created' = created
               \/ attached' = attached /\ created \subseteq created'
<1>1. CASE Subscribe
  <2>1. PICK r \in Registrations :
          /\ nextId < MaxConsumers
          /\ nextId' = nextId + 1
          /\ reg' = [reg EXCEPT ![nextId + 1] = r]
          /\ attached' = Append(attached, nextId + 1)
          /\ created' = IF IsPattern(r) THEN created ELSE created \cup r.topics
    BY <1>1 DEF Subscribe
  <2>2. nextId \in Nat /\ reg \in [Ids -> Registrations \cup {None}] /\ MaxConsumers \in Nat
    BY RouterAssumption DEF IInv, TypeOK
  <2>3. \A c \in 1..nextId : reg'[c] = reg[c]
    BY <2>1, <2>2 DEF Ids
  <2> QED BY <2>1, <2>3
<1>2. CASE Shutdown
  BY <1>2 DEF Shutdown
<1>3. ASSUME NEW c \in Ids, Unsubscribe(c)
      PROVE  /\ UNCHANGED <<nextId, reg>>
             /\ \E S : attached' = Select(attached, S) /\ created' = created
  BY <1>3, Zenon DEF Unsubscribe, topicVars
<1>4. \A t, k, o : Deliver(t, k, o) => created \subseteq created'
  BY DEF Deliver
<1>5. \A c, d, took : Requeue(c, d, took) => created \subseteq created'
  BY <1>4 DEF Requeue, topicVars
<1> DEFINE Stays == UNCHANGED <<nextId, reg>> /\ attached' = attached /\ created \subseteq created'
<1>6. CASE Publish \/ Refresh \/ FinishSeek
  <2>1. Publish => Stays
    BY <1>4, Zenon DEF Publish, registry
  <2>2. Refresh \/ FinishSeek => Stays
    BY DEF Refresh, FinishSeek, registry, topicVars
  <2> QED BY <1>6, <2>1, <2>2
<1>7. ASSUME NEW c \in Ids, NEW pos \in Positions, Seek(c, pos)
      PROVE  Stays
  BY <1>7 DEF Seek, registry, topicVars
<1>8. ASSUME NEW m \in Slots, NEW c \in Ids, Poll(m, c)
      PROVE  Stays
  BY <1>8 DEF Poll, registry, topicVars
<1>9. ASSUME NEW m \in Slots,
             \/ Ack(m) \/ Drop(m) \/ NackAfter(m) \/ Count(m) \/ Release(m)
      PROVE  Stays
  BY <1>9 DEF Ack, Drop, NackAfter, Count, Release, registry, topicVars
<1>10. ASSUME NEW m \in Slots, Nack(m) \/ Fire(m)
       PROVE  Stays
  <2>1. registry' = registry
    BY <1>10 DEF Nack, Fire, registry
  <2>2. (\E c, d, took : Requeue(c, d, took)) \/ topicVars' = topicVars
    BY <1>10, Zenon DEF Nack, Fire
  <2>3. created \subseteq created'
    BY <1>5, <2>2 DEF topicVars
  <2> QED BY <2>1, <2>3 DEF registry
<1> QED
  BY <1>1, <1>2, <1>3, <1>6, <1>7, <1>8, <1>9, <1>10 DEF Next, Settled, Others

-----------------------------------------------------------------------------
(* The inductive invariant *)

\* Every open and every creation is stamped with a moment that has passed, opens and
\* creations come in one order by count and by clock, consumers attach in the order
\* of their ids, and a pattern consumer has listed what the clock says.
Clock ==
  /\ now \in 0..MaxTime /\ events \in Nat
  /\ \A c \in 1..nextId : Stamp(opened[c], now, events)
  /\ \A t \in created : Stamp(made[t], now, events)
  /\ \A c \in 1..nextId, t \in created : Agreeing(opened[c], made[t])
  /\ \A c \in Due : listed[c] = ListedNow(c)
  /\ Rising(attached)

\* A pattern consumer is a consumer that attached.
LEMMA DueKnown ==
  ASSUME TypeOK, NEW c \in Due
  PROVE  c \in 1..nextId /\ c \in Ids /\ reg[c].topics \subseteq Topics
<1>1. c \in Attached
  BY DEF Due
<1>2. c \in 1..nextId /\ reg[c] \in Registrations /\ c \in Ids
  <2>1. PICK i \in 1..Len(attached) : c = attached[i]
    BY <1>1 DEF Attached
  <2>2. c \in 1..nextId
    BY <2>1, ElementOfSeq DEF TypeOK
  <2> QED BY <2>2, RouterAssumption DEF TypeOK, Ids
<1> QED
  BY <1>2, RouterAssumption DEF Registration

\* A tick of the clock is a refresh of the router, or nothing to it.
LEMMA TickRefreshes ==
  ASSUME IInv, Clock, Tick
  PROVE  [Next]_vars
<1> DEFINE due == {c \in Due : Lists(opened[c], now + 1)}
           all(c) == reg[c].topics \cap created
<1>1. /\ now < MaxTime /\ now' = now + 1 /\ now \in 0..MaxTime /\ now + 1 <= MaxTime
      /\ events \in Nat
  BY MaxTimeIs DEF Tick, Clock
<1>2. /\ UNCHANGED <<up, registry, created, log, queue, unacked, parked, rotation,
                     settle, inflight, swap>>
      /\ opened' = opened /\ made' = made /\ reg' = reg
  BY DEF Tick, registry
<1>3. listed' = [c \in Ids |-> IF c \in Due THEN ListedNow(c)' ELSE listed[c]]
  BY DEF Tick
<1>4. ASSUME NEW c \in Due
      PROVE  ListedNow(c)' = IF c \in due THEN all(c) ELSE listed[c]
  <2>1. c \in 1..nextId /\ listed[c] = ListedNow(c)
    BY DueKnown DEF IInv, Clock
  <2>2. ASSUME NEW t \in all(c)
        PROVE  ListedBy(opened[c], made[t], now + 1) <=>
                 ListedBy(opened[c], made[t], now) \/ Lists(opened[c], now + 1)
    <3>1. /\ Stamp(opened[c], now, events) /\ Stamp(made[t], now, events)
          /\ Agreeing(opened[c], made[t])
      BY <2>1 DEF Clock
    <3> QED BY <1>1, <3>1, ListedTick
  <2>3. /\ ListedNow(c)' = {t \in all(c) : ListedBy(opened[c], made[t], now + 1)}
        /\ ListedNow(c) = {t \in all(c) : ListedBy(opened[c], made[t], now)}
    BY <1>1, <1>2 DEF ListedNow
  <2> HIDE DEF all
  <2>4. CASE Lists(opened[c], now + 1)
    BY <2>2, <2>3, <2>4
  <2>5. CASE ~Lists(opened[c], now + 1)
    BY <2>1, <2>2, <2>3, <2>5
  <2> QED BY <2>4, <2>5
<1>5. listed' = [c \in Ids |-> IF c \in due THEN all(c) ELSE listed[c]]
  <2>1. due \subseteq Due
    OBVIOUS
  <2> HIDE DEF due, all
  <2> QED BY <1>3, <1>4, <2>1
<1>6. listed' = Listing(due, created)
  BY <1>5 DEF Listing
<1>7. CASE listed' = listed
  BY <1>2, <1>7 DEF vars, registry
<1>8. CASE listed' # listed
  <2>1. due \in SUBSET Due
    OBVIOUS
  <2> HIDE DEF due
  <2>2. Refresh
    BY <1>2, <1>6, <1>8, <2>1, Zenon DEF Refresh
  <2> QED BY <2>2 DEF Next, Others
<1> QED
  BY <1>7, <1>8

\* A step of the clock is one of the router, or nothing to it.
LEMMA ClockRefines ==
  ASSUME IInv, Clock, [ListingNext]_<<vars, clockVars>>
  PROVE  [Next]_vars
<1>1. CASE Next /\ Stamped
  BY <1>1
<1>2. CASE Tick
  BY <1>2, TickRefreshes
<1>3. CASE UNCHANGED <<vars, clockVars>>
  BY <1>3
<1> QED
  BY <1>1, <1>2, <1>3 DEF ListingNext

\* A stamp stays one while the clock and the count go on.
LEMMA StampStays ==
  ASSUME NEW e, NEW time \in Nat, NEW n \in Nat, NEW later \in Nat, NEW m \in Nat,
         time <= later, n <= m, Stamp(e, time, n)
  PROVE  Stamp(e, later, m)
BY DEF Stamp

\* What Stamped says of each variable.
LEMMA StampedIs ==
  ASSUME Stamped
  PROVE  /\ now' = now
         /\ events' = IF created' \subseteq created /\ nextId' = nextId
                      THEN events ELSE events + 1
         /\ opened' = [c \in Ids |-> IF c = nextId' /\ c # nextId
                                     THEN [at |-> now, order |-> events + 1] ELSE opened[c]]
         /\ made' = [t \in Topics |-> IF t \notin created' THEN None
                                      ELSE IF t \in created THEN made[t]
                                      ELSE [at |-> now, order |-> events + 1]]
         /\ \A c \in Due' : listed'[c] = ListedNow(c)'
<1>1. now' = now
  BY DEF Stamped
<1>2. events' = IF created' \subseteq created /\ nextId' = nextId THEN events ELSE events + 1
  BY DEF Stamped
<1>3. opened' = [c \in Ids |-> IF c = nextId' /\ c # nextId
                               THEN [at |-> now, order |-> events + 1] ELSE opened[c]]
  BY DEF Stamped
<1>4. made' = [t \in Topics |-> IF t \notin created' THEN None
                                ELSE IF t \in created THEN made[t]
                                ELSE [at |-> now, order |-> events + 1]]
  BY DEF Stamped
<1>5. \A c \in Due' : listed'[c] = ListedNow(c)'
  BY DEF Stamped
<1> QED
  BY <1>1, <1>2, <1>3, <1>4, <1>5

\* What a step of the router made or opened has the moment of the step, what was
\* there keeps the moment it had.
LEMMA NewStamps ==
  ASSUME IInv, IInv', Clock, Next, Stamped
  PROVE  LET moment == [at |-> now, order |-> events + 1]
         IN  /\ now' = now /\ events' \in {events, events + 1}
             /\ \A c \in 1..nextId' : \/ c \in 1..nextId /\ opened'[c] = opened[c]
                                      \/ c = nextId + 1 /\ opened'[c] = moment /\ events' = events + 1
             /\ \A t \in created' : \/ t \in created /\ made'[t] = made[t]
                                    \/ t \notin created /\ made'[t] = moment /\ events' = events + 1
<1> DEFINE moment == [at |-> now, order |-> events + 1]
<1>1. /\ now' = now
      /\ events' = IF created' \subseteq created /\ nextId' = nextId
                   THEN events ELSE events + 1
      /\ opened' = [c \in Ids |-> IF c = nextId' /\ c # nextId THEN moment ELSE opened[c]]
      /\ made' = [t \in Topics |-> IF t \notin created' THEN None
                                   ELSE IF t \in created THEN made[t] ELSE moment]
  BY StampedIs
<1>2. /\ nextId \in Nat /\ nextId' \in Nat /\ nextId' \in 0..MaxConsumers
      /\ MaxConsumers \in Nat /\ created' \subseteq Topics
  BY RouterAssumption DEF IInv, TypeOK
<1>3. nextId' = nextId \/ nextId' = nextId + 1
  BY RegistryMoves
<1> HIDE DEF moment
<1>4. ASSUME NEW c \in 1..nextId'
      PROVE  \/ c \in 1..nextId /\ opened'[c] = opened[c]
             \/ c = nextId + 1 /\ opened'[c] = moment /\ events' = events + 1
  <2>1. c \in Ids
    BY <1>2 DEF Ids
  <2>2. opened'[c] = IF c = nextId' /\ c # nextId THEN moment ELSE opened[c]
    BY <1>1, <2>1
  <2> QED BY <1>1, <1>2, <1>3, <2>2
<1>5. ASSUME NEW t \in created'
      PROVE  \/ t \in created /\ made'[t] = made[t]
             \/ t \notin created /\ made'[t] = moment /\ events' = events + 1
  <2>1. made'[t] = IF t \in created THEN made[t] ELSE moment
    BY <1>1, <1>2
  <2> QED BY <1>1, <2>1
<1> QED
  BY <1>1, <1>4, <1>5 DEF moment

\* Who is attached stays in order: a newcomer has the highest id.
LEMMA OrderStep ==
  ASSUME IInv, Rising(attached), Next
  PROVE  Rising(attached')
<1>1. attached \in Seq(1..nextId) /\ nextId \in Nat
  BY RouterAssumption DEF IInv, TypeOK
<1>2. CASE attached' = Append(attached, nextId + 1)
  <2> DEFINE a == attached
             n == nextId
  <2>1. a \in Seq(Nat) /\ n + 1 \in Nat /\ \A i \in 1..Len(a) : a[i] \in 1..n
    BY <1>1
  <2>2. Rising(a) /\ n \in Nat
    BY <1>1
  <2> HIDE DEF a, n
  <2>3. /\ Len(Append(a, n + 1)) = Len(a) + 1 /\ Append(a, n + 1)[Len(a) + 1] = n + 1
        /\ Len(a) \in Nat /\ \A i \in 1..Len(a) : Append(a, n + 1)[i] = a[i]
    BY <2>1, AppendProperties
  <2> DEFINE b == Append(a, n + 1)
  <2> HIDE DEF b
  <2>4. Rising(b)
    <3> SUFFICES ASSUME NEW i \in 1..Len(b), NEW j \in 1..Len(b), i < j PROVE b[i] < b[j]
      BY DEF Rising
    <3>1. i \in 1..Len(a) /\ b[i] = a[i] /\ a[i] \in 1..n
      BY <2>1, <2>3 DEF b
    <3>2. CASE j = Len(a) + 1
      BY <2>2, <2>3, <3>1, <3>2 DEF b
    <3>3. CASE j # Len(a) + 1
      <4>1. j \in 1..Len(a) /\ b[j] = a[j]
        BY <2>3, <3>3 DEF b
      <4> QED BY <2>2, <3>1, <4>1 DEF Rising
    <3> QED BY <3>2, <3>3
  <2> QED BY <1>2, <2>4 DEF a, n, b
<1>3. CASE \E S : attached' = Select(attached, S)
  BY <1>1, <1>3, SelectInOrder
<1>4. CASE attached' = <<>>
  BY <1>4 DEF Rising
<1> QED
  BY <1>2, <1>3, <1>4, RegistryMoves

LEMMA ClockStep ==
  ASSUME IInv, IInv', Clock, [ListingNext]_<<vars, clockVars>>
  PROVE  Clock'
<1> DEFINE moment == [at |-> now, order |-> events + 1]
<1>0. /\ now \in Nat /\ MaxTime \in Nat /\ now <= MaxTime /\ events \in Nat
      /\ \A c \in 1..nextId : Stamp(opened[c], now, events)
      /\ \A t \in created : Stamp(made[t], now, events)
      /\ \A c \in 1..nextId, t \in created : Agreeing(opened[c], made[t])
  BY MaxTimeIs DEF Clock
<1>1. CASE Next /\ Stamped
  <2>1. /\ now' = now /\ events' \in {events, events + 1}
        /\ \A c \in 1..nextId' : \/ c \in 1..nextId /\ opened'[c] = opened[c]
                                 \/ c = nextId + 1 /\ opened'[c] = moment /\ events' = events + 1
        /\ \A t \in created' : \/ t \in created /\ made'[t] = made[t]
                               \/ t \notin created /\ made'[t] = moment /\ events' = events + 1
    BY <1>1, NewStamps
  <2>2. moment.at = now /\ moment.order = events + 1
    OBVIOUS
  <2> HIDE DEF moment
  <2>3. events' \in Nat /\ events <= events'
    BY <1>0, <2>1
  <2>4. ASSUME NEW e, \/ Stamp(e, now, events)
                      \/ e = moment /\ events' = events + 1
        PROVE  Stamp(e, now', events')
    BY <1>0, <2>1, <2>2, <2>3, <2>4 DEF Stamp
  <2>5. /\ \A c \in 1..nextId' : Stamp(opened'[c], now', events')
        /\ \A t \in created' : Stamp(made'[t], now', events')
    BY <1>0, <2>1, <2>4
  <2>6. ASSUME NEW c \in 1..nextId', NEW t \in created'
        PROVE  Agreeing(opened'[c], made'[t])
    <3>1. CASE opened'[c] = opened[c] /\ made'[t] = made[t] /\ c \in 1..nextId /\ t \in created
      BY <1>0, <3>1
    <3>2. CASE opened'[c] = opened[c] /\ c \in 1..nextId /\ made'[t] = moment
      <4>1. Stamp(opened[c], now, events)
        BY <1>0, <3>2
      <4> QED BY <1>0, <2>2, <3>2, <4>1 DEF Stamp, Agreeing
    <3>3. CASE opened'[c] = moment /\ made'[t] = made[t] /\ t \in created
      <4>1. Stamp(made[t], now, events)
        BY <1>0, <3>3
      <4> QED BY <1>0, <2>2, <3>3, <4>1 DEF Stamp, Agreeing
    <3>4. CASE opened'[c] = moment /\ made'[t] = moment
      BY <1>0, <2>2, <3>4 DEF Agreeing
    <3> QED BY <2>1, <3>1, <3>2, <3>3, <3>4
  <2>7. \A c \in Due' : listed'[c] = ListedNow(c)'
    BY <1>1, StampedIs
  <2>8. Rising(attached')
    BY <1>1, OrderStep DEF Clock
  <2>9. now' \in 0..MaxTime
    BY <1>0, <2>1
  <2> QED BY <2>3, <2>5, <2>6, <2>7, <2>8, <2>9 DEF Clock
<1>2. CASE Tick
  <2>1. now' = now + 1 /\ now + 1 \in 0..MaxTime /\ now + 1 \in Nat
    BY <1>0, <1>2 DEF Tick
  <2>2. /\ events' = events /\ opened' = opened /\ made' = made /\ nextId' = nextId
        /\ created' = created /\ attached' = attached /\ reg' = reg
        /\ listed' = [c \in Ids |-> IF c \in Due THEN ListedNow(c)' ELSE listed[c]]
    BY <1>2 DEF Tick, registry
  <2>3. \A e : Stamp(e, now, events) => Stamp(e, now', events')
    BY <1>0, <2>1, <2>2 DEF Stamp
  <2>4. Due' = Due
    BY <2>2 DEF Due, Attached
  <2>5. \A c \in Due : c \in Ids
    BY DueKnown DEF IInv
  <2>6. \A c \in Due' : listed'[c] = ListedNow(c)'
    BY <2>2, <2>4, <2>5
  <2>7. /\ now' \in 0..MaxTime /\ events' \in Nat
        /\ \A c \in 1..nextId' : Stamp(opened'[c], now', events')
        /\ \A t \in created' : Stamp(made'[t], now', events')
        /\ \A c \in 1..nextId', t \in created' : Agreeing(opened'[c], made'[t])
    BY <1>0, <2>1, <2>2, <2>3
  <2>8. Rising(attached')
    BY <2>2 DEF Clock
  <2> QED BY <2>6, <2>7, <2>8 DEF Clock
<1>3. CASE UNCHANGED <<vars, clockVars>>
  <2>1. /\ now' = now /\ events' = events /\ opened' = opened /\ made' = made
        /\ nextId' = nextId /\ created' = created /\ attached' = attached
        /\ listed' = listed /\ reg' = reg
    BY <1>3 DEF vars, clockVars
  <2>2. Due' = Due /\ \A c : ListedNow(c)' = ListedNow(c)
    BY <2>1 DEF Due, Attached, ListedNow
  <2> QED BY <2>1, <2>2 DEF Clock
<1> QED
  BY <1>1, <1>2, <1>3 DEF ListingNext

\* The clock starts before any open or creation.
LEMMA ClockInit ==
  ASSUME ListingInit
  PROVE  IInv /\ Clock
<1>1. IInv
  BY InitStep DEF ListingInit
<1>2. now = 0 /\ events = 0 /\ nextId = 0 /\ created = {} /\ attached = <<>>
  BY DEF ListingInit, Init
<1>3. Due = {} /\ Rising(attached)
  BY <1>2 DEF Due, Attached, Rising
<1> QED
  BY <1>1, <1>2, <1>3, MaxTimeIs DEF Clock

\* The inductive invariant holds at every reading of the clock.
THEOREM ClockInvariance == ListingSpec => [](IInv /\ Clock)
<1>1. ListingInit => IInv /\ Clock
  BY ClockInit
<1>2. IInv /\ Clock /\ [ListingNext]_<<vars, clockVars>> => (IInv /\ Clock)'
  <2> SUFFICES ASSUME IInv, Clock, [ListingNext]_<<vars, clockVars>>
               PROVE  IInv' /\ Clock'
    OBVIOUS
  <2>1. IInv'
    BY ClockRefines, NextStep
  <2> QED BY <2>1, ClockStep
<1> QED
  BY <1>1, <1>2, PTL DEF ListingSpec

\* The router with its clock is the router whose consumers list when they will: every
\* theorem about Spec is one about the clock (listed_by, reads).
THEOREM ListingRefinesRouter == ListingSpec => RefinesRouter
<1>1. ListingInit => Init
  BY DEF ListingInit
<1>2. IInv /\ Clock /\ [ListingNext]_<<vars, clockVars>> => [Next]_vars
  BY ClockRefines
<1> QED
  BY <1>1, <1>2, ClockInvariance, PTL DEF ListingSpec, Spec, RefinesRouter

-----------------------------------------------------------------------------
(* Listings come on time *)

\* The instants at which a consumer lists, but for the open, are those a refresh or
\* more after it.
LEMMA ListsAt ==
  ASSUME NEW c, opened[c].at \in Nat, NEW at
  PROVE  at \in ListingTimes(c) \ {opened[c].at} <=> Lists(opened[c], at)
<1> DEFINE o == opened[c].at
           R == RefreshEvery
<1>1. o \in Nat /\ R \in Nat \ {0} /\ MaxTime \in Nat
  BY MaxTimeIs
<1>2. at \in ListingTimes(c) <=> \E k \in 0..MaxTime : at = o + k * R
  BY DEF ListingTimes
<1>3. Lists(opened[c], at) <=> \E k \in 1..MaxTime : at = o + k * R
  BY DEF Lists
<1> HIDE DEF o, R
<1>4. \A k \in 0..MaxTime : k \in 1..MaxTime \/ k = 0
  BY <1>1
<1>5. o + 0 * R = o /\ 1..MaxTime \subseteq 0..MaxTime
  BY <1>1
<1>6. \A k \in 1..MaxTime : o + k * R # o
  <2> SUFFICES ASSUME NEW k \in 1..MaxTime PROVE o + k * R # o
    OBVIOUS
  <2>1. k \in Nat /\ k * R \in Nat /\ k <= k * R /\ k # 0
    BY <1>1, RefreshesGrow
  <2> QED BY <1>1, <2>1
<1>7. at \in ListingTimes(c) /\ at # o <=> Lists(opened[c], at)
  BY <1>2, <1>3, <1>4, <1>5, <1>6
<1> QED
  BY <1>7 DEF o

LEMMA OnTime ==
  ASSUME IInv, Clock
  PROVE  ListedOnTime
<1> SUFFICES ASSUME NEW c \in Due, NEW t \in reg[c].topics \cap created
             PROVE  t \in listed[c] <=>
                      \/ made[t].order < opened[c].order
                      \/ \E at \in ListingTimes(c) \ {opened[c].at} :
                           made[t].at <= at /\ at <= now
  BY DEF ListedOnTime, Clock
<1>1. /\ Stamp(opened[c], now, events) /\ Stamp(made[t], now, events)
      /\ Agreeing(opened[c], made[t]) /\ now \in 0..MaxTime /\ events \in Nat
      /\ listed[c] = ListedNow(c)
  BY DueKnown DEF IInv, Clock
<1>2. t \in listed[c] <=> ListedBy(opened[c], made[t], now)
  BY <1>1 DEF ListedNow
<1>3. ListedBy(opened[c], made[t], now) <=>
        \/ made[t].order < opened[c].order
        \/ \E at \in 0..now : Lists(opened[c], at) /\ made[t].at <= at
  BY <1>1, ListedIs
<1>4. opened[c].at \in Nat /\ made[t].at \in Nat /\ now \in Nat
  BY <1>1 DEF Stamp
<1>5. \A at : at \in ListingTimes(c) \ {opened[c].at} <=> Lists(opened[c], at)
  BY <1>4, ListsAt
<1>6. ASSUME NEW at, Lists(opened[c], at) PROVE at \in Nat
  <2>1. PICK k \in 1..MaxTime : at = opened[c].at + k * RefreshEvery
    BY <1>6 DEF Lists
  <2>2. k * RefreshEvery \in Nat
    BY MaxTimeIs, RefreshesGrow
  <2> QED BY <1>4, <2>1, <2>2
<1>7. (\E at \in 0..now : Lists(opened[c], at) /\ made[t].at <= at)
        <=> \E at \in ListingTimes(c) \ {opened[c].at} : made[t].at <= at /\ at <= now
  BY <1>4, <1>5, <1>6
<1> QED
  BY <1>2, <1>3, <1>7

\* A pattern consumer has listed what was there at the last of its listings, for any
\* interval between them and any order of opens and creations (listed_by).
THEOREM ListedOnTimeAlways == ListingSpec => []ListedOnTime
<1>1. IInv /\ Clock => ListedOnTime
  BY OnTime
<1> QED
  BY <1>1, ClockInvariance, PTL

-----------------------------------------------------------------------------
(* Who takes a topic over *)

\* Opens and creations keep their moments, and what a consumer has listed it keeps
\* while its topics stay.
LEMMA MomentsStay ==
  ASSUME IInv, IInv', Clock, [ListingNext]_<<vars, clockVars>>
  PROVE  /\ \A c \in 1..nextId : opened'[c] = opened[c]
         /\ \A t \in created \cap created' : made'[t] = made[t]
         /\ nextId \in Nat
         /\ \/ now' = now
            \/ now' = now + 1 /\ now + 1 <= MaxTime /\ created' = created
<1>1. nextId \in Nat
  BY RouterAssumption DEF IInv, TypeOK
<1>2. CASE Next /\ Stamped
  <2>1. \A c \in 1..nextId : c \in 1..nextId' /\ c # nextId + 1
    <3>1. nextId' = nextId \/ nextId' = nextId + 1
      BY <1>2, RegistryMoves
    <3> QED BY <1>1, <3>1
  <2> QED BY <1>1, <1>2, <2>1, NewStamps
<1>3. CASE Tick
  BY <1>1, <1>3, MaxTimeIs DEF Tick, Clock
<1>4. CASE UNCHANGED <<vars, clockVars>>
  BY <1>1, <1>4 DEF vars, clockVars
<1> QED
  BY <1>2, <1>3, <1>4 DEF ListingNext

LEMMA StillListed ==
  ASSUME IInv, IInv', Clock, Clock', [ListingNext]_<<vars, clockVars>>,
         NEW c \in Due, c \in Due', reg'[c] = reg[c], created \subseteq created'
  PROVE  listed[c] \subseteq listed'[c]
<1> SUFFICES ASSUME NEW t \in listed[c] PROVE t \in listed'[c]
  OBVIOUS
<1>1. c \in 1..nextId /\ listed[c] = ListedNow(c) /\ listed'[c] = ListedNow(c)'
  BY DueKnown DEF IInv, Clock
<1>2. t \in reg[c].topics \cap created /\ ListedBy(opened[c], made[t], now)
  BY <1>1 DEF ListedNow
<1>3. opened'[c] = opened[c] /\ made'[t] = made[t]
  BY <1>1, <1>2, MomentsStay
<1>4. ListedBy(opened[c], made[t], now')
  <2>1. CASE now' = now
    BY <1>2, <2>1
  <2>2. CASE now' = now + 1 /\ now + 1 <= MaxTime
    <3>1. /\ Stamp(opened[c], now, events) /\ Stamp(made[t], now, events)
          /\ Agreeing(opened[c], made[t]) /\ now \in 0..MaxTime /\ events \in Nat
      BY <1>1, <1>2 DEF Clock
    <3> QED BY <1>2, <2>2, <3>1, ListedTick
  <2> QED BY <2>1, <2>2, MomentsStay
<1> QED
  BY <1>1, <1>2, <1>3, <1>4 DEF ListedNow

\* A topic that a consumer comes to list, it lists at one of its listings.
LEMMA NewlyListed ==
  ASSUME IInv, IInv', Clock, Clock', [ListingNext]_<<vars, clockVars>>,
         NEW c \in Due, c \in Due', reg'[c] = reg[c],
         NEW t \in listed'[c], t \notin listed[c]
  PROVE  now' \in ListingTimes(c) /\ now' > opened[c].at
<1>1. c \in 1..nextId /\ listed[c] = ListedNow(c) /\ listed'[c] = ListedNow(c)'
  BY DueKnown DEF IInv, Clock
<1>2. /\ t \in reg[c].topics \cap created' /\ opened'[c] = opened[c]
      /\ ListedBy(opened[c], made'[t], now')
  BY <1>1, MomentsStay DEF ListedNow
<1>3. /\ Stamp(opened[c], now, events) /\ now \in 0..MaxTime /\ events \in Nat
      /\ opened[c].at \in Nat /\ now \in Nat
  BY <1>1, MaxTimeIs DEF Clock, Stamp
<1>4. Lists(opened[c], now')
  <2>1. CASE t \in created /\ now' = now
    <3>1. made'[t] = made[t]
      BY <1>2, <2>1, MomentsStay
    <3>2. t \in ListedNow(c)
      BY <1>2, <2>1, <3>1 DEF ListedNow
    <3> QED BY <1>1, <3>2
  <2>2. CASE t \in created /\ now' = now + 1 /\ now + 1 <= MaxTime
    <3>1. made'[t] = made[t]
      BY <1>2, <2>2, MomentsStay
    <3>2. Stamp(made[t], now, events) /\ Agreeing(opened[c], made[t])
      BY <1>1, <2>2 DEF Clock
    <3>3. ~ListedBy(opened[c], made[t], now)
      BY <1>1, <1>2, <2>2 DEF ListedNow
    <3> QED BY <1>2, <1>3, <2>2, <3>1, <3>2, <3>3, ListedTick
  <2>3. CASE t \notin created
    <3> DEFINE moment == [at |-> now, order |-> events + 1]
    <3>1. Next /\ Stamped
      <4>1. created' # created
        BY <1>2, <2>3
      <4>2. ~Tick /\ ~(UNCHANGED <<vars, clockVars>>)
        BY <4>1 DEF Tick, vars
      <4> QED BY <4>2 DEF ListingNext
    <3>2. made'[t] = moment /\ now' = now /\ events' = events + 1
      BY <1>2, <2>3, <3>1, NewStamps
    <3>3. c \in 1..nextId'
      <4>1. nextId' = nextId \/ nextId' = nextId + 1
        BY <3>1, RegistryMoves
      <4> QED BY <1>1, <4>1, MomentsStay
    <3>4. /\ Stamp(opened[c], now, events + 1) /\ Stamp(made'[t], now, events + 1)
          /\ Agreeing(opened[c], made'[t]) /\ events + 1 \in Nat
      <4>1. /\ Stamp(opened'[c], now', events') /\ Stamp(made'[t], now', events')
            /\ Agreeing(opened'[c], made'[t]) /\ events' \in Nat
        BY <1>2, <3>3 DEF Clock
      <4> QED BY <1>2, <3>2, <4>1
    <3>5. \/ made'[t].order < opened[c].order
          \/ \E at \in 0..now : Lists(opened[c], at) /\ made'[t].at <= at
      BY <1>2, <1>3, <3>2, <3>4, ListedIs
    <3>6. made'[t].at = now /\ made'[t].order = events + 1
      BY <3>2
    <3>7. opened[c].order \in 1..events
      BY <1>3 DEF Stamp
    <3>8. ~(made'[t].order < opened[c].order)
      BY <1>3, <3>6, <3>7
    <3>9. \A at \in 0..now : now <= at => at = now
      BY <1>3
    <3> QED BY <3>2, <3>5, <3>6, <3>8, <3>9
  <2> QED BY <2>1, <2>2, <2>3, MomentsStay
<1>5. now' \in ListingTimes(c) \ {opened[c].at}
  BY <1>3, <1>4, ListsAt
<1>6. now' >= opened[c].at
  BY <1>3, MomentsStay DEF Stamp
<1>7. now' \in Nat
  BY <1>3, MomentsStay
<1> QED
  BY <1>3, <1>5, <1>6, <1>7

\* The consumers of a subscription that read a topic, as a set.
Readers(s, t) == {c \in 1..nextId : reg[c].name = s /\ Reads(listed, c, t)}

\* The active consumer is the oldest attached reader.
LEMMA ActiveIs ==
  ASSUME NEW n \in Nat, NEW ids \in Seq(1..n), Rising(ids), NEW S
  PROVE  LET M == Select(ids, S)
             active == IF M = <<>> THEN None ELSE M[1]
         IN  /\ active # None => /\ active \in S /\ active \in 1..n
                                 /\ \E i \in 1..Len(ids) : active = ids[i]
             /\ \A i \in 1..Len(ids) : ids[i] \in S =>
                  /\ active \in S /\ active \in 1..n /\ active <= ids[i]
                  /\ \E j \in 1..Len(ids) : active = ids[j]
<1> DEFINE M == Select(ids, S)
           active == IF M = <<>> THEN None ELSE M[1]
<1>1. /\ \A i \in 1..Len(ids) : ids[i] \in S => M # <<>> /\ M[1] <= ids[i]
      /\ M # <<>> => M[1] \in S /\ \E i \in 1..Len(ids) : M[1] = ids[i]
  BY SelectInOrder
<1>2. \A i \in 1..Len(ids) : ids[i] \in 1..n
  OBVIOUS
<1> HIDE DEF M
<1>3. active # None => M # <<>> /\ active = M[1]
  OBVIOUS
<1>4. M # <<>> => active = M[1]
  OBVIOUS
<1> HIDE DEF active
<1> QED
  BY <1>1, <1>2, <1>3, <1>4 DEF active, M

LEMMA TakeoverStep ==
  ASSUME IInv, IInv', Clock, Clock', [ListingNext]_<<vars, clockVars>>
  PROVE  TakenOver
<1> SUFFICES ASSUME NEW t \in Topics, NEW s \in Names,
                    Active(t, s) # None, Active(t, s) \in Attached',
                    Active(t, s)' # Active(t, s)
             PROVE  /\ Active(t, s)' < Active(t, s) /\ IsPattern(reg[Active(t, s)'])
                    /\ now' \in ListingTimes(Active(t, s)')
                    /\ now' > opened[Active(t, s)'].at
  BY DEF TakenOver
<1> DEFINE S == Readers(s, t)
           T == Readers(s, t)'
           M == Select(attached, S)
           N == Select(attached', T)
           old == IF M = <<>> THEN None ELSE M[1]
           new == IF N = <<>> THEN None ELSE N[1]
<1>1. Active(t, s) = old /\ Active(t, s)' = new
  BY DEF Active, MembersOf, Readers
<1>2. /\ nextId \in Nat /\ attached \in Seq(1..nextId) /\ Rising(attached)
      /\ nextId' \in Nat /\ attached' \in Seq(1..nextId') /\ Rising(attached')
  BY RouterAssumption DEF IInv, TypeOK, Clock
<1>3. /\ \A c \in S : c \in 1..nextId /\ reg[c].name = s /\ t \in reg[c].topics
                      /\ (IsPattern(reg[c]) => t \in listed[c])
      /\ \A c \in T : c \in 1..nextId' /\ reg'[c].name = s /\ t \in reg'[c].topics
                      /\ (IsPattern(reg'[c]) => t \in listed'[c])
      /\ \A c \in 1..nextId : c \notin S /\ reg[c].name = s /\ t \in reg[c].topics
                      => IsPattern(reg[c]) /\ t \notin listed[c]
      /\ \A c \in 1..nextId' : reg'[c].name = s /\ t \in reg'[c].topics
                      /\ (IsPattern(reg'[c]) => t \in listed'[c]) => c \in T
  BY DEF Readers, Reads
<1>4. /\ old # None => old \in S /\ old \in 1..nextId /\ \E i \in 1..Len(attached) : old = attached[i]
      /\ \A i \in 1..Len(attached) : attached[i] \in S => old <= attached[i]
  <2> HIDE DEF S
  <2> QED BY <1>2, ActiveIs
<1>5. \A i \in 1..Len(attached') : attached'[i] \in T =>
        /\ new \in T /\ new \in 1..nextId' /\ new <= attached'[i]
        /\ \E j \in 1..Len(attached') : new = attached'[j]
  <2> DEFINE ids == attached'
  <2> HIDE DEF T, ids
  <2>1. \A i \in 1..Len(ids) : ids[i] \in T =>
        LET A == IF Select(ids, T) = <<>> THEN None ELSE Select(ids, T)[1]
        IN  /\ A \in T /\ A \in 1..nextId' /\ A <= ids[i]
            /\ \E j \in 1..Len(ids) : A = ids[j]
    BY <1>2, ActiveIs DEF ids
  <2> QED BY <2>1 DEF ids
<1> HIDE DEF S, T, M, N, old, new
<1>6. old \in S /\ old \in 1..nextId /\ old \in Attached /\ old \in Attached' /\ new # old
  BY <1>1, <1>4 DEF Attached
<1>7. /\ attached' # <<>> /\ \A c \in 1..nextId : reg'[c] = reg[c]
      /\ created \subseteq created' /\ nextId <= nextId'
      /\ \A c \in Attached' : c \in Attached \/ c = nextId + 1
  <2>1. attached' # <<>>
    BY <1>6 DEF Attached
  <2>2. CASE UNCHANGED <<vars, clockVars>> \/ Tick
    BY <1>2, <2>1, <2>2 DEF vars, Tick, registry, Attached
  <2>3. CASE Next
    <3>1. CASE /\ nextId' = nextId + 1 /\ attached' = Append(attached, nextId + 1)
               /\ \A c \in 1..nextId : reg'[c] = reg[c]
               /\ created \subseteq created'
      <4>1. nextId <= nextId'
        BY <1>2, <3>1
      <4>2. \A c \in Attached' : c \in Attached \/ c = nextId + 1
        BY <1>2, <3>1 DEF Attached
      <4> QED BY <2>1, <3>1, <4>1, <4>2
    <3>2. CASE UNCHANGED <<nextId, reg>> /\ \E U : attached' = Select(attached, U) /\ created' = created
      <4>1. PICK U : attached' = Select(attached, U)
        BY <3>2
      <4>2. \A x \in Consumers(Select(attached, U)) : x \in Consumers(attached)
        BY <1>2, SelectRising, Zenon
      <4>3. \A i \in 1..Len(attached') : \E j \in 1..Len(attached) : attached'[i] = attached[j]
        BY <4>1, <4>2 DEF Consumers
      <4> QED BY <1>2, <2>1, <3>2, <4>3 DEF Attached
    <3>3. CASE UNCHANGED <<nextId, reg>> /\ attached' = attached /\ created \subseteq created'
      BY <1>2, <2>1, <3>3 DEF Attached
    <3> QED BY <2>1, <2>3, <3>1, <3>2, <3>3, RegistryMoves
  <2> QED BY <2>2, <2>3 DEF ListingNext
<1>8. old \in T
  <2>1. reg'[old] = reg[old] /\ old \in 1..nextId'
    BY <1>2, <1>6, <1>7
  <2>2. IsPattern(reg[old]) => old \in Due /\ old \in Due'
    BY <1>6, <2>1 DEF Due
  <2>3. IsPattern(reg[old]) => t \in listed'[old]
    BY <1>3, <1>6, <1>7, <2>1, <2>2, StillListed
  <2> QED BY <1>3, <1>6, <2>1, <2>3
<1>9. /\ new \in T /\ new \in 1..nextId' /\ new <= old
      /\ \E j \in 1..Len(attached') : new = attached'[j]
  <2>1. PICK i \in 1..Len(attached') : old = attached'[i]
    BY <1>6 DEF Attached
  <2> QED BY <1>5, <1>8, <2>1
<1>10. new < old /\ new \in 1..nextId /\ new \in Attached' /\ new \in Attached
  <2>1. new \in Nat /\ old \in Nat
    BY <1>2, <1>6, <1>9
  <2>2. new < old
    BY <1>6, <1>9, <2>1
  <2>3. new \in Attached'
    BY <1>9 DEF Attached
  <2>4. new \in 1..nextId
    BY <1>2, <1>6, <1>9, <2>1, <2>2
  <2>5. new # nextId + 1
    BY <1>2, <2>4
  <2> QED BY <1>7, <2>2, <2>3, <2>4, <2>5
<1>11. new \notin S
  <2>1. PICK i \in 1..Len(attached) : new = attached[i]
    BY <1>10 DEF Attached
  <2> QED BY <1>2, <1>4, <1>6, <1>10, <2>1
<1>12. IsPattern(reg[new]) /\ t \notin listed[new] /\ t \in listed'[new] /\ reg'[new] = reg[new]
  <2>1. reg'[new] = reg[new]
    BY <1>7, <1>10
  <2> QED BY <1>3, <1>9, <1>10, <1>11, <2>1
<1>13. new \in Due /\ new \in Due'
  BY <1>10, <1>12 DEF Due
<1>14. now' \in ListingTimes(new) /\ now' > opened[new].at
  BY <1>12, <1>13, NewlyListed
<1> QED
  BY <1>1, <1>10, <1>12, <1>14

\* The active consumer of a topic stays active unless an older pattern consumer comes
\* to list the topic, at one of that consumer's refreshes, for every interval and
\* every interleaving of attaches, publishes and closes (reads, members_of).
THEOREM TakeoverByListingAlways == ListingSpec => TakeoverByListing
<1>1. /\ IInv /\ Clock /\ (IInv /\ Clock)' /\ [ListingNext]_<<vars, clockVars>>
      => [TakenOver]_<<vars, clockVars>>
  BY TakeoverStep
<1> QED
  BY <1>1, ClockInvariance, PTL DEF ListingSpec, TakeoverByListing
=============================================================================
