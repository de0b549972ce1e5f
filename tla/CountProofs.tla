----------------------------- MODULE CountProofs -----------------------------
(***************************************************************************)
(* Theorems about the router's two counts: the coordinator's, of the       *)
(* deliveries in flight, and the one Backlog promises, of the live copies  *)
(* of a log entry each subscription owes.                                  *)
(*                                                                         *)
(* The coordinator's count.  The queues are summed by Total, so the        *)
(* lemmas first say how the total follows a queue that changed or a set of *)
(* queues that grew.  A hand is then given a load, what its count says     *)
(* beyond its queues, and each operator that moves deliveries is shown to  *)
(* change the load by what it counted.  The invariant compares the two     *)
(* sides of the balance: Flight, what the coordinator counts outside the   *)
(* queues, and Owed, what the settlements and an unfinished seek account   *)
(* for.                                                                    *)
(*                                                                         *)
(* The copies.  The lemmas say how the copies of an entry follow a         *)
(* sequence, then the queues of a subscription's consumers, a hand and the *)
(* settlements.  Every step then keeps the copies each subscription has of *)
(* each entry, or moves them as an action of Backlog does: the router      *)
(* implements it.                                                          *)
(***************************************************************************)
EXTENDS RouterProofs, RouterBacklog

-----------------------------------------------------------------------------
(* How the total of the queues changes *)

\* One queue changed: the total changes by what that queue did.
LEMMA TotalUpdate ==
  ASSUME NEW T, NEW q \in [Ids -> Seq(T)], NEW p \in [Ids -> Seq(T)], NEW c \in Ids,
         \A x \in Ids : x # c => p[x] = q[x]
  PROVE  /\ Total(q) \in Nat
         /\ Total(p) = Total(q) - Len(q[c]) + Len(p[c])
<1>1. MaxConsumers \in Nat /\ p \in [Ids -> Seq(T)] /\ Ids = 1..MaxConsumers
  BY RouterAssumption DEF Ids
<1>2. PICK f : /\ f[0] = 0
               /\ \A x \in Ids : f[x] = f[x - 1] + Len(q[x])
               /\ \A x \in 0..MaxConsumers : f[x] \in Nat
               /\ Total(q) = f[MaxConsumers]
  BY <1>1, TotalFold
<1>3. PICK e : /\ e[0] = 0
               /\ \A x \in Ids : e[x] = e[x - 1] + Len(p[x])
               /\ \A x \in 0..MaxConsumers : e[x] \in Nat
               /\ Total(p) = e[MaxConsumers]
  <2> QED BY <1>1, TotalFold
<1> DEFINE P == {n \in 0..MaxConsumers :
                   e[n] = f[n] + IF c <= n THEN Len(p[c]) - Len(q[c]) ELSE 0}
<1>4. 0 \in P
  BY <1>1, <1>2, <1>3
<1>5. ASSUME NEW n \in 0..(MaxConsumers - 1), n \in P PROVE n + 1 \in P
  <2>1. n + 1 \in Ids /\ n + 1 \in 0..MaxConsumers /\ n \in 0..MaxConsumers
        /\ n + 1 - 1 = n /\ c \in Nat
    BY <1>1
  <2>2. f[n + 1] = f[n] + Len(q[n + 1]) /\ e[n + 1] = e[n] + Len(p[n + 1])
        /\ f[n] \in Nat /\ e[n] \in Nat /\ Len(q[n + 1]) \in Nat /\ Len(q[c]) \in Nat
        /\ Len(p[c]) \in Nat
    BY <1>1, <1>2, <1>3, <2>1
  <2>3. Len(p[n + 1]) = IF n + 1 = c THEN Len(p[c]) ELSE Len(q[n + 1])
    BY <2>1
  <2>4. e[n] = f[n] + IF c <= n THEN Len(p[c]) - Len(q[c]) ELSE 0
    BY <1>5
  <2>5. e[n + 1] = f[n + 1] + IF c <= n + 1 THEN Len(p[c]) - Len(q[c]) ELSE 0
    <3>1. CASE n + 1 = c
      BY <2>1, <2>2, <2>3, <2>4, <3>1
    <3>2. CASE n + 1 # c
      BY <2>1, <2>2, <2>3, <2>4, <3>2
    <3> QED BY <3>1, <3>2
  <2> QED BY <2>1, <2>5
<1>6. 0..MaxConsumers \subseteq P
  <2> HIDE DEF P
  <2> QED BY <1>1, <1>4, <1>5, UpTo
<1>7. MaxConsumers \in P /\ c <= MaxConsumers
  BY <1>1, <1>6
<1>8. Total(p) = Total(q) + (Len(p[c]) - Len(q[c])) /\ Total(q) \in Nat
  BY <1>1, <1>2, <1>3, <1>7
<1> QED
  BY <1>8

\* The router's queues q become p, and only that of consumer c differs.
OneQueue(q, p, c) ==
  /\ q \in [Ids -> Seq(Delivery)]
  /\ p \in [Ids -> Seq(Delivery)]
  /\ c \in Ids
  /\ \A x \in Ids : x # c => p[x] = q[x]

\* The same of the router's queues: the total follows the queue that changed.
LEMMA QueueUpdate ==
  ASSUME NEW q, NEW p, NEW c, OneQueue(q, p, c)
  PROVE  /\ Total(q) \in Nat /\ Total(p) \in Nat
         /\ Len(p[c]) \in Nat /\ Len(q[c]) \in Nat
         /\ Total(p) + Len(q[c]) = Total(q) + Len(p[c])
<1>1. Len(p[c]) \in Nat /\ Len(q[c]) \in Nat
  BY DEF OneQueue
<1>2. Total(q) \in Nat /\ Total(p) = Total(q) - Len(q[c]) + Len(p[c])
  BY TotalUpdate DEF OneQueue
<1>3. Total(p) \in Nat
  BY TotalUpdate DEF OneQueue
<1> DEFINE a == Total(q)
           b == Len(q[c])
           m == Total(p)
           n == Len(p[c])
<1>4. a \in Nat /\ b \in Nat /\ m \in Nat /\ n \in Nat /\ m = a - b + n
  BY <1>1, <1>2, <1>3
<1>5. m + b = a + n
  <2> HIDE DEF a, b, m, n
  <2> QED BY <1>4
<1> QED
  BY <1>4, <1>5, Zenon

\* The total is a number.
LEMMA TotalNat ==
  ASSUME NEW T, NEW q \in [Ids -> Seq(T)]
  PROVE  Total(q) \in Nat
BY TotalFold, RouterAssumption

\* Something is in a queue only when something is in the total.
LEMMA TotalAtLeast ==
  ASSUME NEW T, NEW q \in [Ids -> Seq(T)], NEW c \in Ids
  PROVE  Len(q[c]) <= Total(q)
<1>1. <<>> \in Seq(T)
  OBVIOUS
<1> DEFINE p == [q EXCEPT ![c] = <<>>]
<1>2. p \in [Ids -> Seq(T)]
  BY <1>1
<1>3. Total(p) \in Nat
  <2> HIDE DEF p
  <2> QED BY <1>2, TotalUpdate
<1>4. Total(p) = Total(q) - Len(q[c]) + Len(p[c]) /\ Total(q) \in Nat
  <2>1. \A x \in Ids : x # c => p[x] = q[x]
    OBVIOUS
  <2> HIDE DEF p
  <2> QED BY <1>2, <2>1, TotalUpdate
<1>6. p[c] = <<>>
  OBVIOUS
<1>5. Len(q[c]) \in Nat
  OBVIOUS
<1> HIDE DEF p
<1> QED
  BY <1>3, <1>4, <1>5, <1>6

\* The queues of S are one longer in p than in q, the others as long.
OneMore(q, p, S) ==
  \A c \in Ids : Len(p[c]) = IF c \in S THEN Len(q[c]) + 1 ELSE Len(q[c])

\* The queues of S get one delivery each.
LEMMA TotalGrown ==
  ASSUME NEW T, NEW q \in [Ids -> Seq(T)], NEW p \in [Ids -> Seq(T)],
         NEW S \in SUBSET Ids, OneMore(q, p, S)
  PROVE  /\ Total(q) \in Nat
         /\ Total(p) = Total(q) + Cardinality(S)
<1>1. MaxConsumers \in Nat /\ p \in [Ids -> Seq(T)] /\ Ids = 1..MaxConsumers
  BY RouterAssumption DEF Ids
<1>2. PICK f : /\ f[0] = 0
               /\ \A x \in Ids : f[x] = f[x - 1] + Len(q[x])
               /\ \A x \in 0..MaxConsumers : f[x] \in Nat
               /\ Total(q) = f[MaxConsumers]
  BY <1>1, TotalFold
<1>3. PICK e : /\ e[0] = 0
               /\ \A x \in Ids : e[x] = e[x - 1] + Len(p[x])
               /\ \A x \in 0..MaxConsumers : e[x] \in Nat
               /\ Total(p) = e[MaxConsumers]
  <2> QED BY <1>1, TotalFold
<1> DEFINE Upto(n) == S \cap (1..n)
           P == {n \in 0..MaxConsumers : e[n] = f[n] + Cardinality(Upto(n))}
<1>4. 0 \in P
  <2>1. Upto(0) = {}
    OBVIOUS
  <2> QED BY <1>1, <1>2, <1>3, <2>1, FS_EmptySet
<1>5. ASSUME NEW n \in 0..(MaxConsumers - 1), n \in P PROVE n + 1 \in P
  <2>1. n + 1 \in Ids /\ n + 1 \in 0..MaxConsumers /\ n \in 0..MaxConsumers
        /\ n + 1 - 1 = n
    BY <1>1
  <2>2. f[n + 1] = f[n] + Len(q[n + 1]) /\ e[n + 1] = e[n] + Len(p[n + 1])
        /\ f[n] \in Nat /\ e[n] \in Nat /\ Len(q[n + 1]) \in Nat
    BY <1>1, <1>2, <1>3, <2>1
  <2>3. Len(p[n + 1]) = IF n + 1 \in S THEN Len(q[n + 1]) + 1 ELSE Len(q[n + 1])
    BY <2>1 DEF OneMore
  <2>4. e[n] = f[n] + Cardinality(Upto(n))
    BY <1>5
  <2>5. IsFiniteSet(1..n) /\ Upto(n) \in SUBSET (1..n)
    BY <2>1, FS_Interval
  <2>6. IsFiniteSet(Upto(n))
    <3> HIDE DEF Upto
    <3> QED BY <2>5, FS_Subset
  <2>7. Cardinality(Upto(n)) \in Nat
    <3> HIDE DEF Upto
    <3> QED BY <2>6, FS_CardinalityType
  <2>8. n + 1 \notin Upto(n)
    BY <2>1
  <2>9. Cardinality(Upto(n + 1)) = IF n + 1 \in S THEN Cardinality(Upto(n)) + 1
                                                 ELSE Cardinality(Upto(n))
    <3>1. CASE n + 1 \in S
      <4>1. Upto(n + 1) = Upto(n) \cup {n + 1}
        BY <2>1, <3>1
      <4> HIDE DEF Upto
      <4> QED BY <2>6, <2>8, <3>1, <4>1, FS_AddElement
    <3>2. CASE n + 1 \notin S
      <4>1. Upto(n + 1) = Upto(n)
        BY <2>1, <3>2
      <4> QED BY <3>2, <4>1
    <3> QED BY <3>1, <3>2
  <2> HIDE DEF Upto
  <2>10. e[n + 1] = f[n + 1] + Cardinality(Upto(n + 1))
    <3>1. CASE n + 1 \in S
      <4>1. Cardinality(Upto(n + 1)) = Cardinality(Upto(n)) + 1
        BY <2>9, <3>1
      <4>2. Len(p[n + 1]) = Len(q[n + 1]) + 1
        BY <2>3, <3>1
      <4>3. \A a, b, x \in Nat : (a + x) + (b + 1) = (a + b) + (x + 1)
        OBVIOUS
      <4>4. e[n + 1] = (f[n] + Cardinality(Upto(n))) + (Len(q[n + 1]) + 1)
        BY <2>2, <2>4, <4>2
      <4>5. e[n + 1] = (f[n] + Len(q[n + 1])) + (Cardinality(Upto(n)) + 1)
        BY <2>2, <2>7, <4>3, <4>4
      <4> QED BY <2>2, <4>1, <4>5
    <3>2. CASE n + 1 \notin S
      <4>1. Cardinality(Upto(n + 1)) = Cardinality(Upto(n))
        BY <2>9, <3>2
      <4>2. Len(p[n + 1]) = Len(q[n + 1])
        BY <2>3, <3>2
      <4> QED BY <2>2, <2>4, <2>7, <4>1, <4>2
    <3> QED BY <3>1, <3>2
  <2> QED BY <2>1, <2>10
<1>6. 0..MaxConsumers \subseteq P
  <2> HIDE DEF P
  <2> QED BY <1>1, <1>4, <1>5, UpTo
<1>7. Upto(MaxConsumers) = S
  BY <1>1
<1>8. e[MaxConsumers] = f[MaxConsumers] + Cardinality(Upto(MaxConsumers))
  <2> HIDE DEF Upto
  <2> QED BY <1>1, <1>6
<1> HIDE DEF Upto
<1>9. Total(p) = Total(q) + Cardinality(S) /\ Total(q) \in Nat
  BY <1>1, <1>2, <1>3, <1>7, <1>8
<1> QED
  BY <1>9

\* The router's queues q become p, those of S by one delivery d each.
Grown(q, p, S, d) ==
  /\ q \in [Ids -> Seq(Delivery)]
  /\ S \in SUBSET Ids
  /\ d \in Delivery
  /\ p = [c \in Ids |-> IF c \in S THEN Append(q[c], d) ELSE q[c]]

\* The same of the router's queues.
LEMMA GrownTotal ==
  ASSUME NEW q, NEW p, NEW S, NEW d, Grown(q, p, S, d)
  PROVE  Total(q) \in Nat /\ Total(p) = Total(q) + Cardinality(S)
<1>1. ASSUME NEW c \in Ids
      PROVE  /\ p[c] \in Seq(Delivery)
             /\ Len(p[c]) = IF c \in S THEN Len(q[c]) + 1 ELSE Len(q[c])
  <2>1. q[c] \in Seq(Delivery) /\ p[c] = (IF c \in S THEN Append(q[c], d) ELSE q[c])
        /\ d \in Delivery
    BY DEF Grown
  <2> QED BY <2>1
<1>2. p = [c \in Ids |-> p[c]]
  BY DEF Grown
<1>3. p \in [Ids -> Seq(Delivery)] /\ q \in [Ids -> Seq(Delivery)] /\ S \in SUBSET Ids
  BY <1>1, <1>2 DEF Grown
<1>4. OneMore(q, p, S)
  BY <1>1 DEF OneMore
<1> QED
  BY <1>3, <1>4, TotalGrown

-----------------------------------------------------------------------------
(* Moving deliveries *)

\* What the count says beyond the deliveries queued in a hand.
Load(h) == h.inflight - Total(h.queue)

\* Nothing is queued for a consumer that is still to attach.
Unopened(q) == \A c \in Ids : c > nextId => q[c] = <<>>

\* The hands that moving deliveries leaves behind.
AptHand(ids) == {h \in TidyHand(ids) : Unopened(h.queue)}

\* Queuing a delivery on a member is one more in the queues, uncounted (enqueue).
LEMMA ShareLoad ==
  ASSUME TypeOK, NEW ids, NEW h \in AptHand(ids), NEW s \in Names,
         NEW sharing \in Sharings, NEW M \in Seq(1..nextId), M # <<>>,
         NEW d, Logged(d)
  PROVE  LET e == Share(h, s, sharing, M, d)
         IN  /\ e \in AptHand(ids) /\ e.inflight = h.inflight
             /\ Total(e.queue) = Total(h.queue) + 1
<1> DEFINE c == Choose(sharing, M, KeyOf(d), h.rotation[s])
           q == Append(h.queue[c], d)
           e == Share(h, s, sharing, M, d)
<1>1. h \in TidyHand(ids) /\ Unopened(h.queue)
  BY DEF AptHand
<1>2. e \in TidyHand(ids) /\ e.inflight = h.inflight
  BY <1>1, ShareIn
<1>3. KeyOf(d) \in Keys
  <2>1. log[d.topic] \in Seq(LogEntry) /\ d.seq \in 1..Len(log[d.topic])
    BY DEF TypeOK, Logged, Delivery
  <2>2. log[d.topic][d.seq] \in LogEntry
    BY <2>1
  <2> QED BY <2>2 DEF KeyOf, LogEntry
<1>4. h.rotation[s] \in Nat /\ h.queue \in [Ids -> Seq(Delivery)] /\ d \in Delivery
  BY <1>1 DEF TidyHand, Logged
<1>5. c \in 1..nextId /\ c \in Ids
  <2>1. nextId \in Nat /\ 1..nextId \subseteq Ids
    BY RouterAssumption DEF TypeOK, Ids
  <2>2. c \in 1..nextId
    BY <1>3, <1>4, <2>1, ChooseIn
  <2> QED BY <2>1, <2>2
<1>6. e.queue = [h.queue EXCEPT ![c] = q]
  BY <1>1, <1>4, <1>5 DEF Share, TidyHand
<1>7. q \in Seq(Delivery) /\ Len(q) = Len(h.queue[c]) + 1 /\ Len(h.queue[c]) \in Nat
  BY <1>4, <1>5
<1> HIDE DEF e, q, c
<1>8. Total(e.queue) = Total(h.queue) + 1
  <2>1. OneQueue(h.queue, e.queue, c) /\ e.queue[c] = q
    BY <1>4, <1>5, <1>6, <1>7 DEF OneQueue
  <2> DEFINE b == Total(h.queue)
             a == Total(e.queue)
             n == Len(h.queue[c])
             m == Len(q)
  <2>2. a \in Nat /\ b \in Nat /\ n \in Nat /\ m = n + 1 /\ a + n = b + m
    BY <1>7, <2>1, QueueUpdate, Zenon
  <2>3. a = b + 1
    <3> HIDE DEF a, b, m, n
    <3> QED BY <2>2
  <2> QED BY <2>3
<1>9. Unopened(e.queue)
  <2>1. nextId \in Nat
    BY RouterAssumption DEF TypeOK
  <2>2. \A x \in Ids : x > nextId => x # c
    BY <1>5, <2>1 DEF Ids
  <2> QED BY <1>1, <1>4, <1>6, <2>2 DEF Unopened
<1> QED
  BY <1>2, <1>8, <1>9 DEF AptHand, e

\* Handing a delivery back counts it once, in a queue, or not at all, parked (hand_back).
LEMMA HandBackLoad ==
  ASSUME TypeOK, NEW ids \in Seq(1..nextId), NEW h \in AptHand(ids),
         NEW r \in Registrations, NEW d \in LoggedSet, NEW counted \in BOOLEAN
  PROVE  LET e == HandBack(h, ids, r, d, counted)
         IN  e \in AptHand(ids) /\ Load(e) = Load(h) - (IF counted THEN 1 ELSE 0)
<1> DEFINE M == MembersOf(ids, listed, r.name, d.topic)
           e == HandBack(h, ids, r, d, counted)
<1>1. r.name \in Names /\ r.sharing \in Sharings
  BY RouterAssumption DEF Registration
<1>2. M \in Seq(1..nextId)
  BY MembersProps
<1>3. /\ h \in TidyHand(ids) /\ Unopened(h.queue) /\ Logged(d)
      /\ h.inflight \in Int /\ h.queue \in [Ids -> Seq(Delivery)]
  BY DEF AptHand, TidyHand, LoggedSet
<1>4. e \in TidyHand(ids)
  BY <1>3, HandBackIn
<1>5. Total(h.queue) \in Nat
  BY <1>3, TotalNat
<1>6. CASE M = <<>>
  <2> DEFINE p == Park(h, r.name, d)
  <2>1. p \in TidyHand(ids) /\ p.inflight = h.inflight
    BY <1>1, <1>3, <1>6, ParkIn
  <2>2. p.queue = h.queue
    BY <1>3 DEF Park, TidyHand
  <2>3. e = [p EXCEPT !.inflight = IF counted THEN p.inflight - 1 ELSE p.inflight]
    BY <1>6 DEF HandBack
  <2> HIDE DEF p, M, e
  <2>4. e.queue = h.queue /\ e.inflight = IF counted THEN h.inflight - 1 ELSE h.inflight
    BY <2>1, <2>2, <2>3 DEF TidyHand
  <2>5. Load(e) = Load(h) - (IF counted THEN 1 ELSE 0)
    BY <1>3, <1>5, <2>4 DEF Load
  <2>6. e \in AptHand(ids)
    BY <1>3, <1>4, <2>4 DEF AptHand
  <2> QED BY <2>5, <2>6 DEF e
<1>7. CASE M # <<>>
  <2> DEFINE p == Share(h, r.name, r.sharing, M, d)
  <2>1. /\ p \in AptHand(ids) /\ p.inflight = h.inflight
        /\ Total(p.queue) = Total(h.queue) + 1
    <3> HIDE DEF M
    <3> QED BY <1>1, <1>2, <1>3, <1>7, ShareLoad
  <2>2. e = [p EXCEPT !.inflight = IF counted THEN p.inflight ELSE p.inflight + 1]
    BY <1>7 DEF HandBack
  <2> HIDE DEF p, M, e
  <2>3. e.queue = p.queue /\ e.inflight = IF counted THEN h.inflight ELSE h.inflight + 1
    BY <2>1, <2>2 DEF AptHand, TidyHand
  <2>4. Load(e) = Load(h) - (IF counted THEN 1 ELSE 0)
    <3>1. Total(e.queue) = Total(h.queue) + 1
      BY <2>1, <2>3
    <3>2. CASE counted = TRUE
      BY <1>3, <1>5, <2>3, <3>1, <3>2 DEF Load
    <3>3. CASE counted = FALSE
      BY <1>3, <1>5, <2>3, <3>1, <3>3 DEF Load
    <3> QED BY <3>2, <3>3
  <2>5. e \in AptHand(ids)
    BY <1>4, <2>1, <2>3 DEF AptHand
  <2> QED BY <2>4, <2>5 DEF e
<1> QED
  BY <1>6, <1>7

\* Replaying one counts it where it is queued, and leaves the load (seek).
LEMMA ReplayLoad ==
  ASSUME TypeOK, NEW h \in AptHand(attached), NEW r \in Registrations,
         NEW d \in LoggedSet
  PROVE  Replay(h, r, d) \in AptHand(attached) /\ Load(Replay(h, r, d)) = Load(h)
<1> DEFINE M == MembersOf(attached, listed, r.name, d.topic)
           e == Replay(h, r, d)
           p == Share(h, r.name, r.sharing, M, d)
<1>1. r.name \in Names /\ r.sharing \in Sharings
  BY RouterAssumption DEF Registration
<1>2. M \in Seq(1..nextId)
  BY MembersProps DEF TypeOK
<1>3. /\ h \in TidyHand(attached) /\ Logged(d)
      /\ h.inflight \in Int /\ h.queue \in [Ids -> Seq(Delivery)]
  BY DEF AptHand, TidyHand, LoggedSet
<1>4. e \in TidyHand(attached)
  BY <1>3, ReplayIn
<1>5. Total(h.queue) \in Nat
  BY <1>3, TotalNat
<1>6. CASE M = <<>>
  BY <1>6 DEF Replay
<1>7. CASE M # <<>>
  <2>1. /\ p \in AptHand(attached) /\ p.inflight = h.inflight
        /\ Total(p.queue) = Total(h.queue) + 1
    <3> HIDE DEF M
    <3> QED BY <1>1, <1>2, <1>3, <1>7, ShareLoad
  <2>2. e = [p EXCEPT !.inflight = p.inflight + 1]
    BY <1>7 DEF Replay
  <2> HIDE DEF p, M, e
  <2>3. e.queue = p.queue /\ e.inflight = h.inflight + 1
    BY <2>1, <2>2 DEF AptHand, TidyHand
  <2>4. Load(e) = Load(h)
    BY <1>3, <1>5, <2>1, <2>3 DEF Load
  <2>5. e \in AptHand(attached)
    BY <1>4, <2>1, <2>3 DEF AptHand
  <2> QED BY <2>4, <2>5 DEF e
<1> QED
  BY <1>6, <1>7

\* The load of a hand is a number.
LEMMA LoadInt ==
  ASSUME NEW ids, NEW h \in AptHand(ids)
  PROVE  Load(h) \in Int
<1>1. h.queue \in [Ids -> Seq(Delivery)] /\ h.inflight \in Int
  BY DEF AptHand, TidyHand
<1>2. Total(h.queue) \in Nat
  BY <1>1, TotalNat
<1> QED
  BY <1>1, <1>2 DEF Load

\* Handing many back takes them off the load when they were counted before, and
\* leaves it alone when they were not (what a closing consumer had).
LEMMA HandBackAllLoad ==
  ASSUME TypeOK, NEW ids \in Seq(1..nextId), NEW h \in AptHand(ids),
         NEW r \in Registrations, NEW ds \in Seq(LoggedSet), NEW counted \in BOOLEAN
  PROVE  LET e == HandBackAll(h, ids, r, ds, counted)
         IN  /\ e \in AptHand(ids)
             /\ Load(e) = Load(h) - (IF counted THEN Len(ds) ELSE 0)
<1> DEFINE N == Len(ds)
           X == AptHand(ids)
<1>1. /\ \A x \in X : \A d \in LoggedSet :
            /\ HandBack(x, ids, r, d, counted) \in X
            /\ Load(HandBack(x, ids, r, d, counted))
                 = Load(x) - (IF counted THEN 1 ELSE 0)
  BY HandBackLoad
<1>2. N \in Nat /\ \A n \in 1..N : ds[n] \in LoggedSet
  <2> HIDE DEF LoggedSet
  <2> QED OBVIOUS
<1>3. h \in X
  OBVIOUS
<1> HIDE DEF X
<1>4. PICK f : /\ f[0] = h
               /\ \A n \in 1..N : f[n] = HandBack(f[n - 1], ids, r, ds[n], counted)
               /\ \A n \in 0..N : f[n] \in X
               /\ HandBackAll(h, ids, r, ds, counted) = f[N]
  BY <1>1, <1>3, HandBackFold
<1>5. \A n \in 0..N : Load(f[n]) \in Int
  BY <1>4, LoadInt DEF X
<1> DEFINE P == {n \in 0..N : Load(f[n]) = Load(h) - (IF counted THEN n ELSE 0)}
<1>6. 0 \in P
  <2>1. Load(f[0]) = Load(h) /\ Load(h) \in Int
    BY <1>2, <1>4, <1>5
  <2> QED BY <1>2, <2>1
<1>7. ASSUME NEW n \in 0..(N - 1), n \in P PROVE n + 1 \in P
  <2>1. /\ n + 1 \in 1..N /\ n + 1 \in 0..N /\ n \in 0..N /\ n + 1 - 1 = n
        /\ 0 \in 0..N /\ n \in Nat
    BY <1>2
  <2>2. Load(f[n + 1]) = Load(f[n]) - (IF counted THEN 1 ELSE 0)
    BY <1>1, <1>2, <1>4, <2>1
  <2>3. Load(f[n]) \in Int /\ Load(h) \in Int
    BY <1>4, <1>5, <2>1
  <2>4. Load(f[n]) = Load(h) - (IF counted THEN n ELSE 0)
    BY <1>7
  <2>5. Load(f[n + 1]) = Load(h) - (IF counted THEN n + 1 ELSE 0)
    BY <2>1, <2>2, <2>3, <2>4
  <2> QED BY <2>1, <2>5
<1>8. N \in P
  <2> HIDE DEF P, N
  <2>1. 0..N \subseteq P
    BY <1>2, <1>6, <1>7, UpTo
  <2> QED BY <1>2, <2>1
<1>9. f[N] \in X
  BY <1>2, <1>4
<1> QED
  BY <1>4, <1>8, <1>9 DEF X

\* Replaying many leaves the load alone (seek).
LEMMA ReplayAllLoad ==
  ASSUME TypeOK, NEW h \in AptHand(attached), NEW r \in Registrations,
         NEW ds \in Seq(LoggedSet)
  PROVE  LET e == ReplayAll(h, r, ds)
         IN  e \in AptHand(attached) /\ Load(e) = Load(h)
<1> DEFINE X == {x \in AptHand(attached) : Load(x) = Load(h)}
<1>1. \A x \in X : \A d \in LoggedSet : Replay(x, r, d) \in X
  BY ReplayLoad
<1>2. h \in X
  OBVIOUS
<1>3. ReplayAll(h, r, ds) \in X
  <2> HIDE DEF X
  <2> QED BY <1>1, <1>2, ReplayAllIn
<1> QED
  BY <1>3

-----------------------------------------------------------------------------
(* The two sides of the balance *)

\* What is counted beyond the queued deliveries, and what explains it.
Flight == inflight - Total(queue)
Counted == {m \in Slots : settle[m].counted}
Pending == Doing({"count", "recount"})
Owed == Cardinality(Counted) - Cardinality(Pending) + swap

\* A handler's settlement is counted until the handler is done with it.
Held == \A m \in Slots : settle[m].duty \in {"handle", "count"} => settle[m].counted

CInv == IInv /\ Balanced /\ Held /\ Unopened(queue)

\* Both sides are numbers, and the balance is that they are equal.
LEMMA Sides ==
  ASSUME TypeOK
  PROVE  /\ Flight \in Int /\ Owed \in Int
         /\ IsFiniteSet(Counted) /\ IsFiniteSet(Pending)
         /\ Cardinality(Counted) \in Nat /\ Cardinality(Pending) \in Nat
         /\ Total(queue) \in Nat
         /\ Balanced <=> (up => Flight = Owed)
<1>1. Counted \subseteq Slots /\ Pending \subseteq Slots
  BY DEF Counted, Pending, Doing
<1>2. IsFiniteSet(Counted) /\ IsFiniteSet(Pending)
  BY <1>1, FS_Subset, RouterAssumption
<1>3. Cardinality(Counted) \in Nat /\ Cardinality(Pending) \in Nat
  BY <1>2, FS_CardinalityType
<1>4. Total(queue) \in Nat
  BY TotalNat DEF TypeOK
<1>5. inflight \in Int /\ swap \in Int
  BY DEF TypeOK
<1>6. Flight \in Int /\ Owed \in Int
  BY <1>3, <1>4, <1>5 DEF Flight, Owed
<1>7. Balanced <=> (up => Flight = Owed)
  <2>1. Balanced <=> (up => inflight = Total(queue) + Cardinality(Counted)
                                        - Cardinality(Pending) + swap)
    BY DEF Balanced, Counted, Pending
  <2> QED BY <1>3, <1>4, <1>5, <2>1 DEF Flight, Owed
<1> QED
  BY <1>2, <1>3, <1>4, <1>6, <1>7

\* The balance survives a step that moves both sides by the same amount.
LEMMA BalanceMoves ==
  ASSUME TypeOK, TypeOK', Balanced, up' => up, NEW n \in Int,
         Flight' = Flight + n, Owed' = Owed + n
  PROVE  Balanced'
<1>1. Flight \in Int /\ Owed \in Int /\ (up => Flight = Owed)
  BY Sides
<1>2. Balanced' <=> (up' => Flight' = Owed')
  <2>1. Counted' \subseteq Slots /\ Pending' \subseteq Slots
    BY DEF Counted, Pending, Doing
  <2>2. Cardinality(Counted') \in Nat /\ Cardinality(Pending') \in Nat
    BY <2>1, FS_Subset, FS_CardinalityType, RouterAssumption
  <2>3. Total(queue') \in Nat /\ inflight' \in Int /\ swap' \in Int
    BY TotalNat DEF TypeOK
  <2>4. Balanced' <=> (up' => inflight' = Total(queue') + Cardinality(Counted')
                                           - Cardinality(Pending') + swap')
    BY DEF Balanced, Counted, Pending
  <2> QED BY <2>2, <2>3, <2>4 DEF Flight, Owed
<1> QED
  BY <1>1, <1>2

One(b) == IF b THEN 1 ELSE 0

\* Two sets of settlements that differ in one settlement at most.
LEMMA OneSlot ==
  ASSUME NEW A, NEW B, A \subseteq Slots, B \subseteq Slots, NEW m \in Slots,
         \A x \in Slots : x # m => (x \in A <=> x \in B)
  PROVE  /\ Cardinality(A) \in Nat /\ Cardinality(B) \in Nat
         /\ Cardinality(B) = Cardinality(A) + (One(m \in B) - One(m \in A))
<1>1. IsFiniteSet(A) /\ IsFiniteSet(B)
  BY FS_Subset, RouterAssumption
<1>2. Cardinality(A) \in Nat /\ Cardinality(B) \in Nat
  BY <1>1, FS_CardinalityType
<1>3. CASE m \in A /\ m \notin B
  <2>1. A = B \cup {m}
    BY <1>3
  <2>2. Cardinality(A) = Cardinality(B) + 1
    BY <1>1, <1>3, <2>1, FS_AddElement
  <2> QED BY <1>2, <1>3, <2>2 DEF One
<1>4. CASE m \in B /\ m \notin A
  <2>1. B = A \cup {m}
    BY <1>4
  <2>2. Cardinality(B) = Cardinality(A) + 1
    BY <1>1, <1>4, <2>1, FS_AddElement
  <2> QED BY <1>2, <1>4, <2>2 DEF One
<1>5. CASE m \in A <=> m \in B
  <2>1. A = B
    BY <1>5
  <2> QED BY <1>2, <1>5, <2>1 DEF One
<1> QED
  BY <1>3, <1>4, <1>5

\* What a settlement counts for.
Weight(e) == One(e.counted) - One(e.duty \in {"count", "recount"})

\* Changing one settlement changes what is owed by the change of its weight, and
\* a seek that releases changes it by what it still has to release.
LEMMA OwedMoves ==
  ASSUME TypeOK, NEW m \in Slots, NEW e \in Settlement,
         settle' = [settle EXCEPT ![m] = e], swap' = swap
  PROVE  /\ Owed' = Owed + (Weight(e) - Weight(settle[m]))
         /\ Weight(e) \in Int /\ Weight(settle[m]) \in Int
<1>1. settle \in [Slots -> Settlement] /\ swap \in Int
  BY DEF TypeOK
<1>2. settle'[m] = e /\ \A x \in Slots : x # m => settle'[x] = settle[x]
  BY <1>1
<1> DEFINE A == Counted
           B == Counted'
           C == Pending
           D == Pending'
<1>3. /\ A \subseteq Slots /\ B \subseteq Slots /\ C \subseteq Slots /\ D \subseteq Slots
      /\ \A x \in Slots : x # m => (x \in A <=> x \in B) /\ (x \in C <=> x \in D)
      /\ m \in A <=> settle[m].counted
      /\ m \in B <=> e.counted
      /\ m \in C <=> settle[m].duty \in {"count", "recount"}
      /\ m \in D <=> e.duty \in {"count", "recount"}
  BY <1>2 DEF Counted, Pending, Doing
<1>4. Owed = Cardinality(A) - Cardinality(C) + swap
      /\ Owed' = Cardinality(B) - Cardinality(D) + swap
  BY DEF Owed
<1> HIDE DEF A, B, C, D
<1>5. /\ Cardinality(A) \in Nat /\ Cardinality(B) \in Nat
      /\ Cardinality(B) = Cardinality(A) + (One(m \in B) - One(m \in A))
  BY <1>3, OneSlot
<1>6. /\ Cardinality(C) \in Nat /\ Cardinality(D) \in Nat
      /\ Cardinality(D) = Cardinality(C) + (One(m \in D) - One(m \in C))
  BY <1>3, OneSlot
<1>7. /\ Weight(e) = One(m \in B) - One(m \in D)
      /\ Weight(settle[m]) = One(m \in A) - One(m \in C)
  BY <1>3 DEF Weight, One
<1>8. /\ One(m \in A) \in Int /\ One(m \in B) \in Int
      /\ One(m \in C) \in Int /\ One(m \in D) \in Int
  BY DEF One
<1> DEFINE a == Cardinality(A)
           b == Cardinality(B)
           c == Cardinality(C)
           d == Cardinality(D)
           i == One(m \in A)
           j == One(m \in B)
           k == One(m \in C)
           n == One(m \in D)
           u == Owed
           v == Owed'
           w == Weight(settle[m])
           z == Weight(e)
<1>9. /\ a \in Nat /\ b \in Nat /\ c \in Nat /\ d \in Nat /\ swap \in Int
      /\ i \in Int /\ j \in Int /\ k \in Int /\ n \in Int
      /\ b = a + (j - i) /\ d = c + (n - k) /\ z = j - n /\ w = i - k
      /\ u = a - c + swap /\ v = b - d + swap
  BY <1>1, <1>4, <1>5, <1>6, <1>7, <1>8, Zenon
<1>10. v = u + (z - w) /\ z \in Int /\ w \in Int
  <2> HIDE DEF a, b, c, d, i, j, k, n, u, v, w, z
  <2> QED BY <1>9
<1> QED
  BY <1>10, Zenon

\* A settlement that becomes something weighs what its new duty and its count say.
LEMMA BecomesMoves ==
  ASSUME TypeOK, NEW m \in Slots, NEW duty \in Duties, NEW counted \in BOOLEAN,
         Becomes(m, duty, counted), swap' = swap
  PROVE  /\ Owed' = Owed + ((One(counted) - One(duty \in {"count", "recount"}))
                              - Weight(settle[m]))
         /\ \A x \in Slots : x # m => settle'[x] = settle[x]
         /\ settle'[m].duty = duty /\ settle'[m].counted = counted
<1> DEFINE e == IF duty = "none" /\ ~counted THEN Idle
                ELSE [duty |-> duty, id |-> settle[m].id, counted |-> counted,
                      d |-> IF duty = "none" THEN None ELSE settle[m].d]
<1>1. settle \in [Slots -> Settlement] /\ settle[m] \in Settlement
  BY DEF TypeOK
<1>2. e \in Settlement /\ e.duty = duty /\ e.counted = counted
  BY <1>1 DEF Settlement, Idle, Duties
<1>3. settle' = [settle EXCEPT ![m] = e]
  BY DEF Becomes
<1> HIDE DEF e
<1>4. Owed' = Owed + (Weight(e) - Weight(settle[m]))
  BY <1>2, <1>3, OwedMoves
<1>5. Weight(e) = One(counted) - One(duty \in {"count", "recount"})
  BY <1>2 DEF Weight
<1>6. settle'[m] = e /\ \A x \in Slots : x # m => settle'[x] = settle[x]
  BY <1>1, <1>3
<1> QED
  BY <1>2, <1>4, <1>5, <1>6

\* What the router holds before a step is a hand whose load is the flight.
LEMMA HandIsApt ==
  ASSUME IInv, Unopened(queue)
  PROVE  Hand \in AptHand(attached) /\ Load(Hand) = Flight
BY HandIsTidy DEF AptHand, Load, Flight, Hand

\* A step that leaves a hand behind makes the flight the load of that hand.
LEMMA HandMoves ==
  ASSUME NEW ids, NEW h \in AptHand(ids), SetHand(h), nextId' = nextId
  PROVE  Flight' = Load(h) /\ Unopened(queue)'
<1>1. queue' = h.queue /\ inflight' = h.inflight
  BY DEF SetHand
<1>2. Flight' = Load(h)
  BY <1>1 DEF Flight, Load
<1>3. Unopened(h.queue)
  BY DEF AptHand
<1>4. Unopened(queue)'
  BY <1>1, <1>3 DEF Unopened
<1> QED
  BY <1>2, <1>4

-----------------------------------------------------------------------------
(* Steps of a settlement *)

\* A step that changes one settlement keeps the count when the flight moves by
\* what the settlement's weight moves by.
LEMMA SettleBalance ==
  ASSUME CInv, IInv', NEW m \in Slots, NEW duty \in Duties, NEW counted \in BOOLEAN,
         Becomes(m, duty, counted), duty \in {"handle", "count"} => counted,
         swap' = swap, up' = up, Unopened(queue)',
         Flight' = Flight + ((One(counted) - One(duty \in {"count", "recount"}))
                              - Weight(settle[m]))
  PROVE  CInv'
<1> DEFINE n == (One(counted) - One(duty \in {"count", "recount"})) - Weight(settle[m])
<1>1. /\ Owed' = Owed + n
      /\ \A x \in Slots : x # m => settle'[x] = settle[x]
      /\ settle'[m].duty = duty /\ settle'[m].counted = counted
  BY BecomesMoves DEF CInv, IInv
<1>2. Flight' = Flight + n
  OBVIOUS
<1>3. n \in Int
  BY DEF One, Weight
<1> HIDE DEF n
<1>4. Balanced'
  BY <1>1, <1>2, <1>3, BalanceMoves DEF CInv, IInv
<1>5. Held'
  BY <1>1 DEF Held, CInv
<1> QED
  BY <1>4, <1>5 DEF CInv

\* What a settlement weighs while a handler holds it.
LEMMA HandleWeight ==
  ASSUME CInv, NEW m \in Slots, settle[m].duty = "handle"
  PROVE  settle[m].counted = TRUE /\ Weight(settle[m]) = 1
<1>1. settle[m].counted /\ settle[m].counted \in BOOLEAN
  BY DEF CInv, IInv, TypeOK, Held, Settlement
<1> QED
  BY <1>1 DEF Weight, One

\* An acknowledgement takes its delivery off the count.
LEMMA AckCounts ==
  ASSUME CInv, NEW m \in Slots, Ack(m)
  PROVE  CInv'
<1>1. /\ settle[m].duty = "handle" /\ Becomes(m, "none", FALSE)
      /\ UNCHANGED <<up, nextId, queue, swap>> /\ inflight' = inflight - 1
  BY DEF Ack, registry
<1>2. Total(queue) \in Nat /\ inflight \in Int
  BY Sides DEF CInv, IInv, TypeOK
<1>3. Flight' = Flight + ((One(FALSE) - One("none" \in {"count", "recount"}))
                            - Weight(settle[m]))
  <2>1. Flight' = Flight - 1
    BY <1>1, <1>2 DEF Flight
  <2>2. Flight \in Int
    BY Sides DEF CInv, IInv
  <2>3. /\ One(FALSE) = 0 /\ One("none" \in {"count", "recount"}) = 0
        /\ Weight(settle[m]) = 1
    BY <1>1, HandleWeight DEF One
  <2>4. Flight' = Flight + ((0 - 0) - 1)
    BY <2>1, <2>2
  <2> QED BY <2>3, <2>4, Zenon
<1>4. IInv'
  BY AckStep DEF CInv
<1>5. Unopened(queue)'
  BY <1>1 DEF CInv, Unopened
<1>6. "none" \in Duties /\ ~("none" \in {"handle", "count"})
  BY DEF Duties
<1> QED
  BY <1>1, <1>3, <1>4, <1>5, <1>6, SettleBalance

\* Scheduling a delayed retry leaves the count alone.
LEMMA NackAfterCounts ==
  ASSUME CInv, NEW m \in Slots, NackAfter(m)
  PROVE  CInv'
<1>1. /\ settle[m].duty = "handle" /\ Becomes(m, "timer", TRUE)
      /\ UNCHANGED <<up, nextId, queue, swap, inflight>>
  BY DEF NackAfter, registry
<1>2. Flight \in Int
  BY Sides DEF CInv, IInv
<1>3. Flight' = Flight + ((One(TRUE) - One("timer" \in {"count", "recount"}))
                            - Weight(settle[m]))
  <2>1. Flight' = Flight
    BY <1>1 DEF Flight
  <2>2. /\ One(TRUE) = 1 /\ One("timer" \in {"count", "recount"}) = 0
        /\ Weight(settle[m]) = 1
    BY <1>1, HandleWeight DEF One
  <2>3. Flight' = Flight + ((1 - 0) - 1)
    BY <1>2, <2>1
  <2> QED BY <2>2, <2>3, Zenon
<1>4. IInv'
  BY NackAfterStep DEF CInv
<1>5. Unopened(queue)'
  BY <1>1 DEF CInv, Unopened
<1>6. "timer" \in Duties
  BY DEF Duties
<1> QED
  BY <1>1, <1>3, <1>4, <1>5, <1>6, SettleBalance

\* Counting the fresh delivery of a requeue settles what the requeue owed.
LEMMA CountCounts ==
  ASSUME CInv, NEW m \in Slots, Count(m)
  PROVE  CInv'
<1>1. /\ settle[m].duty \in {"count", "recount"}
      /\ Becomes(m, "none", settle[m].counted)
      /\ UNCHANGED <<up, nextId, queue, swap>> /\ inflight' = inflight + 1
  BY DEF Count, registry
<1>2. Total(queue) \in Nat /\ inflight \in Int /\ Flight \in Int
  BY Sides DEF CInv, IInv, TypeOK
<1>3. settle[m].counted \in BOOLEAN
  BY DEF CInv, IInv, TypeOK, Settlement
<1>4. Flight' = Flight + ((One(settle[m].counted) - One("none" \in {"count", "recount"}))
                            - Weight(settle[m]))
  <2>1. Flight' = Flight + 1
    BY <1>1, <1>2 DEF Flight
  <2>2. Weight(settle[m]) = One(settle[m].counted) - 1
    BY <1>1 DEF Weight, One
  <2>3. One("none" \in {"count", "recount"}) = 0 /\ One(settle[m].counted) \in Int
    BY DEF One
  <2> QED BY <1>2, <2>1, <2>2, <2>3
<1>5. IInv'
  BY CountStep DEF CInv
<1>6. Unopened(queue)'
  BY <1>1 DEF CInv, Unopened
<1>7. "none" \in Duties
  BY DEF Duties
<1> QED
  BY <1>1, <1>3, <1>4, <1>5, <1>6, <1>7, SettleBalance

\* A release takes the settlement off the count.
LEMMA ReleaseCounts ==
  ASSUME CInv, NEW m \in Slots, Release(m)
  PROVE  CInv'
<1>1. /\ settle[m].counted /\ settle[m].duty \in {"none", "timer", "recount"}
      /\ Becomes(m, settle[m].duty, FALSE)
      /\ UNCHANGED <<up, nextId, queue, swap>> /\ inflight' = inflight - 1
  BY DEF Release, registry
<1>2. Total(queue) \in Nat /\ inflight \in Int /\ Flight \in Int
  BY Sides DEF CInv, IInv, TypeOK
<1>3. settle[m].duty \in Duties /\ ~(settle[m].duty \in {"handle", "count"})
  BY <1>1 DEF Duties
<1> DEFINE late == settle[m].duty \in {"count", "recount"}
<1>4. Flight' = Flight + ((One(FALSE) - One(late)) - Weight(settle[m]))
  <2>1. Flight' = Flight - 1
    BY <1>1, <1>2 DEF Flight
  <2>2. Weight(settle[m]) = 1 - One(late) /\ One(late) \in Int /\ One(FALSE) = 0
    BY <1>1 DEF Weight, One
  <2> DEFINE i == Flight
             j == Flight'
             k == One(late)
             w == Weight(settle[m])
             z == One(FALSE)
  <2>3. i \in Int /\ k \in Int /\ j = i - 1 /\ w = 1 - k /\ z = 0
    BY <1>2, <2>1, <2>2, Zenon
  <2>4. j = i + ((z - k) - w)
    <3> HIDE DEF i, j, k, w, z
    <3> QED BY <2>3
  <2> QED BY <2>4, Zenon
<1>5. IInv'
  BY ReleaseStep DEF CInv
<1>6. Unopened(queue)'
  BY <1>1 DEF CInv, Unopened
<1> QED
  BY <1>1, <1>3, <1>4, <1>5, <1>6, SettleBalance

\* A poll moves a delivery from its queue to a settlement, counted all along.
LEMMA PollCounts ==
  ASSUME CInv, NEW m \in Slots, NEW c \in Ids, Poll(m, c)
  PROVE  CInv'
<1> DEFINE e == [duty |-> "handle", id |-> c, d |-> Head(queue[c]), counted |-> TRUE]
<1>1. /\ settle[m] = Idle /\ queue[c] # <<>>
      /\ settle' = [settle EXCEPT ![m] = e]
      /\ queue' = [queue EXCEPT ![c] = Tail(queue[c])]
      /\ UNCHANGED <<up, nextId, inflight, swap>>
  BY DEF Poll, registry
<1>2. /\ queue \in [Ids -> Seq(Delivery)] /\ settle \in [Slots -> Settlement]
      /\ inflight \in Int /\ TypeOK
  BY DEF CInv, IInv, TypeOK
<1>3. IInv'
  BY PollStep DEF CInv
<1>4. Flight' = Flight + 1
  <2>1. /\ Tail(queue[c]) \in Seq(Delivery) /\ Len(Tail(queue[c])) = Len(queue[c]) - 1
        /\ Len(queue[c]) \in Nat
    BY <1>1, <1>2
  <2>2. OneQueue(queue, queue', c) /\ queue'[c] = Tail(queue[c])
    BY <1>1, <1>2, <2>1 DEF OneQueue
  <2> DEFINE b == Total(queue)
             a == Total(queue')
             n == Len(queue[c])
             k == Len(queue'[c])
  <2>3. a \in Nat /\ b \in Nat /\ n \in Nat /\ k = n - 1 /\ a + n = b + k
    BY <2>1, <2>2, QueueUpdate, Zenon
  <2>4. a = b - 1 /\ a \in Int /\ b \in Int
    <3> HIDE DEF a, b, n, k
    <3> QED BY <2>3
  <2>5. Flight = inflight - b /\ Flight' = inflight - a
    BY <1>1 DEF Flight
  <2> HIDE DEF a, b, n, k
  <2> QED BY <1>2, <2>4, <2>5
<1>5. Owed' = Owed + 1
  <2>1. e \in Settlement
    BY <1>1, <1>2 DEF Settlement, Duties
  <2>2. Owed' = Owed + (Weight(e) - Weight(settle[m]))
    BY <1>1, <1>2, <2>1, OwedMoves
  <2>3. Weight(e) = 1
    BY DEF Weight, One
  <2>4. Weight(settle[m]) = 0
    BY <1>1 DEF Weight, One, Idle
  <2>5. Owed' = Owed + (1 - 0)
    BY <2>2, <2>3, <2>4, Zenon
  <2> QED BY <2>5
<1>6. Balanced'
  BY <1>1, <1>2, <1>3, <1>4, <1>5, BalanceMoves DEF CInv, IInv
<1>7. Held'
  BY <1>1, <1>2 DEF Held, CInv
<1>8. Unopened(queue)'
  BY <1>1, <1>2 DEF Unopened, CInv
<1> QED
  BY <1>3, <1>6, <1>7, <1>8 DEF CInv

\* A message dropped unsettled is handed back uncounted, when it is: its handler's
\* settlement is still counted until it is released.
LEMMA DropCounts ==
  ASSUME CInv, NEW m \in Slots, Drop(m)
  PROVE  CInv'
<1> DEFINE c == settle[m].id
           d == settle[m].d
<1>1. /\ settle[m].duty = "handle" /\ Becomes(m, "none", TRUE)
      /\ UNCHANGED <<up, nextId, swap>>
  BY DEF Drop, registry
<1>2. Flight \in Int /\ TypeOK
  BY Sides DEF CInv, IInv
<1>3. Flight' = Flight /\ Unopened(queue)'
  <2>1. CASE queue' = queue /\ inflight' = inflight
    BY <1>1, <2>1 DEF Flight, CInv, Unopened
  <2>2. CASE /\ c \in departed
             /\ SetHand(HandBack(Hand, attached, reg[c], Again(d), FALSE))
    <3>1. reg[c] \in Registrations /\ attached \in Seq(1..nextId)
      BY <1>2, <2>2, KnownConsumer DEF TypeOK
    <3>2. d \in LoggedSet
      BY <1>1, <2>2 DEF CInv, IInv, DeliveriesAreLogged, LoggedSet, Logged
    <3>3. Again(d) \in LoggedSet
      BY <3>2, AgainIn
    <3>4. Hand \in AptHand(attached) /\ Load(Hand) = Flight
      BY HandIsApt DEF CInv
    <3> DEFINE e == HandBack(Hand, attached, reg[c], Again(d), FALSE)
    <3>5. e \in AptHand(attached) /\ Load(e) = Load(Hand) - (IF FALSE THEN 1 ELSE 0)
      BY <1>2, <3>1, <3>3, <3>4, HandBackLoad
    <3>6. SetHand(e)
      BY <2>2
    <3> HIDE DEF e
    <3>7. Flight' = Load(e) /\ Unopened(queue)'
      BY <1>1, <3>5, <3>6, HandMoves
    <3> QED BY <1>2, <3>4, <3>5, <3>7
  <2>3. \/ queue' = queue /\ inflight' = inflight
        \/ c \in departed /\ SetHand(HandBack(Hand, attached, reg[c], Again(d), FALSE))
    BY DEF Drop
  <2> QED BY <2>1, <2>2, <2>3
<1>4. Flight' = Flight + ((One(TRUE) - One("none" \in {"count", "recount"}))
                            - Weight(settle[m]))
  <2>1. /\ One(TRUE) = 1 /\ One("none" \in {"count", "recount"}) = 0
        /\ Weight(settle[m]) = 1
    BY <1>1, HandleWeight DEF One
  <2>2. Flight' = Flight + ((1 - 0) - 1)
    BY <1>2, <1>3
  <2> QED BY <2>1, <2>2, Zenon
<1>5. IInv'
  BY DropStep DEF CInv
<1>6. "none" \in Duties
  BY DEF Duties
<1> QED
  BY <1>1, <1>3, <1>4, <1>5, <1>6, SettleBalance

-----------------------------------------------------------------------------
(* Appending an entry *)

\* No consumer takes an entry for two subscriptions, so as many queues grow as
\* subscriptions are served.
LEMMA TakersApart ==
  ASSUME NEW served, IsFiniteSet(served), NEW taker \in [served -> Ids],
         \A s \in served : reg[taker[s]].name = s
  PROVE  /\ {taker[s] : s \in served} \subseteq Ids
         /\ Cardinality({taker[s] : s \in served}) = Cardinality(served)
<1> DEFINE S == {taker[s] : s \in served}
<1>1. taker \in Bijection(served, S)
  <2>1. taker \in [served -> S]
    OBVIOUS
  <2>2. \A a, b \in served : taker[a] = taker[b] => a = b
    OBVIOUS
  <2>3. \A x \in S : \E a \in served : taker[a] = x
    OBVIOUS
  <2> HIDE DEF S
  <2> QED BY <2>1, <2>2, <2>3 DEF Bijection, Injection, Surjection, IsInjective
<1>2. Cardinality(S) = Cardinality(served)
  <2> HIDE DEF S
  <2> QED BY <1>1, FS_Bijection DEF ExistsBijection
<1> QED
  BY <1>2

\* An appended entry is counted once for every queue it enters (deliver).
LEMMA DeliverMoves ==
  ASSUME IInv, Unopened(queue), NEW t \in Topics, NEW k \in Keys,
         NEW o, Deliver(t, k, o), nextId' = nextId
  PROVE  Flight' = Flight /\ Unopened(queue)'
<1>0. PICK d : d = [topic |-> t, seq |-> Len(log[t]) + 1, red |-> 0]
  OBVIOUS
<1> DEFINE members == [s \in Names |-> MembersOf(attached, listed', s, t)]
           served == {s \in Names : members[s] # <<>>}
           sharing == [s \in served |-> reg[members[s][1]].sharing]
           taker == [s \in served |->
                       Choose(sharing[s], members[s], k, rotation[s])]
           S == {taker[s] : s \in served}
<1>1. /\ queue' = [c \in Ids |-> IF \E s \in served : taker[s] = c
                                  THEN Append(queue[c], d) ELSE queue[c]]
      /\ inflight' = inflight + Cardinality(served)
  BY <1>0 DEF Deliver, SubscriptionsOver
<1>2. d \in Delivery
  <2>1. Len(log[t]) \in Nat
    BY DEF IInv, TypeOK
  <2> QED BY <1>0, <2>1 DEF Delivery
<1>3. ASSUME NEW s \in served
      PROVE  taker[s] \in 1..nextId /\ reg[taker[s]].name = s
  <2> DEFINE M == MembersOf(attached, listed', s, t)
  <2>1. Choose(reg[M[1]].sharing, M, k, rotation[s]) \in 1..nextId
        /\ reg[Choose(reg[M[1]].sharing, M, k, rotation[s])].name = s
    BY TakerNamed DEF IInv
  <2>2. taker[s] = Choose(reg[M[1]].sharing, M, k, rotation[s])
    OBVIOUS
  <2> HIDE DEF M, taker, sharing, members
  <2> QED BY <2>1, <2>2, Zenon
<1>4. nextId \in Nat /\ 1..nextId \subseteq Ids /\ queue \in [Ids -> Seq(Delivery)]
      /\ inflight \in Int
  BY RouterAssumption DEF IInv, TypeOK, Ids
<1>5. IsFiniteSet(served)
  <2>1. served \subseteq Names
    OBVIOUS
  <2> HIDE DEF served
  <2> QED BY <2>1, FS_Subset, RouterAssumption
<1>6. taker \in [served -> Ids] /\ \A s \in served : reg[taker[s]].name = s
  <2>1. \A s \in served : taker[s] \in Ids /\ reg[taker[s]].name = s
    BY <1>3, <1>4
  <2>2. taker = [s \in served |-> taker[s]]
    OBVIOUS
  <2> HIDE DEF taker, served
  <2> QED BY <2>1, <2>2
<1>7. S \subseteq Ids /\ Cardinality(S) = Cardinality(served)
  <2> HIDE DEF served, taker
  <2> QED BY <1>5, <1>6, TakersApart
<1>8. queue' = [c \in Ids |-> IF c \in S THEN Append(queue[c], d) ELSE queue[c]]
  <2>1. \A c : (\E s \in served : taker[s] = c) <=> c \in S
    OBVIOUS
  <2> HIDE DEF S, served, taker
  <2> QED BY <1>1, <2>1
<1>9. S \in SUBSET (1..nextId)
  <2> HIDE DEF taker, served
  <2> QED BY <1>3
<1>10. Cardinality(served) \in Nat
  <2> HIDE DEF served
  <2> QED BY <1>5, FS_CardinalityType
<1> HIDE DEF S, served, taker, sharing, members
<1>11. Total(queue) \in Nat /\ Total(queue') = Total(queue) + Cardinality(S)
  <2>1. S \in SUBSET Ids
    BY <1>7
  <2>2. Grown(queue, queue', S, d)
    BY <1>2, <1>4, <1>8, <2>1 DEF Grown
  <2> QED BY <2>2, GrownTotal
<1>12. Flight' = Flight
  BY <1>1, <1>4, <1>7, <1>10, <1>11 DEF Flight
<1>13. Unopened(queue)'
  <2>1. \A c \in Ids : c > nextId => c \notin S
    BY <1>4, <1>9 DEF Ids
  <2> QED BY <1>8, <2>1 DEF Unopened
<1> QED
  BY <1>12, <1>13

-----------------------------------------------------------------------------
(* Steps of the broker *)

\* A step that touches no settlement keeps the count when the flight moves by what a
\* seek still holds back.
LEMMA BrokerBalance ==
  ASSUME CInv, IInv', settle' = settle, up' = up, Unopened(queue)',
         Flight' = Flight + (swap' - swap)
  PROVE  CInv'
<1>1. TypeOK /\ TypeOK' /\ swap \in Int /\ swap' \in Int
  BY DEF CInv, IInv, TypeOK
<1>2. Owed' = Owed + (swap' - swap)
  <2>1. Cardinality(Counted) \in Nat /\ Cardinality(Pending) \in Nat
    BY <1>1, Sides
  <2>2. Counted' = Counted /\ Pending' = Pending
    BY DEF Counted, Pending, Doing
  <2>3. /\ Owed = Cardinality(Counted) - Cardinality(Pending) + swap
        /\ Owed' = Cardinality(Counted) - Cardinality(Pending) + swap'
    BY <2>2 DEF Owed
  <2> QED BY <1>1, <2>1, <2>3
<1> DEFINE n == swap' - swap
<1>3. n \in Int /\ Flight' = Flight + n /\ Owed' = Owed + n
  BY <1>1, <1>2
<1> HIDE DEF n
<1>4. Balanced'
  BY <1>1, <1>3, BalanceMoves DEF CInv
<1>5. Held'
  BY DEF Held, CInv
<1> QED
  BY <1>4, <1>5 DEF CInv

\* A publish counts what it queues.
LEMMA PublishCounts ==
  ASSUME CInv, Publish
  PROVE  CInv'
<1>1. PICK t \in Topics, k \in Keys : Deliver(t, k, None)
  BY DEF Publish
<1>2. UNCHANGED <<up, nextId, settle, swap>>
  BY DEF Publish, registry
<1>3. Flight' = Flight /\ Unopened(queue)'
  BY <1>1, <1>2, DeliverMoves DEF CInv
<1>4. Flight \in Int /\ swap \in Int
  BY Sides DEF CInv, IInv, TypeOK
<1>5. IInv'
  BY PublishStep DEF CInv
<1>6. Flight' = Flight + (swap' - swap)
  BY <1>2, <1>3, <1>4
<1> QED
  BY <1>2, <1>3, <1>5, <1>6, BrokerBalance

\* A pattern consumer's listing does not count.
LEMMA RefreshCounts ==
  ASSUME CInv, Refresh
  PROVE  CInv'
<1>1. UNCHANGED <<up, nextId, queue, settle, inflight, swap>>
  BY DEF Refresh, registry
<1>2. Flight' = Flight /\ Unopened(queue)'
  BY <1>1 DEF Flight, CInv, Unopened
<1>3. Flight \in Int /\ swap \in Int
  BY Sides DEF CInv, IInv, TypeOK
<1>4. IInv'
  BY RefreshStep DEF CInv
<1>5. Flight' = Flight + (swap' - swap)
  BY <1>1, <1>2, <1>3
<1> QED
  BY <1>1, <1>2, <1>4, <1>5, BrokerBalance

\* The end of a seek releases what its beginning discarded.
LEMMA FinishSeekCounts ==
  ASSUME CInv, FinishSeek
  PROVE  CInv'
<1>1. /\ UNCHANGED <<up, nextId, queue, settle>>
      /\ inflight' = inflight - swap /\ swap' = 0
  BY DEF FinishSeek, registry
<1>2. Unopened(queue)'
  BY <1>1 DEF CInv, Unopened
<1>3. Total(queue) \in Nat /\ inflight \in Int /\ swap \in Int
  BY Sides DEF CInv, IInv, TypeOK
<1>4. IInv'
  BY FinishSeekStep DEF CInv
<1>5. Flight' = Flight + (swap' - swap)
  BY <1>1, <1>3 DEF Flight
<1> QED
  BY <1>1, <1>2, <1>4, <1>5, BrokerBalance

\* A shutdown ends what is said of the count; the queues it leaves are empty.
LEMMA ShutdownCounts ==
  ASSUME CInv, Shutdown
  PROVE  CInv'
<1>1. IInv'
  BY ShutdownStep DEF CInv
<1>2. up' = FALSE /\ settle' = settle /\ queue' = [c \in Ids |-> <<>>]
  BY DEF Shutdown
<1>3. Balanced'
  BY <1>2 DEF Balanced
<1>4. Held' /\ Unopened(queue)'
  BY <1>2 DEF Held, Unopened, CInv
<1> QED
  BY <1>1, <1>3, <1>4 DEF CInv

\* A close hands back what was queued, still counted, and what was left unsettled,
\* which no count holds any more.
LEMMA UnsubscribeCounts ==
  ASSUME CInv, NEW c \in Ids, Unsubscribe(c)
  PROVE  CInv'
<1> DEFINE rest == Ids \ {c}
           others == Select(attached, rest)
           bare == [queue EXCEPT ![c] = <<>>]
           h == [Hand EXCEPT !.queue = bare]
           fromQueue == HandBackAll(h, others, reg[c], queue[c], TRUE)
           all == HandBackAll(fromQueue, others, reg[c], AgainAll(unacked[c]), FALSE)
<1>0. TypeOK /\ IInv /\ Unopened(queue)
  BY DEF CInv, IInv
<1>1. /\ c \in Attached /\ SetHand(all)
      /\ UNCHANGED <<up, nextId, settle, swap>>
  BY DEF Unsubscribe, topicVars, Hand
<1>2. /\ others \in Seq(1..nextId)
      /\ \A i \in 1..Len(others) : \E j \in 1..Len(attached) : others[i] = attached[j]
  <2>1. attached \in Seq(1..nextId)
    BY <1>0 DEF TypeOK
  <2> HIDE DEF rest
  <2> QED BY <2>1, SelectProps
<1> HIDE DEF others, rest
<1>3. Consumers(others) \subseteq Attached
  BY <1>2 DEF Consumers, Attached
<1>4. reg[c] \in Registrations
  BY <1>0, <1>1, KnownConsumer
<1>5. queue \in [Ids -> Seq(Delivery)] /\ inflight \in Int
  BY <1>0 DEF TypeOK
<1>6. bare \in [Ids -> Seq(Delivery)] /\ Unopened(bare) /\ OneQueue(queue, bare, c)
      /\ bare[c] = <<>>
  <2>1. <<>> \in Seq(Delivery)
    OBVIOUS
  <2>2. bare \in [Ids -> Seq(Delivery)] /\ bare[c] = <<>>
        /\ \A x \in Ids : x # c => bare[x] = queue[x]
    BY <1>5, <2>1
  <2> HIDE DEF bare
  <2> QED BY <1>0, <1>5, <2>2 DEF Unopened, OneQueue
<1>7. Total(queue) \in Nat /\ Total(bare) = Total(queue) - Len(queue[c])
      /\ Len(queue[c]) \in Nat
  <2> HIDE DEF bare
  <2> DEFINE b == Total(queue)
             a == Total(bare)
             n == Len(queue[c])
             k == Len(bare[c])
  <2>1. a \in Nat /\ b \in Nat /\ n \in Nat /\ a + n = b + k
    BY <1>6, QueueUpdate, Zenon
  <2>2. k = 0
    BY <1>6
  <2>3. a = b - n
    <3> HIDE DEF a, b, n, k
    <3> QED BY <2>1, <2>2
  <2> QED BY <2>1, <2>3, Zenon
<1>8. h \in AptHand(others) /\ Load(h) = Flight + Len(queue[c])
  <2>1. Hand \in TidyHand(others)
    BY <1>0, <1>3, HandIsTidy DEF TidyHand
  <2>2. \A x \in Ids : AllLogged(bare[x])
    <3>1. AllLogged(<<>>)
      BY DEF AllLogged
    <3>2. \A x \in Ids : bare[x] = <<>> \/ bare[x] = queue[x]
      BY <1>5
    <3> HIDE DEF bare
    <3> QED BY <1>0, <3>1, <3>2 DEF IInv, DeliveriesAreLogged
  <2> HIDE DEF bare
  <2>3. h \in TidyHand(others)
    BY <1>6, <2>1, <2>2 DEF TidyHand
  <2>4. h.queue = bare /\ h.inflight = inflight
    BY DEF Hand
  <2> HIDE DEF h
  <2>5. h \in AptHand(others)
    BY <1>6, <2>3, <2>4 DEF AptHand
  <2>6. Load(h) = inflight - Total(bare)
    BY <2>4 DEF Load
  <2> QED BY <1>5, <1>7, <2>5, <2>6 DEF Flight
<1> HIDE DEF h, bare
<1>9. queue[c] \in Seq(LoggedSet) /\ AgainAll(unacked[c]) \in Seq(LoggedSet)
  BY <1>0, LoggedSeq, AgainLogged DEF IInv, TypeOK, DeliveriesAreLogged
<1>10. /\ fromQueue \in AptHand(others)
       /\ Load(fromQueue) = Load(h) - (IF TRUE THEN Len(queue[c]) ELSE 0)
  BY <1>0, <1>2, <1>4, <1>8, <1>9, HandBackAllLoad
<1> HIDE DEF fromQueue
<1>11. /\ all \in AptHand(others)
       /\ Load(all) = Load(fromQueue)
                        - (IF FALSE THEN Len(AgainAll(unacked[c])) ELSE 0)
  BY <1>0, <1>2, <1>4, <1>9, <1>10, HandBackAllLoad
<1> HIDE DEF all
<1>12. Flight' = Load(all) /\ Unopened(queue)'
  BY <1>1, <1>11, HandMoves
<1>13. Flight \in Int /\ swap \in Int
  BY <1>0, Sides DEF TypeOK
<1>14. Flight' = Flight + (swap' - swap)
  BY <1>1, <1>7, <1>8, <1>10, <1>11, <1>12, <1>13
<1>15. IInv'
  BY <1>0, UnsubscribeStep
<1> QED
  BY <1>1, <1>12, <1>14, <1>15, BrokerBalance

\* A seek counts what it replays, and still counts what it discarded until it is
\* over.
LEMMA SeekCounts ==
  ASSUME CInv, NEW c \in Ids, NEW pos, Seek(c, pos)
  PROVE  CInv'
<1> DEFINE r == reg[c]
           topics == {t \in Topics \ Volatile : Reads(listed, c, t)}
           siblings == {x \in Attached : reg[x].name = r.name /\ Overlap(reg[x], r)}
           kept == [x \in Ids |-> IF x \in siblings
                                 THEN Select(queue[x], Over(Topics \ topics))
                                 ELSE queue[x]]
           box == [topic : topics, seq : 1..MaxEntries, red : {0}]
           replay == {d \in box : d.seq \in Replays(d.topic, pos)}
           h == [Hand EXCEPT !.queue = kept]
<1>0. TypeOK /\ IInv /\ Unopened(queue)
  BY DEF CInv, IInv
<1>1. /\ c \in Attached
      /\ \E ds \in InReplayOrder(replay) : SetHand(ReplayAll(h, r, ds))
      /\ swap = 0 /\ swap' = Total(queue) - Total(kept)
      /\ UNCHANGED <<up, nextId, settle>>
  BY DEF Seek, registry, LockFree
<1>2. r \in Registrations
  BY <1>0, <1>1, KnownConsumer
<1>3. kept = [x \in Ids |-> kept[x]]
      /\ \A x \in Ids : kept[x] = queue[x] \/ \E O : kept[x] = Select(queue[x], O)
  OBVIOUS
<1>4. /\ kept \in [Ids -> Seq(Delivery)]
      /\ \A x \in Ids : AllLogged(kept[x]) /\ Len(kept[x]) <= Len(queue[x])
      /\ Total(kept) \in Nat /\ Total(queue) \in Nat
  <2> HIDE DEF kept
  <2> QED BY <1>0, <1>3, KeptLogged DEF IInv
<1> HIDE DEF kept
<1>5. Unopened(kept)
  <2> SUFFICES ASSUME NEW x \in Ids, x > nextId PROVE kept[x] = <<>>
    BY DEF Unopened
  <2>1. queue[x] = <<>>
    BY <1>0 DEF Unopened
  <2>2. kept[x] \in Seq(Delivery) /\ Len(kept[x]) <= 0
    BY <1>4, <2>1
  <2> QED BY <2>2
<1>6. h \in AptHand(attached) /\ Load(h) = inflight - Total(kept)
  <2>1. h \in TidyHand(attached)
    BY <1>0, <1>4, HandIsTidy DEF TidyHand
  <2>2. h.queue = kept /\ h.inflight = inflight
    BY DEF Hand
  <2> HIDE DEF h
  <2> QED BY <1>5, <2>1, <2>2 DEF AptHand, Load
<1> HIDE DEF replay, h
<1>7. PICK ds \in InReplayOrder(replay) : SetHand(ReplayAll(h, r, ds))
  BY <1>1
<1>8. ds \in Seq(LoggedSet)
  BY <1>0, <1>7, ReplayLogged DEF replay, box
<1> DEFINE all == ReplayAll(h, r, ds)
<1>9. all \in AptHand(attached) /\ Load(all) = Load(h)
  BY <1>0, <1>2, <1>6, <1>8, ReplayAllLoad
<1>10. SetHand(all)
  BY <1>7
<1> HIDE DEF all
<1>11. Flight' = Load(all) /\ Unopened(queue)'
  BY <1>1, <1>9, <1>10, HandMoves
<1>12. inflight \in Int
  BY <1>0 DEF TypeOK
<1>13. Flight' = Flight + (swap' - swap)
  BY <1>1, <1>4, <1>6, <1>9, <1>11, <1>12 DEF Flight
<1>14. IInv'
  BY <1>0, SeekStep
<1> QED
  BY <1>1, <1>11, <1>13, <1>14, BrokerBalance

\* A requeue that a consumer took is one delivery queued and not counted yet; one
\* that went to the dead-letter topic or was parked leaves the flight alone.
LEMMA RequeueMoves ==
  ASSUME IInv, Unopened(queue), NEW c, NEW d, Logged(d), NEW took \in BOOLEAN,
         Requeue(c, d, took), UNCHANGED <<nextId, reg>>
  PROVE  /\ Unopened(queue)'
         /\ took => Flight' = Flight - 1
         /\ ~took => Flight' = Flight
<1> DEFINE r == reg[c]
           M == MembersOf(attached, listed, r.name, d.topic)
           spent == Spent(r, Again(d))
<1>1. PICK e : e = Again(d)
  OBVIOUS
<1>2. c \in Attached \cup departed
  BY DEF Requeue
<1>3. r \in Registrations /\ r.name \in Names /\ r.sharing \in Sharings
      /\ (r.dead # None => r.dead.topic \in Topics)
  <2>1. reg[c] \in Registrations
    BY <1>2, KnownConsumer DEF IInv
  <2> QED BY <2>1, RouterAssumption DEF Registration
<1>4. d \in LoggedSet /\ e \in LoggedSet /\ Logged(e) /\ e.topic = d.topic
  <2>1. d \in LoggedSet
    BY DEF LoggedSet, Logged
  <2>2. e \in LoggedSet
    BY <1>1, <2>1, AgainIn
  <2> QED BY <1>1, <2>1, <2>2 DEF LoggedSet, Again, Logged, Delivery
<1>5. Hand \in AptHand(attached) /\ Load(Hand) = Flight /\ attached \in Seq(1..nextId)
  BY HandIsApt DEF IInv, TypeOK
<1>6. Flight \in Int
  BY Sides DEF IInv
<1>7. CASE /\ spent /\ took = FALSE
           /\ Deliver(r.dead.topic, KeyOf(d), StampOrigin(d))
  <2>1. log[d.topic] \in Seq(LogEntry) /\ d.seq \in 1..Len(log[d.topic])
    BY DEF IInv, TypeOK, Logged, Delivery
  <2>2. log[d.topic][d.seq] \in LogEntry
    BY <2>1
  <2>3. KeyOf(d) \in Keys /\ r.dead.topic \in Topics
    BY <1>3, <1>7, <2>2 DEF KeyOf, LogEntry, Spent
  <2> QED BY <1>7, <2>3, DeliverMoves
<1>8. CASE /\ M = <<>> /\ took = FALSE
           /\ SetHand(Park(Hand, r.name, e))
  <2> DEFINE p == Park(Hand, r.name, e)
  <2>1. p \in TidyHand(attached) /\ p.inflight = Hand.inflight
    BY <1>3, <1>4, <1>5, <1>8, ParkIn DEF AptHand, IInv
  <2>2. p.queue = Hand.queue
    BY DEF Park, Hand
  <2>3. SetHand(p)
    BY <1>8
  <2> HIDE DEF p
  <2>4. p \in AptHand(attached) /\ Load(p) = Load(Hand)
    BY <1>5, <2>1, <2>2 DEF AptHand, Load
  <2>5. Flight' = Load(p) /\ Unopened(queue)'
    BY <2>3, <2>4, HandMoves
  <2> QED BY <1>5, <1>8, <2>4, <2>5
<1>9. CASE /\ M # <<>> /\ took = TRUE
           /\ SetHand(Share(Hand, r.name, r.sharing, M, e))
  <2> DEFINE p == Share(Hand, r.name, r.sharing, M, e)
  <2>1. M \in Seq(1..nextId)
    BY <1>5, MembersProps
  <2>2. SetHand(p)
    BY <1>9
  <2>3. /\ p \in AptHand(attached) /\ p.inflight = Hand.inflight
        /\ Total(p.queue) = Total(Hand.queue) + 1
    <3> HIDE DEF M
    <3> QED BY <1>3, <1>4, <1>5, <1>9, <2>1, ShareLoad DEF IInv
  <2> HIDE DEF p, M
  <2>4. Hand.queue = queue /\ Hand.inflight = inflight
    BY DEF Hand
  <2>5. Load(p) = Flight - 1
    <3>1. Total(queue) \in Nat /\ inflight \in Int
      BY Sides DEF IInv, TypeOK
    <3> QED BY <2>3, <2>4, <3>1 DEF Load, Flight
  <2>6. Flight' = Load(p) /\ Unopened(queue)'
    BY <2>2, <2>3, HandMoves
  <2> QED BY <1>9, <2>5, <2>6
<1>10. \/ spent /\ took = FALSE /\ Deliver(r.dead.topic, KeyOf(d), StampOrigin(d))
       \/ M = <<>> /\ took = FALSE /\ SetHand(Park(Hand, r.name, e))
       \/ M # <<>> /\ took = TRUE /\ SetHand(Share(Hand, r.name, r.sharing, M, e))
  BY <1>1 DEF Requeue
<1> HIDE DEF r, M, spent
<1> QED
  BY <1>7, <1>8, <1>9, <1>10

\* A settlement that requeues, or finds its router cleared, and says so in its duty:
\* what a consumer took is owed until it is counted.
LEMMA RequeuingCounts ==
  ASSUME CInv, IInv', NEW m \in Slots, settle[m].duty \in {"handle", "timer"},
         NEW took \in BOOLEAN, NEW owing \in {"count", "recount"},
         NEW counted \in BOOLEAN, counted = settle[m].counted,
         owing = "count" => counted,
         Becomes(m, IF took THEN owing ELSE "none", counted),
         \/ Requeue(settle[m].id, settle[m].d, took)
         \/ took = FALSE /\ queue' = queue /\ inflight' = inflight,
         UNCHANGED <<up, nextId, reg, swap>>
  PROVE  CInv'
<1> DEFINE duty == IF took THEN owing ELSE "none"
<1>1. Flight \in Int /\ IInv /\ Unopened(queue)
  BY Sides DEF CInv, IInv
<1>2. /\ Unopened(queue)'
      /\ took => Flight' = Flight - 1
      /\ ~took => Flight' = Flight
  <2>1. CASE took = FALSE /\ queue' = queue /\ inflight' = inflight
    BY <1>1, <2>1 DEF Flight, Unopened
  <2>2. CASE Requeue(settle[m].id, settle[m].d, took)
    <3>1. Logged(settle[m].d)
      BY <1>1, <2>2 DEF Requeue, IInv, DeliveriesAreLogged
    <3> QED BY <1>1, <2>2, <3>1, RequeueMoves
  <2> QED BY <2>1, <2>2
<1>3. duty \in Duties /\ (duty \in {"handle", "count"} => counted)
  BY DEF Duties
<1>4. Weight(settle[m]) = One(counted)
  <2>1. ~(settle[m].duty \in {"count", "recount"})
    OBVIOUS
  <2>2. One(settle[m].duty \in {"count", "recount"}) = 0 /\ One(counted) \in Int
    BY <2>1 DEF One
  <2>3. Weight(settle[m]) = One(counted) - 0
    BY <2>2, Zenon DEF Weight
  <2> QED BY <2>2, <2>3
<1>5. One(duty \in {"count", "recount"}) = IF took THEN 1 ELSE 0
  BY DEF One
<1> DEFINE i == Flight
           j == Flight'
           k == One(counted)
           n == One(duty \in {"count", "recount"})
           w == Weight(settle[m])
<1>6. Flight' = Flight + ((One(counted) - One(duty \in {"count", "recount"}))
                            - Weight(settle[m]))
  <2>1. i \in Int /\ k \in Int /\ w = k
    BY <1>1, <1>4 DEF One
  <2>2. took => j = i - 1 /\ n = 1
    BY <1>2, <1>5
  <2>3. ~took => j = i /\ n = 0
    BY <1>2, <1>5
  <2>4. j = i + ((k - n) - w)
    <3> HIDE DEF i, j, k, n, w
    <3> QED BY <2>1, <2>2, <2>3
  <2> QED BY <2>4, Zenon
<1>7. Becomes(m, duty, counted)
  OBVIOUS
<1> HIDE DEF duty
<1> QED
  BY <1>2, <1>3, <1>6, <1>7, SettleBalance

\* A negative acknowledgement keeps the count.
LEMMA NackCounts ==
  ASSUME CInv, NEW m \in Slots, Nack(m)
  PROVE  CInv'
<1>1. settle[m].duty = "handle" /\ UNCHANGED <<up, nextId, reg, swap>>
  BY DEF Nack, registry
<1>2. settle[m].counted = TRUE
  BY <1>1, HandleWeight
<1>3. IInv'
  BY NackStep DEF CInv
<1>4. PICK took \in BOOLEAN :
        /\ Becomes(m, IF took THEN "count" ELSE "none", TRUE)
        /\ \/ Requeue(settle[m].id, settle[m].d, took)
           \/ took = FALSE /\ queue' = queue /\ inflight' = inflight
  <2>1. CASE \E took \in BOOLEAN : /\ Requeue(settle[m].id, settle[m].d, took)
                                 /\ Becomes(m, IF took THEN "count" ELSE "none", TRUE)
    BY <2>1
  <2>2. CASE Becomes(m, "none", TRUE) /\ queue' = queue /\ inflight' = inflight
    BY <2>2
  <2> QED BY <2>1, <2>2 DEF Nack
<1> QED
  BY <1>1, <1>2, <1>3, <1>4, RequeuingCounts

\* A delayed retry that fires keeps the count, released before or not.
LEMMA FireCounts ==
  ASSUME CInv, NEW m \in Slots, Fire(m)
  PROVE  CInv'
<1>1. settle[m].duty = "timer" /\ UNCHANGED <<up, nextId, reg, swap>>
  BY DEF Fire, registry
<1>2. settle[m].counted \in BOOLEAN
  BY DEF CInv, IInv, TypeOK, Settlement
<1>3. IInv'
  BY FireStep DEF CInv
<1>4. PICK took \in BOOLEAN :
        /\ Becomes(m, IF took THEN "recount" ELSE "none", settle[m].counted)
        /\ \/ Requeue(settle[m].id, settle[m].d, took)
           \/ took = FALSE /\ queue' = queue /\ inflight' = inflight
  <2>1. CASE \E took \in BOOLEAN :
               /\ Requeue(settle[m].id, settle[m].d, took)
               /\ Becomes(m, IF took THEN "recount" ELSE "none", settle[m].counted)
    BY <2>1
  <2>2. CASE /\ Becomes(m, "none", settle[m].counted)
             /\ queue' = queue /\ inflight' = inflight
    BY <2>2
  <2> QED BY <2>1, <2>2 DEF Fire
<1> QED
  BY <1>1, <1>2, <1>3, <1>4, RequeuingCounts

\* A consumer that attaches counts what was parked for it: its queue was empty.
LEMMA SubscribeCounts ==
  ASSUME CInv, Subscribe
  PROVE  CInv'
<1> DEFINE c == nextId + 1
           reads(r) == IF IsPattern(r) THEN r.topics \cap created ELSE r.topics
           taken(r) == Select(parked[r.name], Over(reads(r)))
<1>1. PICK r \in Registrations :
        /\ queue' = [queue EXCEPT ![c] = taken(r)]
        /\ inflight' = inflight + Len(taken(r))
  BY DEF Subscribe
<1>2. nextId' = c /\ nextId < MaxConsumers /\ UNCHANGED <<up, settle, swap>>
  BY DEF Subscribe
<1>3. IInv'
  BY SubscribeStep DEF CInv
<1>4. /\ nextId \in Nat /\ queue \in [Ids -> Seq(Delivery)] /\ Unopened(queue)
      /\ Total(queue) \in Nat /\ inflight \in Int /\ swap \in Int
  BY RouterAssumption, Sides DEF CInv, IInv, TypeOK
<1>5. c \in Ids /\ c > nextId
  BY <1>2, <1>4, RouterAssumption DEF Ids
<1>6. taken(r) \in Seq(Delivery)
  <2>1. parked[r.name] \in Seq(Delivery)
    BY RouterAssumption DEF CInv, IInv, TypeOK, Registration
  <2> DEFINE S == Over(reads(r))
  <2> HIDE DEF S
  <2>2. Select(parked[r.name], S) \in Seq(Delivery)
    BY <2>1, SelectProps
  <2> QED BY <2>2 DEF S
<1> HIDE DEF taken, reads
<1>7. queue[c] = <<>>
  BY <1>4, <1>5 DEF Unopened
<1>8. OneQueue(queue, queue', c) /\ queue'[c] = taken(r)
  BY <1>1, <1>4, <1>5, <1>6 DEF OneQueue
<1>9. Flight' = Flight
  <2> DEFINE b == Total(queue)
             a == Total(queue')
             n == Len(queue[c])
             k == Len(queue'[c])
  <2> HIDE DEF c
  <2>1. a \in Nat /\ b \in Nat /\ k \in Nat /\ a + n = b + k
    BY <1>8, QueueUpdate, Zenon
  <2>2. n = 0 /\ k = Len(taken(r))
    BY <1>7, <1>8
  <2>3. Flight = inflight - b /\ Flight' = (inflight + Len(taken(r))) - a
    BY <1>1 DEF Flight
  <2> HIDE DEF a, b, n, k
  <2> QED BY <1>4, <2>1, <2>2, <2>3
<1>10. Unopened(queue)'
  <2> SUFFICES ASSUME NEW x \in Ids, x > nextId' PROVE queue'[x] = <<>>
    BY DEF Unopened
  <2>1. x # c /\ x > nextId
    BY <1>2, <1>4 DEF Ids
  <2> QED BY <1>1, <1>4, <2>1 DEF Unopened
<1>11. Flight \in Int
  BY Sides DEF CInv, IInv
<1>12. Flight' = Flight + (swap' - swap)
  BY <1>2, <1>4, <1>9, <1>11
<1> QED
  BY <1>2, <1>3, <1>10, <1>12, BrokerBalance

-----------------------------------------------------------------------------
(* The theorems *)

\* Initially nothing is counted and nothing is queued.
LEMMA CInitStep == Init => CInv
<1> SUFFICES ASSUME Init PROVE CInv
  OBVIOUS
<1>1. IInv
  BY InitStep
<1>2. queue \in [Ids -> Seq(Delivery)] /\ \A c \in Ids : queue[c] = <<>>
  BY <1>1 DEF IInv, TypeOK, Init
<1>3. Total(queue) = 0
  <2>1. PICK f : /\ f[0] = 0
                 /\ \A c \in Ids : f[c] = f[c - 1] + Len(queue[c])
                 /\ Total(queue) = f[MaxConsumers]
    BY <1>2, TotalFold, RouterAssumption
  <2> DEFINE P == {n \in 0..MaxConsumers : f[n] = 0}
  <2>2. MaxConsumers \in Nat /\ 0 \in P
    BY <2>1, RouterAssumption
  <2>3. ASSUME NEW n \in 0..(MaxConsumers - 1), n \in P PROVE n + 1 \in P
    <3>1. n + 1 \in Ids /\ n + 1 - 1 = n /\ n + 1 \in 0..MaxConsumers
      BY <2>2 DEF Ids
    <3>2. f[n + 1] = f[n] + Len(queue[n + 1]) /\ Len(queue[n + 1]) = 0 /\ f[n] = 0
      BY <1>2, <2>1, <2>3, <3>1
    <3> QED BY <3>1, <3>2
  <2>4. 0..MaxConsumers \subseteq P
    <3> HIDE DEF P
    <3> QED BY <2>2, <2>3, UpTo
  <2> QED BY <2>1, <2>2, <2>4
<1>4. \A m \in Slots : settle[m].counted = FALSE /\ settle[m].duty = "none"
  BY DEF Init, Idle
<1>5. Held
  BY <1>4 DEF Held
<1>6. Unopened(queue)
  BY <1>2 DEF Unopened
<1>7. Balanced
  <2>1. {m \in Slots : settle[m].counted} = {} /\ Doing({"count", "recount"}) = {}
    BY <1>4 DEF Doing
  <2>2. Cardinality({}) = 0
    BY FS_EmptySet
  <2>3. inflight = 0 /\ swap = 0
    BY DEF Init
  <2>4. Flight = 0
    BY <1>3, <2>3 DEF Flight
  <2>5. Cardinality(Counted) = 0 /\ Cardinality(Pending) = 0
    BY <2>1, <2>2 DEF Counted, Pending
  <2>6. Owed = 0
    BY <2>3, <2>5 DEF Owed
  <2> QED BY <1>1, <2>4, <2>6, Sides DEF IInv
<1> QED
  BY <1>1, <1>5, <1>6, <1>7 DEF CInv

\* Every step of the router and of its settlements keeps the count.
LEMMA CNextStep == CInv /\ [Next]_vars => CInv'
<1> SUFFICES ASSUME CInv, [Next]_vars PROVE CInv'
  OBVIOUS
<1>1. CASE UNCHANGED vars
  <2>1. IInv'
    BY <1>1, NextStep DEF CInv
  <2> QED BY <1>1, <2>1 DEF vars, CInv, Balanced, Held, Unopened, Doing
<1>2. CASE Publish
  BY <1>2, PublishCounts
<1>3. CASE Subscribe
  BY <1>3, SubscribeCounts
<1>4. CASE Refresh
  BY <1>4, RefreshCounts
<1>5. CASE Shutdown
  BY <1>5, ShutdownCounts
<1>6. CASE FinishSeek
  BY <1>6, FinishSeekCounts
<1>7. ASSUME NEW c \in Ids, Unsubscribe(c)
      PROVE  CInv'
  BY <1>7, UnsubscribeCounts
<1>8. ASSUME NEW c \in Ids, NEW pos \in Positions, Seek(c, pos)
      PROVE  CInv'
  BY <1>8, SeekCounts
<1>9. ASSUME NEW m \in Slots, NEW c \in Ids, Poll(m, c)
      PROVE  CInv'
  BY <1>9, PollCounts
<1>10. ASSUME NEW m \in Slots,
              \/ Ack(m) \/ Drop(m) \/ Nack(m) \/ NackAfter(m)
              \/ Fire(m) \/ Count(m) \/ Release(m)
       PROVE  CInv'
  BY <1>10, AckCounts, DropCounts, NackCounts, NackAfterCounts, FireCounts,
     CountCounts, ReleaseCounts
<1> QED
  BY <1>1, <1>2, <1>3, <1>4, <1>5, <1>6, <1>7, <1>8, <1>9, <1>10
     DEF Next, Settled, Others

\* The strengthened count holds in every reachable state.
THEOREM CountInvariance == Spec => []CInv
<1>1. Init => CInv
  BY CInitStep
<1>2. CInv /\ [Next]_vars => CInv'
  BY CNextStep
<1> QED
  BY <1>1, <1>2, PTL DEF Spec

\* While the broker is open the coordinator's count is exact, for every number of
\* consumers, subscriptions and outstanding settlements, up to the requeues that
\* have not counted yet and what a seek has not released.
THEOREM BalancedAlways == Spec => []Balanced
<1>1. CInv => Balanced
  BY DEF CInv
<1> QED
  BY <1>1, CountInvariance, PTL

\* Where the count is balanced and every handler counted, a count of zero is quiet.
LEMMA QuietCounted == CInv => QuietIsDrained
<1> SUFFICES ASSUME CInv, up, inflight = 0, Doing({"recount"}) = {}
             PROVE  Drained
  BY DEF QuietIsDrained
<1>1. TypeOK /\ queue \in [Ids -> Seq(Delivery)] /\ swap \in Nat
  BY DEF CInv, IInv, TypeOK
<1>2. Pending \subseteq Counted
  <2>1. \A m \in Slots : settle[m].duty # "recount"
    BY DEF Doing
  <2> QED BY <2>1 DEF CInv, Held, Pending, Counted, Doing
<1>3. IsFiniteSet(Counted) /\ Cardinality(Counted) \in Nat
      /\ Cardinality(Pending) \in Nat /\ Total(queue) \in Nat
  BY <1>1, Sides
<1>4. Cardinality(Pending) <= Cardinality(Counted)
      /\ (Cardinality(Pending) = Cardinality(Counted) => Pending = Counted)
  BY <1>2, <1>3, FS_Subset
<1>5. 0 = Total(queue) + Cardinality(Counted) - Cardinality(Pending) + swap
  BY DEF CInv, Balanced, Counted, Pending
<1>6. Total(queue) = 0 /\ Cardinality(Pending) = Cardinality(Counted)
  BY <1>1, <1>3, <1>4, <1>5
<1>7. Doing({"handle"}) = {}
  <2> SUFFICES ASSUME NEW m \in Slots, settle[m].duty = "handle" PROVE FALSE
    BY DEF Doing
  <2>1. m \in Counted
    BY DEF CInv, Held, Counted
  <2>2. m \notin Pending
    BY DEF Pending, Doing
  <2> QED BY <1>4, <1>6, <2>1, <2>2
<1>8. ASSUME NEW c \in Ids PROVE queue[c] = <<>>
  <2>1. Len(queue[c]) <= Total(queue) /\ queue[c] \in Seq(Delivery)
    BY <1>1, TotalAtLeast
  <2>2. Len(queue[c]) = 0
    BY <1>6, <2>1
  <2> QED BY <2>1, <2>2
<1> QED BY <1>7, <1>8 DEF Drained

\* So a count of zero means that nothing is queued and nobody handles a message,
\* unless a delayed retry is just being counted.
THEOREM QuietAlways == Spec => []QuietIsDrained
BY QuietCounted, CountInvariance, PTL

-----------------------------------------------------------------------------
(* The copies of an entry in a sequence *)

\* The places of the logs, up to the bound.
Places == Topics \X (1..MaxEntries)

\* The deliveries that carry entry e.
Carriers(e) == {d \in Delivery : Carries(d, e)}

\* The copies in a sequence of deliveries are the hits of the carriers.
LEMMA CopiesAreHits ==
  ASSUME NEW ds \in Seq(Delivery), NEW e
  PROVE  CopiesIn(ds, e) = Hits(ds, Carriers(e))
<1>1. \A n \in 1..Len(ds) : ds[n] \in Delivery
  BY ElementOfSeq
<1>2. {n \in 1..Len(ds) : Carries(ds[n], e)} = {n \in 1..Len(ds) : ds[n] \in Carriers(e)}
  BY <1>1 DEF Carriers
<1> QED
  BY <1>2, Zenon DEF CopiesIn, Hits

LEMMA CopiesNat ==
  ASSUME NEW ds \in Seq(Delivery), NEW e
  PROVE  CopiesIn(ds, e) \in Nat
BY CopiesAreHits, HitsFinite, Zenon

LEMMA CopiesEmpty ==
  ASSUME NEW e
  PROVE  CopiesIn(<<>>, e) = 0
<1>1. {n \in 1..Len(<<>>) : Carries(<<>>[n], e)} = {}
  OBVIOUS
<1> QED
  BY <1>1, FS_EmptySet DEF CopiesIn

\* Appending a delivery adds a copy of the entry it carries.
LEMMA CopiesAppend ==
  ASSUME NEW ds \in Seq(Delivery), NEW d \in Delivery, NEW e
  PROVE  CopiesIn(Append(ds, d), e) = CopiesIn(ds, e) + One(Carries(d, e))
<1>1. Append(ds, d) \in Seq(Delivery)
  OBVIOUS
<1>2. Hits(Append(ds, d), Carriers(e)) = Hits(ds, Carriers(e)) + IF d \in Carriers(e) THEN 1 ELSE 0
  BY HitsAppend
<1>3. One(Carries(d, e)) = IF d \in Carriers(e) THEN 1 ELSE 0
  BY DEF One, Carriers
<1> QED
  BY <1>1, <1>2, <1>3, CopiesAreHits, Zenon

\* Taking the head removes a copy of the entry it carries.
LEMMA CopiesTail ==
  ASSUME NEW ds \in Seq(Delivery), ds # <<>>, NEW e
  PROVE  /\ CopiesIn(ds, e) = CopiesIn(Tail(ds), e) + One(Carries(Head(ds), e))
         /\ Tail(ds) \in Seq(Delivery) /\ Head(ds) \in Delivery
<1>1. Tail(ds) \in Seq(Delivery) /\ Head(ds) \in Delivery
  BY HeadTailProperties, Zenon
<1>2. Hits(ds, Carriers(e)) = Hits(Tail(ds), Carriers(e)) + IF Head(ds) \in Carriers(e) THEN 1 ELSE 0
  BY HitsTail, Zenon
<1>3. One(Carries(Head(ds), e)) = IF Head(ds) \in Carriers(e) THEN 1 ELSE 0
  BY <1>1 DEF One, Carriers
<1> QED
  BY <1>1, <1>2, <1>3, CopiesAreHits, Zenon

\* Another redelivery carries the same entry.
LEMMA CopiesAgain ==
  ASSUME NEW d \in Delivery, NEW e
  PROVE  Carries(Again(d), e) <=> Carries(d, e)
BY DEF Carries, Again, Delivery

\* Copies so far: among the first n deliveries.
SoFar(ds, n, e) == Cardinality({i \in 1..n : Carries(ds[i], e)})

LEMMA SoFarStep ==
  ASSUME NEW ds, NEW e, NEW n \in Nat
  PROVE  /\ SoFar(ds, 0, e) = 0
         /\ SoFar(ds, n, e) \in Nat
         /\ SoFar(ds, n + 1, e) = SoFar(ds, n, e) + One(Carries(ds[n + 1], e))
<1> DEFINE A == {i \in 1..n : Carries(ds[i], e)}
           B == {i \in 1..(n + 1) : Carries(ds[i], e)}
<1>1. IsFiniteSet(A)
  <2>1. IsFiniteSet(1..n) /\ A \subseteq 1..n
    BY FS_Interval
  <2> QED BY <2>1, FS_Subset
<1>2. Cardinality(A) \in Nat /\ n + 1 \notin A
  BY <1>1, FS_CardinalityType
<1>3. B = IF Carries(ds[n + 1], e) THEN A \cup {n + 1} ELSE A
  <2>1. 1..(n + 1) = (1..n) \cup {n + 1}
    OBVIOUS
  <2> QED BY <2>1
<1>4. SoFar(ds, n, e) = Cardinality(A) /\ SoFar(ds, n + 1, e) = Cardinality(B)
  BY DEF SoFar
<1>5. SoFar(ds, 0, e) = 0
  <2>1. {i \in 1..0 : Carries(ds[i], e)} = {}
    OBVIOUS
  <2> QED BY <2>1, FS_EmptySet DEF SoFar
<1> HIDE DEF A, B
<1>6. Cardinality(A \cup {n + 1}) = Cardinality(A) + 1
  BY <1>1, <1>2, FS_AddElement
<1> QED
  BY <1>2, <1>3, <1>4, <1>5, <1>6 DEF One

\* Taking the deliveries of some topics takes all copies of their entries and no others.
LEMMA CopiesSelect ==
  ASSUME NEW ds \in Seq(Delivery), NEW T, NEW e
  PROVE  CopiesIn(Select(ds, Over(T)), e) = IF e[1] \in T THEN CopiesIn(ds, e) ELSE 0
<1> DEFINE S == Over(T)
           N == Len(ds)
<1>1. N \in Nat /\ \A n \in 1..N : ds[n] \in Delivery
  BY ElementOfSeq
<1>2. \A d \in Delivery : (d \in S <=> d.topic \in T) /\ (Carries(d, e) => e[1] = d.topic)
  BY DEF Over, Carries
<1> HIDE DEF S
<1>3. PICK f : Taking(ds, S, f)
  BY SelectFold
<1> DEFINE P == {n \in 0..N : /\ f[n] \in Seq(Delivery)
                              /\ CopiesIn(f[n], e) = IF e[1] \in T THEN SoFar(ds, n, e) ELSE 0}
<1>4. 0 \in P
  <2>1. f[0] = <<>> /\ <<>> \in Seq(Delivery)
    BY <1>3 DEF Taking
  <2>2. CopiesIn(f[0], e) = 0 /\ SoFar(ds, 0, e) = 0
    BY <2>1, CopiesEmpty, SoFarStep
  <2>3. CopiesIn(f[0], e) = IF e[1] \in T THEN SoFar(ds, 0, e) ELSE 0
    BY <2>2, Zenon
  <2>4. f[0] \in Seq(Delivery) /\ 0 \in 0..N
    BY <1>1, <2>1
  <2> QED BY <2>3, <2>4, Zenon
<1>5. ASSUME NEW n \in 0..(N - 1), n \in P PROVE n + 1 \in P
  <2>1. n \in Nat /\ n + 1 \in 1..N /\ n + 1 \in 0..N /\ ds[n + 1] \in Delivery
    BY <1>1
  <2>2. f[n + 1] = IF ds[n + 1] \in S THEN Append(f[n], ds[n + 1]) ELSE f[n]
    BY <1>3 DEF Taking
  <2>3. f[n] \in Seq(Delivery) /\ CopiesIn(f[n], e) = IF e[1] \in T THEN SoFar(ds, n, e) ELSE 0
    BY <1>5
  <2>4. /\ SoFar(ds, n + 1, e) = SoFar(ds, n, e) + One(Carries(ds[n + 1], e))
        /\ SoFar(ds, n, e) \in Nat
    BY <2>1, SoFarStep
  <2>5. f[n + 1] \in Seq(Delivery)
    BY <2>1, <2>2, <2>3
  <2>6. CopiesIn(f[n + 1], e) = IF e[1] \in T THEN SoFar(ds, n + 1, e) ELSE 0
    <3>1. CASE ds[n + 1] \in S
      <4>1. CopiesIn(f[n + 1], e) = CopiesIn(f[n], e) + One(Carries(ds[n + 1], e))
        BY <2>1, <2>2, <2>3, <3>1, CopiesAppend
      <4>2. e[1] \notin T => One(Carries(ds[n + 1], e)) = 0
        BY <1>2, <2>1, <3>1 DEF One
      <4> QED BY <2>3, <2>4, <4>1, <4>2
    <3>2. CASE ds[n + 1] \notin S
      <4>1. e[1] \in T => One(Carries(ds[n + 1], e)) = 0
        BY <1>2, <2>1, <3>2 DEF One
      <4> QED BY <2>2, <2>3, <2>4, <3>2, <4>1
    <3> QED BY <3>1, <3>2
  <2> QED BY <2>1, <2>5, <2>6
<1>6. N \in P
  <2> HIDE DEF P, N
  <2>1. 0..N \subseteq P
    BY <1>1, <1>4, <1>5, UpTo
  <2> QED BY <1>1, <2>1
<1>7. SoFar(ds, N, e) = CopiesIn(ds, e) /\ Select(ds, S) = f[N]
  BY <1>3 DEF SoFar, CopiesIn, Taking
<1>8. CopiesIn(Select(ds, S), e) = IF e[1] \in T THEN CopiesIn(ds, e) ELSE 0
  BY <1>6, <1>7
<1> QED
  BY <1>8 DEF S

\* The redeliveries of what was left unsettled carry the same entries.
LEMMA CopiesAgainAll ==
  ASSUME NEW ds \in Seq(Delivery), NEW e
  PROVE  CopiesIn(AgainAll(ds), e) = CopiesIn(ds, e)
<1>1. Len(ds) \in Nat /\ \A n \in 1..Len(ds) : ds[n] \in Delivery
  BY ElementOfSeq
<1>2. Len(AgainAll(ds)) = Len(ds) /\ \A n \in 1..Len(ds) : AgainAll(ds)[n] = Again(ds[n])
  BY <1>1 DEF AgainAll
<1>3. {n \in 1..Len(AgainAll(ds)) : Carries(AgainAll(ds)[n], e)}
        = {n \in 1..Len(ds) : Carries(ds[n], e)}
  BY <1>1, <1>2, CopiesAgain
<1> QED
  BY <1>3 DEF CopiesIn

-----------------------------------------------------------------------------
(* The copies at some consumers *)

Queues == [Ids -> Seq(Delivery)]

LEMMA IdsFinite == IsFiniteSet(Ids) /\ IsFiniteSet(Places) /\ MaxConsumers \in Nat
<1>1. IsFiniteSet(1..MaxConsumers) /\ IsFiniteSet(1..MaxEntries)
  BY RouterAssumption, FS_Interval
<1> QED
  BY <1>1, RouterAssumption, FS_Product DEF Ids, Places

\* The consumers C with the queues q hold what the consumers D with the queues p do,
\* but for what c holds.
AlikeBut(q, C, p, D, c) ==
  \A x \in Ids : x # c => (x \in C <=> x \in D) /\ (x \in C => p[x] = q[x])

\* What one queue holds for the consumers C.
Part(q, C, c, e) == IF c \in C THEN CopiesIn(q[c], e) ELSE 0

\* The copies follow the one queue that changed.
LEMMA AtUpdate ==
  ASSUME NEW q \in Queues, NEW p \in Queues, NEW C, NEW D, NEW c \in Ids, NEW e,
         AlikeBut(q, C, p, D, c)
  PROVE  /\ CopiesAt(q, C, e) \in Nat /\ CopiesAt(p, D, e) \in Nat
         /\ Part(q, C, c, e) \in Nat /\ Part(p, D, c, e) \in Nat
         /\ Part(q, C, c, e) <= CopiesAt(q, C, e)
         /\ CopiesAt(p, D, e) = CopiesAt(q, C, e) + (Part(p, D, c, e) - Part(q, C, c, e))
<1> DEFINE f == [x \in Ids |-> Part(q, C, x, e)]
           g == [x \in Ids |-> Part(p, D, x, e)]
<1>1. \A x \in Ids : Part(q, C, x, e) \in Nat /\ Part(p, D, x, e) \in Nat
  <2> SUFFICES ASSUME NEW x \in Ids PROVE Part(q, C, x, e) \in Nat /\ Part(p, D, x, e) \in Nat
    OBVIOUS
  <2>1. q[x] \in Seq(Delivery) /\ p[x] \in Seq(Delivery)
    BY DEF Queues
  <2>2. CopiesIn(q[x], e) \in Nat /\ CopiesIn(p[x], e) \in Nat
    BY <2>1, CopiesNat
  <2> QED BY <2>2 DEF Part
<1>2. f \in [Ids -> Nat] /\ g \in [Ids -> Nat] /\ f \in [Ids -> Int] /\ g \in [Ids -> Int]
      /\ \A x \in Ids : f[x] = Part(q, C, x, e) /\ g[x] = Part(p, D, x, e)
  <2>1. Nat \subseteq Int
    OBVIOUS
  <2> QED BY <1>1, <2>1, Zenon
<1>3. \A x \in Ids : x # c => g[x] = f[x]
  BY <1>2 DEF AlikeBut, Part
<1>4. CopiesAt(q, C, e) = SumFunction(f) /\ CopiesAt(p, D, e) = SumFunction(g)
  BY DEF CopiesAt, Part
<1> HIDE DEF f, g
<1>5. SumFunction(f) \in Nat /\ SumFunction(g) \in Nat /\ f[c] <= SumFunction(f)
  BY <1>2, IdsFinite, SumNat, SumAtLeast
<1>6. SumFunction(g) = SumFunction(f) + (g[c] - f[c])
  BY <1>2, <1>3, IdsFinite, SumUpdate
<1> QED
  BY <1>1, <1>2, <1>4, <1>5, <1>6, Zenon

LEMMA AtNat ==
  ASSUME NEW q \in Queues, NEW C, NEW e
  PROVE  CopiesAt(q, C, e) \in Nat
<1> DEFINE f == [x \in Ids |-> Part(q, C, x, e)]
<1>1. \A x \in Ids : Part(q, C, x, e) \in Nat
  <2> SUFFICES ASSUME NEW x \in Ids PROVE Part(q, C, x, e) \in Nat
    OBVIOUS
  <2>1. q[x] \in Seq(Delivery)
    BY DEF Queues
  <2>2. CopiesIn(q[x], e) \in Nat
    BY <2>1, CopiesNat
  <2> QED BY <2>2 DEF Part
<1>2. f \in [Ids -> Int] /\ \A x \in Ids : f[x] \in Nat
  BY <1>1
<1>3. CopiesAt(q, C, e) = SumFunction(f)
  BY DEF CopiesAt, Part
<1> HIDE DEF f
<1> QED
  BY <1>2, <1>3, IdsFinite, SumNat

\* Consumers with the same queues hold the same copies.
LEMMA AtSame ==
  ASSUME NEW q, NEW p, NEW C, NEW D, NEW e,
         \A x \in Ids : (x \in C <=> x \in D) /\ (x \in C => p[x] = q[x])
  PROVE  CopiesAt(p, D, e) = CopiesAt(q, C, e)
<1> DEFINE f == [x \in Ids |-> Part(q, C, x, e)]
           g == [x \in Ids |-> Part(p, D, x, e)]
<1>1. \A x \in Ids : Part(p, D, x, e) = Part(q, C, x, e)
  BY DEF Part
<1>2. f = g
  BY <1>1, Zenon
<1> QED
  BY <1>2, Zenon DEF CopiesAt, Part

\* Every delivery of ds is of one of the logs' places.
Placed(ds) == \A n \in 1..Len(ds) : <<ds[n].topic, ds[n].seq>> \in Places

\* The copies of all entries together are the deliveries.
LEMMA SumOfCopies ==
  ASSUME NEW ds \in Seq(Delivery), Placed(ds)
  PROVE  /\ [e \in Places |-> CopiesIn(ds, e)] \in [Places -> Int]
         /\ SumFunction([e \in Places |-> CopiesIn(ds, e)]) = Len(ds)
<1> DEFINE N == Len(ds)
           f(n) == [e \in Places |-> SoFar(ds, n, e)]
           P == {n \in 0..N : SumFunction(f(n)) = n}
<1>1. N \in Nat
  OBVIOUS
<1>2. \A n \in Nat : f(n) \in [Places -> Int] /\ \A e \in Places : f(n)[e] = SoFar(ds, n, e)
  <2>1. \A n \in Nat : \A e : SoFar(ds, n, e) \in Int
    BY SoFarStep
  <2> QED BY <2>1
<1>3. \A e \in Places : f(0)[e] = 0
  BY SoFarStep
<1> HIDE DEF f
<1>4. 0 \in P
  <2>1. SumFunction(f(0)) = 0
    BY <1>2, <1>3, IdsFinite, SumNat
  <2> QED BY <1>1, <2>1
<1>5. ASSUME NEW n \in 0..(N - 1), n \in P PROVE n + 1 \in P
  <2> DEFINE y == <<ds[n + 1].topic, ds[n + 1].seq>>
  <2>1. n \in Nat /\ n + 1 \in 1..N /\ n + 1 \in 0..N /\ n + 1 \in Nat
    BY <1>1
  <2>2. y \in Places
    BY <2>1 DEF Placed
  <2>3. ASSUME NEW e \in Places
        PROVE  f(n + 1)[e] = f(n)[e] + (IF e = y THEN 1 ELSE 0) /\ f(n)[e] \in Int
    <3>1. SoFar(ds, n + 1, e) = SoFar(ds, n, e) + One(Carries(ds[n + 1], e))
      BY <2>1, SoFarStep
    <3>2. One(Carries(ds[n + 1], e)) = IF e = y THEN 1 ELSE 0
      BY DEF One, Carries
    <3>3. f(n)[e] = SoFar(ds, n, e) /\ f(n + 1)[e] = SoFar(ds, n + 1, e) /\ f(n)[e] \in Int
      BY <1>2, <2>1
    <3> QED BY <3>1, <3>2, <3>3
  <2> HIDE DEF y
  <2>4. \A e \in Places : e # y => f(n + 1)[e] = f(n)[e]
    BY <2>3
  <2>5. f(n + 1)[y] - f(n)[y] = 1
    BY <2>2, <2>3
  <2>6. SumFunction(f(n + 1)) = SumFunction(f(n)) + (f(n + 1)[y] - f(n)[y])
    <3> DEFINE a == f(n)
               b == f(n + 1)
    <3>1. a \in [Places -> Int] /\ b \in [Places -> Int] /\ \A e \in Places : e # y => b[e] = a[e]
      BY <1>2, <2>1, <2>4
    <3> HIDE DEF a, b
    <3>2. SumFunction(b) = SumFunction(a) + (b[y] - a[y])
      BY <2>2, <3>1, IdsFinite, SumUpdate
    <3> QED BY <3>2 DEF a, b
  <2>7. SumFunction(f(n)) = n
    BY <1>5
  <2>8. SumFunction(f(n + 1)) = n + 1
    BY <2>5, <2>6, <2>7
  <2> QED BY <2>1, <2>8
<1>6. N \in P
  <2> HIDE DEF P, N
  <2>1. 0..N \subseteq P
    BY <1>1, <1>4, <1>5, UpTo
  <2> QED BY <1>1, <2>1
<1>7. f(N) = [e \in Places |-> CopiesIn(ds, e)]
  BY DEF f, SoFar, CopiesIn
<1> QED
  BY <1>1, <1>2, <1>6, <1>7

\* Queues that discarded deliveries of the consumers C hold as many copies less as
\* they hold deliveries less.
LEMMA SumOfDiscarded ==
  ASSUME NEW q \in Queues, NEW p \in Queues, NEW C,
         \A x \in Ids : x \notin C => p[x] = q[x],
         \A x \in Ids : Placed(q[x]) /\ Placed(p[x])
  PROVE  SumFunction([e \in Places |-> CopiesAt(q, C, e) - CopiesAt(p, C, e)])
           = Total(q) - Total(p)
<1> DEFINE N == MaxConsumers
           m(n) == [x \in Ids |-> IF x <= n THEN p[x] ELSE q[x]]
           f(n) == [e \in Places |-> CopiesAt(q, C, e) - CopiesAt(m(n), C, e)]
           P == {n \in 0..N : SumFunction(f(n)) = Total(q) - Total(m(n))}
<1>1. N \in Nat /\ Ids = 1..N
  BY IdsFinite DEF Ids
<1>2. \A n \in Nat : m(n) \in Queues
  BY DEF Queues
<1>3. \A n \in Nat : f(n) \in [Places -> Int]
        /\ \A e \in Places : f(n)[e] = CopiesAt(q, C, e) - CopiesAt(m(n), C, e)
  <2> SUFFICES ASSUME NEW n \in Nat, NEW e \in Places
               PROVE  CopiesAt(q, C, e) - CopiesAt(m(n), C, e) \in Int
    OBVIOUS
  <2> DEFINE r == m(n)
  <2>1. r \in Queues
    BY <1>2
  <2> HIDE DEF r
  <2>2. CopiesAt(q, C, e) \in Int /\ CopiesAt(r, C, e) \in Int
    BY <2>1, AtNat
  <2> QED BY <2>2 DEF r
<1>4. 0 \in P
  <2>1. m(0) = q
    <3>1. \A x \in Ids : ~(x <= 0)
      BY <1>1
    <3> QED BY <3>1 DEF Queues
  <2> DEFINE a == f(0)
  <2>2. a \in [Places -> Int] /\ \A e \in Places : a[e] = CopiesAt(q, C, e) - CopiesAt(q, C, e)
    BY <1>3, <2>1
  <2>3. \A e \in Places : CopiesAt(q, C, e) \in Int
    BY AtNat
  <2> HIDE DEF a
  <2>4. SumFunction(a) = 0
    BY <2>2, <2>3, IdsFinite, SumNat
  <2>5. Total(q) \in Nat
    BY TotalNat DEF Queues
  <2> QED BY <1>1, <2>1, <2>4, <2>5 DEF a
<1>5. ASSUME NEW n \in 0..(N - 1), n \in P PROVE n + 1 \in P
  <2> DEFINE x == n + 1
             r == m(n)
             s == m(x)
  <2>1. n \in Nat /\ x \in Nat /\ x \in 0..N /\ x \in Ids
    BY <1>1
  <2>2. r \in Queues /\ s \in Queues
    BY <1>2, <2>1
  <2>3. r[x] = q[x] /\ s[x] = p[x] /\ \A z \in Ids : z # x => s[z] = r[z]
    BY <1>1, <2>1
  <2> DEFINE a == f(n)
             b == f(x)
  <2>4. /\ a \in [Places -> Int] /\ b \in [Places -> Int]
        /\ \A e \in Places : a[e] = CopiesAt(q, C, e) - CopiesAt(r, C, e)
        /\ \A e \in Places : b[e] = CopiesAt(q, C, e) - CopiesAt(s, C, e)
    BY <1>3, <2>1
  <2>5. SumFunction(a) = Total(q) - Total(r)
    BY <1>5
  <2> HIDE DEF m, f, r, s, x
  <2>6. Total(q) \in Nat /\ Total(r) \in Nat /\ Total(s) = Total(r) - Len(q[x]) + Len(p[x])
        /\ Len(q[x]) \in Nat /\ Len(p[x]) \in Nat
    <3>1. q[x] \in Seq(Delivery) /\ p[x] \in Seq(Delivery)
      BY <2>1 DEF Queues
    <3>2. Total(q) \in Nat /\ Total(r) \in Nat
      BY <2>2, TotalNat DEF Queues
    <3>3. Total(s) = Total(r) - Len(r[x]) + Len(s[x])
      BY <2>1, <2>2, <2>3, TotalUpdate DEF Queues
    <3> QED BY <2>3, <3>1, <3>2, <3>3
  <2> HIDE DEF a, b
  <2>7. SumFunction(b) = SumFunction(a) + (Len(q[x]) - Len(p[x]))
    <3>1. CASE x \notin C
      <4>1. p[x] = q[x]
        BY <2>1, <3>1
      <4>2. s = r
        BY <2>2, <2>3, <4>1 DEF Queues
      <4>3. \A e \in Places : b[e] = a[e]
        BY <2>4, <4>2
      <4>4. a = b
        BY <2>4, <4>3
      <4> QED BY <2>5, <2>6, <4>1, <4>4
    <3>2. CASE x \in C
      <4> DEFINE g == [e \in Places |-> CopiesIn(q[x], e)]
                 h == [e \in Places |-> CopiesIn(p[x], e)]
                 k == [e \in Places |-> b[e] - a[e]]
      <4>1. q[x] \in Seq(Delivery) /\ p[x] \in Seq(Delivery) /\ Placed(q[x]) /\ Placed(p[x])
        BY <2>1 DEF Queues
      <4>2. /\ g \in [Places -> Int] /\ SumFunction(g) = Len(q[x])
            /\ h \in [Places -> Int] /\ SumFunction(h) = Len(p[x])
        BY <4>1, SumOfCopies
      <4>3. \A e \in Places : b[e] = a[e] + k[e] /\ g[e] = h[e] + k[e] /\ k[e] \in Int
        <5> SUFFICES ASSUME NEW e \in Places
                     PROVE  b[e] = a[e] + k[e] /\ g[e] = h[e] + k[e] /\ k[e] \in Int
          OBVIOUS
        <5>1. AlikeBut(r, C, s, C, x)
          BY <2>3 DEF AlikeBut
        <5>2. /\ CopiesAt(s, C, e) = CopiesAt(r, C, e) + (Part(s, C, x, e) - Part(r, C, x, e))
              /\ CopiesAt(s, C, e) \in Nat /\ CopiesAt(r, C, e) \in Nat
              /\ Part(s, C, x, e) \in Nat /\ Part(r, C, x, e) \in Nat
          BY <2>1, <2>2, <5>1, AtUpdate
        <5>3. Part(s, C, x, e) = CopiesIn(p[x], e) /\ Part(r, C, x, e) = CopiesIn(q[x], e)
          BY <2>3, <3>2 DEF Part
        <5>4. CopiesAt(q, C, e) \in Nat
          BY AtNat
        <5>5. /\ a[e] = CopiesAt(q, C, e) - CopiesAt(r, C, e)
              /\ b[e] = CopiesAt(q, C, e) - CopiesAt(s, C, e)
              /\ g[e] = CopiesIn(q[x], e) /\ h[e] = CopiesIn(p[x], e) /\ k[e] = b[e] - a[e]
          BY <2>4
        <5> DEFINE i == CopiesAt(q, C, e)
                   j == CopiesAt(r, C, e)
                   u == CopiesAt(s, C, e)
                   v == CopiesIn(p[x], e)
                   w == CopiesIn(q[x], e)
        <5>6. i \in Int /\ j \in Int /\ u \in Int /\ v \in Int /\ w \in Int /\ u = j + (v - w)
          BY <5>2, <5>3, <5>4
        <5>7. a[e] = i - j /\ b[e] = i - u /\ g[e] = w /\ h[e] = v /\ k[e] = b[e] - a[e]
          BY <5>5
        <5> HIDE DEF i, j, u, v, w, k, g, h
        <5> QED BY <5>6, <5>7
      <4>4. k \in [Places -> Int]
        BY <4>3
      <4> HIDE DEF g, h, k
      <4>5. SumFunction(b) = SumFunction(a) + SumFunction(k)
        BY <2>4, <4>3, <4>4, IdsFinite, SumPlus
      <4>6. SumFunction(g) = SumFunction(h) + SumFunction(k)
        <5>1. \A e \in Places : g[e] = h[e] + k[e]
          BY <4>3
        <5>2. g \in [Places -> Int] /\ h \in [Places -> Int] /\ IsFiniteSet(Places)
          BY <4>2, IdsFinite
        <5> QED BY <4>4, <5>1, <5>2, SumPlus
      <4>7. SumFunction(k) \in Int
        BY <4>4, IdsFinite, SumNat
      <4> QED BY <2>5, <2>6, <4>2, <4>5, <4>6, <4>7
    <3> QED BY <3>1, <3>2
  <2>8. SumFunction(b) = Total(q) - Total(s)
    <3> DEFINE i == SumFunction(a)
               j == SumFunction(b)
               k == Total(q)
               u == Total(r)
               v == Total(s)
               w == Len(q[x])
               z == Len(p[x])
    <3>1. k \in Int /\ u \in Int /\ w \in Int /\ z \in Int
          /\ v = u - w + z /\ i = k - u /\ j = i + (w - z)
      BY <2>5, <2>6, <2>7
    <3> HIDE DEF i, j, k, u, v, w, z
    <3>2. j = k - v
      BY <3>1
    <3> QED BY <3>2 DEF j, k, v
  <2> QED BY <2>1, <2>8 DEF b, s, x
<1>6. N \in P
  <2> HIDE DEF P, N
  <2>1. 0..N \subseteq P
    BY <1>1, <1>4, <1>5, UpTo
  <2> QED BY <1>1, <2>1
<1>7. m(N) = p
  BY <1>1 DEF Queues
<1>8. SumFunction(f(N)) = Total(q) - Total(m(N))
  BY <1>6
<1> QED
  BY <1>7, <1>8
-----------------------------------------------------------------------------
(* The copies in a hand *)

\* The copies of entry x that hand h keeps for subscription s.
HandCopies(h, s, x) == CopiesAt(h.queue, Of(s), x) + CopiesIn(h.parked[s], x)

LEMMA HandNat ==
  ASSUME NEW ids, NEW h \in TidyHand(ids), NEW s \in Names, NEW x
  PROVE  /\ CopiesAt(h.queue, Of(s), x) \in Nat /\ CopiesIn(h.parked[s], x) \in Nat
         /\ HandCopies(h, s, x) \in Nat
<1>1. h.queue \in Queues /\ h.parked[s] \in Seq(Delivery)
  BY DEF TidyHand, Queues
<1>2. CopiesAt(h.queue, Of(s), x) \in Nat /\ CopiesIn(h.parked[s], x) \in Nat
  BY <1>1, AtNat, CopiesNat
<1> QED
  BY <1>2 DEF HandCopies

\* A delivery given to a subscription is one copy more there, queued or parked.
LEMMA GivenCopies ==
  ASSUME TypeOK, NEW ids, NEW h \in TidyHand(ids), NEW e \in TidyHand(ids),
         NEW n \in Names, NEW d \in Delivery, Given(h, e, n, d), NEW s \in Names, NEW x
  PROVE  HandCopies(e, s, x) = HandCopies(h, s, x) + One(s = n /\ Carries(d, x))
<1> DEFINE C == Of(s)
           k == One(s = n /\ Carries(d, x))
<1>1. /\ h.queue \in Queues /\ e.queue \in Queues
      /\ h.parked \in [Names -> Seq(Delivery)] /\ e.parked \in [Names -> Seq(Delivery)]
  BY DEF TidyHand, Queues
<1>2. CopiesAt(h.queue, C, x) \in Nat /\ CopiesIn(h.parked[s], x) \in Nat
  BY HandNat
<1>3. k \in Int /\ One(Carries(d, x)) \in Int
  BY DEF One
<1>4. CASE /\ e.parked = h.parked
           /\ \E c \in 1..nextId : /\ reg[c].name = n
                                   /\ e.queue = [h.queue EXCEPT ![c] = Append(h.queue[c], d)]
  <2>1. PICK c \in 1..nextId : /\ reg[c].name = n
                               /\ e.queue = [h.queue EXCEPT ![c] = Append(h.queue[c], d)]
    BY <1>4
  <2>2. c \in Ids /\ (c \in C <=> s = n)
    BY <2>1, RouterAssumption DEF TypeOK, Ids, Of
  <2>3. e.queue[c] = Append(h.queue[c], d) /\ \A y \in Ids : y # c => e.queue[y] = h.queue[y]
    BY <1>1, <2>1, <2>2 DEF Queues
  <2>4. h.queue[c] \in Seq(Delivery)
    BY <1>1, <2>2 DEF Queues
  <2>5. AlikeBut(h.queue, C, e.queue, C, c)
    BY <2>3 DEF AlikeBut
  <2>6. /\ CopiesAt(e.queue, C, x)
             = CopiesAt(h.queue, C, x) + (Part(e.queue, C, c, x) - Part(h.queue, C, c, x))
        /\ Part(h.queue, C, c, x) \in Nat
    <3> HIDE DEF C
    <3> QED BY <1>1, <2>2, <2>5, AtUpdate
  <2>7. CopiesIn(e.queue[c], x) = CopiesIn(h.queue[c], x) + One(Carries(d, x))
    BY <2>3, <2>4, CopiesAppend
  <2>8. Part(e.queue, C, c, x) = Part(h.queue, C, c, x) + k
    <3>1. CASE s = n
      <4>1. k = One(Carries(d, x))
        BY <3>1 DEF One
      <4>2. Part(e.queue, C, c, x) = CopiesIn(e.queue[c], x)
            /\ Part(h.queue, C, c, x) = CopiesIn(h.queue[c], x)
        BY <2>2, <3>1 DEF Part
      <4> QED BY <2>7, <4>1, <4>2, Zenon
    <3>2. CASE s # n
      <4>1. k = 0
        BY <3>2 DEF One
      <4>2. Part(e.queue, C, c, x) = 0 /\ Part(h.queue, C, c, x) = 0
        BY <2>2, <3>2 DEF Part
      <4> HIDE DEF k
      <4> QED BY <4>1, <4>2
    <3> QED BY <3>1, <3>2
  <2> HIDE DEF k, C
  <2>9. CopiesAt(e.queue, C, x) = CopiesAt(h.queue, C, x) + k
    BY <1>2, <1>3, <2>6, <2>8
  <2> QED BY <1>2, <1>3, <1>4, <2>9 DEF HandCopies, k, C
<1>5. CASE /\ e.queue = h.queue
           /\ e.parked = [h.parked EXCEPT ![n] = Append(h.parked[n], d)]
  <2>1. CopiesIn(Append(h.parked[n], d), x) = CopiesIn(h.parked[n], x) + One(Carries(d, x))
    BY <1>1, CopiesAppend
  <2>2. e.parked[s] = IF s = n THEN Append(h.parked[n], d) ELSE h.parked[s]
    BY <1>1, <1>5
  <2>3. CopiesIn(e.parked[s], x) = CopiesIn(h.parked[s], x) + k
    <3>1. CASE s = n
      <4>1. k = One(Carries(d, x))
        BY <3>1 DEF One
      <4> QED BY <2>1, <2>2, <3>1, <4>1, Zenon
    <3>2. CASE s # n
      <4>1. k = 0
        BY <3>2 DEF One
      <4>2. e.parked[s] = h.parked[s]
        BY <2>2, <3>2
      <4> HIDE DEF k
      <4> QED BY <1>2, <4>1, <4>2
    <3> QED BY <3>1, <3>2
  <2> HIDE DEF k
  <2> QED BY <1>2, <1>3, <1>5, <2>3 DEF HandCopies, k, C
<1> QED
  BY <1>4, <1>5 DEF Given

\* The deliveries ds are given to subscription n one by one.
Giving(ids, n, ds, f) ==
  /\ \A i \in 0..Len(ds) : f[i] \in TidyHand(ids)
  /\ \A i \in 1..Len(ds) : Given(f[i - 1], f[i], n, ds[i])

\* From hand h to hand e the copies of ds were given to subscription n, and no others.
Gains(h, e, n, ds) ==
  \A s \in Names : \A x :
    HandCopies(e, s, x) = HandCopies(h, s, x) + IF s = n THEN CopiesIn(ds, x) ELSE 0

\* Giving many away gives their copies to the subscription, those of ds, and to no other.
LEMMA GivenAllCopies ==
  ASSUME TypeOK, NEW ids, NEW n \in Names, NEW ds \in Seq(LoggedSet), NEW f,
         Giving(ids, n, ds, f)
  PROVE  Gains(f[0], f[Len(ds)], n, ds)
<1> SUFFICES ASSUME NEW s \in Names, NEW x
             PROVE  HandCopies(f[Len(ds)], s, x)
                      = HandCopies(f[0], s, x) + IF s = n THEN CopiesIn(ds, x) ELSE 0
  BY DEF Gains
<1> DEFINE N == Len(ds)
           g(i) == HandCopies(f[i], s, x)
           P == {i \in 0..N : g(i) = g(0) + IF s = n THEN SoFar(ds, i, x) ELSE 0}
<1>1. N \in Nat /\ \A i \in 1..N : ds[i] \in Delivery
  <2>1. ds \in Seq(Delivery)
    <3>1. LoggedSet \subseteq Delivery
      BY DEF LoggedSet
    <3> QED BY <3>1
  <2> QED BY <2>1, ElementOfSeq
<1>2. \A i \in 0..N : g(i) \in Nat
  BY HandNat DEF Giving
<1>3. \A i \in 1..N : g(i) = g(i - 1) + One(s = n /\ Carries(ds[i], x))
  <2> SUFFICES ASSUME NEW i \in 1..N PROVE g(i) = g(i - 1) + One(s = n /\ Carries(ds[i], x))
    OBVIOUS
  <2> DEFINE h == f[i - 1]
             e == f[i]
             d == ds[i]
  <2>1. h \in TidyHand(ids) /\ e \in TidyHand(ids) /\ d \in Delivery /\ Given(h, e, n, d)
    BY <1>1 DEF Giving
  <2> HIDE DEF h, e, d
  <2>2. HandCopies(e, s, x) = HandCopies(h, s, x) + One(s = n /\ Carries(d, x))
    BY <2>1, GivenCopies
  <2> QED BY <2>2 DEF h, e, d
<1> HIDE DEF g
<1>4. 0 \in P
  <2>1. SoFar(ds, 0, x) = 0
    BY SoFarStep
  <2> QED BY <1>1, <1>2, <2>1
<1>5. ASSUME NEW i \in 0..(N - 1), i \in P PROVE i + 1 \in P
  <2>1. i \in Nat /\ i \in 0..N /\ i + 1 \in 1..N /\ i + 1 \in 0..N /\ i + 1 - 1 = i /\ 0 \in 0..N
    BY <1>1
  <2>2. /\ SoFar(ds, i + 1, x) = SoFar(ds, i, x) + One(Carries(ds[i + 1], x))
        /\ SoFar(ds, i, x) \in Nat
    BY <2>1, SoFarStep
  <2>3. g(i + 1) = g(i) + One(s = n /\ Carries(ds[i + 1], x)) /\ g(i) \in Nat /\ g(0) \in Nat
    BY <1>2, <1>3, <2>1
  <2>4. g(i) = g(0) + IF s = n THEN SoFar(ds, i, x) ELSE 0
    BY <1>5
  <2>5. g(i + 1) = g(0) + IF s = n THEN SoFar(ds, i + 1, x) ELSE 0
    <3>1. CASE s = n
      <4>1. One(s = n /\ Carries(ds[i + 1], x)) = One(Carries(ds[i + 1], x))
            /\ One(Carries(ds[i + 1], x)) \in Int
        BY <3>1 DEF One
      <4> QED BY <2>2, <2>3, <2>4, <3>1, <4>1
    <3>2. CASE s # n
      <4>1. One(s = n /\ Carries(ds[i + 1], x)) = 0
        BY <3>2 DEF One
      <4> QED BY <2>3, <2>4, <3>2, <4>1
    <3> QED BY <3>1, <3>2
  <2> QED BY <2>1, <2>5
<1>6. N \in P
  <2> HIDE DEF P, N
  <2>1. 0..N \subseteq P
    BY <1>1, <1>4, <1>5, UpTo
  <2> QED BY <1>1, <2>1
<1>7. SoFar(ds, N, x) = CopiesIn(ds, x)
  BY DEF SoFar, CopiesIn
<1> QED
  BY <1>6, <1>7 DEF g

\* What a closing consumer had is handed back whole (hand_back).
LEMMA HandBackAllCopies ==
  ASSUME TypeOK, NEW ids \in Seq(1..nextId), NEW h \in TidyHand(ids),
         NEW r \in Registrations, NEW ds \in Seq(LoggedSet), NEW counted \in BOOLEAN
  PROVE  /\ HandBackAll(h, ids, r, ds, counted) \in TidyHand(ids)
         /\ Gains(h, HandBackAll(h, ids, r, ds, counted), r.name, ds)
<1> DEFINE X == TidyHand(ids)
           N == Len(ds)
<1>1. \A y \in X : \A d \in LoggedSet :
        HandBack(y, ids, r, d, counted) \in X /\ Given(y, HandBack(y, ids, r, d, counted), r.name, d)
  BY HandBackIn, HandBackGiven DEF LoggedSet
<1>2. N \in Nat /\ \A i \in 1..N : ds[i] \in LoggedSet
  <2> HIDE DEF LoggedSet
  <2> QED BY ElementOfSeq
<1>3. h \in X
  OBVIOUS
<1> HIDE DEF X
<1>4. PICK f : /\ f[0] = h
               /\ \A i \in 1..N : f[i] = HandBack(f[i - 1], ids, r, ds[i], counted)
               /\ \A i \in 0..N : f[i] \in X
               /\ HandBackAll(h, ids, r, ds, counted) = f[N]
  BY <1>1, <1>3, HandBackFold
<1>5. \A i \in 1..N : Given(f[i - 1], f[i], r.name, ds[i])
  <2> SUFFICES ASSUME NEW i \in 1..N PROVE Given(f[i - 1], f[i], r.name, ds[i])
    OBVIOUS
  <2>1. i - 1 \in 0..N
    BY <1>2
  <2> QED BY <1>1, <1>2, <1>4, <2>1
<1>6. r.name \in Names
  BY RouterAssumption DEF Registration
<1>7. f[N] \in X
  BY <1>2, <1>4
<1>8. Gains(f[0], f[N], r.name, ds)
  <2> DEFINE n == r.name
  <2>1. n \in Names /\ Giving(ids, n, ds, f)
    BY <1>4, <1>5, <1>6 DEF X, Giving
  <2> HIDE DEF n, N
  <2>2. Gains(f[0], f[Len(ds)], n, ds)
    BY <2>1, GivenAllCopies
  <2> QED BY <2>2 DEF n, N
<1> QED
  BY <1>4, <1>7, <1>8 DEF X

\* A replay is handed out whole while somebody reads what it replays (seek).
LEMMA ReplayAllCopies ==
  ASSUME TypeOK, NEW h \in TidyHand(attached), NEW r \in Registrations,
         NEW ds \in Seq(LoggedSet),
         \A i \in 1..Len(ds) : MembersOf(attached, listed, r.name, ds[i].topic) # <<>>
  PROVE  /\ ReplayAll(h, r, ds) \in TidyHand(attached)
         /\ Gains(h, ReplayAll(h, r, ds), r.name, ds)
<1> DEFINE X == TidyHand(attached)
           N == Len(ds)
<1>1. \A y \in X : \A d \in LoggedSet :
        /\ Replay(y, r, d) \in X
        /\ MembersOf(attached, listed, r.name, d.topic) # <<>> => Given(y, Replay(y, r, d), r.name, d)
  BY ReplayIn, ReplayGiven DEF LoggedSet
<1>2. N \in Nat /\ \A i \in 1..N : ds[i] \in LoggedSet
  <2> HIDE DEF LoggedSet
  <2> QED BY ElementOfSeq
<1>3. h \in X
  OBVIOUS
<1> HIDE DEF X
<1>4. PICK f : /\ f[0] = h
               /\ \A i \in 1..N : f[i] = Replay(f[i - 1], r, ds[i])
               /\ \A i \in 0..N : f[i] \in X
               /\ ReplayAll(h, r, ds) = f[N]
  BY <1>1, <1>3, ReplayFold
<1>5. \A i \in 1..N : Given(f[i - 1], f[i], r.name, ds[i])
  <2> SUFFICES ASSUME NEW i \in 1..N PROVE Given(f[i - 1], f[i], r.name, ds[i])
    OBVIOUS
  <2>1. i - 1 \in 0..N
    BY <1>2
  <2> QED BY <1>1, <1>2, <1>4, <2>1
<1>6. r.name \in Names
  BY RouterAssumption DEF Registration
<1>7. f[N] \in X
  BY <1>2, <1>4
<1>8. Gains(f[0], f[N], r.name, ds)
  <2> DEFINE n == r.name
  <2>1. n \in Names /\ Giving(attached, n, ds, f)
    BY <1>4, <1>5, <1>6 DEF X, Giving
  <2> HIDE DEF n, N
  <2>2. Gains(f[0], f[Len(ds)], n, ds)
    BY <2>1, GivenAllCopies
  <2> QED BY <2>2 DEF n, N
<1> QED
  BY <1>4, <1>7, <1>8 DEF X

-----------------------------------------------------------------------------
(* The copies outside a hand *)

\* A settlement v holds entry x for the consumers C.
HeldFor(v, C, x) == v.duty \in {"handle", "timer"} /\ v.id \in C /\ Carries(v.d, x)

\* As a number.
Hold(v, C, x) == IF HeldFor(v, C, x) THEN 1 ELSE 0

\* The settlements f hold x for C.
HeldIn(f, C, x) == Cardinality({m \in Slots : HeldFor(f[m], C, x)})

LEMMA HeldNat ==
  ASSUME NEW f, NEW C, NEW x
  PROVE  HeldIn(f, C, x) \in Nat
<1>1. {m \in Slots : HeldFor(f[m], C, x)} \subseteq Slots
  OBVIOUS
<1> QED
  BY <1>1, FS_Subset, FS_CardinalityType, RouterAssumption DEF HeldIn

\* The copies held follow the one settlement that changed.
LEMMA HeldUpdate ==
  ASSUME NEW f, NEW g, NEW m \in Slots, \A x \in Slots : x # m => g[x] = f[x], NEW C, NEW x
  PROVE  /\ HeldIn(f, C, x) \in Nat /\ HeldIn(g, C, x) \in Nat
         /\ HeldIn(g, C, x)
              = HeldIn(f, C, x) + (Hold(g[m], C, x) - Hold(f[m], C, x))
<1> DEFINE A == {z \in Slots : HeldFor(f[z], C, x)}
           B == {z \in Slots : HeldFor(g[z], C, x)}
<1>1. /\ A \subseteq Slots /\ B \subseteq Slots
      /\ \A z \in Slots : z # m => (z \in A <=> z \in B)
      /\ m \in A <=> HeldFor(f[m], C, x)
      /\ m \in B <=> HeldFor(g[m], C, x)
  OBVIOUS
<1>2. HeldIn(f, C, x) = Cardinality(A) /\ HeldIn(g, C, x) = Cardinality(B)
  BY DEF HeldIn
<1> HIDE DEF A, B
<1>3. /\ Cardinality(A) \in Nat /\ Cardinality(B) \in Nat
      /\ Cardinality(B) = Cardinality(A) + (One(m \in B) - One(m \in A))
  BY <1>1, OneSlot
<1>4. One(m \in B) = Hold(g[m], C, x) /\ One(m \in A) = Hold(f[m], C, x)
  BY <1>1 DEF One, Hold
<1> QED
  BY <1>2, <1>3, <1>4, Zenon

\* What the handlers hold, dropped or left to a timer, of entry x.
Away(un, f, C, x) == CopiesAt(un, C, x) + HeldIn(f, C, x)

\* The live copies before a step.
LEMMA LiveParts ==
  ASSUME IInv, NEW s \in Names, NEW x
  PROVE  /\ LiveCopies(s, x) = HandCopies(Hand, s, x) + Away(unacked, settle, Of(s), x)
         /\ LiveCopies(s, x) \in Nat /\ HandCopies(Hand, s, x) \in Nat
         /\ CopiesAt(queue, Of(s), x) \in Nat /\ CopiesIn(parked[s], x) \in Nat
         /\ CopiesAt(unacked, Of(s), x) \in Nat /\ HeldIn(settle, Of(s), x) \in Nat
         /\ HandCopies(Hand, s, x) = CopiesAt(queue, Of(s), x) + CopiesIn(parked[s], x)
<1>1. Hand \in TidyHand(attached) /\ Hand.queue = queue /\ Hand.parked = parked
  BY HandIsTidy DEF Hand
<1>2. HandCopies(Hand, s, x) = CopiesAt(queue, Of(s), x) + CopiesIn(parked[s], x)
  BY <1>1 DEF HandCopies
<1>3. CopiesOut(Of(s), x) = HeldIn(settle, Of(s), x)
  BY DEF CopiesOut, HeldIn, HeldFor
<1>4. CopiesAt(queue, Of(s), x) \in Nat /\ CopiesIn(parked[s], x) \in Nat
  BY <1>1, HandNat
<1>5. CopiesAt(unacked, Of(s), x) \in Nat
  <2>1. unacked \in Queues
    BY DEF IInv, TypeOK, Queues
  <2> QED BY <2>1, AtNat
<1>6. HeldIn(settle, Of(s), x) \in Nat
  BY HeldNat
<1> DEFINE a == CopiesAt(queue, Of(s), x)
           b == CopiesIn(parked[s], x)
           c == CopiesAt(unacked, Of(s), x)
           d == HeldIn(settle, Of(s), x)
           l == LiveCopies(s, x)
           k == HandCopies(Hand, s, x)
           w == Away(unacked, settle, Of(s), x)
<1>7. /\ a \in Nat /\ b \in Nat /\ c \in Nat /\ d \in Nat
      /\ l = a + c + b + d /\ k = a + b /\ w = c + d
  BY <1>2, <1>3, <1>4, <1>5, <1>6, Zenon DEF LiveCopies, Away
<1>8. l = k + w /\ l \in Nat /\ k \in Nat
  <2> HIDE DEF a, b, c, d, l, k, w
  <2> QED BY <1>7
<1> QED
  BY <1>2, <1>4, <1>5, <1>6, <1>8, Zenon

\* And after it, when it gave no consumer to a subscription.
LEMMA LiveAfter ==
  ASSUME IInv', UNCHANGED <<nextId, reg>>, NEW s \in Names, NEW x
  PROVE  /\ LiveCopies(s, x)' = (CopiesAt(queue', Of(s), x) + CopiesIn(parked'[s], x))
                                   + Away(unacked', settle', Of(s), x)
         /\ LiveCopies(s, x)' \in Nat
         /\ CopiesAt(queue', Of(s), x) \in Nat /\ CopiesIn(parked'[s], x) \in Nat
         /\ CopiesAt(unacked', Of(s), x) \in Nat /\ HeldIn(settle', Of(s), x) \in Nat
<1> DEFINE C == Of(s)
<1>1. Of(s)' = C
  BY DEF Of
<1> HIDE DEF C
<1>2. LiveCopies(s, x)' = CopiesAt(queue', C, x) + CopiesAt(unacked', C, x)
                            + CopiesIn(parked'[s], x) + HeldIn(settle', C, x)
  BY <1>1 DEF LiveCopies, CopiesOut, HeldIn, HeldFor
<1>3. queue' \in Queues /\ unacked' \in Queues /\ parked'[s] \in Seq(Delivery)
  BY DEF IInv, TypeOK, Queues
<1>4. /\ CopiesAt(queue', C, x) \in Nat /\ CopiesIn(parked'[s], x) \in Nat
      /\ CopiesAt(unacked', C, x) \in Nat /\ HeldIn(settle', C, x) \in Nat
  BY <1>3, AtNat, CopiesNat, HeldNat
<1> DEFINE a == CopiesAt(queue', C, x)
           b == CopiesIn(parked'[s], x)
           c == CopiesAt(unacked', C, x)
           d == HeldIn(settle', C, x)
           l == LiveCopies(s, x)'
           w == Away(unacked', settle', C, x)
<1>5. /\ a \in Nat /\ b \in Nat /\ c \in Nat /\ d \in Nat
      /\ l = a + c + b + d /\ w = c + d
  BY <1>2, <1>4, Zenon DEF Away
<1>6. l = (a + b) + w /\ l \in Nat
  <2> HIDE DEF a, b, c, d, l, w
  <2> QED BY <1>5
<1> QED
  BY <1>4, <1>6, Zenon DEF C

-----------------------------------------------------------------------------
(* The invariant of the refinement, and what it says of a settlement *)

\* No consumer that has not attached yet was ever handed anything, a log stays within
\* its bound, and while the broker is open the router knows every consumer it attached.
Backed ==
  /\ Unopened(unacked)
  /\ \A t \in Topics : Len(log[t]) <= MaxEntries
  /\ up => 1..nextId \subseteq Attached \cup departed

BInv == CInv /\ CapInv /\ Backed

\* A delivery that is logged is of one of the logs' places.
LEMMA LoggedPlaced ==
  ASSUME BInv, NEW d, Logged(d)
  PROVE  /\ <<d.topic, d.seq>> \in Places /\ d \in Delivery /\ d.topic \in Topics
         /\ d.seq \in 1..Len(log[d.topic]) /\ d.seq \in 1..MaxEntries
<1>1. d \in Delivery /\ d.topic \in Topics /\ d.seq \in 1..Len(log[d.topic])
  BY DEF Logged, Delivery
<1>2. Len(log[d.topic]) <= MaxEntries /\ Len(log[d.topic]) \in Nat /\ MaxEntries \in Nat
  <2>1. log \in [Topics -> Seq(LogEntry)] /\ Len(log[d.topic]) <= MaxEntries
    BY <1>1 DEF BInv, Backed, CInv, IInv, TypeOK
  <2>2. MaxEntries \in Nat
    BY RouterAssumption
  <2>3. log[d.topic] \in Seq(LogEntry)
    BY <1>1, <2>1
  <2> QED BY <2>1, <2>2, <2>3
<1>3. d.seq \in 1..MaxEntries
  BY <1>1, <1>2
<1> QED
  BY <1>1, <1>3 DEF Places

\* While the broker is open a delivery that is held is of a subscription that is known.
LEMMA HeldBy ==
  ASSUME BInv, up, NEW m \in Slots, settle[m].duty \in {"handle", "timer"}
  PROVE  LET c == settle[m].id
             d == settle[m].d
         IN  /\ c \in Attached \cup departed /\ c \in 1..nextId /\ c \in Ids
             /\ reg[c] \in Registrations /\ reg[c].name \in Names
             /\ d \in LoggedSet /\ d \in Delivery /\ Logged(d)
             /\ <<d.topic, d.seq>> \in Places
             /\ \A s \in Names : \A x :
                  HeldFor(settle[m], Of(s), x) <=> s = reg[c].name /\ Carries(d, x)
<1> DEFINE c == settle[m].id
           d == settle[m].d
<1>1. c \in 1..nextId /\ c \in Attached \cup departed
  BY DEF BInv, CapInv, Backed
<1>2. c \in Ids /\ c <= nextId /\ reg[c] \in Registrations
  BY <1>1, KnownConsumer DEF BInv, CInv, IInv
<1>3. reg[c].name \in Names
  BY <1>2, RouterAssumption DEF Registration
<1>4. Logged(d)
  BY <1>1 DEF BInv, CInv, IInv, DeliveriesAreLogged
<1>5. d \in LoggedSet /\ d \in Delivery /\ <<d.topic, d.seq>> \in Places
  BY <1>4, LoggedPlaced DEF LoggedSet
<1>6. \A s \in Names : c \in Of(s) <=> s = reg[c].name
  BY <1>1, <1>2 DEF Of
<1>7. \A s \in Names : \A x : HeldFor(settle[m], Of(s), x) <=> s = reg[c].name /\ Carries(d, x)
  BY <1>6 DEF HeldFor
<1> QED
  BY <1>1, <1>2, <1>3, <1>4, <1>5, <1>7

\* A settlement holds what it held, or nothing any more.
LEMMA HeldBecomes ==
  ASSUME TypeOK, NEW m \in Slots, NEW duty \in Duties, NEW counted \in BOOLEAN,
         Becomes(m, duty, counted), NEW C, NEW x
  PROVE  /\ \A y \in Slots : y # m => settle'[y] = settle[y]
         /\ duty \notin {"handle", "timer"} => Hold(settle'[m], C, x) = 0
         /\ duty \in {"handle", "timer"} /\ settle[m].duty \in {"handle", "timer"}
              => Hold(settle'[m], C, x) = Hold(settle[m], C, x)
<1>1. settle \in [Slots -> Settlement]
  BY DEF TypeOK
<1>2. \A y \in Slots : y # m => settle'[y] = settle[y]
  BY <1>1 DEF Becomes
<1>3. ASSUME duty \notin {"handle", "timer"} PROVE Hold(settle'[m], C, x) = 0
  <2>1. settle'[m].duty \notin {"handle", "timer"}
    <3>1. \/ settle'[m] = Idle
          \/ settle'[m] = [duty |-> duty, id |-> settle[m].id, counted |-> counted,
                          d |-> IF duty = "none" THEN None ELSE settle[m].d]
      BY <1>1 DEF Becomes
    <3> QED BY <1>3, <3>1 DEF Idle
  <2> QED BY <2>1 DEF HeldFor, Hold
<1>4. ASSUME duty \in {"handle", "timer"}, settle[m].duty \in {"handle", "timer"}
      PROVE  Hold(settle'[m], C, x) = Hold(settle[m], C, x)
  <2>1. settle'[m] = [duty |-> duty, id |-> settle[m].id, counted |-> counted, d |-> settle[m].d]
    BY <1>1, <1>4 DEF Becomes
  <2>2. HeldFor(settle'[m], C, x) <=> HeldFor(settle[m], C, x)
    BY <1>4, <2>1 DEF HeldFor
  <2> QED BY <2>2 DEF Hold
<1> QED
  BY <1>2, <1>3, <1>4

-----------------------------------------------------------------------------
(* Steps that keep what is owed *)

\* What the specification of the promise sees of the router.
PromiseVars == <<up, Tip, Outstanding, acked, Swapped>>

\* Nobody is owed more or less, of any entry.
StillOwed == \A s \in Names : \A x \in Places : LiveCopies(s, x)' = LiveCopies(s, x)

\* A step owes what was owed, or is of a closed broker.
Keeping == up' = up /\ (up => log' = log /\ swap' = swap /\ StillOwed)

\* The promise does not see such a step.
LEMMA Unseen ==
  ASSUME Keeping, acked' = acked
  PROVE  UNCHANGED PromiseVars
<1>1. Tip' = Tip /\ Swapped' = Swapped
  BY DEF Keeping, Tip, Swapped
<1>2. Outstanding' = Outstanding
  BY DEF Keeping, Outstanding, StillOwed, Places
<1> QED
  BY <1>1, <1>2 DEF Keeping, PromiseVars

\* Entry x has i more copies in the hand of subscription s, and j more dropped.
Shifts(s, x, i, j) ==
  /\ CopiesAt(queue', Of(s), x) + CopiesIn(parked'[s], x) = HandCopies(Hand, s, x) + i
  /\ CopiesAt(unacked', Of(s), x) = CopiesAt(unacked, Of(s), x) + j

\* From l copies to k, when a settlement holds n of them and held o.
Moves(l, k, i, j, o, n) == k = l + i + j + (n - o)

\* How many are live after a step of one settlement, from what it moves in the hand,
\* at the consumers and in the settlement.
LEMMA LiveStep ==
  ASSUME IInv, IInv', UNCHANGED <<nextId, reg>>, NEW m \in Slots,
         \A y \in Slots : y # m => settle'[y] = settle[y], NEW s \in Names, NEW x,
         NEW i \in Int, NEW j \in Int, Shifts(s, x, i, j)
  PROVE  Moves(LiveCopies(s, x), LiveCopies(s, x)', i, j,
               Hold(settle[m], Of(s), x), Hold(settle'[m], Of(s), x))
<1> DEFINE C == Of(s)
           a == CopiesAt(queue', C, x)
           b == CopiesIn(parked'[s], x)
           u == CopiesAt(unacked', C, x)
           h == HeldIn(settle', C, x)
           k == HandCopies(Hand, s, x)
           v == CopiesAt(unacked, C, x)
           g == HeldIn(settle, C, x)
           o == Hold(settle[m], C, x)
           n == Hold(settle'[m], C, x)
           l == LiveCopies(s, x)
           z == LiveCopies(s, x)'
<1>1. l = k + (v + g) /\ k \in Nat /\ v \in Nat /\ g \in Nat
  BY LiveParts DEF Away
<1>2. z = (a + b) + (u + h) /\ a \in Nat /\ b \in Nat /\ u \in Nat /\ h \in Nat
  BY LiveAfter DEF Away
<1>3. h = g + (n - o) /\ n \in Int /\ o \in Int
  <2>1. h = g + (n - o)
    BY HeldUpdate
  <2> QED BY <2>1 DEF Hold
<1>4. a + b = k + i /\ u = v + j
  BY DEF Shifts
<1>5. Moves(l, z, i, j, o, n)
  <2> HIDE DEF a, b, u, h, k, v, g, o, n, l, z
  <2> QED BY <1>1, <1>2, <1>3, <1>4 DEF Moves
<1> QED
  BY <1>5

\* And after a step that leaves the settlements alone.
LEMMA LiveBroker ==
  ASSUME IInv, IInv', UNCHANGED <<nextId, reg, settle>>, NEW s \in Names, NEW x,
         NEW i \in Int, NEW j \in Int, Shifts(s, x, i, j)
  PROVE  Moves(LiveCopies(s, x), LiveCopies(s, x)', i, j, 0, 0)
<1> DEFINE C == Of(s)
           a == CopiesAt(queue', C, x)
           b == CopiesIn(parked'[s], x)
           u == CopiesAt(unacked', C, x)
           k == HandCopies(Hand, s, x)
           v == CopiesAt(unacked, C, x)
           g == HeldIn(settle, C, x)
           l == LiveCopies(s, x)
           z == LiveCopies(s, x)'
<1>1. l = k + (v + g) /\ k \in Nat /\ v \in Nat /\ g \in Nat
  BY LiveParts DEF Away
<1>2. z = (a + b) + (u + g) /\ a \in Nat /\ b \in Nat /\ u \in Nat
  BY LiveAfter DEF Away
<1>3. a + b = k + i /\ u = v + j
  BY DEF Shifts
<1>4. Moves(l, z, i, j, 0, 0)
  <2> HIDE DEF a, b, u, k, v, g, l, z
  <2> QED BY <1>1, <1>2, <1>3 DEF Moves
<1> QED
  BY <1>4

\* A step that neither touches the queues nor what is parked moves no copy in the hand.
LEMMA HandKept ==
  ASSUME IInv, UNCHANGED <<queue, parked>>, NEW s \in Names, NEW x
  PROVE  CopiesAt(queue', Of(s), x) + CopiesIn(parked'[s], x) = HandCopies(Hand, s, x) + 0
<1>1. /\ HandCopies(Hand, s, x) = CopiesAt(queue, Of(s), x) + CopiesIn(parked[s], x)
      /\ HandCopies(Hand, s, x) \in Nat
  BY LiveParts
<1> QED
  BY <1>1

\* One that leaves a hand behind leaves the copies of that hand.
LEMMA HandLeft ==
  ASSUME NEW h, SetHand(h), NEW s, NEW x
  PROVE  CopiesAt(queue', Of(s), x) + CopiesIn(parked'[s], x) = HandCopies(h, s, x)
BY DEF SetHand, HandCopies

\* Nothing moves at the consumers when their handlers drop nothing.
LEMMA DropsKept ==
  ASSUME IInv, unacked' = unacked, NEW s \in Names, NEW x
  PROVE  CopiesAt(unacked', Of(s), x) = CopiesAt(unacked, Of(s), x) + 0
<1>1. CopiesAt(unacked, Of(s), x) \in Nat
  BY LiveParts
<1> QED
  BY <1>1

\* A settlement that goes on holding, or not holding, what it did owes what it owed.
LEMMA SettleUnseen ==
  ASSUME BInv, IInv', up, UNCHANGED <<up, nextId, reg, log, queue, unacked, parked, swap>>,
         NEW m \in Slots, NEW duty \in Duties, NEW counted \in BOOLEAN,
         Becomes(m, duty, counted),
         duty \in {"handle", "timer"} <=> settle[m].duty \in {"handle", "timer"}
  PROVE  Keeping
<1>1. IInv /\ TypeOK
  BY DEF BInv, CInv, IInv
<1>2. ASSUME NEW s \in Names, NEW x \in Places PROVE LiveCopies(s, x)' = LiveCopies(s, x)
  <2>1. /\ \A y \in Slots : y # m => settle'[y] = settle[y]
        /\ Hold(settle'[m], Of(s), x) = Hold(settle[m], Of(s), x)
    <3> DEFINE C == Of(s)
    <3> HIDE DEF C
    <3>1. /\ \A y \in Slots : y # m => settle'[y] = settle[y]
          /\ duty \notin {"handle", "timer"} => Hold(settle'[m], C, x) = 0
          /\ duty \in {"handle", "timer"} /\ settle[m].duty \in {"handle", "timer"}
               => Hold(settle'[m], C, x) = Hold(settle[m], C, x)
      BY <1>1, HeldBecomes
    <3>2. duty \notin {"handle", "timer"} => Hold(settle[m], C, x) = 0
      BY DEF HeldFor, Hold
    <3> QED BY <3>1, <3>2 DEF C
  <2>2. CopiesAt(queue', Of(s), x) + CopiesIn(parked'[s], x) = HandCopies(Hand, s, x) + 0
    BY <1>1, HandKept
  <2>3. CopiesAt(unacked', Of(s), x) = CopiesAt(unacked, Of(s), x) + 0
    BY <1>1, DropsKept
  <2>4. Shifts(s, x, 0, 0)
    BY <2>2, <2>3 DEF Shifts
  <2>5. Moves(LiveCopies(s, x), LiveCopies(s, x)', 0, 0,
              Hold(settle[m], Of(s), x), Hold(settle'[m], Of(s), x))
    BY <1>1, <2>1, <2>4, LiveStep
  <2>6. LiveCopies(s, x) \in Nat /\ Hold(settle[m], Of(s), x) \in Int
    BY <1>1, LiveParts DEF Hold
  <2> QED BY <2>1, <2>5, <2>6 DEF Moves
<1> QED
  BY <1>2 DEF Keeping, StillOwed

\* A delayed retry that is scheduled keeps its delivery.
LEMMA NackAfterPromise ==
  ASSUME BInv, IInv', up, NEW m \in Slots, NackAfter(m)
  PROVE  Keeping
<1>1. /\ settle[m].duty = "handle" /\ Becomes(m, "timer", TRUE)
      /\ UNCHANGED <<up, nextId, reg, log, queue, unacked, parked, swap>>
  BY DEF NackAfter, registry, topicVars
<1> QED
  BY <1>1, SettleUnseen DEF Duties

\* Counting a fresh delivery moves none.
LEMMA CountPromise ==
  ASSUME BInv, IInv', up, NEW m \in Slots, Count(m)
  PROVE  Keeping
<1>1. /\ settle[m].duty \in {"count", "recount"} /\ Becomes(m, "none", settle[m].counted)
      /\ UNCHANGED <<up, nextId, reg, log, queue, unacked, parked, swap>>
      /\ settle[m].counted \in BOOLEAN
  BY DEF Count, registry, topicVars, BInv, CInv, IInv, TypeOK, Settlement
<1> DEFINE k == settle[m].counted
<1>2. k \in BOOLEAN /\ Becomes(m, "none", k)
  BY <1>1
<1> HIDE DEF k
<1>3. "none" \in Duties /\ ("none" \in {"handle", "timer"} <=> settle[m].duty \in {"handle", "timer"})
  BY <1>1 DEF Duties
<1> QED
  BY <1>1, <1>2, <1>3, SettleUnseen

\* So does releasing one that is settled.
LEMMA ReleasePromise ==
  ASSUME BInv, IInv', up, NEW m \in Slots, Release(m)
  PROVE  Keeping
<1>1. /\ Becomes(m, settle[m].duty, FALSE)
      /\ UNCHANGED <<up, nextId, reg, log, queue, unacked, parked, swap>>
      /\ settle[m].duty \in Duties
  BY DEF Release, registry, topicVars, BInv, CInv, IInv, TypeOK, Settlement
<1> DEFINE k == settle[m].duty
<1>2. k \in Duties /\ Becomes(m, k, FALSE)
      /\ (k \in {"handle", "timer"} <=> settle[m].duty \in {"handle", "timer"})
  BY <1>1
<1> HIDE DEF k
<1> QED
  BY <1>1, <1>2, SettleUnseen

\* What is given to a subscription is one copy more in the hand, and no other.
LEMMA GivenLeft ==
  ASSUME IInv, NEW ids, Hand \in TidyHand(ids), NEW h \in TidyHand(ids), SetHand(h),
         NEW n \in Names, NEW d \in Delivery, Given(Hand, h, n, d), NEW s \in Names, NEW x
  PROVE  CopiesAt(queue', Of(s), x) + CopiesIn(parked'[s], x)
           = HandCopies(Hand, s, x) + One(s = n /\ Carries(d, x))
<1>1. CopiesAt(queue', Of(s), x) + CopiesIn(parked'[s], x) = HandCopies(h, s, x)
  BY HandLeft
<1> DEFINE g == Hand
<1>2. g \in TidyHand(ids) /\ Given(g, h, n, d) /\ TypeOK
  BY DEF IInv
<1> HIDE DEF g
<1>3. HandCopies(h, s, x) = HandCopies(g, s, x) + One(s = n /\ Carries(d, x))
  BY <1>2, GivenCopies
<1> QED
  BY <1>1, <1>3 DEF g

\* A settlement that hands its delivery back to the subscription it came from, to one of
\* its consumers or to what is parked for it, owes what it owed.
LEMMA GiveBack ==
  ASSUME BInv, IInv', up, UNCHANGED <<up, nextId, reg, log, unacked, swap>>,
         NEW m \in Slots, settle[m].duty \in {"handle", "timer"},
         NEW duty \in Duties \ {"handle", "timer"}, NEW counted \in BOOLEAN,
         Becomes(m, duty, counted), NEW h \in TidyHand(attached), SetHand(h),
         Given(Hand, h, reg[settle[m].id].name, Again(settle[m].d))
  PROVE  Keeping
<1> DEFINE n == reg[settle[m].id].name
           d == settle[m].d
           e == Again(d)
<1>1. IInv /\ TypeOK /\ Hand \in TidyHand(attached)
  BY HandIsTidy DEF BInv, CInv, IInv
<1>2. n \in Names /\ d \in LoggedSet
      /\ \A s \in Names : \A x : HeldFor(settle[m], Of(s), x) <=> s = n /\ Carries(d, x)
  BY HeldBy
<1>3. d \in Delivery /\ e \in Delivery
  BY <1>2, AgainIn DEF LoggedSet
<1>4. \A x : Carries(e, x) <=> Carries(d, x)
  BY <1>3, CopiesAgain
<1> HIDE DEF n, e, d
<1>5. ASSUME NEW s \in Names, NEW x \in Places PROVE LiveCopies(s, x)' = LiveCopies(s, x)
  <2> DEFINE C == Of(s)
             i == One(s = n /\ Carries(e, x))
             o == Hold(settle[m], C, x)
             z == Hold(settle'[m], C, x)
  <2>1. (\A y \in Slots : y # m => settle'[y] = settle[y]) /\ z = 0
    <3> HIDE DEF C
    <3> QED BY <1>1, HeldBecomes
  <2>2. o = i /\ i \in Int
    BY <1>2, <1>4 DEF One, Hold
  <2>3. CopiesAt(queue', C, x) + CopiesIn(parked'[s], x) = HandCopies(Hand, s, x) + i
    <3>1. Given(Hand, h, n, e)
      BY DEF n, e, d
    <3> QED BY <1>1, <1>2, <1>3, <3>1, GivenLeft
  <2>4. CopiesAt(unacked', C, x) = CopiesAt(unacked, C, x) + 0
    BY <1>1, DropsKept
  <2>5. Shifts(s, x, i, 0)
    BY <2>3, <2>4 DEF Shifts
  <2> HIDE DEF i
  <2>6. Moves(LiveCopies(s, x), LiveCopies(s, x)', i, 0, o, z)
    BY <1>1, <2>1, <2>2, <2>5, LiveStep
  <2>7. LiveCopies(s, x) \in Nat
    BY <1>1, LiveParts
  <2> HIDE DEF o, z
  <2> QED BY <2>1, <2>2, <2>6, <2>7 DEF Moves
<1> QED
  BY <1>5 DEF Keeping, StillOwed

\* A requeue of what is not spent gives it back to its subscription.
LEMMA RequeueGives ==
  ASSUME IInv, NEW c \in Attached \cup departed, NEW d, Logged(d), NEW took,
         Requeue(c, d, took)
  PROVE  \/ /\ Deliver(reg[c].dead.topic, KeyOf(d), StampOrigin(d))
            /\ reg[c].dead # None /\ took = FALSE /\ UNCHANGED parked
         \/ \E h \in TidyHand(attached) : /\ SetHand(h)
                                          /\ Given(Hand, h, reg[c].name, Again(d))
                                          /\ UNCHANGED topicVars
<1> DEFINE r == reg[c]
           M == MembersOf(attached, listed, r.name, d.topic)
           e == Again(d)
<1>1. TypeOK /\ Hand \in TidyHand(attached) /\ attached \in Seq(1..nextId)
  BY HandIsTidy DEF IInv, TypeOK
<1>2. r \in Registrations /\ r.name \in Names /\ r.sharing \in Sharings
  <2>1. reg[c] \in Registrations
    BY <1>1, KnownConsumer
  <2> QED BY <2>1, RouterAssumption DEF Registration
<1>3. Logged(e) /\ e.topic = d.topic
  BY DEF Logged, Again, Delivery
<1> DEFINE H == Hand
<1> HIDE DEF e
<1>4. CASE M = <<>> /\ SetHand(Park(Hand, r.name, e)) /\ UNCHANGED topicVars
  <2> HIDE DEF H
  <2> DEFINE h == Park(H, r.name, e)
  <2>1. h \in TidyHand(attached)
    <3> HIDE DEF r
    <3> QED BY <1>1, <1>2, <1>3, <1>4, ParkIn DEF H
  <2>2. h.queue = H.queue /\ h.parked = [H.parked EXCEPT ![r.name] = Append(H.parked[r.name], e)]
    <3>1. H \in TidyHand(attached)
      BY <1>1 DEF H
    <3> QED BY <1>2, <3>1 DEF Park, TidyHand
  <2>3. Given(H, h, r.name, e)
    BY <2>2 DEF Given
  <2> HIDE DEF h
  <2> QED BY <1>4, <2>1, <2>3 DEF h, H, e
<1>5. CASE M # <<>> /\ SetHand(Share(Hand, r.name, r.sharing, M, e)) /\ UNCHANGED topicVars
  <2> DEFINE h == Share(Hand, r.name, r.sharing, M, e)
  <2>1. M \in Seq(1..nextId) /\ \A i \in 1..Len(M) : reg[M[i]].name = r.name
    BY <1>1, MembersProps
  <2>2. h \in TidyHand(attached) /\ Given(Hand, h, r.name, e)
    <3> DEFINE n == r.name
               y == r.sharing
    <3>1. n \in Names /\ y \in Sharings /\ \A i \in 1..Len(M) : reg[M[i]].name = n
      BY <1>2, <2>1
    <3> HIDE DEF n, y, M, H
    <3>2. Share(H, n, y, M, e) \in TidyHand(attached) /\ Given(H, Share(H, n, y, M, e), n, e)
      BY <1>1, <1>3, <1>5, <2>1, <3>1, ShareIn, ShareGiven DEF H
    <3> QED BY <3>2 DEF n, y, H
  <2> HIDE DEF h
  <2> QED BY <1>5, <2>2 DEF h, e
<1>6. \/ /\ Deliver(r.dead.topic, KeyOf(d), StampOrigin(d))
         /\ r.dead # None /\ took = FALSE /\ UNCHANGED parked
      \/ M = <<>> /\ SetHand(Park(Hand, r.name, e)) /\ UNCHANGED topicVars
      \/ M # <<>> /\ SetHand(Share(Hand, r.name, r.sharing, M, e)) /\ UNCHANGED topicVars
  BY DEF Requeue, Spent, e
<1> QED
  BY <1>4, <1>5, <1>6

-----------------------------------------------------------------------------
(* Appending an entry *)

\* The subscriptions that take what is appended to topic t.
ServedBy(t) == {s \in Names : MembersOf(attached, listed', s, t) # <<>>}

\* An appended entry is queued once for each of them, and no other entry is queued
\* (deliver).
LEMMA DeliverCopies ==
  ASSUME IInv, NEW t \in Topics, NEW k \in Keys, NEW o, Deliver(t, k, o)
  PROVE  \A s \in Names : \A x :
           CopiesAt(queue', Of(s), x)
             = CopiesAt(queue, Of(s), x) + One(s \in ServedBy(t) /\ x = <<t, Len(log[t]) + 1>>)
<1>0. PICK d : d = [topic |-> t, seq |-> Len(log[t]) + 1, red |-> 0]
  OBVIOUS
<1> DEFINE members == [s \in Names |-> MembersOf(attached, listed', s, t)]
           served == {s \in Names : members[s] # <<>>}
           sharing == [s \in served |-> reg[members[s][1]].sharing]
           taker == [s \in served |->
                       Choose(sharing[s], members[s], k, rotation[s])]
<1>1. queue' = [c \in Ids |-> IF \E s \in served : taker[s] = c
                               THEN Append(queue[c], d) ELSE queue[c]]
  BY <1>0 DEF Deliver, SubscriptionsOver
<1>2. d \in Delivery /\ \A x : Carries(d, x) <=> x = <<t, Len(log[t]) + 1>>
  <2>1. Len(log[t]) \in Nat
    BY DEF IInv, TypeOK
  <2> QED BY <1>0, <2>1 DEF Delivery, Carries
<1>3. ASSUME NEW s \in served
      PROVE  taker[s] \in 1..nextId /\ reg[taker[s]].name = s
  <2> DEFINE M == MembersOf(attached, listed', s, t)
  <2>1. Choose(reg[M[1]].sharing, M, k, rotation[s]) \in 1..nextId
        /\ reg[Choose(reg[M[1]].sharing, M, k, rotation[s])].name = s
    BY TakerNamed DEF IInv
  <2>2. taker[s] = Choose(reg[M[1]].sharing, M, k, rotation[s])
    OBVIOUS
  <2> HIDE DEF M, taker, sharing, members
  <2> QED BY <2>1, <2>2, Zenon
<1>4. queue \in Queues /\ queue \in [Ids -> Seq(Delivery)] /\ 1..nextId \subseteq Ids
  BY RouterAssumption DEF IInv, TypeOK, Queues, Ids
<1>5. served = ServedBy(t)
  BY DEF ServedBy
<1> HIDE DEF served, taker, sharing, members
<1>6. queue' \in Queues
  BY <1>1, <1>2, <1>4 DEF Queues
<1>7. \A s \in Names : \A y \in Of(s) : queue'[y] = IF s \in served /\ y = taker[s]
                                                  THEN Append(queue[y], d) ELSE queue[y]
  <2> SUFFICES ASSUME NEW s \in Names, NEW y \in Of(s)
               PROVE  queue'[y] = IF s \in served /\ y = taker[s]
                                  THEN Append(queue[y], d) ELSE queue[y]
    OBVIOUS
  <2>1. y \in Ids /\ reg[y].name = s
    BY DEF Of
  <2>2. (\E z \in served : taker[z] = y) <=> s \in served /\ y = taker[s]
    BY <1>3, <2>1
  <2> QED BY <1>1, <2>1, <2>2
<1>8. ASSUME NEW s \in Names, NEW x
      PROVE  CopiesAt(queue', Of(s), x)
               = CopiesAt(queue, Of(s), x) + One(s \in served /\ x = <<t, Len(log[t]) + 1>>)
  <2> DEFINE C == Of(s)
             q == queue'
             k1 == One(s \in served /\ x = <<t, Len(log[t]) + 1>>)
  <2>1. CopiesAt(queue, C, x) \in Nat
    BY <1>4, AtNat
  <2>2. CASE s \notin served
    <3>1. \A y \in Ids : y \in C => q[y] = queue[y]
      BY <1>7, <2>2
    <3> HIDE DEF q, C
    <3>2. CopiesAt(q, C, x) = CopiesAt(queue, C, x)
      BY <3>1, AtSame
    <3>3. k1 = 0
      BY <2>2 DEF One
    <3> HIDE DEF k1
    <3> QED BY <2>1, <3>2, <3>3 DEF q, C, k1
  <2>3. CASE s \in served
    <3> DEFINE c == taker[s]
    <3>1. c \in Ids /\ c \in C
      BY <1>3, <1>4, <2>3 DEF Of, Ids
    <3>2. /\ \A y \in Ids : y # c /\ y \in C => q[y] = queue[y]
          /\ q[c] = Append(queue[c], d)
      BY <1>7, <2>3, <3>1
    <3> HIDE DEF q, C, c
    <3>3. AlikeBut(queue, C, q, C, c) /\ q \in Queues
      BY <1>6, <3>2 DEF AlikeBut, q
    <3>4. /\ CopiesAt(q, C, x) = CopiesAt(queue, C, x) + (Part(q, C, c, x) - Part(queue, C, c, x))
          /\ Part(queue, C, c, x) \in Nat
      BY <1>4, <3>1, <3>3, AtUpdate
    <3>5. queue[c] \in Seq(Delivery)
      BY <1>4, <3>1
    <3>6. CopiesIn(q[c], x) = CopiesIn(queue[c], x) + One(Carries(d, x))
      BY <1>2, <3>2, <3>5, CopiesAppend
    <3>7. Part(q, C, c, x) = CopiesIn(q[c], x) /\ Part(queue, C, c, x) = CopiesIn(queue[c], x)
      BY <3>1 DEF Part
    <3>8. One(Carries(d, x)) = k1 /\ k1 \in Int
      BY <1>2, <2>3 DEF One
    <3> HIDE DEF k1
    <3>9. CopiesAt(q, C, x) = CopiesAt(queue, C, x) + k1
      BY <2>1, <3>4, <3>6, <3>7, <3>8
    <3> QED BY <3>9 DEF q, C, k1
  <2> QED BY <2>2, <2>3
<1> QED
  BY <1>5, <1>8

\* A delivery that is logged is not of the next entry of a log.
LEMMA NoCopyYet ==
  ASSUME TypeOK, NEW t \in Topics, NEW ds \in Seq(Delivery), AllLogged(ds)
  PROVE  CopiesIn(ds, <<t, Len(log[t]) + 1>>) = 0
<1> DEFINE x == <<t, Len(log[t]) + 1>>
           D == {n \in 1..Len(ds) : Carries(ds[n], x)}
<1>1. Len(log[t]) \in Nat
  BY DEF TypeOK
<1>2. ASSUME NEW n \in 1..Len(ds) PROVE ~Carries(ds[n], x)
  <2>1. ds[n].seq \in 1..Len(log[ds[n].topic])
    BY DEF AllLogged, Logged
  <2>2. Carries(ds[n], x) => ds[n].topic = t /\ ds[n].seq = Len(log[t]) + 1
    BY DEF Carries
  <2> QED BY <1>1, <2>1, <2>2
<1>3. D = {}
  BY <1>2
<1> HIDE DEF x
<1> QED
  BY <1>3, FS_EmptySet DEF CopiesIn, x

\* Nothing is owed yet of an entry that is still to be appended.
LEMMA NothingOwedYet ==
  ASSUME BInv, up, NEW t \in Topics, NEW s \in Names
  PROVE  LiveCopies(s, <<t, Len(log[t]) + 1>>) = 0
<1> DEFINE x == <<t, Len(log[t]) + 1>>
           C == Of(s)
<1>1. IInv /\ TypeOK
  BY DEF BInv, CInv, IInv
<1>2. ASSUME NEW q \in Queues, \A c \in Ids : AllLogged(q[c])
      PROVE  CopiesAt(q, C, x) = 0
  <2> HIDE DEF C
  <2> DEFINE f == [c \in Ids |-> IF c \in C THEN CopiesIn(q[c], x) ELSE 0]
  <2>1. ASSUME NEW c \in Ids PROVE CopiesIn(q[c], x) = 0
    <3> DEFINE ds == q[c]
    <3>1. ds \in Seq(Delivery) /\ AllLogged(ds)
      BY <1>2 DEF Queues
    <3> HIDE DEF ds
    <3>2. CopiesIn(ds, x) = 0
      BY <1>1, <3>1, NoCopyYet
    <3> QED BY <3>2 DEF ds
  <2>2. f \in [Ids -> Int] /\ \A c \in Ids : f[c] = 0
    BY <2>1
  <2>3. CopiesAt(q, C, x) = SumFunction(f)
    BY DEF CopiesAt
  <2> HIDE DEF f
  <2> QED BY <2>2, <2>3, IdsFinite, SumNat
<1>3. CopiesAt(queue, C, x) = 0 /\ CopiesAt(unacked, C, x) = 0
  BY <1>1, <1>2 DEF IInv, TypeOK, DeliveriesAreLogged, Queues
<1>4. CopiesIn(parked[s], x) = 0
  <2> DEFINE ds == parked[s]
  <2>1. ds \in Seq(Delivery) /\ AllLogged(ds)
    BY <1>1 DEF IInv, TypeOK, DeliveriesAreLogged
  <2> HIDE DEF ds
  <2>2. CopiesIn(ds, x) = 0
    BY <1>1, <2>1, NoCopyYet
  <2> QED BY <2>2 DEF ds
<1>5. CopiesOut(C, x) = 0
  <2>1. ASSUME NEW m \in Slots, settle[m].duty \in {"handle", "timer"}
        PROVE  ~Carries(settle[m].d, x)
    <3>1. settle[m].d.seq \in 1..Len(log[settle[m].d.topic])
      BY <2>1, HeldBy DEF Logged
    <3>2. Len(log[t]) \in Nat
      BY <1>1 DEF TypeOK
    <3>3. Carries(settle[m].d, x) => settle[m].d.topic = t /\ settle[m].d.seq = Len(log[t]) + 1
      BY DEF Carries
    <3> QED BY <3>1, <3>2, <3>3
  <2>2. {m \in Slots : /\ settle[m].duty \in {"handle", "timer"}
                       /\ settle[m].id \in C
                       /\ Carries(settle[m].d, x)} = {}
    BY <2>1
  <2> HIDE DEF C, x
  <2> QED BY <2>2, FS_EmptySet DEF CopiesOut
<1> HIDE DEF x
<1>6. LiveCopies(s, x) = 0
  BY <1>3, <1>4, <1>5 DEF LiveCopies
<1> QED
  BY <1>6 DEF x

\* The place of the next entry of topic t's log.
NextPlace(t) == <<t, Len(log[t]) + 1>>

\* The debts an appended entry adds to.
Adds(t, D, S) ==
  \A s \in Names : \A x \in Places :
    LiveCopies(s, x)' = IF s \in S /\ x = NextPlace(t) THEN 1 ELSE D[s][x]

\* An appended entry is produced, whatever the debts it adds to.
LEMMA Produced ==
  ASSUME TypeOK, up, UNCHANGED <<up, swap, acked>>, NEW t \in Topics, NEW k, NEW o,
         Deliver(t, k, o), NEW D \in [Names -> [Places -> Int]], NEW S \in SUBSET Names,
         Adds(t, D, S)
  PROVE  Promise!Produce(t, D) /\ Tip[t] < MaxEntries
<1>1. /\ log \in [Topics -> Seq(LogEntry)] /\ Len(log[t]) < MaxEntries
      /\ \E at \in Times :
           log' = [log EXCEPT ![t] = Append(@, [key |-> k, at |-> at, origin |-> o])]
  BY DEF TypeOK, Deliver
<1>2. PICK e : log' = [log EXCEPT ![t] = Append(log[t], e)]
  BY <1>1
<1>3. Len(log'[t]) = Len(log[t]) + 1 /\ \A x \in Topics : x # t => log'[x] = log[x]
  BY <1>1, <1>2
<1>4. Tip = [x \in Topics |-> Len(log[x])] /\ Tip' = [x \in Topics |-> Len(log'[x])]
  BY DEF Tip
<1>5. Tip' = [Tip EXCEPT ![t] = Tip[t] + 1]
  BY <1>3, <1>4
<1>6. Swapped' = Swapped
  BY DEF Swapped
<1>7. NextPlace(t) = <<t, Tip[t] + 1>>
  BY <1>4 DEF NextPlace
<1>8. Outstanding' = [s \in Names |-> IF s \in S THEN [D[s] EXCEPT ![<<t, Tip[t] + 1>>] = 1]
                                                 ELSE D[s]]
  <2> DEFINE O == Outstanding'
             F(s) == IF s \in S THEN [D[s] EXCEPT ![<<t, Tip[t] + 1>>] = 1] ELSE D[s]
  <2>1. O = [s \in Names |-> [x \in Places |-> LiveCopies(s, x)']]
    BY DEF Outstanding, Places
  <2>2. ASSUME NEW s \in Names
        PROVE  [x \in Places |-> LiveCopies(s, x)'] = F(s)
    <3>1. D[s] \in [Places -> Int]
      OBVIOUS
    <3>2. \A x \in Places : LiveCopies(s, x)' = IF s \in S /\ x = NextPlace(t) THEN 1 ELSE D[s][x]
      BY DEF Adds
    <3>3. CASE s \in S
      <4>1. \A x \in Places : LiveCopies(s, x)' = IF x = NextPlace(t) THEN 1 ELSE D[s][x]
        BY <3>2, <3>3
      <4>2. F(s) = [D[s] EXCEPT ![NextPlace(t)] = 1]
        BY <1>7, <3>3
      <4> HIDE DEF F
      <4> QED BY <3>1, <4>1, <4>2
    <3>4. CASE s \notin S
      <4>1. \A x \in Places : LiveCopies(s, x)' = D[s][x]
        BY <3>2, <3>4
      <4>2. F(s) = D[s]
        BY <3>4
      <4> HIDE DEF F
      <4> QED BY <3>1, <4>1, <4>2
    <3> QED BY <3>3, <3>4
  <2> HIDE DEF F, O
  <2>3. O = [s \in Names |-> F(s)]
    BY <2>1, <2>2
  <2> QED BY <2>3 DEF F, O
<1>9. Promise!Produce(t, D)
  BY <1>5, <1>6, <1>8 DEF Promise!Produce
<1>10. Tip[t] < MaxEntries
  BY <1>1, <1>4
<1> QED
  BY <1>9, <1>10

\* The debts before a step.
LEMMA Debts ==
  ASSUME IInv, up
  PROVE  /\ Outstanding \in [Names -> [Places -> Int]]
         /\ \A s \in Names : \A x \in Places : Outstanding[s][x] = LiveCopies(s, x)
<1>1. \A s \in Names : \A x \in Places : LiveCopies(s, x) \in Int
  BY LiveParts
<1>2. Outstanding = [s \in Names |-> [x \in Places |-> LiveCopies(s, x)]]
  BY DEF Outstanding, Places
<1> QED
  BY <1>1, <1>2

\* A publish adds a copy for each subscription that is served, and no other.
LEMMA PublishAdds ==
  ASSUME BInv, IInv', up, UNCHANGED <<up, nextId, reg, unacked, parked, settle>>,
         NEW t \in Topics, NEW k \in Keys, NEW o, Deliver(t, k, o)
  PROVE  Adds(t, Outstanding, ServedBy(t))
<1>1. IInv /\ TypeOK
  BY DEF BInv, CInv, IInv
<1>2. \A s \in Names : \A x :
        CopiesAt(queue', Of(s), x)
          = CopiesAt(queue, Of(s), x) + One(s \in ServedBy(t) /\ x = NextPlace(t))
  BY <1>1, DeliverCopies DEF NextPlace
<1> DEFINE S == ServedBy(t)
<1>3. Outstanding \in [Names -> [Places -> Int]]
      /\ \A s \in Names : \A x \in Places : Outstanding[s][x] = LiveCopies(s, x)
  BY <1>1, Debts
<1>4. ASSUME NEW s \in Names, NEW x \in Places
      PROVE  LiveCopies(s, x)' = IF s \in S /\ x = NextPlace(t) THEN 1 ELSE Outstanding[s][x]
  <2> DEFINE i == One(s \in S /\ x = NextPlace(t))
  <2>1. CopiesAt(queue', Of(s), x) + CopiesIn(parked'[s], x) = HandCopies(Hand, s, x) + i
    <3>1. /\ HandCopies(Hand, s, x) = CopiesAt(queue, Of(s), x) + CopiesIn(parked[s], x)
          /\ CopiesAt(queue, Of(s), x) \in Nat /\ CopiesIn(parked[s], x) \in Nat
      BY <1>1, LiveParts
    <3>2. i \in Int /\ CopiesAt(queue', Of(s), x) = CopiesAt(queue, Of(s), x) + i
      BY <1>2 DEF One
    <3> HIDE DEF i
    <3> QED BY <3>1, <3>2
  <2>2. CopiesAt(unacked', Of(s), x) = CopiesAt(unacked, Of(s), x) + 0
    BY <1>1, DropsKept
  <2>3. i \in Int
    BY DEF One
  <2>4. LiveCopies(s, x) \in Nat
    BY <1>1, LiveParts
  <2>5. i = IF s \in S /\ x = NextPlace(t) THEN 1 ELSE 0
    BY DEF One
  <2>6. s \in S /\ x = NextPlace(t) => LiveCopies(s, x) = 0
    BY NothingOwedYet DEF NextPlace
  <2>7. Shifts(s, x, i, 0)
    BY <2>1, <2>2 DEF Shifts
  <2> HIDE DEF i
  <2>8. Moves(LiveCopies(s, x), LiveCopies(s, x)', i, 0, 0, 0)
    BY <1>1, <2>3, <2>7, LiveBroker
  <2> QED BY <1>3, <2>4, <2>5, <2>6, <2>8 DEF Moves
<1> QED
  BY <1>4 DEF Adds

\* A publish is a publish.
LEMMA PublishPromise ==
  ASSUME BInv, IInv', up, Publish, acked' = acked
  PROVE  \E t \in Topics : Promise!Publish(t)
<1>1. PICK t \in Topics, k \in Keys : Deliver(t, k, None)
  BY DEF Publish
<1>2. UNCHANGED <<up, nextId, reg, unacked, parked, settle, swap, acked>>
  BY DEF Publish, registry
<1>3. IInv /\ TypeOK
  BY DEF BInv, CInv, IInv
<1>4. Outstanding \in [Names -> [Places -> Int]]
  BY <1>3, Debts
<1>5. Adds(t, Outstanding, ServedBy(t)) /\ ServedBy(t) \in SUBSET Names
  BY <1>1, <1>2, PublishAdds DEF ServedBy
<1>6. Promise!Produce(t, Outstanding) /\ Tip[t] < MaxEntries
  BY <1>1, <1>2, <1>3, <1>4, <1>5, Produced
<1> QED
  BY <1>6 DEF Promise!Publish
\* The place of a delivery.
PlaceOf(d) == <<d.topic, d.seq>>

\* A delivery a handler holds, or a timer, is owed.
LEMMA HeldIsOwed ==
  ASSUME BInv, up, NEW m \in Slots, settle[m].duty \in {"handle", "timer"}
  PROVE  LET s == reg[settle[m].id].name
             x == PlaceOf(settle[m].d)
         IN  s \in Names /\ x \in Places /\ Outstanding[s][x] > 0
<1> DEFINE s == reg[settle[m].id].name
           x == PlaceOf(settle[m].d)
           g == [settle EXCEPT ![m] = Idle]
<1>1. s \in Names /\ x \in Places /\ HeldFor(settle[m], Of(s), x)
  <2>1. s \in Names /\ x \in Places
        /\ \A n \in Names : \A y : HeldFor(settle[m], Of(n), y) <=> n = s /\ Carries(settle[m].d, y)
    BY HeldBy DEF PlaceOf
  <2>2. Carries(settle[m].d, x)
    BY DEF Carries, PlaceOf
  <2> QED BY <2>1, <2>2
<1>2. IInv /\ settle \in [Slots -> Settlement]
  BY DEF BInv, CInv, IInv, TypeOK
<1>3. g[m] = Idle /\ \A y \in Slots : y # m => g[y] = settle[y]
  BY <1>2
<1> HIDE DEF g, s, x
<1> DEFINE C == Of(s)
<1> HIDE DEF C
<1>4. /\ HeldIn(settle, C, x) \in Nat /\ HeldIn(g, C, x) \in Nat
      /\ HeldIn(g, C, x)
           = HeldIn(settle, C, x) + (Hold(g[m], C, x) - Hold(settle[m], C, x))
  BY <1>3, HeldUpdate DEF Hold
<1>5. Hold(g[m], C, x) = 0 /\ Hold(settle[m], C, x) = 1
  BY <1>1, <1>3 DEF HeldFor, Idle, Hold, C
<1>6. HeldIn(settle, C, x) > 0
  BY <1>4, <1>5
<1>7. /\ LiveCopies(s, x) = HandCopies(Hand, s, x) + Away(unacked, settle, C, x)
      /\ HandCopies(Hand, s, x) \in Nat /\ CopiesAt(unacked, C, x) \in Nat
  BY <1>1, <1>2, LiveParts DEF C
<1>8. LiveCopies(s, x) > 0
  BY <1>4, <1>6, <1>7 DEF Away
<1>9. Outstanding[s][x] = LiveCopies(s, x)
  BY <1>1, <1>2, Debts
<1> QED
  BY <1>1, <1>8, <1>9 DEF s, x

\* One delivery fewer of one entry for one subscription.
LEMMA MinusOne ==
  ASSUME IInv, up, NEW s \in Names, NEW e \in Places
  PROVE  /\ Promise!Minus(s, e) \in [Names -> [Places -> Int]]
         /\ \A n \in Names : \A x \in Places :
              Promise!Minus(s, e)[n][x] = LiveCopies(n, x) - One(n = s /\ e = x)
<1> DEFINE D == Outstanding
           M == [D EXCEPT ![s][e] = D[s][e] - 1]
<1>1. /\ D \in [Names -> [Places -> Int]]
      /\ \A n \in Names : \A x \in Places : D[n][x] = LiveCopies(n, x) /\ D[n][x] \in Int
  BY Debts
<1>2. Promise!Minus(s, e) = M
  BY DEF Promise!Minus
<1> HIDE DEF D
<1>3. M \in [Names -> [Places -> Int]]
  <2>1. [D[s] EXCEPT ![e] = D[s][e] - 1] \in [Places -> Int]
    BY <1>1
  <2> QED BY <1>1, <2>1
<1>4. ASSUME NEW n \in Names, NEW x \in Places
      PROVE  M[n][x] = LiveCopies(n, x) - One(n = s /\ e = x)
  <2>1. CASE n = s /\ x = e
    <3>1. M[n][x] = D[n][x] - 1
      BY <1>1, <2>1
    <3> QED BY <1>1, <2>1, <3>1 DEF One
  <2>2. CASE ~(n = s /\ x = e)
    <3>1. M[n][x] = D[n][x]
      BY <1>1, <2>2
    <3> QED BY <1>1, <2>2, <3>1 DEF One
  <2> QED BY <2>1, <2>2
<1> QED
  BY <1>2, <1>3, <1>4

\* A spent delivery that moves to a dead-letter topic is owed there, and no more where it was.
LEMMA DeadLetterAdds ==
  ASSUME BInv, IInv', up, UNCHANGED <<up, nextId, reg, unacked, parked>>,
         NEW m \in Slots, settle[m].duty \in {"handle", "timer"},
         NEW counted \in BOOLEAN, Becomes(m, "none", counted),
         NEW t \in Topics, NEW k \in Keys, NEW o, Deliver(t, k, o)
  PROVE  Adds(t, Promise!Minus(reg[settle[m].id].name, PlaceOf(settle[m].d)), ServedBy(t))
<1> DEFINE n == reg[settle[m].id].name
           d == settle[m].d
           e == PlaceOf(d)
           D == Promise!Minus(n, e)
<1>1. IInv /\ TypeOK
  BY DEF BInv, CInv, IInv
<1>2. /\ n \in Names /\ e \in Places /\ Logged(d)
      /\ \A s \in Names : \A x : HeldFor(settle[m], Of(s), x) <=> s = n /\ e = x
  <2>1. /\ n \in Names /\ e \in Places /\ Logged(d)
        /\ \A s \in Names : \A x : HeldFor(settle[m], Of(s), x) <=> s = n /\ Carries(d, x)
    BY HeldBy DEF PlaceOf
  <2> QED BY <2>1 DEF Carries, PlaceOf
<1>4. e # NextPlace(t)
  <2>1. Len(log[t]) \in Nat /\ d.seq \in 1..Len(log[d.topic])
    BY <1>1, <1>2 DEF TypeOK, Logged
  <2> QED BY <2>1 DEF PlaceOf, NextPlace
<1> HIDE DEF n, d, e
<1> DEFINE S == ServedBy(t)
<1>5. \A s \in Names : \A x :
        CopiesAt(queue', Of(s), x) = CopiesAt(queue, Of(s), x) + One(s \in S /\ x = NextPlace(t))
  BY <1>1, DeliverCopies DEF NextPlace
<1>6. /\ D \in [Names -> [Places -> Int]]
      /\ \A s \in Names : \A x \in Places : D[s][x] = LiveCopies(s, x) - One(s = n /\ e = x)
  BY <1>1, <1>2, MinusOne
<1> HIDE DEF D, S
<1>7. ASSUME NEW s \in Names, NEW x \in Places
      PROVE  LiveCopies(s, x)' = IF s \in S /\ x = NextPlace(t) THEN 1 ELSE D[s][x]
  <2> DEFINE C == Of(s)
             i == One(s \in S /\ x = NextPlace(t))
             z == Hold(settle'[m], C, x)
             w == Hold(settle[m], C, x)
             l == LiveCopies(s, x)
  <2>1. CopiesAt(queue', C, x) + CopiesIn(parked'[s], x) = HandCopies(Hand, s, x) + i
    <3>1. /\ HandCopies(Hand, s, x) = CopiesAt(queue, C, x) + CopiesIn(parked[s], x)
          /\ CopiesAt(queue, C, x) \in Nat /\ CopiesIn(parked[s], x) \in Nat
      BY <1>1, LiveParts
    <3>2. i \in Int /\ CopiesAt(queue', C, x) = CopiesAt(queue, C, x) + i
      BY <1>5 DEF One
    <3> HIDE DEF i, C
    <3> QED BY <3>1, <3>2
  <2>2. CopiesAt(unacked', C, x) = CopiesAt(unacked, C, x) + 0
    BY <1>1, DropsKept
  <2>3. i \in Int /\ i = IF s \in S /\ x = NextPlace(t) THEN 1 ELSE 0
    BY DEF One
  <2>4. (\A y \in Slots : y # m => settle'[y] = settle[y]) /\ z = 0
    <3> HIDE DEF C
    <3> QED BY <1>1, HeldBecomes DEF Duties
  <2>5. w = One(s = n /\ e = x) /\ w \in Int /\ (x = NextPlace(t) => w = 0)
    BY <1>2, <1>4 DEF One, Hold
  <2>6. l \in Nat /\ (x = NextPlace(t) => l = 0)
    BY <1>1, LiveParts, NothingOwedYet DEF NextPlace
  <2>7. Shifts(s, x, i, 0)
    BY <2>1, <2>2 DEF Shifts
  <2> HIDE DEF i
  <2>8. Moves(l, LiveCopies(s, x)', i, 0, w, z)
    BY <1>1, <2>3, <2>4, <2>7, LiveStep
  <2>9. D[s][x] = l - w
    BY <1>6, <2>5
  <2> HIDE DEF l, z, w
  <2> QED BY <2>3, <2>4, <2>5, <2>6, <2>8, <2>9 DEF Moves
<1> QED
  BY <1>7 DEF Adds, S, D, n, e, d

\* The delivery of settlement m moved to the dead-letter topic of its consumer.
DeadLettered(m) ==
  LET c == settle[m].id
      d == settle[m].d
  IN  /\ settle[m].duty \in {"handle", "timer"}
      /\ reg[c].dead # None /\ reg[c].dead.topic \in Topics /\ KeyOf(d) \in Keys
      /\ Deliver(reg[c].dead.topic, KeyOf(d), StampOrigin(d))
      /\ UNCHANGED <<up, nextId, reg, unacked, parked, swap>>
      /\ \E counted \in BOOLEAN : Becomes(m, "none", counted)

\* It is a dead letter of the promise.
LEMMA DeadLetterPromise ==
  ASSUME BInv, IInv', up, acked' = acked, NEW m \in Slots, DeadLettered(m)
  PROVE  \E t \in Topics : \E s \in Names : \E e \in Places : Promise!DeadLetter(s, e, t)
<1> DEFINE n == reg[settle[m].id].name
           d == settle[m].d
           e == PlaceOf(d)
           t == reg[settle[m].id].dead.topic
           D == Promise!Minus(n, e)
<1>1. /\ settle[m].duty \in {"handle", "timer"}
      /\ \E counted \in BOOLEAN : Becomes(m, "none", counted)
  BY DEF DeadLettered
<1>2. /\ t \in Topics /\ KeyOf(d) \in Keys /\ Deliver(t, KeyOf(d), StampOrigin(d))
      /\ UNCHANGED <<up, nextId, reg, unacked, parked, swap>>
  BY DEF DeadLettered
<1>3. n \in Names /\ e \in Places /\ Outstanding[n][e] > 0
  BY <1>1, HeldIsOwed
<1>4. D \in [Names -> [Places -> Int]] /\ TypeOK
  BY <1>3, MinusOne DEF BInv, CInv, IInv
<1> HIDE DEF t
<1>5. Adds(t, D, ServedBy(t)) /\ ServedBy(t) \in SUBSET Names
  BY <1>1, <1>2, DeadLetterAdds DEF ServedBy
<1> DEFINE k == KeyOf(d)
           o == StampOrigin(d)
<1>6. Deliver(t, k, o)
  BY <1>2
<1> HIDE DEF n, e, d, D, k, o
<1>7. Promise!Produce(t, D) /\ Tip[t] < MaxEntries
  BY <1>2, <1>4, <1>5, <1>6, Produced
<1>8. Promise!DeadLetter(n, e, t)
  BY <1>3, <1>7 DEF Promise!DeadLetter, D
<1> QED
  BY <1>2, <1>3, <1>8
-----------------------------------------------------------------------------
(* Steps of a settlement *)

\* A requeue is a dead letter, or is not seen: either way the delivery is accounted for.
LEMMA RequeuingPromise ==
  ASSUME BInv, IInv', up, UNCHANGED <<up, registry, unacked, swap>>,
         NEW m \in Slots, settle[m].duty \in {"handle", "timer"}, NEW took,
         Requeue(settle[m].id, settle[m].d, took),
         NEW duty \in Duties \ {"handle", "timer"}, took = FALSE => duty = "none",
         NEW counted \in BOOLEAN, Becomes(m, duty, counted)
  PROVE  \/ Keeping
         \/ DeadLettered(m)
<1> DEFINE c == settle[m].id
           d == settle[m].d
<1>1. IInv /\ TypeOK
  BY DEF BInv, CInv, IInv
<1>2. c \in Attached \cup departed /\ Logged(d) /\ reg[c] \in Registrations
  BY HeldBy
<1>3. UNCHANGED <<nextId, reg, attached, departed>>
  BY DEF registry
<1>4. \/ /\ Deliver(reg[c].dead.topic, KeyOf(d), StampOrigin(d))
         /\ reg[c].dead # None /\ took = FALSE /\ UNCHANGED parked
      \/ \E h \in TidyHand(attached) : /\ SetHand(h)
                                       /\ Given(Hand, h, reg[c].name, Again(d))
                                       /\ UNCHANGED topicVars
  <2> HIDE DEF c, d
  <2>1. Requeue(c, d, took)
    BY DEF c, d
  <2> QED BY <1>1, <1>2, <2>1, RequeueGives
<1>5. ASSUME /\ Deliver(reg[c].dead.topic, KeyOf(d), StampOrigin(d))
             /\ reg[c].dead # None /\ took = FALSE /\ UNCHANGED parked
      PROVE  DeadLettered(m)
  <2> DEFINE t == reg[c].dead.topic
             k == KeyOf(d)
             o == StampOrigin(d)
  <2>1. t \in Topics
    BY <1>2, <1>5, RouterAssumption DEF Registration
  <2>2. k \in Keys
    <3>1. log[d.topic] \in Seq(LogEntry) /\ d.seq \in 1..Len(log[d.topic])
      BY <1>1, <1>2 DEF TypeOK, Logged, Delivery
    <3>2. log[d.topic][d.seq] \in LogEntry
      BY <3>1
    <3> QED BY <3>2 DEF KeyOf, LogEntry
  <2>3. Deliver(t, k, o) /\ Becomes(m, "none", counted) /\ UNCHANGED parked
    BY <1>5
  <2>4. \E b \in BOOLEAN : Becomes(m, "none", b)
    BY <2>3
  <2> QED BY <1>3, <1>5, <2>1, <2>2, <2>4 DEF DeadLettered
<1>6. ASSUME NEW h \in TidyHand(attached), SetHand(h),
             Given(Hand, h, reg[c].name, Again(d)), UNCHANGED topicVars
      PROVE  Keeping
  <2>1. UNCHANGED <<up, nextId, reg, log, unacked, swap>>
    BY <1>3, <1>6 DEF topicVars
  <2> QED BY <1>6, <2>1, GiveBack
<1> QED
  BY <1>4, <1>5, <1>6

\* A handler's negative acknowledgement.
LEMMA NackPromise ==
  ASSUME BInv, IInv', up, NEW m \in Slots, Nack(m)
  PROVE  \/ Keeping
         \/ DeadLettered(m)
<1>1. settle[m].duty = "handle" /\ UNCHANGED <<up, registry, unacked, swap>>
  BY DEF Nack
<1>2. settle[m].id \in Attached \cup departed
  BY <1>1, HeldBy
<1>3. PICK took \in BOOLEAN : /\ Requeue(settle[m].id, settle[m].d, took)
                            /\ Becomes(m, IF took THEN "count" ELSE "none", TRUE)
  BY <1>2 DEF Nack
<1> DEFINE duty == IF took THEN "count" ELSE "none"
<1>4. /\ duty \in Duties \ {"handle", "timer"} /\ (took = FALSE => duty = "none")
      /\ Becomes(m, duty, TRUE)
  BY <1>3 DEF Duties
<1> HIDE DEF duty
<1> QED
  BY <1>1, <1>3, <1>4, RequeuingPromise

\* A delayed retry whose time has come.
LEMMA FirePromise ==
  ASSUME BInv, IInv', up, NEW m \in Slots, Fire(m)
  PROVE  \/ Keeping
         \/ DeadLettered(m)
<1>1. settle[m].duty = "timer" /\ UNCHANGED <<up, registry, unacked, swap>>
  BY DEF Fire
<1>2. settle[m].id \in Attached \cup departed
  BY <1>1, HeldBy
<1>3. PICK took \in BOOLEAN : /\ Requeue(settle[m].id, settle[m].d, took)
                            /\ Becomes(m, IF took THEN "recount" ELSE "none", settle[m].counted)
  BY <1>2 DEF Fire
<1> DEFINE duty == IF took THEN "recount" ELSE "none"
           k == settle[m].counted
<1>4. /\ duty \in Duties \ {"handle", "timer"} /\ (took = FALSE => duty = "none")
      /\ Becomes(m, duty, k)
  BY <1>3 DEF Duties
<1>5. k \in BOOLEAN
  BY DEF BInv, CInv, IInv, TypeOK, Settlement
<1> HIDE DEF duty, k
<1> QED
  BY <1>1, <1>3, <1>4, <1>5, RequeuingPromise

\* An acknowledgement takes the copy that was held, and no other.
LEMMA AckTakes ==
  ASSUME BInv, IInv', up, NEW m \in Slots, Ack(m)
  PROVE  LET n == reg[settle[m].id].name
             e == PlaceOf(settle[m].d)
         IN  \A s \in Names : \A x \in Places :
               LiveCopies(s, x)' = LiveCopies(s, x) - One(s = n /\ e = x)
<1> DEFINE n == reg[settle[m].id].name
           e == PlaceOf(settle[m].d)
<1>1. /\ settle[m].duty = "handle" /\ Becomes(m, "none", FALSE)
      /\ UNCHANGED <<up, nextId, reg, log, queue, unacked, parked, swap>>
  BY DEF Ack, registry, topicVars
<1>2. IInv /\ TypeOK
  BY DEF BInv, CInv, IInv
<1>4. \A s \in Names : \A x : HeldFor(settle[m], Of(s), x) <=> s = n /\ e = x
  <2>1. \A s \in Names : \A x : HeldFor(settle[m], Of(s), x) <=> s = n /\ Carries(settle[m].d, x)
    BY <1>1, HeldBy
  <2> QED BY <2>1 DEF Carries, PlaceOf
<1> HIDE DEF n, e
<1>6. ASSUME NEW s \in Names, NEW x \in Places PROVE LiveCopies(s, x)' = LiveCopies(s, x) - One(s = n /\ e = x)
  <2> DEFINE C == Of(s)
             z == Hold(settle'[m], C, x)
             w == Hold(settle[m], C, x)
             l == LiveCopies(s, x)
  <2>1. CopiesAt(queue', C, x) + CopiesIn(parked'[s], x) = HandCopies(Hand, s, x) + 0
    BY <1>1, <1>2, HandKept
  <2>2. CopiesAt(unacked', C, x) = CopiesAt(unacked, C, x) + 0
    BY <1>1, <1>2, DropsKept
  <2>3. (\A y \in Slots : y # m => settle'[y] = settle[y]) /\ z = 0
    <3> HIDE DEF C
    <3> QED BY <1>1, <1>2, HeldBecomes DEF Duties
  <2>4. w = One(s = n /\ e = x) /\ w \in Int
    BY <1>4 DEF One, Hold
  <2>5. l \in Nat
    BY <1>2, LiveParts
  <2>6. Shifts(s, x, 0, 0)
    BY <2>1, <2>2 DEF Shifts
  <2>7. Moves(l, LiveCopies(s, x)', 0, 0, w, z)
    BY <1>1, <1>2, <2>3, <2>6, LiveStep
  <2>8. LiveCopies(s, x)' = l - w
    <3> HIDE DEF l, z, w
    <3> QED BY <2>3, <2>4, <2>5, <2>7 DEF Moves
  <2> QED BY <2>4, <2>8
<1> QED
  BY <1>6 DEF n, e

\* An acknowledgement is one.
LEMMA AckPromise ==
  ASSUME BInv, IInv', up, NEW m \in Slots, Ack(m), acked' = 1 - acked
  PROVE  \E s \in Names : \E e \in Places : Promise!Acknowledge(s, e)
<1> DEFINE n == reg[settle[m].id].name
           e == PlaceOf(settle[m].d)
           D == Promise!Minus(n, e)
<1>1. /\ settle[m].duty = "handle" /\ Becomes(m, "none", FALSE)
      /\ UNCHANGED <<up, nextId, reg, log, queue, unacked, parked, swap>>
  BY DEF Ack, registry, topicVars
<1>2. IInv /\ TypeOK
  BY DEF BInv, CInv, IInv
<1>3. n \in Names /\ e \in Places /\ Outstanding[n][e] > 0
  BY <1>1, HeldIsOwed
<1> HIDE DEF n, e
<1>5. /\ D \in [Names -> [Places -> Int]]
      /\ \A s \in Names : \A x \in Places : D[s][x] = LiveCopies(s, x) - One(s = n /\ e = x)
  BY <1>1, <1>2, <1>3, MinusOne
<1> HIDE DEF D
<1>6. ASSUME NEW s \in Names, NEW x \in Places PROVE LiveCopies(s, x)' = D[s][x]
  BY <1>5, AckTakes DEF n, e
<1>7. Outstanding' = D
  <2>1. Outstanding' = [s \in Names |-> [x \in Places |-> LiveCopies(s, x)']]
    BY <1>1 DEF Outstanding, Places
  <2>2. \A s \in Names : [x \in Places |-> LiveCopies(s, x)'] = D[s]
    BY <1>5, <1>6
  <2> QED BY <1>5, <2>1, <2>2
<1>8. Tip' = Tip /\ Swapped' = Swapped
  BY <1>1 DEF Tip, Swapped
<1>9. Promise!Acknowledge(n, e)
  BY <1>1, <1>3, <1>7, <1>8 DEF Promise!Acknowledge, D
<1> QED
  BY <1>3, <1>9

\* One queue, or one list of drops, of an attached consumer changes: the copies of its
\* subscription change by those of it, and no others.
LEMMA OneChanged ==
  ASSUME TypeOK, NEW q \in Queues, NEW p \in Queues, NEW c \in 1..nextId,
         \A y \in Ids : y # c => p[y] = q[y], NEW s, NEW x, NEW k \in Int,
         CopiesIn(p[c], x) = CopiesIn(q[c], x) + k
  PROVE  CopiesAt(p, Of(s), x) = CopiesAt(q, Of(s), x) + (IF s = reg[c].name THEN k ELSE 0)
<1> DEFINE C == Of(s)
<1>1. c \in Ids /\ (c \in C <=> s = reg[c].name)
  BY RouterAssumption DEF TypeOK, Ids, Of
<1> HIDE DEF C
<1>2. AlikeBut(q, C, p, C, c)
  BY DEF AlikeBut
<1>3. /\ CopiesAt(q, C, x) \in Nat
      /\ CopiesAt(p, C, x) = CopiesAt(q, C, x) + (Part(p, C, c, x) - Part(q, C, c, x))
  BY <1>1, <1>2, AtUpdate
<1>4. q[c] \in Seq(Delivery)
  BY <1>1 DEF Queues
<1>5. CopiesIn(q[c], x) \in Nat
  BY <1>4, CopiesNat
<1>6. Part(p, C, c, x) - Part(q, C, c, x) = IF s = reg[c].name THEN k ELSE 0
  BY <1>1, <1>5 DEF Part
<1> QED
  BY <1>3, <1>6 DEF C

\* A poll takes a delivery from its queue to a handler.
LEMMA PollPromise ==
  ASSUME BInv, IInv', up, NEW m \in Slots, NEW c \in Ids, Poll(m, c)
  PROVE  Keeping
<1> DEFINE d == Head(queue[c])
           n == reg[c].name
<1>1. /\ settle[m] = Idle /\ c \in Attached /\ queue[c] # <<>>
      /\ settle' = [settle EXCEPT ![m] =
                      [duty |-> "handle", id |-> c, d |-> d, counted |-> TRUE]]
      /\ queue' = [queue EXCEPT ![c] = Tail(queue[c])]
      /\ UNCHANGED <<up, nextId, reg, log, unacked, parked, swap>>
  BY DEF Poll, registry, topicVars
<1>2. IInv /\ TypeOK /\ settle \in [Slots -> Settlement] /\ queue \in Queues /\ queue' \in Queues
  BY DEF BInv, CInv, IInv, TypeOK, Queues
<1>3. c \in 1..nextId /\ queue[c] \in Seq(Delivery)
  BY <1>1, <1>2, KnownConsumer DEF Queues
<1>4. ASSUME NEW s \in Names, NEW x \in Places PROVE LiveCopies(s, x)' = LiveCopies(s, x)
  <2> DEFINE C == Of(s)
             z == Hold(settle'[m], C, x)
             w == Hold(settle[m], C, x)
             l == LiveCopies(s, x)
             i == 0 - One(s = n /\ Carries(d, x))
             k == 0 - One(Carries(d, x))
  <2>1. CopiesIn(queue'[c], x) = CopiesIn(queue[c], x) + k /\ k \in Int
    <3>1. /\ CopiesIn(queue[c], x) = CopiesIn(Tail(queue[c]), x) + One(Carries(d, x))
          /\ Tail(queue[c]) \in Seq(Delivery)
      BY <1>1, <1>3, CopiesTail
    <3>2. CopiesIn(Tail(queue[c]), x) \in Nat
      BY <3>1, CopiesNat
    <3>3. queue'[c] = Tail(queue[c]) /\ One(Carries(d, x)) \in Int
      BY <1>1, <1>2 DEF Queues, One
    <3> QED BY <3>1, <3>2, <3>3
  <2>2. \A y \in Ids : y # c => queue'[y] = queue[y]
    BY <1>1, <1>2 DEF Queues
  <2>3. CopiesAt(queue', C, x) = CopiesAt(queue, C, x) + i /\ i \in Int
    <3> DEFINE q == queue'
    <3>1. q \in Queues /\ CopiesIn(q[c], x) = CopiesIn(queue[c], x) + k
          /\ \A y \in Ids : y # c => q[y] = queue[y]
      BY <1>2, <2>1, <2>2
    <3> HIDE DEF q, C, k
    <3>2. CopiesAt(q, Of(s), x) = CopiesAt(queue, Of(s), x) + (IF s = reg[c].name THEN k ELSE 0)
      BY <1>2, <1>3, <2>1, <3>1, OneChanged
    <3>3. i = IF s = reg[c].name THEN k ELSE 0
      BY DEF One, k
    <3>4. i \in Int
      BY DEF One
    <3> HIDE DEF i
    <3> QED BY <3>2, <3>3, <3>4 DEF q, C
  <2>4. CopiesAt(queue', C, x) + CopiesIn(parked'[s], x) = HandCopies(Hand, s, x) + i
    <3>1. /\ HandCopies(Hand, s, x) = CopiesAt(queue, C, x) + CopiesIn(parked[s], x)
          /\ CopiesAt(queue, C, x) \in Nat /\ CopiesIn(parked[s], x) \in Nat
      BY <1>2, LiveParts
    <3> HIDE DEF i, C
    <3> QED BY <1>1, <2>3, <3>1
  <2>5. CopiesAt(unacked', C, x) = CopiesAt(unacked, C, x) + 0
    BY <1>1, <1>2, DropsKept
  <2>6. /\ \A y \in Slots : y # m => settle'[y] = settle[y]
        /\ settle'[m] = [duty |-> "handle", id |-> c, d |-> d, counted |-> TRUE]
    BY <1>1, <1>2
  <2>7. w = 0
    BY <1>1 DEF HeldFor, Idle, Hold
  <2>8. z = 0 - i
    <3>1. c \in C <=> s = n
      BY <1>2, <1>3, RouterAssumption DEF TypeOK, Ids, Of
    <3>2. HeldFor(settle'[m], C, x) <=> s = n /\ Carries(d, x)
      BY <2>6, <3>1 DEF HeldFor
    <3> QED BY <3>2 DEF Hold, One
  <2>9. Shifts(s, x, i, 0)
    BY <2>4, <2>5 DEF Shifts
  <2>10. i \in Int
    BY <2>3
  <2> HIDE DEF i
  <2>11. \A y \in Slots : y # m => settle'[y] = settle[y]
    BY <2>6
  <2>12. Moves(l, LiveCopies(s, x)', i, 0, w, z)
    <3>1. UNCHANGED <<nextId, reg>>
      BY <1>1
    <3> QED BY <1>2, <2>9, <2>10, <2>11, <3>1, LiveStep
  <2>13. l \in Nat
    BY <1>2, LiveParts
  <2>14. LiveCopies(s, x)' = l
    <3> HIDE DEF l, z, w
    <3> QED BY <2>7, <2>8, <2>10, <2>12, <2>13 DEF Moves
  <2> QED BY <2>14
<1> QED
  BY <1>1, <1>4 DEF Keeping, StillOwed

\* A message dropped unsettled stays owed: kept on its consumer, or handed back when that
\* has closed.
LEMMA DropPromise ==
  ASSUME BInv, IInv', up, NEW m \in Slots, Drop(m)
  PROVE  Keeping
<1> DEFINE c == settle[m].id
           d == settle[m].d
           n == reg[c].name
<1>1. /\ settle[m].duty = "handle" /\ Becomes(m, "none", TRUE)
      /\ UNCHANGED <<up, nextId, reg, attached, departed, log, swap>>
  BY DEF Drop, registry, topicVars
<1>2. IInv /\ TypeOK /\ unacked \in Queues /\ unacked' \in Queues
      /\ attached \in Seq(1..nextId)
  BY DEF BInv, CInv, IInv, TypeOK, Queues
<1>3. /\ c \in Attached \cup departed /\ c \in 1..nextId /\ c \in Ids
      /\ reg[c] \in Registrations /\ n \in Names /\ d \in LoggedSet /\ d \in Delivery
      /\ \A s \in Names : \A x : HeldFor(settle[m], Of(s), x) <=> s = n /\ Carries(d, x)
  BY <1>1, HeldBy
<1>4. CASE /\ unacked' = [unacked EXCEPT ![c] = Append(unacked[c], d)]
           /\ UNCHANGED <<queue, parked>>
  <2>1. ASSUME NEW s \in Names, NEW x \in Places PROVE LiveCopies(s, x)' = LiveCopies(s, x)
    <3> DEFINE C == Of(s)
               z == Hold(settle'[m], C, x)
               w == Hold(settle[m], C, x)
               l == LiveCopies(s, x)
               j == One(s = n /\ Carries(d, x))
               k == One(Carries(d, x))
    <3>1. CopiesAt(queue', C, x) + CopiesIn(parked'[s], x) = HandCopies(Hand, s, x) + 0
      BY <1>2, <1>4, HandKept
    <3>2. CopiesAt(unacked', C, x) = CopiesAt(unacked, C, x) + j /\ j \in Int
      <4> DEFINE q == unacked'
      <4>1. unacked[c] \in Seq(Delivery)
        BY <1>2, <1>3 DEF Queues
      <4>2. CopiesIn(Append(unacked[c], d), x) = CopiesIn(unacked[c], x) + k
        BY <1>3, <4>1, CopiesAppend
      <4>3. q \in Queues /\ q[c] = Append(unacked[c], d) /\ \A y \in Ids : y # c => q[y] = unacked[y]
        BY <1>2, <1>3, <1>4 DEF Queues
      <4>4. k \in Int /\ j \in Int
        BY DEF One
      <4> DEFINE b == c
      <4>5. b \in 1..nextId /\ CopiesIn(q[b], x) = CopiesIn(unacked[b], x) + k
            /\ \A y \in Ids : y # b => q[y] = unacked[y]
        BY <1>3, <4>2, <4>3
      <4> HIDE DEF q, C, k, b
      <4>6. CopiesAt(q, Of(s), x) = CopiesAt(unacked, Of(s), x) + (IF s = reg[b].name THEN k ELSE 0)
        BY <1>2, <4>3, <4>4, <4>5, OneChanged
      <4>7. j = IF s = reg[b].name THEN k ELSE 0
        BY DEF One, k, b
      <4> HIDE DEF j
      <4> QED BY <4>4, <4>6, <4>7 DEF q, C
    <3>3. (\A y \in Slots : y # m => settle'[y] = settle[y]) /\ z = 0
      <4> HIDE DEF C
      <4> QED BY <1>1, <1>2, HeldBecomes DEF Duties
    <3>4. w = j
      BY <1>3 DEF One, Hold
    <3>5. Shifts(s, x, 0, j)
      BY <3>1, <3>2 DEF Shifts
    <3>6. j \in Int
      BY <3>2
    <3> HIDE DEF j
    <3>7. Moves(l, LiveCopies(s, x)', 0, j, w, z)
      BY <1>1, <1>2, <3>3, <3>5, <3>6, LiveStep
    <3>8. l \in Nat
      BY <1>2, LiveParts
    <3>9. LiveCopies(s, x)' = l
      <4> HIDE DEF l, z, w
      <4> QED BY <3>3, <3>4, <3>6, <3>7, <3>8 DEF Moves
    <3> QED BY <3>9
  <2> QED BY <1>1, <2>1 DEF Keeping, StillOwed
<1>5. CASE /\ SetHand(HandBack(Hand, attached, reg[c], Again(d), FALSE))
           /\ UNCHANGED unacked
  <2> DEFINE h == HandBack(Hand, attached, reg[c], Again(d), FALSE)
             H == Hand
             r == reg[c]
             e == Again(d)
  <2>1. h \in TidyHand(attached) /\ Given(Hand, h, n, e)
    <3>1. r \in Registrations /\ Logged(e) /\ H \in TidyHand(attached) /\ FALSE \in BOOLEAN
      BY <1>2, <1>3, AgainIn, HandIsTidy DEF LoggedSet
    <3> HIDE DEF r, e, H
    <3>2. /\ HandBack(H, attached, r, e, FALSE) \in TidyHand(attached)
          /\ Given(H, HandBack(H, attached, r, e, FALSE), r.name, e)
      BY <1>2, <3>1, HandBackIn, HandBackGiven
    <3> QED BY <3>2 DEF r, e, H
  <2>2. SetHand(h) /\ UNCHANGED unacked
    BY <1>5
  <2> HIDE DEF h
  <2>3. "none" \in Duties \ {"handle", "timer"}
    BY DEF Duties
  <2> QED BY <1>1, <2>1, <2>2, <2>3, GiveBack
<1>6. \/ /\ unacked' = [unacked EXCEPT ![c] = Append(unacked[c], d)]
         /\ UNCHANGED <<queue, parked>>
      \/ /\ SetHand(HandBack(Hand, attached, reg[c], Again(d), FALSE))
         /\ UNCHANGED unacked
  BY <1>3 DEF Drop
<1> QED
  BY <1>4, <1>5, <1>6

-----------------------------------------------------------------------------
(* The invariant of the refinement is one *)

Bounded == \A t \in Topics : Len(log[t]) <= MaxEntries

\* An entry is appended below the bound.
LEMMA DeliverBounded ==
  ASSUME TypeOK, Bounded, NEW t, NEW k, NEW o, Deliver(t, k, o)
  PROVE  Bounded'
<1>1. log \in [Topics -> Seq(LogEntry)] /\ MaxEntries \in Nat /\ Len(log[t]) < MaxEntries
  BY RouterAssumption DEF TypeOK, Deliver
<1>2. PICK at \in Times :
        log' = [log EXCEPT ![t] = Append(log[t], [key |-> k, at |-> at, origin |-> o])]
  BY DEF Deliver
<1>3. \A x \in Topics : x # t => log'[x] = log[x]
  BY <1>1, <1>2
<1>4. t \in Topics => Len(log'[t]) = Len(log[t]) + 1 /\ Len(log[t]) \in Nat
  BY <1>1, <1>2
<1> QED
  BY <1>1, <1>3, <1>4 DEF Bounded

LEMMA RequeueBounded ==
  ASSUME TypeOK, Bounded, NEW c, NEW d, NEW took, Requeue(c, d, took)
  PROVE  Bounded'
<1>1. \/ \E t, k, o : Deliver(t, k, o)
      \/ log' = log
  BY DEF Requeue, topicVars
<1> QED
  BY <1>1, DeliverBounded DEF Bounded

\* No log outgrows its bound.
LEMMA LogsBounded == TypeOK /\ Bounded /\ [Next]_vars => Bounded'
<1> SUFFICES ASSUME TypeOK, Bounded, [Next]_vars PROVE Bounded'
  OBVIOUS
<1>1. ASSUME Publish PROVE Bounded'
  BY <1>1, DeliverBounded DEF Publish
<1>2. ASSUME Shutdown PROVE Bounded'
  BY <1>2, RouterAssumption DEF Shutdown, Bounded
<1>3. ASSUME NEW m \in Slots, Nack(m) \/ Fire(m) PROVE Bounded'
  <2>1. \/ \E took : Requeue(settle[m].id, settle[m].d, took)
        \/ log' = log
    BY <1>3 DEF Nack, Fire, topicVars
  <2> QED BY <2>1, RequeueBounded DEF Bounded
<1>4. ASSUME log' = log PROVE Bounded'
  BY <1>4 DEF Bounded
<1>5. ASSUME Subscribe \/ Refresh \/ FinishSeek PROVE log' = log
  BY <1>5 DEF Subscribe, Refresh, FinishSeek, topicVars
<1>6. ASSUME NEW c \in Ids, \/ Unsubscribe(c)
                           \/ \E m \in Slots : Poll(m, c)
      PROVE  log' = log
  BY <1>6 DEF Unsubscribe, Poll, topicVars
<1>11. ASSUME NEW c \in Ids, NEW pos \in Positions, Seek(c, pos) PROVE log' = log
  BY <1>11 DEF Seek, topicVars
<1>7. ASSUME NEW m \in Slots,
             Drop(m) \/ NackAfter(m) \/ Count(m) \/ Release(m) \/ Ack(m)
      PROVE  log' = log
  BY <1>7 DEF Drop, NackAfter, Count, Release, Ack, topicVars
<1>8. ASSUME UNCHANGED vars PROVE log' = log
  BY <1>8 DEF vars
<1>9. ASSUME Others PROVE Bounded'
  <2>1. CASE \E m \in Slots : \/ Drop(m) \/ Nack(m) \/ NackAfter(m)
                             \/ Fire(m) \/ Count(m) \/ Release(m)
    BY <1>3, <1>4, <1>7, <2>1
  <2>2. CASE \E c \in Ids : Unsubscribe(c)
    BY <1>4, <1>6, <2>2
  <2>3. CASE \E c \in Ids, pos \in Positions : Seek(c, pos)
    BY <1>4, <1>11, <2>3
  <2>4. CASE \E m \in Slots, c \in Ids : Poll(m, c)
    BY <1>4, <1>6, <2>4
  <2>5. CASE Publish \/ Subscribe \/ Refresh \/ Shutdown \/ FinishSeek
    BY <1>1, <1>2, <1>4, <1>5, <2>5
  <2> QED BY <1>9, <2>1, <2>2, <2>3, <2>4, <2>5 DEF Others
<1>10. ASSUME Settled PROVE Bounded'
  BY <1>4, <1>7, <1>10 DEF Settled
<1> QED
  BY <1>4, <1>8, <1>9, <1>10 DEF Next

\* What handlers dropped unsettled is on a consumer that attached.
LEMMA DropsOpened == TypeOK /\ Unopened(unacked) /\ [Next]_vars => Unopened(unacked)'
<1> SUFFICES ASSUME TypeOK, Unopened(unacked), [Next]_vars PROVE Unopened(unacked)'
  OBVIOUS
<1>0. nextId \in Nat /\ unacked \in [Ids -> Seq(Delivery)] /\ Ids \subseteq Nat
      /\ attached \in Seq(1..nextId)
  BY RouterAssumption DEF TypeOK, Ids
<1>1. ASSUME unacked' = unacked, nextId' \in Nat, nextId <= nextId' PROVE Unopened(unacked)'
  BY <1>0, <1>1 DEF Unopened
<1>2. ASSUME Shutdown PROVE Unopened(unacked)'
  BY <1>2 DEF Shutdown, Unopened
<1>3. ASSUME NEW c \in Ids, Unsubscribe(c) PROVE Unopened(unacked)'
  BY <1>0, <1>3 DEF Unsubscribe, Unopened
<1>4. ASSUME NEW m \in Slots, Drop(m) PROVE Unopened(unacked)'
  <2> DEFINE c == settle[m].id
  <2>1. nextId' = nextId
    BY <1>4 DEF Drop, registry
  <2>2. CASE unacked' = unacked
    BY <1>0, <1>1, <2>1, <2>2
  <2>3. CASE c \in Attached /\ unacked' = [unacked EXCEPT ![c] = Append(unacked[c], settle[m].d)]
    <3>1. c \in 1..nextId
      BY <1>0, <2>3 DEF Attached
    <3> QED BY <1>0, <2>1, <2>3, <3>1 DEF Unopened
  <2> QED BY <1>4, <2>2, <2>3 DEF Drop
<1>5. ASSUME Subscribe PROVE unacked' = unacked /\ nextId' \in Nat /\ nextId <= nextId'
  BY <1>0, <1>5 DEF Subscribe
<1>6. ASSUME Publish \/ Refresh \/ FinishSeek PROVE unacked' = unacked /\ nextId' = nextId
  BY <1>6 DEF Publish, Refresh, FinishSeek, registry
<1>7. ASSUME NEW c \in Ids, \/ \E pos \in Positions : Seek(c, pos)
                           \/ \E m \in Slots : Poll(m, c)
      PROVE  unacked' = unacked /\ nextId' = nextId
  BY <1>7 DEF Seek, Poll, registry
<1>8. ASSUME NEW m \in Slots,
             Nack(m) \/ Fire(m) \/ NackAfter(m) \/ Count(m) \/ Release(m) \/ Ack(m)
      PROVE  unacked' = unacked /\ nextId' = nextId
  BY <1>8 DEF Nack, Fire, NackAfter, Count, Release, Ack, registry
<1>9. ASSUME UNCHANGED vars PROVE unacked' = unacked /\ nextId' = nextId
  BY <1>9 DEF vars
<1>10. ASSUME unacked' = unacked, nextId' = nextId PROVE Unopened(unacked)'
  BY <1>0, <1>1, <1>10
<1>11. ASSUME Others PROVE Unopened(unacked)'
  BY <1>1, <1>2, <1>3, <1>4, <1>5, <1>6, <1>7, <1>8, <1>10, <1>11 DEF Others
<1>12. ASSUME Settled PROVE Unopened(unacked)'
  BY <1>8, <1>10, <1>12 DEF Settled
<1> QED
  BY <1>9, <1>10, <1>11, <1>12 DEF Next

\* The consumers an open router knows are all those it attached.
Known == up => 1..nextId \subseteq Attached \cup departed

LEMMA KnownKept == TypeOK /\ Known /\ [Next]_vars => Known'
<1> SUFFICES ASSUME TypeOK, Known, [Next]_vars PROVE Known'
  OBVIOUS
<1>0. nextId \in Nat /\ attached \in Seq(1..nextId) /\ Attached \subseteq 1..nextId
  BY DEF TypeOK, Attached
<1>1. ASSUME UNCHANGED <<up, registry>> PROVE Known'
  BY <1>1 DEF Known, Attached, registry
<1>2. ASSUME Shutdown PROVE Known'
  BY <1>2 DEF Shutdown, Known
<1>3. ASSUME NEW c \in Ids, Unsubscribe(c) PROVE Known'
  <2> DEFINE T == 1..nextId
  <2>1. /\ attached' = Select(attached, Ids \ {c}) /\ departed' = departed \cup {c}
        /\ up' = up /\ nextId' = nextId
    BY <1>3 DEF Unsubscribe
  <2>2. attached \in Seq(T)
    BY <1>0
  <2>3. T \subseteq Ids
    BY <1>0, RouterAssumption DEF TypeOK, Ids
  <2> HIDE DEF T
  <2>4. \A j \in 1..Len(attached) : attached[j] \in Ids \ {c} =>
          \E i \in 1..Len(attached') : attached'[i] = attached[j]
    BY <2>1, <2>2, SelectProps
  <2>5. \A j \in 1..Len(attached) : attached[j] \in T
    BY <2>2, ElementOfSeq
  <2>6. Attached \subseteq Attached' \cup {c}
    BY <2>3, <2>4, <2>5 DEF Attached
  <2> QED BY <2>1, <2>6 DEF Known
<1>4. ASSUME Subscribe PROVE Known'
  <2> DEFINE c == nextId + 1
  <2>1. attached' = Append(attached, c) /\ nextId' = c /\ UNCHANGED <<up, departed>>
    BY <1>4 DEF Subscribe
  <2>2. Attached' = Attached \cup {c}
    <3> DEFINE N == Len(attached)
    <3>1. N \in Nat /\ Len(attached') = N + 1 /\ attached'[N + 1] = c
          /\ \A i \in 1..N : attached'[i] = attached[i]
      BY <1>0, <2>1
    <3>2. 1..(N + 1) = (1..N) \cup {N + 1}
      BY <3>1
    <3> HIDE DEF c, N
    <3>3. Attached' = {attached'[i] : i \in 1..(N + 1)}
      BY <3>1 DEF Attached
    <3>4. Attached = {attached[i] : i \in 1..N}
      BY DEF Attached, N
    <3> QED BY <3>1, <3>2, <3>3, <3>4
  <2>3. 1..c = (1..nextId) \cup {c}
    BY <1>0
  <2> QED BY <2>1, <2>2, <2>3 DEF Known
<1>5. ASSUME Publish \/ Refresh \/ FinishSeek PROVE UNCHANGED <<up, registry>>
  BY <1>5 DEF Publish, Refresh, FinishSeek
<1>6. ASSUME NEW c \in Ids, \/ \E pos \in Positions : Seek(c, pos)
                           \/ \E m \in Slots : Poll(m, c)
      PROVE  UNCHANGED <<up, registry>>
  BY <1>6 DEF Seek, Poll
<1>7. ASSUME NEW m \in Slots, \/ Nack(m) \/ Fire(m) \/ NackAfter(m) \/ Count(m)
                             \/ Release(m) \/ Ack(m) \/ Drop(m)
      PROVE  UNCHANGED <<up, registry>>
  BY <1>7 DEF Nack, Fire, NackAfter, Count, Release, Ack, Drop
<1>8. ASSUME UNCHANGED vars PROVE UNCHANGED <<up, registry>>
  BY <1>8 DEF vars, registry
<1>9. ASSUME Others PROVE Known'
  BY <1>1, <1>2, <1>3, <1>4, <1>5, <1>6, <1>7, <1>9 DEF Others
<1>10. ASSUME Settled PROVE Known'
  BY <1>1, <1>7, <1>10 DEF Settled
<1> QED
  BY <1>1, <1>8, <1>9, <1>10 DEF Next

\* The invariant of the refinement holds initially and is kept by every step.
LEMMA BackedInit == Init => BInv
<1> SUFFICES ASSUME Init PROVE BInv
  OBVIOUS
<1>1. CInv /\ CapInv
  BY CInitStep, CapInit
<1>2. Unopened(unacked)
  BY DEF Init, Unopened
<1>3. \A t \in Topics : Len(log[t]) <= MaxEntries
  BY RouterAssumption DEF Init
<1>4. 1..nextId = {}
  BY DEF Init
<1> QED
  BY <1>1, <1>2, <1>3, <1>4 DEF BInv, Backed

LEMMA BackedStep == BInv /\ [Next]_vars => BInv'
<1> SUFFICES ASSUME BInv, [Next]_vars PROVE BInv'
  OBVIOUS
<1>1. CInv /\ CapInv /\ IInv /\ TypeOK /\ Bounded /\ Unopened(unacked) /\ Known
  BY DEF BInv, CInv, IInv, Backed, Bounded, Known
<1>2. CInv' /\ CapInv'
  BY <1>1, CNextStep, CapStep
<1>3. Bounded' /\ Unopened(unacked)' /\ Known'
  BY <1>1, LogsBounded, DropsOpened, KnownKept
<1> QED
  BY <1>2, <1>3 DEF BInv, Backed, Bounded, Known

-----------------------------------------------------------------------------
(* Steps of the broker *)

\* A step that leaves every copy where it is owes what was owed.
LEMMA CopiesKept ==
  ASSUME UNCHANGED <<nextId, reg, queue, unacked, parked, settle>>
  PROVE  StillOwed
BY DEF StillOwed, LiveCopies, CopiesOut, Of

\* A closed broker stays closed, and owes nothing.
LEMMA ClosedPromise ==
  ASSUME TypeOK, ~up, \/ Settled /\ acked' = (IF up THEN 1 - acked ELSE acked)
                      \/ Others /\ acked' = acked
  PROVE  UNCHANGED PromiseVars
<1>1. acked' = acked /\ (Settled \/ Others)
  OBVIOUS
<1>2. up = FALSE
  BY DEF TypeOK
<1>3. ASSUME Publish \/ Subscribe \/ Refresh \/ FinishSeek PROVE up' = up
  BY <1>3 DEF Publish, Subscribe, Refresh, FinishSeek
<1>4. ASSUME Shutdown PROVE up' = up
  BY <1>2, <1>4 DEF Shutdown
<1>5. ASSUME NEW c \in Ids, Unsubscribe(c) PROVE up' = up
  BY <1>5 DEF Unsubscribe
<1>6. ASSUME NEW c \in Ids, NEW pos \in Positions, Seek(c, pos) PROVE up' = up
  BY <1>6 DEF Seek
<1>7. ASSUME NEW m \in Slots, NEW c \in Ids, Poll(m, c) PROVE up' = up
  BY <1>7 DEF Poll
<1>8. ASSUME NEW m \in Slots, \/ Nack(m) \/ Fire(m) \/ NackAfter(m) \/ Count(m)
                             \/ Release(m) \/ Ack(m) \/ Drop(m)
      PROVE  up' = up
  BY <1>8 DEF Nack, Fire, NackAfter, Count, Release, Ack, Drop
<1>9. up' = up
  BY <1>1, <1>3, <1>4, <1>5, <1>6, <1>7, <1>8 DEF Settled, Others
<1> QED
  BY <1>1, <1>9, Unseen DEF Keeping

\* A listing moves no copy.
LEMMA RefreshPromise ==
  ASSUME Refresh
  PROVE  Keeping
<1>1. UNCHANGED <<up, nextId, reg, log, queue, unacked, parked, settle, swap>>
  BY DEF Refresh, registry
<1>2. StillOwed
  BY <1>1, CopiesKept
<1> QED
  BY <1>1, <1>2 DEF Keeping

\* A seek that has released what it discarded has accounted for it.
LEMMA FinishSeekPromise ==
  ASSUME BInv, up, FinishSeek, acked' = acked
  PROVE  Promise!Account
<1>1. UNCHANGED <<up, nextId, reg, log, queue, unacked, parked, settle>> /\ swap' = 0 /\ swap # 0
  BY DEF FinishSeek, registry, topicVars, LockFree
<1>2. swap \in Nat
  BY DEF BInv, CInv, IInv, TypeOK
<1>3. StillOwed
  BY <1>1, CopiesKept
<1>4. Outstanding' = Outstanding /\ Tip' = Tip
  BY <1>1, <1>3 DEF Outstanding, StillOwed, Places, Tip
<1> QED
  BY <1>1, <1>2, <1>4 DEF Promise!Account, Swapped

\* A shutdown is one.
LEMMA ShutdownPromise ==
  ASSUME up, Shutdown, acked' = acked
  PROVE  Promise!Shutdown
<1>1. up' = FALSE /\ swap = 0 /\ swap' = swap
  BY DEF Shutdown, LockFree
<1>2. /\ Tip' = [t \in Topics |-> 0]
      /\ Outstanding' = [s \in Names |-> [e \in Topics \X (1..MaxEntries) |-> 0]]
      /\ Swapped = 0 /\ Swapped' = 0
  BY <1>1 DEF Tip, Outstanding, Swapped
<1> QED
  BY <1>1, <1>2 DEF Promise!Shutdown, Promise!Entries

\* A close owes what was owed: its queue and what its handlers dropped go back.
LEMMA UnsubscribePromise ==
  ASSUME BInv, IInv', up, NEW c \in Ids, Unsubscribe(c)
  PROVE  Keeping
<1> DEFINE r == reg[c]
           n == r.name
           others == Select(attached, Ids \ {c})
           bare == [queue EXCEPT ![c] = <<>>]
           h == [Hand EXCEPT !.queue = bare]
           g == HandBackAll(h, others, r, queue[c], TRUE)
           e == HandBackAll(g, others, r, AgainAll(unacked[c]), FALSE)
<1>1. /\ c \in Attached /\ attached' = others
      /\ unacked' = [unacked EXCEPT ![c] = <<>>] /\ SetHand(e)
      /\ UNCHANGED <<up, nextId, reg, log, settle, swap>>
  BY DEF Unsubscribe, topicVars, Hand
<1>2. IInv /\ TypeOK /\ queue \in Queues /\ unacked \in Queues /\ Hand \in TidyHand(attached)
      /\ Consumers(attached) = Attached
  BY HandIsTidy DEF BInv, CInv, IInv, TypeOK, Queues
<1>3. c \in 1..nextId /\ r \in Registrations
  BY <1>1, <1>2, KnownConsumer
<1>4. others \in Seq(1..nextId) /\ Consumers(others) \subseteq Consumers(attached)
  <2> DEFINE rest == Ids \ {c}
             T == 1..nextId
  <2>1. attached \in Seq(T)
    BY <1>2 DEF TypeOK
  <2> DEFINE ds == attached
  <2>2. ds \in Seq(T)
    BY <2>1
  <2> HIDE DEF rest, T, ds
  <2>3. /\ Select(ds, rest) \in Seq(T)
        /\ \A i \in 1..Len(Select(ds, rest)) :
             \E j \in 1..Len(ds) : Select(ds, rest)[i] = ds[j]
    BY <2>2, SelectProps
  <2> QED BY <2>3 DEF rest, T, ds, Consumers
<1>5. bare \in Queues /\ bare[c] = <<>> /\ \A y \in Ids : y # c => bare[y] = queue[y]
  BY <1>2 DEF Queues
<1>6. h \in TidyHand(others) /\ h.queue = bare /\ h.parked = parked
  <2>1. Hand \in TidyHand(others)
    BY <1>2, <1>4 DEF TidyHand
  <2>2. \A x \in Ids : AllLogged(bare[x])
    BY <1>2, <1>5 DEF IInv, DeliveriesAreLogged, AllLogged
  <2> HIDE DEF bare
  <2> QED BY <1>5, <2>1, <2>2 DEF TidyHand, Queues, Hand
<1>7. queue[c] \in Seq(LoggedSet) /\ AgainAll(unacked[c]) \in Seq(LoggedSet)
      /\ queue[c] \in Seq(Delivery) /\ unacked[c] \in Seq(Delivery)
  BY <1>2, LoggedSeq, AgainLogged DEF IInv, TypeOK, DeliveriesAreLogged
<1> HIDE DEF h, others, bare
<1>8. g \in TidyHand(others) /\ Gains(h, g, n, queue[c])
  <2> HIDE DEF r
  <2> QED BY <1>2, <1>3, <1>4, <1>6, <1>7, HandBackAllCopies
<1> HIDE DEF g
<1>9. e \in TidyHand(others) /\ Gains(g, e, n, AgainAll(unacked[c]))
  <2> HIDE DEF r
  <2> QED BY <1>2, <1>3, <1>4, <1>7, <1>8, HandBackAllCopies
<1> HIDE DEF e
<1>10. ASSUME NEW s \in Names, NEW x \in Places PROVE LiveCopies(s, x)' = LiveCopies(s, x)
  <2> DEFINE a == CopiesIn(queue[c], x)
             b == CopiesIn(unacked[c], x)
             i == IF s = n THEN b ELSE 0
             j == IF s = n THEN 0 - b ELSE 0
             k == 0 - a
             z == 0 - b
  <2>1. a \in Nat /\ b \in Nat /\ CopiesIn(AgainAll(unacked[c]), x) = b /\ CopiesIn(<<>>, x) = 0
    BY <1>7, CopiesNat, CopiesAgainAll, CopiesEmpty
  <2>2. CopiesAt(bare, Of(s), x) = CopiesAt(queue, Of(s), x) + (IF s = n THEN k ELSE 0)
    <3>1. CopiesIn(bare[c], x) = CopiesIn(queue[c], x) + k /\ k \in Int
      BY <1>5, <2>1
    <3> HIDE DEF k
    <3> QED BY <1>2, <1>3, <1>5, <3>1, OneChanged DEF r, n
  <2>3. CopiesAt(unacked', Of(s), x) = CopiesAt(unacked, Of(s), x) + j /\ j \in Int
    <3> DEFINE p == unacked'
    <3>1. p \in Queues /\ p[c] = <<>> /\ \A y \in Ids : y # c => p[y] = unacked[y]
      BY <1>1, <1>2 DEF Queues
    <3>2. CopiesIn(p[c], x) = CopiesIn(unacked[c], x) + z /\ z \in Int
      BY <2>1, <3>1
    <3> HIDE DEF p
    <3>3. CopiesAt(p, Of(s), x) = CopiesAt(unacked, Of(s), x) + (IF s = reg[c].name THEN z ELSE 0)
      <4> HIDE DEF z
      <4> QED BY <1>2, <1>3, <3>1, <3>2, OneChanged
    <3> QED BY <2>1, <3>3 DEF p
  <2>4. HandCopies(e, s, x) = HandCopies(Hand, s, x) + i /\ i \in Int
    <3> DEFINE u == HandCopies(Hand, s, x)
               v == HandCopies(h, s, x)
               w == HandCopies(g, s, x)
               y == HandCopies(e, s, x)
               d == CopiesAt(queue, Of(s), x)
               f == CopiesAt(bare, Of(s), x)
               q == CopiesIn(parked[s], x)
    <3>1. u = d + q /\ d \in Nat /\ q \in Nat
      BY <1>2, LiveParts
    <3>2. v = f + q
      BY <1>6 DEF HandCopies
    <3>3. w = v + IF s = n THEN a ELSE 0
      BY <1>8 DEF Gains
    <3>4. y = w + IF s = n THEN b ELSE 0
      BY <1>9, <2>1 DEF Gains
    <3>5. f = d + IF s = n THEN 0 - a ELSE 0
      BY <2>2
    <3>6. y = u + i /\ i \in Int
      <4> HIDE DEF a, b, u, v, w, y, d, f, q
      <4> QED BY <2>1, <3>1, <3>2, <3>3, <3>4, <3>5
    <3> QED BY <3>6
  <2>5. CopiesAt(queue', Of(s), x) + CopiesIn(parked'[s], x) = HandCopies(e, s, x)
    BY <1>1, HandLeft
  <2>6. Shifts(s, x, i, j)
    BY <2>3, <2>4, <2>5 DEF Shifts
  <2>7. i \in Int /\ j \in Int /\ i + j = 0
    BY <2>1
  <2> HIDE DEF i, j
  <2>8. Moves(LiveCopies(s, x), LiveCopies(s, x)', i, j, 0, 0)
    <3>1. UNCHANGED <<nextId, reg, settle>>
      BY <1>1
    <3> QED BY <1>2, <2>6, <2>7, <3>1, LiveBroker
  <2>9. LiveCopies(s, x) \in Nat
    BY <1>2, LiveParts
  <2> QED BY <2>7, <2>8, <2>9 DEF Moves
<1> QED
  BY <1>1, <1>10 DEF Keeping, StillOwed

\* An attach owes what was owed: the newcomer takes what was parked for it.
LEMMA SubscribePromise ==
  ASSUME BInv, IInv', up, Subscribe
  PROVE  Keeping
<1> DEFINE c == nextId + 1
           reads(r) == IF IsPattern(r) THEN r.topics \cap created ELSE r.topics
           taken(r) == Select(parked[r.name], Over(reads(r)))
           rest(r) == Select(parked[r.name], Over(Topics \ reads(r)))
<1>1. PICK r \in Registrations :
        /\ queue' = [queue EXCEPT ![c] = taken(r)]
        /\ parked' = [parked EXCEPT ![r.name] = rest(r)]
        /\ reg' = [reg EXCEPT ![c] = r]
  BY DEF Subscribe
<1>2. nextId' = c /\ nextId < MaxConsumers /\ UNCHANGED <<up, log, unacked, settle, swap>>
  BY DEF Subscribe
<1>3. IInv /\ TypeOK /\ queue \in Queues /\ unacked \in Queues /\ queue' \in Queues
      /\ parked \in [Names -> Seq(Delivery)] /\ reg \in [Ids -> Registrations \cup {None}]
      /\ nextId \in Nat /\ MaxConsumers \in Nat
  BY RouterAssumption DEF BInv, CInv, IInv, TypeOK, Queues
<1>4. c \in Ids /\ c > nextId /\ r.name \in Names /\ Ids \subseteq Nat
  BY <1>2, <1>3, RouterAssumption DEF Ids, Registration
<1>5. reads(r) \subseteq Topics
  BY <1>3, RouterAssumption DEF TypeOK, Registration
<1>6. /\ parked[r.name] \in Seq(Delivery)
      /\ queue[c] = <<>> /\ unacked[c] = <<>>
      /\ queue'[c] = taken(r) /\ \A y \in Ids : y # c => queue'[y] = queue[y]
  BY <1>1, <1>3, <1>4 DEF BInv, CInv, Backed, Unopened, Queues
<1>7. \A s \in Names : Of(s)' = IF s = r.name THEN Of(s) \cup {c} ELSE Of(s)
  <2> SUFFICES ASSUME NEW s \in Names, NEW y
               PROVE  y \in Of(s)' <=> (y \in Of(s) \/ (s = r.name /\ y = c))
    OBVIOUS
  <2>1. y \in Of(s)' <=> y \in Ids /\ y <= c /\ reg'[y].name = s
    BY <1>2 DEF Of
  <2>2. y \in Ids => (y <= c <=> y <= nextId \/ y = c) /\ (y <= nextId => y # c)
    BY <1>3, <1>4
  <2>3. \A z \in Ids : reg'[z] = IF z = c THEN r ELSE reg[z]
    BY <1>1, <1>3
  <2> QED BY <1>4, <2>1, <2>2, <2>3 DEF Of
<1>8. \A m \in Slots : \A s \in Names : \A x :
        HeldFor(settle[m], Of(s)', x) <=> HeldFor(settle[m], Of(s), x)
  <2> SUFFICES ASSUME NEW m \in Slots, NEW s \in Names, settle[m].duty \in {"handle", "timer"}
               PROVE  settle[m].id \in Of(s)' <=> settle[m].id \in Of(s)
    BY DEF HeldFor
  <2>1. settle[m].id \in 1..nextId
    BY DEF BInv, CapInv
  <2>2. settle[m].id # c
    BY <1>3, <2>1
  <2> QED BY <1>7, <2>2
<1> HIDE DEF c
<1>9. ASSUME NEW s \in Names, NEW x \in Places PROVE LiveCopies(s, x)' = LiveCopies(s, x)
  <2> DEFINE C == Of(s)
             D == Of(s)'
             n == r.name
             a == CopiesIn(taken(r), x)
             b == CopiesIn(rest(r), x)
             k == IF s = n THEN a ELSE 0
  <2>1. D = IF s = n THEN C \cup {c} ELSE C
    BY <1>7
  <2>2. c \notin C
    BY <1>3, <1>4 DEF Of
  <2>3. a + b = CopiesIn(parked[n], x) /\ a \in Nat /\ b \in Nat
    <3> DEFINE R == reads(r)
               T == Topics \ R
    <3>1. x[1] \in Topics
      BY DEF Places
    <3>2. x[1] \in T <=> x[1] \notin R
      BY <3>1
    <3>3. a = IF x[1] \in R THEN CopiesIn(parked[n], x) ELSE 0
      <4> HIDE DEF R
      <4> QED BY <1>6, CopiesSelect DEF R
    <3>4. b = IF x[1] \in T THEN CopiesIn(parked[n], x) ELSE 0
      <4> HIDE DEF T
      <4> QED BY <1>6, CopiesSelect DEF T
    <3>5. CopiesIn(parked[n], x) \in Nat
      BY <1>6, CopiesNat
    <3> HIDE DEF a, b, T, R
    <3> QED BY <3>2, <3>3, <3>4, <3>5
  <2>4. CopiesAt(queue', D, x) = CopiesAt(queue, C, x) + k
    <3> DEFINE q == queue
               p == queue'
    <3>1. AlikeBut(q, C, p, D, c)
      BY <1>6, <2>1 DEF AlikeBut
    <3>2. Part(q, C, c, x) = 0 /\ Part(p, D, c, x) = k
      BY <1>6, <2>1, <2>2 DEF Part
    <3>3. q \in Queues /\ p \in Queues
      BY <1>3
    <3> HIDE DEF q, p, C, D, k
    <3>4. /\ CopiesAt(q, C, x) \in Nat
          /\ CopiesAt(p, D, x) = CopiesAt(q, C, x) + (Part(p, D, c, x) - Part(q, C, c, x))
      BY <1>4, <3>1, <3>3, AtUpdate
    <3>5. k \in Int
      BY <2>3 DEF k
    <3> QED BY <3>2, <3>4, <3>5 DEF q, p
  <2>5. CopiesAt(unacked', D, x) = CopiesAt(unacked, C, x)
    <3> DEFINE q == unacked
    <3>1. AlikeBut(q, C, q, D, c)
      BY <2>1 DEF AlikeBut
    <3>2. Part(q, C, c, x) = 0 /\ Part(q, D, c, x) = 0
      BY <1>6, <2>2, CopiesEmpty DEF Part
    <3>3. q \in Queues /\ unacked' = q
      BY <1>2, <1>3
    <3> HIDE DEF q, C, D
    <3>4. /\ CopiesAt(q, C, x) \in Nat
          /\ CopiesAt(q, D, x) = CopiesAt(q, C, x) + (Part(q, D, c, x) - Part(q, C, c, x))
      BY <1>4, <3>1, <3>3, AtUpdate
    <3> QED BY <3>2, <3>3, <3>4 DEF q
  <2>6. CopiesIn(parked'[s], x) = IF s = n THEN b ELSE CopiesIn(parked[s], x)
    BY <1>1, <1>3
  <2>7. HeldIn(settle', D, x) = HeldIn(settle, C, x)
    BY <1>2, <1>8 DEF HeldIn
  <2>8. LiveCopies(s, x)' = CopiesAt(queue', D, x) + CopiesAt(unacked', D, x)
                              + CopiesIn(parked'[s], x) + HeldIn(settle', D, x)
    BY DEF LiveCopies, CopiesOut, HeldIn, HeldFor
  <2>9. /\ LiveCopies(s, x) = CopiesAt(queue, C, x) + CopiesAt(unacked, C, x)
                                + CopiesIn(parked[s], x) + HeldIn(settle, C, x)
        /\ CopiesAt(queue, C, x) \in Nat /\ CopiesAt(unacked, C, x) \in Nat
        /\ CopiesIn(parked[s], x) \in Nat /\ HeldIn(settle, C, x) \in Nat
    <3>1. LiveCopies(s, x) = CopiesAt(queue, C, x) + CopiesAt(unacked, C, x)
                                + CopiesIn(parked[s], x) + HeldIn(settle, C, x)
      BY DEF LiveCopies, CopiesOut, HeldIn, HeldFor
    <3> QED BY <1>3, <3>1, LiveParts
  <2> DEFINE l == LiveCopies(s, x)
             z == LiveCopies(s, x)'
             q == CopiesAt(queue, C, x)
             u == CopiesAt(unacked, C, x)
             p == CopiesIn(parked[s], x)
             h == HeldIn(settle, C, x)
             v == CopiesIn(parked'[s], x)
  <2>10. z = (q + k) + u + v + h /\ v = IF s = n THEN b ELSE p
    BY <2>4, <2>5, <2>6, <2>7, <2>8
  <2>11. l = q + u + p + h /\ q \in Nat /\ u \in Nat /\ p \in Nat /\ h \in Nat
    BY <2>9
  <2>12. s = n => a + b = p
    BY <2>3
  <2>13. z = l
    <3> HIDE DEF a, b, l, z, q, u, p, h, v
    <3> QED BY <2>3, <2>10, <2>11, <2>12
  <2> QED BY <2>13
<1> QED
  BY <1>2, <1>9 DEF Keeping, StillOwed

-----------------------------------------------------------------------------
(* What a seek replays *)

\* A seek replays the log of a topic from an entry on (replay_from).
LEMMA ReplaysFrom ==
  ASSUME TypeOK, NEW t \in Topics, NEW pos \in Positions
  PROVE  \E k \in 1..(Len(log[t]) + 1) : Replays(t, pos) = k..Len(log[t])
<1> DEFINE N == Len(log[t])
           R == Replays(t, pos)
<1>1. N \in Nat
  BY DEF TypeOK
<1>2. pos.kind \in {"Earliest", "Latest", "MessageId", "Timestamp"} /\ pos.arg \in Nat
  BY RouterAssumption DEF Position
<1>3. R \subseteq 1..N
  BY DEF Replays
<1>4. ASSUME NEW i \in R, NEW j \in 1..N, i <= j PROVE j \in R
  <2>1. i \in 1..N
    BY <1>3
  <2>2. CASE pos.kind = "Earliest"
    BY <2>2 DEF Replays
  <2>3. CASE pos.kind = "Latest"
    BY <1>4, <2>3 DEF Replays
  <2>4. CASE pos.kind = "MessageId"
    BY <1>2, <1>4, <2>1, <2>4 DEF Replays
  <2>5. CASE pos.kind = "Timestamp"
    BY <1>4, <2>1, <2>5 DEF Replays
  <2> QED BY <1>2, <2>2, <2>3, <2>4, <2>5
<1> HIDE DEF R
<1>5. CASE R = {}
  <2>1. N + 1 \in 1..(N + 1) /\ R = (N + 1)..N
    BY <1>1, <1>5
  <2> QED BY <2>1 DEF R
<1>6. CASE R # {}
  <2>1. R \in SUBSET Nat
    BY <1>3
  <2>2. PICK k \in R : \A q \in R : k <= q
    BY <1>6, <2>1, FirstIn
  <2>3. k \in 1..N
    BY <1>3
  <2>4. R = k..N
    <3>1. \A q : q \in R => q \in k..N
      BY <1>3, <2>2, <2>3
    <3>2. \A q : q \in k..N => q \in R
      BY <1>4, <2>2, <2>3
    <3> QED BY <3>1, <3>2
  <2>5. k \in 1..(N + 1)
    BY <1>1, <2>3
  <2> QED BY <2>4, <2>5 DEF R
<1> QED
  BY <1>5, <1>6

\* An entry that is replayed is replayed once (replay_order).
LEMMA ReplayedOnce ==
  ASSUME TypeOK, NEW T \in SUBSET Topics, NEW pos,
         NEW ds \in InReplayOrder({d \in [topic : T, seq : 1..MaxEntries, red : {0}] :
                                     d.seq \in Replays(d.topic, pos)})
  PROVE  /\ ds \in Seq(LoggedSet)
         /\ \A i \in 1..Len(ds) : ds[i].topic \in T
         /\ \A x \in Places :
              CopiesIn(ds, x) = IF x[1] \in T /\ x[2] \in Replays(x[1], pos) THEN 1 ELSE 0
<1> DEFINE box == [topic : T, seq : 1..MaxEntries, red : {0}]
           replay == {d \in box : d.seq \in Replays(d.topic, pos)}
           N == Cardinality(replay)
<1>1. ds \in Seq(LoggedSet)
  BY ReplayLogged
<1>2. /\ ds \in [1..N -> replay]
      /\ \A i, j \in 1..N : i < j => Earlier(ds[i], ds[j])
  BY DEF InReplayOrder
<1>3. \A d \in box : /\ d.topic \in T /\ d.seq \in 1..MaxEntries
                     /\ d = [topic |-> d.topic, seq |-> d.seq, red |-> 0]
  OBVIOUS
<1>4. IsFiniteSet(replay)
  <2> DEFINE f == [d \in replay |-> <<d.topic, d.seq>>]
  <2>1. f \in [replay -> Places] /\ \A d \in replay : f[d] = <<d.topic, d.seq>>
    BY <1>3 DEF Places
  <2>2. \A a, b \in replay : f[a] = f[b] => a = b
    BY <1>3, <2>1
  <2> HIDE DEF f, replay
  <2>3. f \in Injection(replay, Places)
    BY <2>1, <2>2 DEF Injection, IsInjective
  <2> QED BY <2>3, FS_Injection, IdsFinite
<1>5. \A d \in replay : d \in Delivery /\ d.topic \in Nat /\ d.seq \in Nat /\ d.topic \in T
                        /\ log[d.topic][d.seq].at \in Nat
  <2> SUFFICES ASSUME NEW d \in replay
               PROVE  d \in Delivery /\ d.topic \in Nat /\ d.seq \in Nat /\ d.topic \in T
                      /\ log[d.topic][d.seq].at \in Nat
    OBVIOUS
  <2>1. /\ d.topic \in T /\ d.topic \in Topics /\ d.topic \in Nat /\ d.seq \in Nat \ {0}
        /\ d.seq \in 1..Len(log[d.topic])
    BY <1>3, RouterAssumption DEF Replays
  <2>2. log[d.topic] \in Seq(LogEntry)
    BY <2>1 DEF TypeOK
  <2>3. log[d.topic][d.seq] \in LogEntry
    BY <2>1, <2>2
  <2>4. log[d.topic][d.seq].at \in Nat
    BY <2>3, RouterAssumption DEF LogEntry
  <2>5. d = [topic |-> d.topic, seq |-> d.seq, red |-> 0]
    BY <1>3
  <2>6. d \in Delivery
    BY <2>1, <2>5 DEF Delivery
  <2> QED BY <2>1, <2>4, <2>6
<1>6. \A x \in Places : x[1] \in T /\ x[2] \in Replays(x[1], pos) =>
        \E d \in replay : Carries(d, x)
  <2> SUFFICES ASSUME NEW x \in Places, x[1] \in T, x[2] \in Replays(x[1], pos)
               PROVE  \E d \in replay : Carries(d, x)
    OBVIOUS
  <2> DEFINE d == [topic |-> x[1], seq |-> x[2], red |-> 0]
  <2>1. d \in replay /\ d.topic = x[1] /\ d.seq = x[2]
    BY DEF Places
  <2>2. x = <<x[1], x[2]>>
    BY DEF Places
  <2> HIDE DEF d, replay
  <2> QED BY <2>1, <2>2 DEF Carries
<1>7. \A x \in Places : \A d \in replay : Carries(d, x) => x[1] \in T /\ x[2] \in Replays(x[1], pos)
  BY <1>3 DEF Carries
<1>8. \A x : \A a, b \in replay : Carries(a, x) /\ Carries(b, x) => a = b
  BY <1>3 DEF Carries
<1> HIDE DEF replay
<1>9. N \in Nat
  BY <1>4, FS_CardinalityType
<1>10. \A i, j \in 1..N : ds[i] = ds[j] => i = j
  <2> SUFFICES ASSUME NEW i \in 1..N, NEW j \in 1..N, ds[i] = ds[j], i # j PROVE FALSE
    OBVIOUS
  <2>1. Earlier(ds[i], ds[i])
    BY <1>2, <1>9
  <2>2. ds[i] \in replay
    BY <1>2
  <2> QED BY <1>5, <2>1, <2>2 DEF Earlier
<1>11. \A d \in replay : \E i \in 1..N : ds[i] = d
  <2>1. ds \in Injection(1..N, replay)
    BY <1>2, <1>10 DEF Injection, IsInjective
  <2>2. Cardinality(1..N) = N
    BY <1>9, FS_Interval
  <2>3. ds \in Surjection(1..N, replay)
    BY <1>4, <2>1, <2>2, FS_Injection
  <2> QED BY <2>3 DEF Surjection
<1>12. Len(ds) = N
  BY <1>2, <1>9
<1> HIDE DEF N
<1>13. ASSUME NEW x \in Places
       PROVE  CopiesIn(ds, x) = IF x[1] \in T /\ x[2] \in Replays(x[1], pos) THEN 1 ELSE 0
  <2> DEFINE A == {n \in 1..N : Carries(ds[n], x)}
  <2>1. CopiesIn(ds, x) = Cardinality(A)
    BY <1>12 DEF CopiesIn
  <2>2. CASE x[1] \in T /\ x[2] \in Replays(x[1], pos)
    <3>1. PICK d \in replay : Carries(d, x)
      BY <1>6, <2>2
    <3>2. PICK i \in 1..N : ds[i] = d
      BY <1>11
    <3>3. A = {i}
      BY <1>2, <1>8, <1>10, <3>1, <3>2
    <3> HIDE DEF A
    <3> QED BY <2>1, <2>2, <3>3, FS_Singleton
  <2>3. CASE ~(x[1] \in T /\ x[2] \in Replays(x[1], pos))
    <3>1. A = {}
      BY <1>2, <1>7, <2>3
    <3> HIDE DEF A
    <3> QED BY <2>1, <2>3, <3>1, FS_EmptySet
  <2> QED BY <2>2, <2>3
<1>14. \A i \in 1..Len(ds) : ds[i].topic \in T
  BY <1>2, <1>5, <1>12
<1> QED
  BY <1>1, <1>13, <1>14

\* Queues that lost deliveries at no consumer hold as many copies, and queues that gained
\* none hold no more.
LEMMA AtLess ==
  ASSUME NEW q \in Queues, NEW p \in Queues, NEW C, NEW e
  PROVE  /\ (\A y \in Ids : Part(p, C, y, e) = Part(q, C, y, e))
              => CopiesAt(p, C, e) = CopiesAt(q, C, e)
         /\ (\A y \in Ids : Part(p, C, y, e) <= Part(q, C, y, e))
              => CopiesAt(p, C, e) <= CopiesAt(q, C, e)
<1> DEFINE f == [y \in Ids |-> Part(q, C, y, e)]
           g == [y \in Ids |-> Part(p, C, y, e)]
           k == [y \in Ids |-> Part(q, C, y, e) - Part(p, C, y, e)]
<1>1. \A y \in Ids : Part(q, C, y, e) \in Nat /\ Part(p, C, y, e) \in Nat
  <2> SUFFICES ASSUME NEW y \in Ids PROVE Part(q, C, y, e) \in Nat /\ Part(p, C, y, e) \in Nat
    OBVIOUS
  <2>1. q[y] \in Seq(Delivery) /\ p[y] \in Seq(Delivery)
    BY DEF Queues
  <2>2. CopiesIn(q[y], e) \in Nat /\ CopiesIn(p[y], e) \in Nat
    BY <2>1, CopiesNat
  <2> QED BY <2>2 DEF Part
<1>2. CopiesAt(q, C, e) = SumFunction(f) /\ CopiesAt(p, C, e) = SumFunction(g)
  BY DEF CopiesAt, Part
<1>3. /\ f \in [Ids -> Int] /\ g \in [Ids -> Int] /\ k \in [Ids -> Int]
      /\ \A y \in Ids : /\ f[y] = Part(q, C, y, e) /\ g[y] = Part(p, C, y, e)
                        /\ f[y] = g[y] + k[y]
                        /\ g[y] <= f[y] => k[y] \in Nat
  <2> DEFINE a(y) == Part(q, C, y, e)
             b(y) == Part(p, C, y, e)
  <2>1. \A y \in Ids : a(y) \in Nat /\ b(y) \in Nat
    BY <1>1
  <2>2. \A y \in Ids : f[y] = a(y) /\ g[y] = b(y) /\ k[y] = a(y) - b(y)
    OBVIOUS
  <2>3. f = [y \in Ids |-> a(y)] /\ g = [y \in Ids |-> b(y)] /\ k = [y \in Ids |-> a(y) - b(y)]
    OBVIOUS
  <2> HIDE DEF a, b, f, g, k
  <2>4. \A y \in Ids : f[y] = g[y] + k[y] /\ (g[y] <= f[y] => k[y] \in Nat)
    BY <2>1, <2>2
  <2>5. f \in [Ids -> Int] /\ g \in [Ids -> Int] /\ k \in [Ids -> Int]
    BY <2>1, <2>3
  <2> QED BY <2>2, <2>4, <2>5 DEF a, b
<1>4. ASSUME \A y \in Ids : Part(p, C, y, e) = Part(q, C, y, e) PROVE g = f
  BY <1>4
<1> HIDE DEF f, g, k
<1>5. SumFunction(f) = SumFunction(g) + SumFunction(k)
  BY <1>3, IdsFinite, SumPlus
<1>6. SumFunction(g) \in Int /\ SumFunction(k) \in Int
  BY <1>3, IdsFinite, SumNat
<1>7. ASSUME \A y \in Ids : Part(p, C, y, e) <= Part(q, C, y, e)
      PROVE  SumFunction(g) <= SumFunction(f)
  <2>1. \A y \in Ids : k[y] \in Nat
    BY <1>3, <1>7
  <2>2. SumFunction(k) \in Nat
    BY <1>3, <2>1, IdsFinite, SumNat
  <2> QED BY <1>5, <1>6, <2>2
<1> QED
  BY <1>2, <1>4, <1>7

\* The queues p are the router's without what the consumers A had of the topics T.
Discards(p, A, T) ==
  \A y \in Ids : p[y] = IF y \in A THEN Select(queue[y], Over(Topics \ T)) ELSE queue[y]

\* Discarding at consumers of subscription n takes copies of it alone, of the topics T
\* alone.
LEMMA DiscardedCopies ==
  ASSUME TypeOK, NEW p \in Queues, NEW n \in Names, NEW A, \A y \in A : reg[y].name = n,
         NEW T, Discards(p, A, T), NEW x \in Places
  PROVE  /\ \A s \in Names : s # n => CopiesAt(p, Of(s), x) = CopiesAt(queue, Of(s), x)
         /\ CopiesAt(p, Of(n), x) <= CopiesAt(queue, Of(n), x)
         /\ x[1] \notin T => CopiesAt(p, Of(n), x) = CopiesAt(queue, Of(n), x)
<1>1. queue \in Queues /\ x[1] \in Topics
  BY DEF TypeOK, Queues, Places
<1>2. \A y \in Ids : /\ CopiesIn(queue[y], x) \in Nat
                     /\ CopiesIn(p[y], x) = IF y \in A /\ x[1] \in T THEN 0
                                            ELSE CopiesIn(queue[y], x)
  <2> SUFFICES ASSUME NEW y \in Ids
               PROVE  /\ CopiesIn(queue[y], x) \in Nat
                      /\ CopiesIn(p[y], x) = IF y \in A /\ x[1] \in T THEN 0
                                             ELSE CopiesIn(queue[y], x)
    OBVIOUS
  <2> DEFINE S == Topics \ T
             q == queue[y]
  <2>1. q \in Seq(Delivery) /\ (x[1] \in S <=> x[1] \notin T)
    BY <1>1 DEF Queues
  <2>2. p[y] = IF y \in A THEN Select(q, Over(S)) ELSE q
    BY DEF Discards
  <2> HIDE DEF S, q
  <2>3. CopiesIn(q, x) \in Nat
    BY <2>1, CopiesNat
  <2>4. CopiesIn(Select(q, Over(S)), x) = IF x[1] \in S THEN CopiesIn(q, x) ELSE 0
    BY <2>1, CopiesSelect
  <2>5. CASE y \in A
    BY <2>1, <2>2, <2>3, <2>4, <2>5 DEF q
  <2>6. CASE y \notin A
    BY <2>2, <2>3, <2>6 DEF q
  <2> QED BY <2>5, <2>6
<1>3. ASSUME NEW s \in Names, s # n PROVE CopiesAt(p, Of(s), x) = CopiesAt(queue, Of(s), x)
  <2>1. \A y \in Of(s) : y \notin A
    BY <1>3 DEF Of
  <2>2. \A y \in Ids : Part(p, Of(s), y, x) = Part(queue, Of(s), y, x)
    BY <1>2, <2>1 DEF Part
  <2> QED BY <1>1, <2>2, AtLess
<1>4. CopiesAt(p, Of(n), x) <= CopiesAt(queue, Of(n), x)
  <2> DEFINE C == Of(n)
  <2> HIDE DEF C
  <2>1. \A y \in Ids : Part(p, C, y, x) <= Part(queue, C, y, x)
    BY <1>2 DEF Part
  <2> QED BY <1>1, <2>1, AtLess DEF C
<1>5. ASSUME x[1] \notin T PROVE CopiesAt(p, Of(n), x) = CopiesAt(queue, Of(n), x)
  <2> DEFINE C == Of(n)
  <2> HIDE DEF C
  <2>1. \A y \in Ids : Part(p, C, y, x) = Part(queue, C, y, x)
    BY <1>2, <1>5 DEF Part
  <2> QED BY <1>1, <2>1, AtLess DEF C
<1> QED
  BY <1>3, <1>4, <1>5

\* Where the cursor goes on the topics T.
Cuts(cut, T, pos) ==
  /\ cut \in [Topics -> 0..(MaxEntries + 1)]
  /\ \A t \in Topics : IF t \in T THEN cut[t] # 0 /\ Replays(t, pos) = cut[t]..Len(log[t])
                                  ELSE cut[t] = 0

LEMMA CutsExist ==
  ASSUME BInv, NEW T \in SUBSET Topics, NEW pos \in Positions
  PROVE  \E cut : Cuts(cut, T, pos)
<1> DEFINE at(t) == CHOOSE k \in 1..(Len(log[t]) + 1) : Replays(t, pos) = k..Len(log[t])
           cut == [t \in Topics |-> IF t \in T THEN at(t) ELSE 0]
<1>1. TypeOK /\ MaxEntries \in Nat
  BY RouterAssumption DEF BInv, CInv, IInv
<1>2. ASSUME NEW t \in Topics
      PROVE  /\ at(t) \in 1..(Len(log[t]) + 1) /\ Replays(t, pos) = at(t)..Len(log[t])
             /\ at(t) \in 0..(MaxEntries + 1) /\ at(t) # 0
  <2>1. \E k \in 1..(Len(log[t]) + 1) : Replays(t, pos) = k..Len(log[t])
    BY <1>1, ReplaysFrom
  <2>2. at(t) \in 1..(Len(log[t]) + 1) /\ Replays(t, pos) = at(t)..Len(log[t])
    BY <2>1
  <2> HIDE DEF at
  <2>3. Len(log[t]) \in Nat /\ Len(log[t]) <= MaxEntries
    <3>1. log[t] \in Seq(LogEntry)
      BY <1>1 DEF TypeOK
    <3> QED BY <3>1 DEF BInv, Backed
  <2>4. at(t) \in 0..(MaxEntries + 1) /\ at(t) # 0
    BY <1>1, <2>2, <2>3
  <2> QED BY <2>2, <2>4
<1> HIDE DEF at
<1>3. \A t \in Topics : cut[t] = IF t \in T THEN at(t) ELSE 0
  OBVIOUS
<1>4. cut \in [Topics -> 0..(MaxEntries + 1)]
  BY <1>1, <1>2
<1> HIDE DEF cut
<1>5. Cuts(cut, T, pos)
  BY <1>2, <1>3, <1>4 DEF Cuts
<1> QED
  BY <1>5

\* What was queued, and what is, is of the logs' places.
LEMMA AllPlaced ==
  ASSUME BInv, NEW q, AllLogged(q)
  PROVE  Placed(q)
BY LoggedPlaced DEF AllLogged, Placed

\* What a seek owes anew and what it discards, of each entry: the discarded deliveries
\* are the ones it is still to account for.
LEMMA SeekOwes ==
  ASSUME BInv, IInv', NEW c \in Ids, NEW pos \in Positions, Seek(c, pos)
  PROVE  /\ reg[c].name \in Names
         /\ \E cut \in [Topics -> 0..(MaxEntries + 1)] : \E gone \in [Places -> Nat] :
              /\ \A s \in Names : \A x \in Places :
                   LiveCopies(s, x)' = LiveCopies(s, x)
                     + IF s = reg[c].name
                       THEN (IF cut[x[1]] # 0 /\ x[2] \in cut[x[1]]..Len(log[x[1]]) THEN 1 ELSE 0)
                              - gone[x]
                       ELSE 0
              /\ \A x \in Places : /\ gone[x] <= LiveCopies(reg[c].name, x)
                                   /\ cut[x[1]] = 0 => gone[x] = 0
              /\ swap' = SumFunction(gone)
<1> DEFINE r == reg[c]
           n == r.name
           topics == {t \in Topics \ Volatile : Reads(listed, c, t)}
           siblings == {x \in Attached : reg[x].name = r.name /\ Overlap(reg[x], r)}
           kept == [x \in Ids |-> IF x \in siblings
                                 THEN Select(queue[x], Over(Topics \ topics))
                                 ELSE queue[x]]
           box == [topic : topics, seq : 1..MaxEntries, red : {0}]
           replay == {d \in box : d.seq \in Replays(d.topic, pos)}
           h == [Hand EXCEPT !.queue = kept]
           gone == [x \in Places |-> CopiesAt(queue, Of(n), x) - CopiesAt(kept, Of(n), x)]
<1>1. /\ c \in Attached
      /\ \E ds \in InReplayOrder(replay) : SetHand(ReplayAll(h, r, ds))
      /\ swap' = Total(queue) - Total(kept)
      /\ UNCHANGED <<nextId, reg, settle>> /\ unacked' = unacked
  BY DEF Seek, registry, topicVars
<1>2. IInv /\ TypeOK /\ DeliveriesAreLogged /\ queue \in Queues
      /\ \A x \in Ids : AllLogged(queue[x])
  BY DEF BInv, CInv, IInv, TypeOK, Queues, DeliveriesAreLogged
<1>3. c \in 1..nextId /\ r \in Registrations /\ n \in Names
  <2>1. c \in 1..nextId /\ r \in Registrations
    BY <1>1, <1>2, KnownConsumer
  <2> QED BY <2>1, RouterAssumption DEF Registration
<1>4. topics \in SUBSET Topics
  OBVIOUS
<1>5. Discards(kept, siblings, topics)
  BY DEF Discards
<1>6. kept = [x \in Ids |-> kept[x]]
      /\ \A x \in Ids : kept[x] = queue[x] \/ \E O : kept[x] = Select(queue[x], O)
  OBVIOUS
<1>7. /\ kept \in Queues /\ \A x \in Ids : AllLogged(kept[x])
  <2> HIDE DEF kept
  <2> QED BY <1>2, <1>6, KeptLogged DEF Queues
<1>8. \A x \in siblings : reg[x].name = n
  OBVIOUS
<1>9. \A x \in siblings : x \in Of(n)
  <2> SUFFICES ASSUME NEW x \in siblings PROVE x \in Of(n)
    OBVIOUS
  <2>1. x \in 1..nextId /\ x \in Ids /\ reg[x].name = n
    BY <1>2, KnownConsumer
  <2>2. x <= nextId
    BY <2>1
  <2> QED BY <2>1, <2>2 DEF Of
<1>10. \A t \in topics : MembersOf(attached, listed, n, t) # <<>>
  <2> SUFFICES ASSUME NEW t \in topics, MembersOf(attached, listed, n, t) = <<>> PROVE FALSE
    OBVIOUS
  <2>1. Reads(listed, c, t)
    OBVIOUS
  <2>2. PICK j \in 1..Len(attached) : attached[j] = c
    BY <1>1 DEF Attached
  <2>3. attached \in Seq(1..nextId)
    BY <1>2 DEF TypeOK
  <2> HIDE DEF n, topics
  <2>4. ~(reg[attached[j]].name = n /\ Reads(listed, attached[j], t))
    BY <2>3, MembersProps
  <2> QED BY <2>1, <2>2, <2>4 DEF n
<1>11. h.queue = kept /\ h.parked = parked /\ h \in TidyHand(attached)
  <2> HIDE DEF kept
  <2>1. h.queue = kept /\ h.parked = parked
    BY DEF Hand
  <2>2. h \in TidyHand(attached)
    BY <1>2, <1>7, HandIsTidy DEF TidyHand, Queues
  <2> QED BY <2>1, <2>2
<1> HIDE DEF kept, h, siblings
<1>12. PICK ds \in InReplayOrder(replay) : SetHand(ReplayAll(h, r, ds))
  BY <1>1
<1>13. /\ ds \in Seq(LoggedSet)
       /\ \A i \in 1..Len(ds) : ds[i].topic \in topics
       /\ \A x \in Places :
            CopiesIn(ds, x) = IF x[1] \in topics /\ x[2] \in Replays(x[1], pos) THEN 1 ELSE 0
  <2> DEFINE T == topics
  <2>1. T \in SUBSET Topics /\ TypeOK
    BY <1>2, <1>4
  <2>2. ds \in InReplayOrder({d \in [topic : T, seq : 1..MaxEntries, red : {0}] :
                               d.seq \in Replays(d.topic, pos)})
    BY <1>12
  <2> HIDE DEF topics, T
  <2>3. /\ ds \in Seq(LoggedSet)
        /\ \A i \in 1..Len(ds) : ds[i].topic \in T
        /\ \A x \in Places :
             CopiesIn(ds, x) = IF x[1] \in T /\ x[2] \in Replays(x[1], pos) THEN 1 ELSE 0
    BY <2>1, <2>2, ReplayedOnce
  <2> QED BY <2>3 DEF T
<1> DEFINE e == ReplayAll(h, r, ds)
<1>14. SetHand(e) /\ Gains(h, e, n, ds)
  <2>1. \A i \in 1..Len(ds) : MembersOf(attached, listed, r.name, ds[i].topic) # <<>>
    BY <1>10, <1>13
  <2> HIDE DEF r, topics
  <2>2. Gains(h, e, r.name, ds)
    BY <1>2, <1>3, <1>11, <1>13, <2>1, ReplayAllCopies
  <2> QED BY <1>12, <2>2
<1>15. PICK cut : Cuts(cut, topics, pos)
  <2> HIDE DEF topics
  <2> QED BY <1>4, CutsExist
<1> HIDE DEF e, gone, topics, n
<1>16. \A x \in Places :
         /\ CopiesAt(queue, Of(n), x) \in Nat /\ CopiesAt(kept, Of(n), x) \in Nat
         /\ CopiesAt(kept, Of(n), x) <= CopiesAt(queue, Of(n), x)
         /\ x[1] \notin topics => CopiesAt(kept, Of(n), x) = CopiesAt(queue, Of(n), x)
         /\ \A s \in Names : s # n => CopiesAt(kept, Of(s), x) = CopiesAt(queue, Of(s), x)
  BY <1>2, <1>3, <1>5, <1>7, <1>8, DiscardedCopies, AtNat
<1>17. gone \in [Places -> Nat]
       /\ \A x \in Places : gone[x] = CopiesAt(queue, Of(n), x) - CopiesAt(kept, Of(n), x)
  <2> DEFINE a(x) == CopiesAt(queue, Of(n), x)
             b(x) == CopiesAt(kept, Of(n), x)
  <2>1. \A x \in Places : a(x) \in Nat /\ b(x) \in Nat /\ b(x) <= a(x)
    BY <1>16
  <2>2. gone = [x \in Places |-> a(x) - b(x)]
    BY DEF gone
  <2> HIDE DEF a, b
  <2>3. \A x \in Places : a(x) - b(x) \in Nat
    BY <2>1
  <2>4. gone \in [Places -> Nat] /\ \A x \in Places : gone[x] = a(x) - b(x)
    BY <2>2, <2>3
  <2> QED BY <2>4 DEF a, b
<1>18. swap' = SumFunction(gone)
  <2> DEFINE C == Of(n)
  <2>1. \A x \in Ids : x \notin C => kept[x] = queue[x]
    BY <1>5, <1>9 DEF Discards
  <2>2. \A x \in Ids : Placed(queue[x]) /\ Placed(kept[x])
    BY <1>2, <1>7, AllPlaced
  <2>3. gone = [x \in Places |-> CopiesAt(queue, C, x) - CopiesAt(kept, C, x)]
    BY DEF gone
  <2> HIDE DEF C
  <2>4. SumFunction([x \in Places |-> CopiesAt(queue, C, x) - CopiesAt(kept, C, x)])
          = Total(queue) - Total(kept)
    BY <1>2, <1>7, <2>1, <2>2, SumOfDiscarded
  <2> QED BY <1>1, <2>3, <2>4
<1> DEFINE again(x) == IF cut[x[1]] # 0 /\ x[2] \in cut[x[1]]..Len(log[x[1]]) THEN 1 ELSE 0
<1>19. ASSUME NEW x \in Places
       PROVE  /\ CopiesIn(ds, x) = again(x) /\ again(x) \in Nat
              /\ cut[x[1]] = 0 => gone[x] = 0
  <2>1. x[1] \in Topics
    BY DEF Places
  <2>2. IF x[1] \in topics THEN cut[x[1]] # 0 /\ Replays(x[1], pos) = cut[x[1]]..Len(log[x[1]])
                           ELSE cut[x[1]] = 0
    BY <1>15, <2>1 DEF Cuts
  <2>3. CopiesIn(ds, x) = again(x) /\ again(x) \in Nat
    BY <1>13, <2>2
  <2>4. ASSUME cut[x[1]] = 0 PROVE gone[x] = 0
    <3>1. x[1] \notin topics
      BY <2>2, <2>4
    <3> DEFINE a == CopiesAt(queue, Of(n), x)
               b == CopiesAt(kept, Of(n), x)
    <3>2. a = b /\ a \in Nat /\ gone[x] = a - b
      BY <1>16, <1>17, <3>1
    <3> HIDE DEF a, b
    <3> QED BY <3>2
  <2> QED BY <2>3, <2>4
<1>20. ASSUME NEW x \in Places PROVE gone[x] <= LiveCopies(n, x)
  <2> DEFINE a == CopiesAt(queue, Of(n), x)
             b == CopiesAt(kept, Of(n), x)
             k == HandCopies(Hand, n, x)
             p == CopiesIn(parked[n], x)
             w == Away(unacked, settle, Of(n), x)
             l == LiveCopies(n, x)
  <2>1. l = k + w /\ k = a + p /\ a \in Nat /\ p \in Nat /\ w \in Nat
    BY <1>2, <1>3, LiveParts DEF Away
  <2>2. gone[x] = a - b /\ b \in Nat
    BY <1>16, <1>17
  <2> HIDE DEF a, b, k, p, w, l
  <2>3. gone[x] <= l
    BY <2>1, <2>2
  <2> QED BY <2>3 DEF l
<1> HIDE DEF again
<1>21. ASSUME NEW s \in Names, NEW x \in Places
       PROVE  LiveCopies(s, x)' = LiveCopies(s, x) + IF s = n THEN again(x) - gone[x] ELSE 0
  <2> DEFINE i == IF s = n THEN again(x) - gone[x] ELSE 0
             a == CopiesAt(queue, Of(s), x)
             b == CopiesAt(kept, Of(s), x)
             p == CopiesIn(parked[s], x)
             u == HandCopies(Hand, s, x)
             v == HandCopies(h, s, x)
             w == HandCopies(e, s, x)
             k == CopiesIn(ds, x)
  <2>1. u = a + p /\ a \in Nat /\ p \in Nat
    BY <1>2, LiveParts
  <2>2. v = b + p
    BY <1>11 DEF HandCopies
  <2>3. w = v + IF s = n THEN k ELSE 0
    BY <1>14 DEF Gains
  <2>4. b = a - IF s = n THEN gone[x] ELSE 0
    <3>1. CASE s = n
      <4>1. gone[x] = a - b /\ b \in Nat
        BY <1>16, <1>17, <3>1
      <4> HIDE DEF a, b
      <4> QED BY <2>1, <3>1, <4>1
    <3>2. CASE s # n
      <4>1. a = b
        BY <1>16, <3>2
      <4> HIDE DEF a, b
      <4> QED BY <2>1, <3>2, <4>1
    <3> QED BY <3>1, <3>2
  <2>5. k = again(x) /\ again(x) \in Nat /\ gone[x] \in Nat
    BY <1>17, <1>19
  <2>6. i \in Int
    BY <2>5
  <2>7. w = u + i
    <3> HIDE DEF a, b, p, u, v, w, k
    <3> QED BY <2>1, <2>2, <2>3, <2>4, <2>5
  <2>8. CopiesAt(queue', Of(s), x) + CopiesIn(parked'[s], x) = w
    BY <1>14, HandLeft
  <2>9. CopiesAt(unacked', Of(s), x) = CopiesAt(unacked, Of(s), x) + 0
    BY <1>1, <1>2, DropsKept
  <2> HIDE DEF i
  <2>10. Shifts(s, x, i, 0)
    BY <2>7, <2>8, <2>9 DEF Shifts
  <2>11. Moves(LiveCopies(s, x), LiveCopies(s, x)', i, 0, 0, 0)
    <3>1. UNCHANGED <<nextId, reg, settle>>
      BY <1>1
    <3> QED BY <1>2, <2>6, <2>10, <3>1, LiveBroker
  <2>12. LiveCopies(s, x) \in Nat
    BY <1>2, LiveParts
  <2>13. LiveCopies(s, x)' = LiveCopies(s, x) + i
    BY <2>6, <2>11, <2>12 DEF Moves
  <2> QED BY <2>13 DEF i
<1>22. cut \in [Topics -> 0..(MaxEntries + 1)]
  BY <1>15 DEF Cuts
<1> QED
  <2>1. \A s \in Names : \A x \in Places :
          LiveCopies(s, x)' = LiveCopies(s, x) + IF s = n THEN again(x) - gone[x] ELSE 0
    BY <1>21
  <2>2. \A x \in Places : gone[x] <= LiveCopies(n, x) /\ (cut[x[1]] = 0 => gone[x] = 0)
    BY <1>19, <1>20
  <2> QED BY <1>3, <1>17, <1>18, <1>22, <2>1, <2>2 DEF n, again

\* The specification of the promise sums as the model does.
LEMMA SameSum == \A f : Promise!SumFunction(f) = SumFunction(f)
BY DEF Promise!SumFunction, Promise!SumFunctionOnSet, Promise!FoldFunctionOnSet,
       Promise!MapThenFoldSet, SumFunction, SumFunctionOnSet, FoldFunctionOnSet,
       MapThenFoldSet

\* A seek moves a cursor.
LEMMA SeekPromise ==
  ASSUME BInv, IInv', up, NEW c \in Ids, NEW pos \in Positions, Seek(c, pos), acked' = acked
  PROVE  \E s \in Names : \E cut \in [Topics -> 0..(MaxEntries + 1)] : Promise!Reposition(s, cut)
<1> DEFINE n == reg[c].name
<1>1. UNCHANGED <<up, log, acked>> /\ swap = 0
  BY DEF Seek, topicVars, LockFree
<1>2. IInv
  BY DEF BInv, CInv
<1>3. PICK cut \in [Topics -> 0..(MaxEntries + 1)] : \E gone \in [Places -> Nat] :
        /\ \A s \in Names : \A x \in Places :
             LiveCopies(s, x)' = LiveCopies(s, x)
               + IF s = n
                 THEN (IF cut[x[1]] # 0 /\ x[2] \in cut[x[1]]..Len(log[x[1]]) THEN 1 ELSE 0)
                        - gone[x]
                 ELSE 0
        /\ \A x \in Places : gone[x] <= LiveCopies(n, x) /\ (cut[x[1]] = 0 => gone[x] = 0)
        /\ swap' = SumFunction(gone)
  BY SeekOwes
<1>4. PICK gone \in [Places -> Nat] :
        /\ \A s \in Names : \A x \in Places :
             LiveCopies(s, x)' = LiveCopies(s, x)
               + IF s = n
                 THEN (IF cut[x[1]] # 0 /\ x[2] \in cut[x[1]]..Len(log[x[1]]) THEN 1 ELSE 0)
                        - gone[x]
                 ELSE 0
        /\ \A x \in Places : gone[x] <= LiveCopies(n, x) /\ (cut[x[1]] = 0 => gone[x] = 0)
        /\ swap' = SumFunction(gone)
  BY <1>3
<1>5. n \in Names
  BY SeekOwes
<1> HIDE DEF n
<1> DEFINE again(x) == IF cut[x[1]] # 0 /\ x[2] \in cut[x[1]]..Tip[x[1]] THEN 1 ELSE 0
<1>6. Outstanding \in [Names -> [Places -> Int]]
      /\ \A s \in Names : \A x \in Places : Outstanding[s][x] = LiveCopies(s, x)
  BY <1>2, Debts
<1>7. PICK o : o = Outstanding'
  OBVIOUS
<1>8. o = [s \in Names |-> [x \in Places |-> LiveCopies(s, x)']]
  BY <1>1, <1>7 DEF Outstanding, Places
<1>9. \A x \in Places : x[1] \in Topics /\ Tip[x[1]] = Len(log[x[1]])
  BY DEF Places, Tip
<1>10. \A s \in Names : \A x \in Places :
         o[s][x] = Outstanding[s][x] + IF s = n THEN again(x) - gone[x] ELSE 0
  BY <1>4, <1>6, <1>8, <1>9
<1>11. \A x \in Places : again(x) \in Nat
  OBVIOUS
<1> HIDE DEF again
<1>12. o = [Outstanding EXCEPT ![n] = o[n]]
  <2>1. \A s \in Names : s # n => o[s] = Outstanding[s]
    <3> SUFFICES ASSUME NEW s \in Names, s # n PROVE o[s] = Outstanding[s]
      OBVIOUS
    <3>1. Outstanding[s] \in [Places -> Int]
      BY <1>6
    <3>2. \A x \in Places : o[s][x] = Outstanding[s][x]
      BY <1>10, <3>1
    <3>3. o[s] = [x \in Places |-> o[s][x]] /\ Outstanding[s] = [x \in Places |-> Outstanding[s][x]]
      BY <1>8, <3>1
    <3> QED BY <3>2, <3>3
  <2>2. o = [s \in Names |-> o[s]] /\ Outstanding = [s \in Names |-> Outstanding[s]]
    BY <1>6, <1>8
  <2> QED BY <2>1, <2>2
<1>13. \A x \in Places : Outstanding[n][x] + again(x) - o[n][x] = gone[x]
  <2> SUFFICES ASSUME NEW x \in Places PROVE Outstanding[n][x] + again(x) - o[n][x] = gone[x]
    OBVIOUS
  <2>1. o[n][x] = Outstanding[n][x] + (again(x) - gone[x])
    BY <1>5, <1>10
  <2>2. Outstanding[n][x] \in Int /\ gone[x] \in Int /\ again(x) \in Int
    BY <1>5, <1>6, <1>11
  <2> QED BY <2>1, <2>2
<1>14. gone = [x \in Places |-> Outstanding[n][x] + again(x) - o[n][x]]
  BY <1>13
<1>15. \A x \in Places : gone[x] \in IF cut[x[1]] # 0 THEN 0..Outstanding[n][x] ELSE {0}
  <2> SUFFICES ASSUME NEW x \in Places
               PROVE  gone[x] \in IF cut[x[1]] # 0 THEN 0..Outstanding[n][x] ELSE {0}
    OBVIOUS
  <2>1. gone[x] \in Nat /\ Outstanding[n][x] \in Int /\ gone[x] <= Outstanding[n][x]
        /\ (cut[x[1]] = 0 => gone[x] = 0)
    BY <1>4, <1>5, <1>6
  <2> QED BY <2>1
<1>16. /\ Swapped = 0 /\ Swapped' = SumFunction(gone)
       /\ up' = up /\ Tip' = Tip /\ acked' = acked
  BY <1>1, <1>4 DEF Swapped, Tip
<1>17. Promise!Reposition(n, cut)
  <2>1. /\ Swapped = 0
        /\ UNCHANGED <<up, Tip, acked>>
        /\ Outstanding' = [Outstanding EXCEPT ![n] = Outstanding'[n]]
    BY <1>7, <1>12, <1>16
  <2>2. /\ \A x \in Places : Outstanding[n][x] + again(x) - Outstanding'[n][x]
                               \in IF cut[x[1]] # 0 THEN 0..Outstanding[n][x] ELSE {0}
        /\ Swapped' = SumFunction([x \in Places |->
                                     Outstanding[n][x] + again(x) - Outstanding'[n][x]])
    BY <1>7, <1>13, <1>14, <1>15, <1>16
  <2>3. Swapped' = Promise!SumFunction([x \in Places |->
                                         Outstanding[n][x] + again(x) - Outstanding'[n][x]])
    BY <2>2, SameSum
  <2> QED BY <2>1, <2>2, <2>3 DEF Promise!Reposition, Promise!Entries, Places, again
<1> QED
  BY <1>5, <1>17

-----------------------------------------------------------------------------
(* The router keeps its promise *)

\* A settlement's step owes what was owed, or moves a delivery to a dead-letter topic.
LEMMA SettlesPromise ==
  ASSUME BInv, IInv', up, NEW m \in Slots,
         \/ Drop(m) \/ Nack(m) \/ NackAfter(m) \/ Fire(m) \/ Count(m) \/ Release(m)
  PROVE  \/ Keeping
         \/ DeadLettered(m)
<1>1. CASE Drop(m)
  BY <1>1, DropPromise
<1>2. CASE Nack(m)
  BY <1>2, NackPromise
<1>3. CASE NackAfter(m)
  BY <1>3, NackAfterPromise
<1>4. CASE Fire(m)
  BY <1>4, FirePromise
<1>5. CASE Count(m)
  BY <1>5, CountPromise
<1>6. CASE Release(m)
  BY <1>6, ReleasePromise
<1> QED
  BY <1>1, <1>2, <1>3, <1>4, <1>5, <1>6

\* A seek moves a cursor, or changes nothing that is owed.
LEMMA SeekAllowed ==
  ASSUME BInv, IInv', up, NEW c \in Ids, NEW pos \in Positions, Seek(c, pos), acked' = acked
  PROVE  Promise!Next \/ UNCHANGED PromiseVars
<1>1. \E s \in Names : \E cut \in [Topics -> 0..(MaxEntries + 1)] : Promise!Reposition(s, cut)
  BY SeekPromise
<1>2. UNCHANGED <<up, Tip, acked>>
  BY <1>1 DEF Promise!Reposition
<1>3. CASE UNCHANGED <<Outstanding, Swapped>>
  BY <1>2, <1>3 DEF PromiseVars
<1>4. CASE ~UNCHANGED <<Outstanding, Swapped>>
  BY <1>1, <1>4 DEF Promise!Next
<1> QED
  BY <1>3, <1>4

\* Every step of the router is a step of the promise, or is not seen.
LEMMA PromiseStep ==
  BInv /\ [CountedNext]_<<vars, acked>> => [Promise!Next]_PromiseVars
<1> SUFFICES ASSUME BInv, [CountedNext]_<<vars, acked>>
             PROVE  Promise!Next \/ UNCHANGED PromiseVars
  OBVIOUS
<1>1. TypeOK /\ IInv
  BY DEF BInv, CInv, IInv
<1>2. CASE UNCHANGED <<vars, acked>>
  <2>1. UNCHANGED <<up, nextId, reg, log, queue, unacked, parked, settle, swap, acked>>
    BY <1>2 DEF vars
  <2>2. Keeping
    BY <2>1, CopiesKept DEF Keeping
  <2> QED BY <2>1, <2>2, Unseen
<1>3. CASE CountedNext
  <2>1. \/ Settled /\ acked' = (IF up THEN 1 - acked ELSE acked)
        \/ Others /\ acked' = acked
    BY <1>3 DEF CountedNext
  <2>2. IInv'
    <3>1. [Next]_vars
      BY <2>1 DEF Next
    <3> QED BY <3>1, BackedStep DEF BInv, CInv
  <2>3. CASE ~up
    BY <1>1, <2>1, <2>3, ClosedPromise
  <2>4. CASE up /\ Settled /\ acked' = 1 - acked
    <3>1. PICK m \in Slots : Ack(m)
      BY <2>4 DEF Settled
    <3>2. \E s \in Names : \E e \in Places : Promise!Acknowledge(s, e)
      BY <2>2, <2>4, <3>1, AckPromise
    <3> QED BY <3>2 DEF Promise!Next, Promise!Entries, Places
  <2>5. CASE up /\ Others /\ acked' = acked
    <3>1. CASE Publish
      <4>1. \E t \in Topics : Promise!Publish(t)
        BY <2>2, <2>5, <3>1, PublishPromise
      <4> QED BY <4>1 DEF Promise!Next
    <3>2. CASE Subscribe
      BY <2>2, <2>5, <3>2, SubscribePromise, Unseen
    <3>3. CASE Refresh
      BY <2>5, <3>3, RefreshPromise, Unseen
    <3>4. CASE Shutdown
      <4>1. Promise!Shutdown
        BY <2>5, <3>4, ShutdownPromise
      <4> QED BY <4>1 DEF Promise!Next
    <3>5. CASE FinishSeek
      <4>1. Promise!Account
        BY <2>5, <3>5, FinishSeekPromise
      <4> QED BY <4>1 DEF Promise!Next
    <3>6. ASSUME NEW c \in Ids, Unsubscribe(c) PROVE UNCHANGED PromiseVars
      BY <2>2, <2>5, <3>6, UnsubscribePromise, Unseen
    <3>7. ASSUME NEW c \in Ids, NEW pos \in Positions, Seek(c, pos)
          PROVE  Promise!Next \/ UNCHANGED PromiseVars
      BY <2>2, <2>5, <3>7, SeekAllowed
    <3>8. ASSUME NEW m \in Slots, NEW c \in Ids, Poll(m, c) PROVE UNCHANGED PromiseVars
      BY <2>2, <2>5, <3>8, PollPromise, Unseen
    <3>9. ASSUME NEW m \in Slots,
                 \/ Drop(m) \/ Nack(m) \/ NackAfter(m) \/ Fire(m) \/ Count(m) \/ Release(m)
          PROVE  Promise!Next \/ UNCHANGED PromiseVars
      <4>1. \/ UNCHANGED PromiseVars
            \/ \E t \in Topics : \E s \in Names : \E e \in Places : Promise!DeadLetter(s, e, t)
        <5>1. Keeping \/ DeadLettered(m)
          BY <2>2, <2>5, <3>9, SettlesPromise
        <5>2. CASE Keeping
          BY <2>5, <5>2, Unseen
        <5>3. CASE DeadLettered(m)
          BY <2>2, <2>5, <5>3, DeadLetterPromise
        <5> QED BY <5>1, <5>2, <5>3
      <4> QED BY <4>1 DEF Promise!Next, Promise!Entries, Places
    <3>10. \/ Publish \/ Subscribe \/ Refresh \/ Shutdown \/ FinishSeek
           \/ \E c \in Ids : Unsubscribe(c)
           \/ \E c \in Ids, pos \in Positions : Seek(c, pos)
           \/ \E m \in Slots, c \in Ids : Poll(m, c)
           \/ \E m \in Slots : \/ Drop(m) \/ Nack(m) \/ NackAfter(m)
                               \/ Fire(m) \/ Count(m) \/ Release(m)
      BY <2>5 DEF Others
    <3> QED BY <3>1, <3>2, <3>3, <3>4, <3>5, <3>6, <3>7, <3>8, <3>9, <3>10
  <2> QED BY <2>1, <2>3, <2>4, <2>5
<1> QED
  BY <1>2, <1>3

\* At the start nobody owes anything.
LEMMA StartOwesNothing ==
  ASSUME Init, NEW s \in Names, NEW x \in Places
  PROVE  LiveCopies(s, x) = 0
<1>1. nextId = 0 /\ parked = [n \in Names |-> <<>>] /\ settle = [m \in Slots |-> Idle]
  BY DEF Init
<1>2. Of(s) = {}
  BY <1>1 DEF Of, Ids
<1>3. ASSUME NEW q PROVE CopiesAt(q, {}, x) = 0
  <2> DEFINE f == [c \in Ids |-> 0]
  <2>1. CopiesAt(q, {}, x) = SumFunction(f)
    BY DEF CopiesAt
  <2>2. f \in [Ids -> Int] /\ \A c \in Ids : f[c] = 0
    OBVIOUS
  <2> HIDE DEF f
  <2>3. SumFunction(f) = 0
    BY <2>2, IdsFinite, SumNat
  <2> QED BY <2>1, <2>3
<1>4. CopiesAt(queue, Of(s), x) = 0 /\ CopiesAt(unacked, Of(s), x) = 0
  BY <1>2, <1>3
<1>5. CopiesIn(parked[s], x) = 0
  BY <1>1, CopiesEmpty
<1>6. CopiesOut(Of(s), x) = 0
  <2>1. {m \in Slots : /\ settle[m].duty \in {"handle", "timer"}
                       /\ settle[m].id \in Of(s)
                       /\ Carries(settle[m].d, x)} = {}
    BY <1>2
  <2> QED BY <2>1, FS_EmptySet DEF CopiesOut
<1> QED
  BY <1>4, <1>5, <1>6 DEF LiveCopies

\* So the promise begins as the router does.
LEMMA PromiseStart == CountedInit => Promise!Init
<1> SUFFICES ASSUME CountedInit PROVE Promise!Init
  OBVIOUS
<1>1. Init /\ up = TRUE /\ acked = 0 /\ swap = 0 /\ log = [t \in Topics |-> <<>>]
  BY DEF CountedInit, Init
<1>2. /\ Tip = [t \in Topics |-> 0] /\ Swapped = 0
      /\ Outstanding = [s \in Names |-> [x \in Places |-> 0]]
  <2>1. Tip = [t \in Topics |-> 0] /\ Swapped = 0
    BY <1>1 DEF Tip, Swapped
  <2>2. Outstanding = [s \in Names |-> [x \in Places |-> 0]]
    BY <1>1, StartOwesNothing DEF Outstanding, Places
  <2> QED BY <2>1, <2>2
<1> QED
  BY <1>1, <1>2 DEF Promise!Init, Promise!Entries, Places

\* For every number of consumers, subscriptions, topics and log entries, no interleaving
\* of closes, takeovers, drops, retries, timers, seeks and shutdowns loses a delivery a
\* subscription owes or hands one out twice.
THEOREM RouterKeepsPromise == CountedSpec => KeepsPromise
<1>1. CountedInit => BInv
  BY BackedInit DEF CountedInit
<1>2. BInv /\ [CountedNext]_<<vars, acked>> => BInv'
  <2>1. [CountedNext]_<<vars, acked>> => [Next]_vars
    BY DEF CountedNext, Next
  <2> QED BY <2>1, BackedStep
<1>3. CountedInit => Promise!Init
  BY PromiseStart
<1>4. BInv /\ [CountedNext]_<<vars, acked>>
        => [Promise!Next]_<<up, Tip, Outstanding, acked, Swapped>>
  BY PromiseStep DEF PromiseVars
<1> QED
  BY <1>1, <1>2, <1>3, <1>4, PTL DEF CountedSpec, KeepsPromise, Promise!Spec
=============================================================================
