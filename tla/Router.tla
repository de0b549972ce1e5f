------------------------------- MODULE Router -------------------------------
(***************************************************************************)
(* The in-process transport of the Pulsar broker: the address router of    *)
(* in_process/router.rs with the settlements of in_process/deliveries.rs.  *)
(*                                                                         *)
(* One mutex guards the router, so each of its methods is one action; the  *)
(* coordinator that counts the deliveries in flight is NOT under that      *)
(* mutex, so the counting a settlement does after the router returned is   *)
(* an action of its own and interleaves with everything else.              *)
(*                                                                         *)
(* Data.  A topic is its rank among the topic names in their sorted order. *)
(* A delivery is the log entry it carries and its redelivery count: the    *)
(* payload and the headers are those of the entry and never change.  A log *)
(* index starts at 1 here and at 0 in the code.                            *)
(*                                                                         *)
(* Time.  The router keeps two clocks.  The wall clock stamps log entries  *)
(* (Times).  The runtime's clock only decides which topics a pattern       *)
(* consumer has listed, so it is the set `listed', grown by Refresh.       *)
(***************************************************************************)
EXTENDS Integers, Sequences, FiniteSets

CONSTANTS
  Topics,          \* ranks of the topic names
  Volatile,        \* those of the non-persistent domain
  Names,           \* subscription names
  Keys,            \* partition keys, the empty key of an unkeyed message included
  Hash,            \* the hash of a key
  Registrations,   \* the consumers a service may open
  Positions,       \* the positions a seek may ask for
  Times,           \* wall-clock readings, in milliseconds
  Slots,           \* settlements that may be outstanding at once
  MaxConsumers,    \* bound: consumers ever attached
  MaxEntries,      \* bound: entries of one topic's log
  MaxRedeliveries, \* bound: redelivery count of a delivery
  MaxUnacked,      \* bound: deliveries dropped unsettled on one consumer
  TurnLimit,       \* the rotation counter wraps here (2^64 in the code)
  None             \* no dead-letter policy, no origin, no delivery

Ids == 1..MaxConsumers
Sharings == {"Exclusive", "Failover", "Shared", "KeyShared"}

\* What a registration hands the router.  `pattern' is the source text of a
\* pattern route and "" for a list of topics; `topics' are the topics the
\* route selects, which a list also names.
Registration ==
  [name : Names, sharing : Sharings, pattern : STRING, topics : SUBSET Topics,
   dead : {None} \cup [topic : Topics, limit : Nat \ {0}]]

\* Where a seek may move the cursor: `arg' is a log index or a wall-clock reading.
Position == [kind : {"Earliest", "Latest", "MessageId", "Timestamp"}, arg : Nat]

Delivery == [topic : Topics, seq : Nat \ {0}, red : Nat]

\* `origin' is the pair of dead-letter headers REAL_TOPIC / ORIGIN_MESSAGE_ID.
LogEntry == [key : Keys, at : Times,
             origin : {None} \cup (Topics \X (Nat \ {0}))]

\* A settlement: the consumer its delivery came from, what is left to do with
\* the delivery, and whether the coordinator still counts the settlement.
\*   handle   a handler holds the message
\*   count    requeued by the handler, the fresh delivery not counted yet
\*   timer    waiting for a delayed retry
\*   recount  requeued by the timer, the fresh delivery not counted yet
Duties == {"none", "handle", "count", "timer", "recount"}
Settlement == [duty : Duties, id : {0} \cup Ids, d : {None} \cup Delivery,
               counted : BOOLEAN]
Idle == [duty |-> "none", id |-> 0, d |-> None, counted |-> FALSE]

ASSUME RouterAssumption ==
  /\ Topics \subseteq Nat /\ Volatile \subseteq Topics
  /\ Hash \in [Keys -> Nat]
  /\ Registrations \subseteq Registration
  /\ Positions \subseteq Position
  /\ Times \subseteq Nat
  /\ MaxConsumers \in Nat /\ MaxEntries \in Nat /\ MaxRedeliveries \in Nat
  /\ MaxUnacked \in Nat
  /\ TurnLimit \in Nat \ {0}
  /\ IsFiniteSet(Topics) /\ IsFiniteSet(Names) /\ IsFiniteSet(Slots)

\* A message without an origin is told from one that has one.
ASSUME NoneAssumption == None \notin Topics \X (Nat \ {0})

VARIABLES
  up,        \* the core is open: the broker did not shut down
  nextId,    \* consumers attached so far
  reg,       \* what each consumer registered, None before it attached
  attached,  \* the attached consumers, in attach order
  departed,  \* the detached ones, until the broker shuts down
  created,   \* the topics that exist
  listed,    \* the topics a pattern consumer has listed
  log,       \* the retained log of each topic
  queue,     \* each consumer's queue
  unacked,   \* what each consumer's handlers dropped without settling
  parked,    \* what closing consumers left, by subscription name
  rotation,  \* the turn of each subscription name's rotation
  settle,    \* the settlements
  inflight,  \* the coordinator's count
  swap       \* a seek still holds the lock to release this many deliveries

vars == <<up, nextId, reg, attached, departed, created, listed, log, queue,
          unacked, parked, rotation, settle, inflight, swap>>

registry == <<nextId, reg, attached, departed>>
topicVars == <<created, listed, log>>

-----------------------------------------------------------------------------
(* Helpers over sequences and over the registry *)

\* The elements of sequence ds that are in S, in their order.
Select(ds, S) ==
  LET f[n \in 0..Len(ds)] ==
        IF n = 0 THEN <<>>
        ELSE IF ds[n] \in S THEN Append(f[n - 1], ds[n]) ELSE f[n - 1]
  IN  f[Len(ds)]

Attached == {attached[i] : i \in 1..Len(attached)}

IsPattern(r) == r.pattern # ""

\* Whether two routes can read one topic.  Two patterns are compared by text.
Overlap(r1, r2) ==
  IF IsPattern(r1) /\ IsPattern(r2) THEN r1.pattern = r2.pattern
                                    ELSE r1.topics \cap r2.topics # {}

\* Whether consumer c, which has listed `ls[c]', reads topic t.
Reads(ls, c, t) ==
  /\ t \in reg[c].topics
  /\ IsPattern(reg[c]) => t \in ls[c]

\* The consumers among `ids' of subscription name s reading t, in attach order.
MembersOf(ids, ls, s, t) ==
  Select(ids, {c \in 1..nextId : reg[c].name = s /\ Reads(ls, c, t)})

\* Which member takes a delivery with key k when the rotation stands at `turn'.
Choose(sharing, members, k, turn) ==
  CASE sharing \in {"Exclusive", "Failover"} -> members[1]
    [] sharing = "Shared"    -> members[(turn % Len(members)) + 1]
    [] sharing = "KeyShared" -> members[(Hash[k] % Len(members)) + 1]

NextTurn(sharing, turn) ==
  IF sharing = "Shared" THEN (turn + 1) % TurnLimit ELSE turn

\* The deliveries of topics T.
Over(T) == {d \in Delivery : d.topic \in T}

KeyOf(d) == log[d.topic][d.seq].key

-----------------------------------------------------------------------------
(* Moving deliveries.  A hand is the part of the state a delivery moves in. *)

Hand == [queue |-> queue, parked |-> parked, rotation |-> rotation,
         inflight |-> inflight]

SetHand(h) == /\ queue' = h.queue
              /\ parked' = h.parked
              /\ rotation' = h.rotation
              /\ inflight' = h.inflight

\* Queues d on the member the type picks.
Share(h, s, sharing, members, d) ==
  LET c == Choose(sharing, members, KeyOf(d), h.rotation[s])
  IN  [h EXCEPT !.queue[c] = Append(@, d),
                !.rotation[s] = NextTurn(sharing, @)]

Park(h, s, d) == [h EXCEPT !.parked[s] = Append(@, d)]

\* Mutant: leaves d for the next consumer although others read its topic.
HandBackLater(h, ids, r, d, counted) ==
  [Park(h, r.name, d) EXCEPT !.inflight = IF counted THEN @ - 1 ELSE @]

\* Mutant: a pattern consumer is passed over, whatever it has listed.
HandBackNamed(h, ids, r, d, counted) ==
  LET members == Select(MembersOf(ids, listed, r.name, d.topic),
                        {c \in 1..nextId : ~IsPattern(reg[c])})
  IN  IF members = <<>>
      THEN [Park(h, r.name, d) EXCEPT !.inflight = IF counted THEN @ - 1 ELSE @]
      ELSE [Share(h, r.name, r.sharing, members, d)
              EXCEPT !.inflight = IF counted THEN @ ELSE @ + 1]

\* Hands d back to the subscription of registration r: to one of its readers
\* among `ids', else parked.  `counted': the coordinator counts d already.
HandBack(h, ids, r, d, counted) ==
  LET members == MembersOf(ids, listed, r.name, d.topic)
  IN  IF members = <<>>
      THEN [Park(h, r.name, d) EXCEPT !.inflight = IF counted THEN @ - 1 ELSE @]
      ELSE [Share(h, r.name, r.sharing, members, d)
              EXCEPT !.inflight = IF counted THEN @ ELSE @ + 1]

HandBackAll(h, ids, r, ds, counted) ==
  LET f[n \in 0..Len(ds)] ==
        IF n = 0 THEN h ELSE HandBack(f[n - 1], ids, r, ds[n], counted)
  IN  f[Len(ds)]

\* Mutant: counts the attempts left instead of those made.
AgainCountedDown(d) == [d EXCEPT !.red = @ - 1]

\* Mutant: a redelivery counts as the delivery it repeats.
AgainUncounted(d) == d

\* The next redelivery of d.
Again(d) == [d EXCEPT !.red = @ + 1]

\* Mutant: what the handlers left unsettled is not handed back.
AgainNone(ds) == <<>>

AgainAll(ds) == [n \in 1..Len(ds) |-> Again(ds[n])]

\* Pattern consumers, whose listing may fall at the very instant a topic is made.
Due == {c \in Attached : IsPattern(reg[c])}
Listing(due, topics) ==
  [c \in Ids |-> IF c \in due THEN reg[c].topics \cap topics ELSE listed[c]]

\* Every subscription's consumers reading topic t.
SubscriptionsOver(ls, t) == [s \in Names |-> MembersOf(attached, ls, s, t)]

\* Appends an entry to topic t and hands it to every subscription reading t,
\* once each.  The first member sets a subscription's type.
Deliver(t, key, origin) ==
  /\ Len(log[t]) < MaxEntries
  /\ created' = created \cup {t}
  /\ \E due \in SUBSET (IF t \in created THEN {} ELSE Due) :
       listed' = Listing(due, created')
  /\ \E at \in Times :
       log' = [log EXCEPT ![t] =
                 Append(@, [key |-> key, at |-> at, origin |-> origin])]
  /\ LET d == [topic |-> t, seq |-> Len(log[t]) + 1, red |-> 0]
         members == SubscriptionsOver(listed', t)
         served == {s \in Names : members[s] # <<>>}
         sharing == [s \in served |-> reg[members[s][1]].sharing]
         taker == [s \in served |->
                     Choose(sharing[s], members[s], key, rotation[s])]
     IN  /\ queue' = [c \in Ids |-> IF \E s \in served : taker[s] = c
                                     THEN Append(queue[c], d) ELSE queue[c]]
         /\ rotation' = [s \in Names |-> IF s \in served
                                         THEN NextTurn(sharing[s], rotation[s])
                                         ELSE rotation[s]]
         /\ inflight' = inflight + Cardinality(served)

\* Mutant: overwrites the origin a dead letter already carries.
StampOriginAnew(d) == <<d.topic, d.seq>>

\* The origin of the dead letter made of d: the one d carries, else d itself.
StampOrigin(d) ==
  LET from == log[d.topic][d.seq].origin
  IN  IF from = None THEN <<d.topic, d.seq>> ELSE from

\* Mutant: one attempt more than the limit.
SpentPast(r, e) == r.dead # None /\ e.red > r.dead.limit

\* The attempts of r's subscription at the message of e are spent.
Spent(r, e) == r.dead # None /\ e.red >= r.dead.limit

\* The router's half of a negative acknowledgement of d by consumer c, which
\* reports in `took' whether a consumer took the redelivery.
Requeue(c, d, took) ==
  LET r == reg[c]
      e == Again(d)
      members == MembersOf(attached, listed, r.name, d.topic)
      spent == Spent(r, e)
  IN  /\ c \in Attached \cup departed
      /\ \/ /\ spent
            /\ took = FALSE
            /\ Deliver(r.dead.topic, KeyOf(d), StampOrigin(d))
            /\ UNCHANGED parked
         \/ /\ ~spent /\ members = <<>>
            /\ took = FALSE
            /\ SetHand(Park(Hand, r.name, e))
            /\ UNCHANGED topicVars
         \/ /\ ~spent /\ members # <<>>
            /\ took = TRUE
            /\ SetHand(Share(Hand, r.name, r.sharing, members, e))
            /\ UNCHANGED topicVars

-----------------------------------------------------------------------------
(* The broker's side: publish, subscribe, close, seek, shutdown *)

LockFree == swap = 0

\* The closed flag is read before the router is locked, so a publish that read
\* it open may still append after the shutdown cleared the router: no guard on
\* `up'.
Publish ==
  /\ LockFree
  /\ \E t \in Topics, k \in Keys : Deliver(t, k, None)
  /\ UNCHANGED <<up, registry, unacked, parked, settle, swap>>

\* Mutant: only the newcomer's type is looked at.
ContestedByNewcomer(r) ==
  \E c \in Attached : /\ reg[c].name = r.name
                      /\ Overlap(reg[c], r)
                      /\ r.sharing = "Exclusive"

\* A consumer is refused while another of its subscription overlaps it and
\* either one is exclusive.
Contested(r) ==
  \E c \in Attached : /\ reg[c].name = r.name
                      /\ Overlap(reg[c], r)
                      /\ "Exclusive" \in {reg[c].sharing, r.sharing}

\* The same holds of a subscribe through another clone of the broker than the one
\* that is shut down.
Subscribe ==
  /\ LockFree
  /\ nextId < MaxConsumers
  /\ \E r \in Registrations :
       LET c == nextId + 1
           reads == IF IsPattern(r) THEN r.topics \cap created ELSE r.topics
           taken == Select(parked[r.name], Over(reads))
       IN  /\ ~Contested(r)
           /\ nextId' = c
           /\ reg' = [reg EXCEPT ![c] = r]
           /\ attached' = Append(attached, c)
           /\ created' = IF IsPattern(r) THEN created ELSE created \cup r.topics
           /\ \E due \in SUBSET (IF created' = created THEN {} ELSE Due) :
                listed' = [Listing(due, created') EXCEPT
                             ![c] = IF IsPattern(r) THEN reads ELSE {}]
           /\ queue' = [queue EXCEPT ![c] = taken]
           /\ parked' = [parked EXCEPT ![r.name] = Select(@, Over(Topics \ reads))]
           /\ inflight' = inflight + Len(taken)
  /\ UNCHANGED <<up, departed, log, unacked, rotation, settle, swap>>

\* The subscriber is dropped: what it had queued, then what its handlers left
\* unsettled, goes back to the subscription.
Unsubscribe(c) ==
  LET others == Select(attached, Ids \ {c})
      h == [Hand EXCEPT !.queue[c] = <<>>]
      fromQueue == HandBackAll(h, others, reg[c], queue[c], TRUE)
  IN  /\ LockFree
      /\ c \in Attached
      /\ attached' = others
      /\ departed' = departed \cup {c}
      /\ unacked' = [unacked EXCEPT ![c] = <<>>]
      /\ SetHand(HandBackAll(fromQueue, others, reg[c], AgainAll(unacked[c]), FALSE))
      /\ UNCHANGED <<up, nextId, reg, topicVars, settle, swap>>

\* The runtime's clock reaches the next listing of some pattern consumers.
Refresh ==
  /\ \E due \in SUBSET Due : listed' = Listing(due, created)
  /\ listed' # listed
  /\ UNCHANGED <<up, registry, created, log, queue, unacked, parked, rotation,
                 settle, inflight, swap>>

\* The log entries of topic t a seek to `pos' replays.
Replays(t, pos) ==
  {i \in 1..Len(log[t]) :
     CASE pos.kind = "Earliest"  -> TRUE
       [] pos.kind = "Latest"    -> FALSE
       [] pos.kind = "MessageId" -> i >= pos.arg
       [] pos.kind = "Timestamp" -> \E j \in 1..i : log[t][j].at >= pos.arg}

\* Mutant: entries of one instant come in any order.
EarlierUnstable(a, b) ==
  log[a.topic][a.seq].at <= log[b.topic][b.seq].at

\* Whether a replay hands a out before b: by publish time, entries of one
\* instant by topic and index.
Earlier(a, b) ==
  LET time(d) == log[d.topic][d.seq].at
  IN  \/ time(a) < time(b)
      \/ /\ time(a) = time(b)
         /\ a.topic < b.topic \/ (a.topic = b.topic /\ a.seq < b.seq)

\* The deliveries of D in replay order.
InReplayOrder(D) ==
  {ds \in [1..Cardinality(D) -> D] :
     \A i, j \in 1..Cardinality(D) : i < j => Earlier(ds[i], ds[j])}

\* Replays d to a member of r's subscription, and counts it.
Replay(h, r, d) ==
  LET members == MembersOf(attached, listed, r.name, d.topic)
  IN  IF members = <<>> THEN h
      ELSE [Share(h, r.name, r.sharing, members, d) EXCEPT !.inflight = @ + 1]

ReplayAll(h, r, ds) ==
  LET f[n \in 0..Len(ds)] ==
        IF n = 0 THEN h ELSE Replay(f[n - 1], r, ds[n])
  IN  f[Len(ds)]

\* The deliveries in all the queues q.
Total(q) ==
  LET f[c \in 0..MaxConsumers] == IF c = 0 THEN 0 ELSE f[c - 1] + Len(q[c])
  IN  f[MaxConsumers]

\* A reposition by consumer c.  It counts the replay while it shares it out,
\* and keeps the lock until it has released what it discarded (FinishSeek).
Seek(c, pos) ==
  LET r == reg[c]
      topics == {t \in Topics \ Volatile : Reads(listed, c, t)}
      siblings == {x \in Attached : reg[x].name = r.name /\ Overlap(reg[x], r)}
      kept == [x \in Ids |-> IF x \in siblings
                              THEN Select(queue[x], Over(Topics \ topics))
                              ELSE queue[x]]
      replay == {d \in [topic : topics, seq : 1..MaxEntries, red : {0}] :
                   d.seq \in Replays(d.topic, pos)}
  IN  /\ LockFree
      /\ c \in Attached
      /\ \E ds \in InReplayOrder(replay) :
           SetHand(ReplayAll([Hand EXCEPT !.queue = kept], r, ds))
      /\ swap' = Total(queue) - Total(kept)
      /\ UNCHANGED <<up, registry, topicVars, unacked, settle>>

\* Mutant: what the seek discarded stays counted.
FinishSeekUnreleased ==
  /\ ~LockFree
  /\ swap' = 0
  /\ UNCHANGED <<up, registry, topicVars, queue, unacked, parked, rotation,
                 settle, inflight>>

\* The seek releases what it discarded, and the lock.
FinishSeek ==
  /\ ~LockFree
  /\ inflight' = inflight - swap
  /\ swap' = 0
  /\ UNCHANGED <<up, registry, topicVars, queue, unacked, parked, rotation, settle>>

\* Mutant: what is parked outlives the broker's log.
ShutdownKeepsParked ==
  /\ LockFree
  /\ up' = FALSE
  /\ attached' = <<>>
  /\ departed' = {}
  /\ created' = {}
  /\ listed' = [c \in Ids |-> {}]
  /\ log' = [t \in Topics |-> <<>>]
  /\ queue' = [c \in Ids |-> <<>>]
  /\ unacked' = [c \in Ids |-> <<>>]
  /\ rotation' = [s \in Names |-> 0]
  /\ UNCHANGED <<nextId, reg, parked, settle, inflight, swap>>

\* A clone of the broker shuts down, not always the first to do so: the router
\* forgets everything it holds.  What was queued stays counted in flight.
Shutdown ==
  /\ LockFree
  /\ up' = FALSE
  /\ attached' = <<>>
  /\ departed' = {}
  /\ created' = {}
  /\ listed' = [c \in Ids |-> {}]
  /\ log' = [t \in Topics |-> <<>>]
  /\ queue' = [c \in Ids |-> <<>>]
  /\ unacked' = [c \in Ids |-> <<>>]
  /\ parked' = [s \in Names |-> <<>>]
  /\ rotation' = [s \in Names |-> 0]
  /\ UNCHANGED <<nextId, reg, settle, inflight, swap>>

-----------------------------------------------------------------------------
(* A settlement's side: poll, ack, drop, nack, delayed nack *)

\* Sets what is left to do of settlement m; a settlement with nothing left
\* that the coordinator no longer counts is gone.
Becomes(m, duty, counted) ==
  settle' = [settle EXCEPT ![m] =
               IF duty = "none" /\ ~counted THEN Idle
               ELSE [duty |-> duty, id |-> @.id, counted |-> counted,
                     d |-> IF duty = "none" THEN None ELSE @.d]]

\* The subscriber of c takes its next delivery and a handler holds it.
Poll(m, c) ==
  /\ LockFree
  /\ settle[m] = Idle
  /\ c \in Attached /\ queue[c] # <<>>
  /\ settle' = [settle EXCEPT ![m] =
                  [duty |-> "handle", id |-> c, d |-> Head(queue[c]),
                   counted |-> TRUE]]
  /\ queue' = [queue EXCEPT ![c] = Tail(@)]
  /\ UNCHANGED <<up, registry, topicVars, unacked, parked, rotation, inflight, swap>>

\* Acknowledged, or rejected, which is an acknowledgement here.
Ack(m) ==
  /\ settle[m].duty = "handle"
  /\ Becomes(m, "none", FALSE)
  /\ inflight' = inflight - 1
  /\ UNCHANGED <<up, registry, topicVars, queue, unacked, parked, rotation, swap>>

\* Dropped unsettled: kept on its consumer, handed back at once when that has
\* closed, forgotten when the broker shut down.
Drop(m) ==
  LET c == settle[m].id
      d == settle[m].d
  IN  /\ LockFree
      /\ settle[m].duty = "handle" /\ d.red < MaxRedeliveries
      /\ Becomes(m, "none", TRUE)
      /\ \/ /\ c \in Attached /\ Len(unacked[c]) < MaxUnacked
            /\ unacked' = [unacked EXCEPT ![c] = Append(@, d)]
            /\ UNCHANGED <<queue, parked, rotation, inflight>>
         \/ /\ c \in departed
            /\ SetHand(HandBack(Hand, attached, reg[c], Again(d), FALSE))
            /\ UNCHANGED unacked
         \/ /\ c \notin Attached \cup departed
            /\ UNCHANGED <<queue, unacked, parked, rotation, inflight>>
      /\ UNCHANGED <<up, registry, topicVars, swap>>

\* Negatively acknowledged.  The handler's call returns to Count or Release.
Nack(m) ==
  LET c == settle[m].id
      d == settle[m].d
  IN  /\ LockFree
      /\ settle[m].duty = "handle" /\ d.red < MaxRedeliveries
      /\ \/ \E took \in BOOLEAN :
              /\ Requeue(c, d, took)
              /\ Becomes(m, IF took THEN "count" ELSE "none", TRUE)
         \/ /\ c \notin Attached \cup departed
            /\ Becomes(m, "none", TRUE)
            /\ UNCHANGED <<topicVars, queue, parked, rotation, inflight>>
      /\ UNCHANGED <<up, registry, unacked, swap>>

\* A delayed negative acknowledgement is scheduled; refused once the broker
\* shut down, which leaves the message to be dropped.
NackAfter(m) ==
  /\ LockFree
  /\ settle[m].duty = "handle" /\ settle[m].d.red < MaxRedeliveries
  /\ settle[m].id \in Attached \cup departed
  /\ Becomes(m, "timer", TRUE)
  /\ UNCHANGED <<up, registry, topicVars, queue, unacked, parked, rotation,
                 inflight, swap>>

\* The delay of a retry is over.
Fire(m) ==
  LET c == settle[m].id
      d == settle[m].d
  IN  /\ LockFree
      /\ settle[m].duty = "timer"
      /\ \/ \E took \in BOOLEAN :
              /\ Requeue(c, d, took)
              /\ Becomes(m, IF took THEN "recount" ELSE "none", settle[m].counted)
         \/ /\ c \notin Attached \cup departed
            /\ Becomes(m, "none", settle[m].counted)
            /\ UNCHANGED <<topicVars, queue, parked, rotation, inflight>>
      /\ UNCHANGED <<up, registry, unacked, swap>>

\* A requeue that queued a fresh delivery counts it, off the router's lock.
Count(m) ==
  /\ settle[m].duty \in {"count", "recount"}
  /\ Becomes(m, "none", settle[m].counted)
  /\ inflight' = inflight + 1
  /\ UNCHANGED <<up, registry, topicVars, queue, unacked, parked, rotation, swap>>

\* Mutant: a handler's requeue is released before its fresh delivery counts.
ReleaseFirst(m) ==
  /\ settle[m].counted /\ settle[m].duty # "handle"
  /\ Becomes(m, settle[m].duty, FALSE)
  /\ inflight' = inflight - 1
  /\ UNCHANGED <<up, registry, topicVars, queue, unacked, parked, rotation, swap>>

\* A settlement that is done releases its delivery from the count.  A handler
\* that requeued counts first; a timer runs apart from the handler.
Release(m) ==
  /\ settle[m].counted /\ settle[m].duty \in {"none", "timer", "recount"}
  /\ Becomes(m, settle[m].duty, FALSE)
  /\ inflight' = inflight - 1
  /\ UNCHANGED <<up, registry, topicVars, queue, unacked, parked, rotation, swap>>

-----------------------------------------------------------------------------
Init ==
  /\ up = TRUE
  /\ nextId = 0
  /\ reg = [c \in Ids |-> None]
  /\ attached = <<>>
  /\ departed = {}
  /\ created = {}
  /\ listed = [c \in Ids |-> {}]
  /\ log = [t \in Topics |-> <<>>]
  /\ queue = [c \in Ids |-> <<>>]
  /\ unacked = [c \in Ids |-> <<>>]
  /\ parked = [s \in Names |-> <<>>]
  /\ rotation = [s \in Names |-> 0]
  /\ settle = [m \in Slots |-> Idle]
  /\ inflight = 0
  /\ swap = 0

Settled == \E m \in Slots : Ack(m)

Others ==
  \/ Publish \/ Subscribe \/ Refresh \/ Shutdown \/ FinishSeek
  \/ \E c \in Ids : Unsubscribe(c)
  \/ \E c \in Ids, pos \in Positions : Seek(c, pos)
  \/ \E m \in Slots, c \in Ids : Poll(m, c)
  \/ \E m \in Slots : \/ Drop(m) \/ Nack(m) \/ NackAfter(m)
                      \/ Fire(m) \/ Count(m) \/ Release(m)

Next == Settled \/ Others

Spec == Init /\ [][Next]_vars
=============================================================================
