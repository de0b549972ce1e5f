----------------------------- MODULE RouterProps -----------------------------
(***************************************************************************)
(* What the in-process router and its settlements promise, as invariants.  *)
(***************************************************************************)
EXTENDS Router

\* Every variable stays in its set, a consumer's registration is known from
\* its attach on, and only consumers that attached are attached or departed.
TypeOK ==
  /\ up \in BOOLEAN
  /\ nextId \in 0..MaxConsumers
  /\ reg \in [Ids -> Registrations \cup {None}]
  /\ \A c \in Ids : c <= nextId => reg[c] \in Registrations
  /\ attached \in Seq(1..nextId)
  /\ departed \in SUBSET (1..nextId)
  /\ created \in SUBSET Topics
  /\ listed \in [Ids -> SUBSET Topics]
  /\ log \in [Topics -> Seq(LogEntry)]
  /\ queue \in [Ids -> Seq(Delivery)]
  /\ unacked \in [Ids -> Seq(Delivery)]
  /\ parked \in [Names -> Seq(Delivery)]
  /\ rotation \in [Names -> Nat]
  /\ settle \in [Slots -> Settlement]
  /\ \A m \in Slots : settle[m].id <= nextId
  /\ inflight \in Int
  /\ swap \in Nat

\* An entry the log of its topic holds.
Logged(d) == d \in Delivery /\ d.seq \in 1..Len(log[d.topic])

AllLogged(ds) == \A n \in 1..Len(ds) : Logged(ds[n])

\* Wherever the router keeps a delivery, and in every settlement that can still
\* put it back, the entry it carries is in its topic's log: whatever the order
\* of closes, drops, retries, seeks and the shutdown that clears the log.
DeliveriesAreLogged ==
  /\ \A c \in Ids : AllLogged(queue[c]) /\ AllLogged(unacked[c])
  /\ \A s \in Names : AllLogged(parked[s])
  /\ \A m \in Slots :
       /\ settle[m].duty \in {"handle", "timer"}
       /\ settle[m].id \in Attached \cup departed
       => Logged(settle[m].d)

-----------------------------------------------------------------------------
(* Subscriptions *)

\* An exclusive consumer has its subscription to itself: no other attached
\* consumer of that subscription can read a topic it reads (subscribe, and
\* every way a consumer leaves).
ExclusiveAlone ==
  \A c, x \in Attached :
    c # x /\ reg[c].name = reg[x].name /\ Overlap(reg[c], reg[x])
      => reg[c].sharing # "Exclusive"

\* Nothing is stranded: a delivery is parked for a subscription only while no
\* attached consumer of it names the delivery's topic.  Violating it takes a
\* close, a late drop or a late retry racing an attach.
NothingStranded ==
  \A s \in Names : \A n \in 1..Len(parked[s]) : \A c \in Attached :
    reg[c].name = s /\ ~IsPattern(reg[c]) => parked[s][n].topic \notin reg[c].topics

\* What is parked for subscription s, and whether no consumer of s reads the topic of d.
Waiting(s) == {parked[s][n] : n \in 1..Len(parked[s])}
NoReader(s, d) == MembersOf(attached, listed, s, d.topic) = <<>>

\* No consumer is passed over: when a delivery comes to be parked, no consumer of
\* its subscription reads the topic after that step, a pattern consumer that has
\* listed it included, whatever closed, was dropped or fired, and in whichever
\* order the hand-back took the queues.  What is parked before a pattern lists
\* its topic stays parked when it does (requeue, hand_back, unsubscribe).
ParkedWhenUnread ==
  [][\A s \in Names : \A d \in Waiting(s)' \ Waiting(s) : NoReader(s, d)']_vars

\* The subscriptions that deliver a topic to one active consumer, and on which a
\* pattern consumer, which lists a topic late, has its topics to itself.
SingleActive(s) ==
  \A r \in Registrations : r.name = s =>
    /\ r.sharing \in {"Exclusive", "Failover"}
    /\ IsPattern(r) =>
         /\ r.sharing = "Exclusive"
         /\ \A x \in Registrations : x.name = s /\ IsPattern(x) /\ x.pattern # r.pattern
                                       => x.topics \cap r.topics = {}

\* Failover and exclusive subscriptions keep a topic's order: in a consumer's
\* queue the deliveries nobody was handed yet follow the log, whoever closed,
\* took over, or moved the cursor.  Only a replay may swap two of them, when
\* the wall clock was set back between their publishes.
FreshInOrder ==
  \A c \in Ids : c <= nextId /\ SingleActive(reg[c].name) =>
    \A i, j \in 1..Len(queue[c]) :
      LET a == queue[c][i]
          b == queue[c][j]
          at(d) == log[d.topic][d.seq].at
      IN  i < j /\ a.topic = b.topic /\ a.red = 0 /\ b.red = 0
            => a.seq < b.seq \/ at(a) < at(b)

-----------------------------------------------------------------------------
(* Dead letters *)

\* A dead letter names the message it stems from: following its origin leads
\* to an entry that was published, not dead-lettered, with the same key, over
\* any chain of dead-letter topics.
OriginIsPublished ==
  \A t \in Topics : \A i \in 1..Len(log[t]) :
    LET o == log[t][i].origin
    IN  o # None => /\ o[2] \in 1..Len(log[o[1]])
                    /\ log[o[1]][o[2]].origin = None
                    /\ log[o[1]][o[2]].key = log[t][i].key

\* The registrations of subscription s all carry one dead-letter policy.
OnePolicy(s) == \A r, x \in Registrations : r.name = s /\ x.name = s => r.dead = x.dead

\* "max_attempts(n) is how many times one message reaches the handler": as long as
\* no consumer of the subscription closed, no handler holds a delivery whose
\* attempts are spent, however often it was retried, kept or replayed.  A close and
\* what is dropped after it raise the count without looking at the cap (requeue).
AttemptsWithinCap ==
  \A m \in Slots :
    LET r == reg[settle[m].id]
    IN  /\ up /\ settle[m].duty = "handle" /\ r.dead # None
        /\ OnePolicy(r.name) /\ \A c \in departed : reg[c].name # r.name
        => settle[m].d.red < r.dead.limit

-----------------------------------------------------------------------------
(* The harness's count of deliveries in flight *)

Doing(duties) == {m \in Slots : settle[m].duty \in duties}

\* While the broker is open the coordinator counts each queued delivery and
\* each unreleased settlement once; it is off by exactly the requeues that have
\* not counted their fresh delivery yet and by what a seek is still to release.
Balanced ==
  up => inflight = Total(queue) + Cardinality({m \in Slots : settle[m].counted})
                   - Cardinality(Doing({"count", "recount"})) + swap

Drained == Doing({"handle"}) = {} /\ \A c \in Ids : queue[c] = <<>>

\* When the count reaches zero outside the counting window of a delayed retry,
\* no delivery waits in a queue and no handler holds one: a requeue by a
\* handler and the two halves of a seek never show a false zero.
QuietIsDrained ==
  up /\ inflight = 0 /\ Doing({"recount"}) = {} => Drained
=============================================================================
