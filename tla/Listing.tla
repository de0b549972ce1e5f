-------------------------------- MODULE Listing --------------------------------
(***************************************************************************)
(* The runtime's clock of the in-process router: which topics a pattern    *)
(* consumer has listed by now (listed_by in in_process/router.rs).         *)
(*                                                                         *)
(* The router keeps no list.  It stamps each topic when it comes to exist  *)
(* and each consumer when it opens, and works out from the two stamps and  *)
(* the clock whether the consumer's client would have listed the topic.    *)
(* Router has the result, the variable `listed', change in a step of its   *)
(* own (Refresh) and at the instant a topic is made; here it is worked out *)
(* and the clock alone decides.                                            *)
(***************************************************************************)
EXTENDS Router

CONSTANTS
  RefreshEvery,  \* the clock's units between two listings of a consumer
  MaxTime,       \* bound: the clock's reading
  MaxEvents      \* bound: events the router has put in order

ASSUME ListingAssumption ==
  /\ RefreshEvery \in Nat \ {0}
  /\ MaxTime \in Nat /\ MaxEvents \in Nat

VARIABLES
  now,      \* the runtime's clock, which a test may hold still
  events,   \* the events put in order so far
  opened,   \* when each consumer opened, None before
  made      \* when each topic came to exist, None while it does not

clockVars == <<now, events, opened, made>>

\* The clock, and the order that tells apart two events of one instant.
Moment == [at : 0..MaxTime, order : 1..MaxEvents]

\* Mutant: a topic made in the instant of the open counts as there before it.
TicksToAtOnce(since) == (since + RefreshEvery - 1) \div RefreshEvery

\* How many refreshes after `since' the first listing comes that is not before it.
TicksTo(since) ==
  LET whole == (since + RefreshEvery - 1) \div RefreshEvery
  IN  IF whole = 0 THEN 1 ELSE whole

\* Mutant: a consumer lists a topic a whole refresh after it was made.
ListedByAge(open, creation, time) ==
  \/ creation.order < open.order
  \/ creation.at + RefreshEvery <= time

\* Whether a consumer opened at `open' has listed at `time' a topic made at `creation'.
ListedBy(open, creation, time) ==
  \/ creation.order < open.order
  \/ open.at + TicksTo(creation.at - open.at) * RefreshEvery <= time

\* What consumer c has listed by now of the topics its pattern selects.
ListedNow(c) ==
  {t \in reg[c].topics \cap created : ListedBy(opened[c], made[t], now)}

-----------------------------------------------------------------------------
\* What a step of the router makes or opens is stamped with the moment it happens,
\* and the clock says what is listed.  A Refresh of the router at one instant would
\* list what the clock does not: time has to pass first (Tick).
Stamped ==
  /\ now' = now
  /\ LET moment == [at |-> now, order |-> events + 1]
     IN  /\ events' = IF created' \subseteq created /\ nextId' = nextId
                      THEN events ELSE events + 1
         /\ opened' = [c \in Ids |-> IF c = nextId' /\ c # nextId THEN moment
                                                                  ELSE opened[c]]
         /\ made' = [t \in Topics |-> IF t \notin created' THEN None
                                      ELSE IF t \in created THEN made[t] ELSE moment]
  /\ \A c \in Due' : listed'[c] = ListedNow(c)'

\* Time passes.
Tick ==
  /\ now < MaxTime
  /\ now' = now + 1
  /\ UNCHANGED <<up, registry, created, log, queue, unacked, parked, rotation,
                 settle, inflight, swap, events, opened, made>>
  /\ listed' = [c \in Ids |-> IF c \in Due THEN ListedNow(c)' ELSE listed[c]]

ListingInit ==
  /\ Init
  /\ now = 0 /\ events = 0
  /\ opened = [c \in Ids |-> None]
  /\ made = [t \in Topics |-> None]

ListingNext ==
  \/ events < MaxEvents /\ Next /\ Stamped
  \/ Tick

ListingSpec == ListingInit /\ [][ListingNext]_<<vars, clockVars>>
=============================================================================
