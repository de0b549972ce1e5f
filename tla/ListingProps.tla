---------------------------- MODULE ListingProps ----------------------------
(***************************************************************************)
(* What the clock's arithmetic promises about pattern consumers.           *)
(***************************************************************************)
EXTENDS Listing

\* The instants at which consumer c lists its namespace: when it opens and every
\* refresh after.
ListingTimes(c) ==
  {opened[c].at + k * RefreshEvery : k \in 0..MaxTime}

\* A pattern consumer has listed exactly the topics that were there at the last
\* of its listings: those older than itself from its opening on, any other from
\* the first refresh that did not come before it, and none earlier (listed_by).
ListedOnTime ==
  \A c \in Due :
    /\ listed[c] = ListedNow(c)
    /\ \A t \in reg[c].topics \cap created :
         t \in listed[c] <=>
           \/ made[t].order < opened[c].order
           \/ \E at \in ListingTimes(c) \ {opened[c].at} : made[t].at <= at /\ at <= now

\* The clock only picks among the listings that Router leaves open, so that what
\* is checked and proved of Router holds at every reading of the clock, also when
\* several consumers list at one instant (listed_by, reads).
RefinesRouter == Spec

\* The consumer a failover or exclusive subscription's messages of topic t go to.
Active(t, s) ==
  LET members == MembersOf(attached, listed, s, t)
  IN  IF members = <<>> THEN None ELSE members[1]

\* The active consumer of a topic stays active until it closes or the broker does,
\* unless a pattern consumer that attached before it comes to list the topic, which
\* happens at a refresh of that consumer and at no other time (reads, members_of).
TakenOver ==
  \A t \in Topics, s \in Names :
    LET old == Active(t, s)
        new == Active(t, s)'
    IN  old # None /\ old \in Attached' /\ new # old
        => /\ new < old /\ IsPattern(reg[new])
           /\ now' \in ListingTimes(new) /\ now' > opened[new].at
TakeoverByListing == [][TakenOver]_<<vars, clockVars>>
=============================================================================
