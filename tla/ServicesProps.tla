---------------------------- MODULE ServicesProps ----------------------------
(***************************************************************************)
(* What a service on the in-process transport promises its customers.      *)
(***************************************************************************)
EXTENDS Services, OpeningProps

\* The dead letters, and the tasks whose messages they are.
DeadLetters == {d \in [topic : Topics, seq : 1..MaxEntries] :
                  d.seq <= Len(log[d.topic]) /\ log[d.topic][d.seq].origin # None}
OriginOf(d) == log[d.topic][d.seq].origin
Buried == {x \in due : \E d \in DeadLetters : OriginOf(d) = <<x.topic, x.seq>>}

\* Until the broker shuts down and forgets its log, what the service did it did
\* once: no handler does anew what was done and nobody asked for again, no message
\* becomes two dead letters, and none is a dead letter that was also done.  Left
\* aside is what a handler or a subscriber dropped half-way, which whoever comes may
\* do again or give up, and the ledger, whose rebuild moves a subscription under the
\* handler at work on it.
DoneOnce ==
  up /\ "rebuild" \notin Handlers =>
    /\ again \subseteq cut
    /\ \A d, e \in DeadLetters : OriginOf(d) = OriginOf(e) => d = e
    /\ \A d \in DeadLetters :
         \E x \in due \cup cut : <<x.topic, x.seq>> = OriginOf(d)

\* When nothing is in flight and no retry waits, nothing is left to do: every
\* message was handled by every subscription it reached, also those a lost index,
\* a lost result or a rebuild asked for again, or is in the dead-letter topic.
AllDone ==
  /\ up /\ inflight = 0
  /\ \A m \in Slots : settle[m].duty \notin {"timer", "recount"}
  => due \subseteq Buried \cup cut

\* Nothing is left to do for ever: a client that refuses is asked again, a message
\* no attempt can handle comes to its end.
MessagesEnd == []<>(~up \/ due \subseteq Buried \cup cut)
=============================================================================
