---------------------------- MODULE OpeningProps ----------------------------
(***************************************************************************)
(* What a service's registrations and the routing answer promise.          *)
(***************************************************************************)
EXTENDS Opening

\* The mounts stay in their sets, and of the consumers there are all but the
\* one of the mount at hand are recorded.
MountTypeOK ==
  /\ plan \in Plans
  /\ phase \in Phases
  /\ declared \in [Spellings -> Retry]
  /\ opened \in Seq(Record)
  /\ nextId = Len(opened) + (IF phase = "attached" THEN 1 ELSE 0)

\* Every consumer carries the dead-letter policy its own registration declared,
\* also when several registrations mount one name, and none carries a cap where
\* redeliveries are not counted (declare, subscription, dead_letter_policy).
PolicyAsDeclared ==
  \A i \in 1..Len(opened) :
    LET r == reg[opened[i].consumer]
    IN  /\ r.dead = RegistrationOf(plan[i]).dead
        /\ r.dead # None => r.sharing \in {"Shared", "KeyShared"}

\* The harness's list of a started service: what its mounts are reported by.
Asked == [p \in 1..Len(plan) |-> Reported(Descriptor(plan[p]))]

\* A consumer that takes a delivery in this step.
Takes(c) == Len(queue'[c]) > Len(queue[c])

\* Of every subscription with a consumer that takes the unkeyed message just
\* published, the answer given before names that consumer and no other.
TakenAsAnswered ==
  \A t \in Topics :
    /\ Len(opened) = Len(plan)
    /\ t \in created
    /\ Len(log'[t]) = Len(log[t]) + 1
    /\ log'[t][Len(log'[t])].key = NoKey
    => LET answered == {RecordAt(Asked, p) : p \in Routes(t, Asked)}
       IN  \A c \in Ids :
             Takes(c) =>
               {r.consumer : r \in {a \in answered : a.subscription = reg[c].name}} = {c}

\* Once a service has started, what the routing answer says of a topic is what
\* the next unkeyed message published to it does, whoever closed, listed late or
\* moved the rotation before (routes, next_pick, deliver).
AnswerNamesTaker == [][TakenAsAnswered]_<<vars, mountVars>>
=============================================================================
