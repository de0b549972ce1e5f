---------------------------- MODULE ServicesProofs ----------------------------
(***************************************************************************)
(* Theorems about the mounts of a service and the routing answer, for any  *)
(* service, topics and consumers; about a whole service, which, whatever   *)
(* its handlers do and whoever stops it, is a router under one service's   *)
(* mounts, so that what holds of those holds of it; and about what a       *)
(* service promises its customers, where its handlers move no cursor: it   *)
(* does what there is to do, and once.                                     *)
(***************************************************************************)
EXTENDS ServicesProps, CountProofs

-----------------------------------------------------------------------------
(* Mounts *)

\* The descriptor of a mount under the declaration it made itself.
Intended(m) == IF m.bare THEN [m EXCEPT !.name = DefaultName] ELSE m

\* The i-th record and the i-th consumer are those of the i-th mount.
OpenedAs(i) ==
  /\ Valid(Intended(plan[i]))
  /\ reg[i] = RegistrationOf(Intended(plan[i]))
  /\ opened[i] = [name |-> Reported(Intended(plan[i])), subscription |-> reg[i].name,
                  topics |-> reg[i].topics, consumer |-> i]

\* What is held for the mount at hand is its own declaration.
OwnDeclared ==
  Mounting /\ Current.bare /\ phase # "mount" => declared[Current.spelled] = Current.retry

\* A checked mount is valid, and an attached one has its consumer.
OwnAttached ==
  /\ phase \in {"checked", "attached"} => Mounting /\ Valid(Intended(Current))
  /\ phase = "attached" => reg[nextId] = RegistrationOf(Intended(Current))

MountInv ==
  /\ IInv /\ MountTypeOK /\ OwnDeclared /\ OwnAttached
  /\ \A i \in 1..Len(opened) : OpenedAs(i)

\* The mount at hand is one of a service's mounts.
LEMMA CurrentIn ==
  ASSUME MountTypeOK, Mounting
  PROVE  /\ Current \in Mount /\ Current.spelled \in Spellings
         /\ Len(opened) \in Nat /\ Len(opened) + 1 \in 1..Len(plan)
         /\ plan \in Seq(Mount)
<1>1. plan \in Seq(Mount) /\ plan \in Plans /\ Len(opened) \in Nat
  BY OpeningAssumption DEF MountTypeOK
<1>2. Len(opened) + 1 \in 1..Len(plan)
  BY <1>1 DEF Mounting
<1>3. Current \in Mount
  BY <1>1, <1>2 DEF Current
<1>4. Current \in MountsOf(plan)
  BY <1>2 DEF Current, MountsOf
<1>5. Current.spelled \in Spellings
  BY <1>1, <1>4 DEF Spellings
<1> QED
  BY <1>1, <1>2, <1>3, <1>5

\* Once declared, the descriptor of the mount at hand is the one it asks for.
LEMMA DescriptorIs ==
  ASSUME MountTypeOK, OwnDeclared, Mounting, phase # "mount" \/ ~Current.bare
  PROVE  Descriptor(Current) = Intended(Current)
<1>1. Current \in Mount
  BY CurrentIn
<1>2. CASE Current.bare
  <2>1. declared[Current.spelled] = Current.retry
    BY <1>2 DEF OwnDeclared
  <2> QED BY <1>1, <1>2, <2>1 DEF Descriptor, Intended, Mount
<1>3. CASE ~Current.bare
  BY <1>3 DEF Descriptor, Intended
<1> QED
  BY <1>2, <1>3

\* A step that attaches no consumer registers none.
LEMMA SteadyStep ==
  ASSUME IInv, Next, nextId' = nextId
  PROVE  reg' = reg
<1>1. nextId \in Nat
  BY RouterAssumption DEF IInv, TypeOK
<1>2. ~Subscribe
  <2>1. Subscribe => nextId' = nextId + 1
    BY DEF Subscribe
  <2> QED BY <1>1, <2>1
<1>3. CASE Publish \/ Refresh \/ Shutdown \/ FinishSeek
  BY <1>3 DEF Publish, Refresh, Shutdown, FinishSeek, registry
<1>4. ASSUME NEW c \in Ids, Unsubscribe(c) \/ \E pos \in Positions : Seek(c, pos)
      PROVE  reg' = reg
  BY <1>4 DEF Unsubscribe, Seek, registry
<1>5. ASSUME NEW m \in Slots,
             \/ \E c \in Ids : Poll(m, c)
             \/ Ack(m) \/ Drop(m) \/ Nack(m) \/ NackAfter(m)
             \/ Fire(m) \/ Count(m) \/ Release(m)
      PROVE  reg' = reg
  BY <1>5 DEF Poll, Ack, Drop, Nack, NackAfter, Fire, Count, Release, registry
<1> QED
  BY <1>2, <1>3, <1>4, <1>5 DEF Next, Settled, Others

\* What was opened stays as it was mounted.
LEMMA OpenedStay ==
  ASSUME MountInv, UNCHANGED <<plan, opened>>,
         \A i \in 1..Len(opened) : reg'[i] = reg[i]
  PROVE  \A i \in 1..Len(opened)' : OpenedAs(i)'
<1> TAKE i \in 1..Len(opened)'
<1>1. i \in 1..Len(opened) /\ plan' = plan /\ opened' = opened /\ reg'[i] = reg[i]
  OBVIOUS
<1>2. OpenedAs(i)
  BY <1>1 DEF MountInv
<1>3. /\ Valid(Intended(plan[i]))' = Valid(Intended(plan[i]))
      /\ RegistrationOf(Intended(plan[i]))' = RegistrationOf(Intended(plan[i]))
      /\ Reported(Intended(plan[i]))' = Reported(Intended(plan[i]))
  BY <1>1 DEF Valid, DeadLetterPolicy, RegistrationOf, Reported, Intended, Resolves
<1> QED
  BY <1>1, <1>2, <1>3 DEF OpenedAs

LEMMA DeclareStep ==
  ASSUME MountInv, Declare
  PROVE  MountInv'
<1> USE DEF MountInv
<1>1. UNCHANGED vars /\ UNCHANGED <<plan, opened>> /\ Mounting
  BY DEF Declare
<1>2. IInv'
  BY <1>1, NextStep
<1>3. declared' = [declared EXCEPT ![Current.spelled] = Current.retry]
      /\ phase = "mount" /\ phase' = "declared" /\ Current' = Current
  BY <1>1 DEF Declare, Current
<1>4. Current \in Mount /\ Current.spelled \in Spellings
  BY <1>1, CurrentIn
<1>5. nextId' = nextId /\ reg' = reg
  BY <1>1 DEF vars
<1>6. MountTypeOK'
  <2>1. Current.retry \in Retry
    BY <1>4 DEF Mount
  <2>2. declared' \in [Spellings -> Retry]
    BY <1>3, <1>4, <2>1 DEF MountTypeOK
  <2> QED BY <1>1, <1>3, <1>5, <2>2 DEF MountTypeOK, Phases
<1>7. OwnDeclared'
  BY <1>3, <1>4 DEF OwnDeclared, MountTypeOK
<1>8. OwnAttached'
  BY <1>3 DEF OwnAttached
<1> QED
  BY <1>1, <1>2, <1>5, <1>6, <1>7, <1>8, OpenedStay

LEMMA CheckStep ==
  ASSUME MountInv, Check
  PROVE  MountInv'
<1> USE DEF MountInv
<1>1. /\ UNCHANGED vars /\ UNCHANGED <<plan, declared, opened>>
      /\ Mounting /\ Declared /\ phase' = "checked" /\ Valid(Descriptor(Current))
  BY DEF Check
<1>2. IInv'
  BY <1>1, NextStep
<1>3. nextId' = nextId /\ reg' = reg
  BY <1>1 DEF vars
<1>4. Current' = Current /\ Mounting'
  BY <1>1 DEF Current, Mounting
<1>5. phase # "attached" /\ (phase # "mount" \/ ~Current.bare)
  BY <1>1 DEF Declared
<1>6. Descriptor(Current) = Intended(Current)
  BY <1>1, <1>5, DescriptorIs
<1>7. MountTypeOK'
  BY <1>1, <1>3, <1>5 DEF MountTypeOK, Phases
<1>8. OwnDeclared'
  BY <1>1, <1>4, <1>5 DEF OwnDeclared
<1>9. OwnAttached'
  <2>1. Valid(Intended(Current))'
    BY <1>1, <1>4, <1>6 DEF Intended, Valid, DeadLetterPolicy, Resolves
  <2> QED BY <1>1, <1>4, <2>1 DEF OwnAttached
<1> QED
  BY <1>1, <1>2, <1>3, <1>7, <1>8, <1>9, OpenedStay

LEMMA AttachStep ==
  ASSUME MountInv, Attach
  PROVE  MountInv'
<1> USE DEF MountInv
<1>1. /\ UNCHANGED <<plan, declared, opened>> /\ Subscribe
      /\ Mounting /\ phase = "checked" /\ phase' = "attached"
      /\ reg'[nextId'] = RegistrationOf(Descriptor(Current))
  BY DEF Attach
<1>2. IInv'
  BY <1>1, NextStep DEF Next, Others
<1>3. Current' = Current /\ Mounting'
  BY <1>1 DEF Current, Mounting
<1>4. Descriptor(Current) = Intended(Current)
  BY <1>1, DescriptorIs
<1>5. /\ nextId' = nextId + 1 /\ nextId = Len(opened) /\ Len(opened) \in Nat
      /\ \E r : reg' = [reg EXCEPT ![nextId + 1] = r]
  <2>1. nextId' = nextId + 1 /\ \E r : reg' = [reg EXCEPT ![nextId + 1] = r]
    BY <1>1 DEF Subscribe
  <2>2. Len(opened) \in Nat
    BY <1>1, CurrentIn
  <2>3. nextId = Len(opened)
    BY <1>1, <2>2 DEF MountTypeOK
  <2> QED BY <2>1, <2>2, <2>3
<1>6. \A i \in 1..Len(opened) : reg'[i] = reg[i]
  <2>1. nextId < MaxConsumers /\ reg \in [Ids -> Registrations \cup {None}]
    BY <1>1 DEF Subscribe, IInv, TypeOK
  <2>2. \A i \in 1..Len(opened) : i \in Ids /\ i # nextId + 1
    BY <1>5, <2>1, RouterAssumption DEF Ids
  <2> QED BY <1>5, <2>1, <2>2
<1>7. MountTypeOK'
  BY <1>1, <1>5 DEF MountTypeOK, Phases
<1>8. OwnDeclared'
  BY <1>1, <1>3 DEF OwnDeclared
<1>9. OwnAttached'
  <2>1. /\ Valid(Intended(Current))'
        /\ RegistrationOf(Intended(Current))' = RegistrationOf(Intended(Current))
    BY <1>1, <1>3 DEF OwnAttached, Valid, DeadLetterPolicy, RegistrationOf, Intended, Resolves
  <2> QED BY <1>1, <1>3, <1>4, <2>1 DEF OwnAttached
<1> QED
  BY <1>1, <1>2, <1>6, <1>7, <1>8, <1>9, OpenedStay

LEMMA RecordStep ==
  ASSUME MountInv, RecordOpened
  PROVE  MountInv'
<1> USE DEF MountInv
<1> DEFINE d == Intended(Current)
           r == [name |-> Reported(d), subscription |-> d.name,
                 topics |-> d.topics, consumer |-> nextId]
<1>1. /\ UNCHANGED vars /\ UNCHANGED <<plan, declared>>
      /\ Mounting /\ phase = "attached" /\ phase' = "mount"
  BY DEF RecordOpened
<1>2. IInv'
  BY <1>1, NextStep
<1>3. nextId' = nextId /\ reg' = reg
  BY <1>1 DEF vars
<1>4. Descriptor(Current) = d
  BY <1>1, DescriptorIs
<1>5. opened' = Append(opened, r)
  BY <1>4 DEF RecordOpened
<1>6. nextId = Len(opened) + 1 /\ Len(opened) \in Nat /\ nextId \in Ids
  BY <1>1, CurrentIn, RouterAssumption DEF MountTypeOK, IInv, TypeOK, Ids
<1>7. Valid(d) /\ reg[nextId] = RegistrationOf(d)
  BY <1>1 DEF OwnAttached
<1>8. /\ d.name \in Names /\ d.topics \in SUBSET Topics
      /\ Reported(d) \in STRING \cup Names
  <2>1. d.name \in Names \cup {None} /\ d.topics \in SUBSET Topics /\ d.spelled \in STRING
    BY <1>1, CurrentIn, OpeningAssumption DEF Mount, Intended
  <2>2. d.name # None
    BY <1>7 DEF Valid, DeadLetterPolicy
  <2> QED BY <2>1, <2>2 DEF Reported
<1>9. r \in Record
  BY <1>6, <1>8 DEF Record
<1>10. /\ opened' \in Seq(Record) /\ Len(opened') = nextId
       /\ \A i \in 1..Len(opened) : opened'[i] = opened[i]
       /\ opened'[nextId] = r
  <2> HIDE DEF r
  <2> QED BY <1>5, <1>6, <1>9 DEF MountTypeOK
<1>11. MountTypeOK'
  BY <1>1, <1>3, <1>10 DEF MountTypeOK, Phases
<1>12. OwnDeclared' /\ OwnAttached'
  BY <1>1 DEF OwnDeclared, OwnAttached
<1>13. ASSUME NEW i \in 1..Len(opened') PROVE OpenedAs(i)'
  <2>1. CASE i = nextId
    <3>1. plan[i] = Current
      BY <1>6, <2>1 DEF Current
    <3>2. reg[i].name = d.name /\ reg[i].topics = d.topics
      BY <1>7, <2>1 DEF RegistrationOf
    <3>3. opened'[i] = [name |-> Reported(d), subscription |-> reg[i].name,
                        topics |-> reg[i].topics, consumer |-> i]
      BY <1>10, <2>1, <3>2
    <3>4. /\ Valid(Intended(plan[i]))' = Valid(d)
          /\ RegistrationOf(Intended(plan[i]))' = RegistrationOf(d)
          /\ Reported(Intended(plan[i]))' = Reported(d)
      BY <1>1, <3>1 DEF Valid, DeadLetterPolicy, RegistrationOf, Reported, Intended, Resolves
    <3> HIDE DEF d
    <3> QED BY <1>3, <1>7, <2>1, <3>3, <3>4 DEF OpenedAs
  <2>2. CASE i # nextId
    <3>1. i \in 1..Len(opened)
      BY <1>6, <1>10, <2>2
    <3>2. OpenedAs(i) /\ opened'[i] = opened[i]
      BY <1>10, <3>1
    <3>3. /\ Valid(Intended(plan[i]))' = Valid(Intended(plan[i]))
          /\ RegistrationOf(Intended(plan[i]))' = RegistrationOf(Intended(plan[i]))
          /\ Reported(Intended(plan[i]))' = Reported(Intended(plan[i]))
      BY <1>1 DEF Valid, DeadLetterPolicy, RegistrationOf, Reported, Intended, Resolves
    <3> QED BY <1>3, <3>2, <3>3 DEF OpenedAs
  <2> QED BY <2>1, <2>2
<1> QED
  BY <1>2, <1>11, <1>12, <1>13

LEMMA RefuseStep ==
  ASSUME MountInv, Refuse
  PROVE  MountInv'
<1> USE DEF MountInv
<1>1. /\ UNCHANGED vars /\ UNCHANGED <<plan, declared, opened>>
      /\ phase # "attached" /\ phase' = "refused"
  BY DEF Refuse, Declared
<1>2. IInv'
  BY <1>1, NextStep
<1>3. nextId' = nextId /\ reg' = reg
  BY <1>1 DEF vars
<1>4. MountTypeOK'
  BY <1>1, <1>3 DEF MountTypeOK, Phases
<1>5. OwnDeclared' /\ OwnAttached'
  BY <1>1 DEF OwnDeclared, OwnAttached, Mounting
<1> QED
  BY <1>1, <1>2, <1>3, <1>4, <1>5, OpenedStay

LEMMA BesideStep ==
  ASSUME MountInv, Beside \/ UNCHANGED <<vars, mountVars>>
  PROVE  MountInv'
<1> USE DEF MountInv
<1>1. UNCHANGED <<plan, phase, declared, opened>> /\ nextId' = nextId /\ [Next]_vars
  BY DEF Beside, mountVars, vars
<1>2. IInv'
  BY <1>1, NextStep
<1>3. reg' = reg
  BY <1>1, SteadyStep DEF vars
<1>4. MountTypeOK'
  BY <1>1 DEF MountTypeOK
<1>5. OwnDeclared' /\ OwnAttached'
  BY <1>1, <1>3 DEF OwnDeclared, OwnAttached, Mounting, Current, Valid, DeadLetterPolicy,
                    RegistrationOf, Intended, Resolves
<1> QED
  BY <1>1, <1>2, <1>3, <1>4, <1>5, OpenedStay

LEMMA MountInitStep == MountInit => MountInv
<1> SUFFICES ASSUME MountInit PROVE MountInv
  OBVIOUS
<1>1. IInv
  BY InitStep DEF MountInit
<1>2. NoRetry \in Retry
  BY DEF NoRetry, Retry
<1>3. opened = <<>> /\ nextId = 0 /\ phase = "mount"
  BY DEF MountInit, Init
<1>4. MountTypeOK
  BY <1>2, <1>3 DEF MountInit, MountTypeOK, Phases
<1> QED
  BY <1>1, <1>3, <1>4 DEF MountInv, OwnDeclared, OwnAttached

LEMMA MountStep == MountInv /\ [MountNext]_<<vars, mountVars>> => MountInv'
<1> SUFFICES ASSUME MountInv, [MountNext]_<<vars, mountVars>> PROVE MountInv'
  OBVIOUS
<1> QED
  BY DeclareStep, CheckStep, AttachStep, RecordStep, RefuseStep, BesideStep DEF MountNext

\* The inductive invariant of a service's startup over the router.
THEOREM MountInvariance == MountSpec => []MountInv
  BY MountInitStep, MountStep, PTL DEF MountSpec

\* The mounts keep their types, and the record falls behind the router by no
\* more than the consumer being attached.
THEOREM MountTypeCorrect == MountSpec => []MountTypeOK
<1>1. MountInv => MountTypeOK
  BY DEF MountInv
<1> QED
  BY <1>1, MountInvariance, PTL

\* Whatever a service mounts, and by whatever names, each of its consumers
\* carries the policy of its own declaration (declare, subscription).
THEOREM PolicyAlways == MountSpec => []PolicyAsDeclared
<1>1. ASSUME MountInv, NEW i \in 1..Len(opened)
      PROVE  LET r == reg[opened[i].consumer]
             IN  /\ r.dead = RegistrationOf(plan[i]).dead
                 /\ r.dead # None => r.sharing \in {"Shared", "KeyShared"}
  <2>1. Valid(Intended(plan[i])) /\ reg[i] = RegistrationOf(Intended(plan[i]))
        /\ opened[i].consumer = i
    <3>1. OpenedAs(i)
      BY <1>1 DEF MountInv
    <3> QED BY <3>1 DEF OpenedAs
  <2>2. plan \in Seq(Mount)
    BY <1>1, OpeningAssumption DEF MountInv, MountTypeOK
  <2> QED BY <2>1, <2>2 DEF Intended, RegistrationOf, Valid, DeadLetterPolicy
<1>2. MountInv => PolicyAsDeclared
  BY <1>1 DEF PolicyAsDeclared
<1> QED
  BY <1>2, MountInvariance, PTL

\* A service's startup leaves the router to work as the router specifies.
THEOREM RouterKept == MountSpec => Spec
<1>1. MountInit => Init
  BY DEF MountInit
<1>2. [MountNext]_<<vars, mountVars>> => [Next]_vars
  <2>1. Declare \/ Check \/ RecordOpened \/ Refuse => UNCHANGED vars
    BY DEF Declare, Check, RecordOpened, Refuse
  <2>2. Attach => Next
    BY DEF Attach, Next, Others
  <2>3. Beside => Next
    BY DEF Beside
  <2> QED BY <2>1, <2>2, <2>3 DEF MountNext
<1> QED
  BY <1>1, <1>2, PTL DEF MountSpec, Spec

-----------------------------------------------------------------------------
(* The routing answer *)

\* A name occurs more often up to a later place it stands at.
LEMMA OccursMore ==
  ASSUME NEW names, NEW a \in Nat, NEW b \in Nat, a < b
  PROVE  Occurrences(names, names[b], a) < Occurrences(names, names[b], b)
<1> DEFINE at(n) == {i \in 1..n : names[i] = names[b]}
<1>1. IsFiniteSet(1..b)
  BY FS_Interval
<1>2. IsFiniteSet(at(b))
  BY <1>1, FS_Subset
<1>3. at(a) \subseteq at(b) /\ b \in at(b) /\ b \notin at(a)
  OBVIOUS
<1>4. IsFiniteSet(at(a)) /\ Cardinality(at(a)) <= Cardinality(at(b))
      /\ Cardinality(at(a)) # Cardinality(at(b))
  <2> HIDE DEF at
  <2> QED BY <1>2, <1>3, FS_Subset
<1>5. Cardinality(at(a)) \in Nat /\ Cardinality(at(b)) \in Nat
  <2> HIDE DEF at
  <2> QED BY <1>2, <1>4, FS_CardinalityType
<1>6. /\ Occurrences(names, names[b], a) = Cardinality(at(a))
      /\ Occurrences(names, names[b], b) = Cardinality(at(b))
  BY DEF Occurrences
<1> HIDE DEF at
<1> QED
  BY <1>4, <1>5, <1>6

\* Asked in the order of the record, a name is answered by its own record.
LEMMA RecordIs ==
  ASSUME NEW names, Len(opened) \in Nat,
         names = [i \in 1..Len(opened) |-> opened[i].name],
         NEW p \in 1..Len(opened)
  PROVE  RecordAt(names, p) = opened[p]
<1> DEFINE Same(i) == /\ names[i] = names[p]
                      /\ Occurrences(names, names[p], i) = Occurrences(names, names[p], p)
<1>1. ASSUME NEW i \in 1..Len(opened), Same(i), i # p
      PROVE  FALSE
  <2>1. Occurrences(names, names[p], i) \in Nat /\ Occurrences(names, names[p], p) \in Nat
    <3>1. ASSUME NEW n \in Nat, NEW v PROVE Occurrences(names, v, n) \in Nat
      <4>1. IsFiniteSet(1..n)
        BY FS_Interval
      <4>2. IsFiniteSet({j \in 1..n : names[j] = v})
        BY <4>1, FS_Subset
      <4> QED BY <4>2, FS_CardinalityType DEF Occurrences
    <3> QED BY <3>1
  <2>2. CASE i < p
    <3>1. Occurrences(names, names[p], i) < Occurrences(names, names[p], p)
      BY <2>2, OccursMore
    <3> QED BY <1>1, <2>1, <3>1
  <2>3. CASE p < i
    <3>1. Occurrences(names, names[i], p) < Occurrences(names, names[i], i)
      BY <2>3, OccursMore
    <3> QED BY <1>1, <2>1, <3>1
  <2> QED BY <1>1, <2>2, <2>3
<1>2. RecordAt(names, p) = opened[CHOOSE i \in 1..Len(opened) : Same(i)]
  BY DEF RecordAt
<1>3. Same(p)
  OBVIOUS
<1>4. \A i \in 1..Len(opened) : Same(i) => i = p
  BY <1>1
<1> HIDE DEF Same
<1>5. (CHOOSE i \in 1..Len(opened) : Same(i)) = p
  BY <1>3, <1>4
<1> QED
  BY <1>2, <1>5

\* Of a started service, the answer names the consumer the router would pick
\* and nobody else of its subscription.
LEMMA AnswerIs ==
  ASSUME MountInv, Len(opened) = Len(plan), NEW t \in Topics, NEW c \in 1..nextId,
         t \in reg[c].topics, c = NextPick(t, reg[c].name)
  PROVE  {r.consumer : r \in {a \in {RecordAt(Asked, p) : p \in Routes(t, Asked)} :
                                a.subscription = reg[c].name}} = {c}
<1> DEFINE N == Len(opened)
           over == {p \in 1..N : t \in reg[p].topics}
           of(s) == {p \in over : reg[p].name = s}
           picked(s) == {p \in of(s) : p = NextPick(t, s)}
           first(P) == CHOOSE p \in P : \A q \in P : p <= q
           at(s) == first(IF picked(s) # {} THEN picked(s) ELSE of(s))
           names == {reg[p].name : p \in over}
<1>1. N \in Nat /\ nextId = N /\ c \in 1..N
  <2>1. N \in Nat
    BY DEF MountInv, MountTypeOK
  <2>2. phase # "attached"
    BY <2>1 DEF MountInv, OwnAttached, Mounting
  <2> QED BY <2>1, <2>2 DEF MountInv, MountTypeOK
<1>2. \A p \in 1..N : /\ opened[p].name = Reported(Intended(plan[p]))
                     /\ opened[p].subscription = reg[p].name
                     /\ opened[p].topics = reg[p].topics
                     /\ opened[p].consumer = p
  <2> TAKE p \in 1..N
  <2>1. OpenedAs(p)
    BY DEF MountInv
  <2> QED BY <2>1 DEF OpenedAs
<1>3. Asked = [p \in 1..N |-> opened[p].name]
  <2>1. plan \in Seq(Mount)
    BY OpeningAssumption DEF MountInv, MountTypeOK
  <2>2. ASSUME NEW p \in 1..N
        PROVE  Reported(Descriptor(plan[p])) = Reported(Intended(plan[p]))
    <3>1. plan[p] \in Mount
      BY <2>1
    <3> QED BY <3>1 DEF Descriptor, Intended, Reported, Mount
  <2> QED BY <1>2, <2>2 DEF Asked
<1>4. \A p \in 1..N : RecordAt(Asked, p) = opened[p]
  BY <1>1, <1>3, RecordIs
<1>5. Len(Asked) = N
  BY <1>1, <1>3
<1>6. Routes(t, Asked) = {at(s) : s \in names}
  <2> DEFINE record == [p \in 1..N |-> RecordAt(Asked, p)]
  <2>1. \A p \in 1..N : /\ record[p].topics = reg[p].topics
                       /\ record[p].subscription = reg[p].name
                       /\ record[p].consumer = p
    BY <1>2, <1>4
  <2>2. {p \in 1..N : t \in record[p].topics} = over
    BY <2>1
  <2>3. \A s : {p \in over : record[p].subscription = s} = of(s)
    BY <2>1
  <2>4. \A s : {p \in of(s) : record[p].consumer = NextPick(t, s)} = picked(s)
    BY <2>1
  <2>5. {record[p].subscription : p \in over} = names
    BY <2>1
  <2> DEFINE over1 == {p \in 1..N : t \in record[p].topics}
             of1(s) == {p \in over1 : record[p].subscription = s}
             picked1(s) == {p \in of1(s) : record[p].consumer = NextPick(t, s)}
  <2>6. Routes(t, Asked) =
          {first(IF picked1(s) # {} THEN picked1(s) ELSE of1(s)) :
             s \in {record[p].subscription : p \in over1}}
    BY <1>5 DEF Routes
  <2>7. over1 = over
    BY <2>2
  <2>8. \A s : of1(s) = of(s)
    <3> HIDE DEF record, over, over1
    <3> QED BY <2>3, <2>7
  <2>9. \A s : picked1(s) = picked(s)
    <3> HIDE DEF record, of, of1
    <3> QED BY <2>4, <2>8
  <2> HIDE DEF record, over, over1, of, of1, picked, picked1, first
  <2> QED BY <2>5, <2>6, <2>7, <2>8, <2>9
<1>7. \A s \in names : at(s) \in of(s)
  <2> TAKE s \in names
  <2>1. of(s) # {} /\ of(s) \in SUBSET Nat /\ picked(s) \subseteq of(s)
    BY <1>1
  <2> DEFINE P == IF picked(s) # {} THEN picked(s) ELSE of(s)
  <2>2. P # {} /\ P \in SUBSET Nat /\ P \subseteq of(s)
    BY <2>1
  <2>3. first(P) \in P
    <3> HIDE DEF P
    <3> QED BY <2>2, FirstIn
  <2> QED BY <2>2, <2>3
<1>8. at(reg[c].name) = c /\ reg[c].name \in names
  <2>1. picked(reg[c].name) = {c} /\ reg[c].name \in names
    BY <1>1
  <2>2. first({c}) = c
    BY <1>1
  <2> HIDE DEF first, picked
  <2> QED BY <2>1, <2>2
<1>9. \A s \in names : at(s) \in 1..N /\ reg[at(s)].name = s
  BY <1>7
<1> DEFINE answered == {RecordAt(Asked, p) : p \in Routes(t, Asked)}
<1>10. answered = {opened[at(s)] : s \in names}
  <2> HIDE DEF at, names
  <2> QED BY <1>4, <1>6, <1>9
<1>11. {a \in answered : a.subscription = reg[c].name} = {opened[c]}
  <2> HIDE DEF at, names, answered
  <2> QED BY <1>1, <1>2, <1>8, <1>9, <1>10
<1> HIDE DEF answered
<1> QED
  BY <1>1, <1>2, <1>11 DEF answered

\* Who takes a message of a topic that exists is whom the router would pick.
LEMMA TakerIsPick ==
  ASSUME IInv, NEW t \in Topics, t \in created, NEW origin, NEW c \in Ids,
         Deliver(t, NoKey, origin), Takes(c)
  PROVE  /\ c \in 1..nextId
         /\ t \in reg[c].topics
         /\ c = NextPick(t, reg[c].name)
<1>1. TypeOK /\ nextId \in Nat
  BY RouterAssumption DEF IInv, TypeOK
<1>2. listed' = listed
  <2>1. listed' = Listing({}, created')
    BY DEF Deliver
  <2> QED BY <1>1, <2>1 DEF Listing, TypeOK
<1> DEFINE members(s) == MembersOf(attached, listed, s, t)
           d == [topic |-> t, seq |-> Len(log[t]) + 1, red |-> 0]
<1>3. PICK s \in Names :
        /\ members(s) # <<>>
        /\ c = Choose(reg[members(s)[1]].sharing, members(s), NoKey, rotation[s])
  <2> DEFINE served == {s \in Names : members(s) # <<>>}
             taker == [s \in served |-> Choose(reg[members(s)[1]].sharing, members(s),
                                               NoKey, rotation[s])]
  <2>1. queue' = [x \in Ids |-> IF \E s \in served : taker[s] = x
                                 THEN Append(queue[x], d) ELSE queue[x]]
    <3> DEFINE ms == SubscriptionsOver(listed', t)
               sv == {s \in Names : ms[s] # <<>>}
               sh == [s \in sv |-> reg[ms[s][1]].sharing]
               tk == [s \in sv |-> Choose(sh[s], ms[s], NoKey, rotation[s])]
    <3>1. queue' = [x \in Ids |-> IF \E s \in sv : tk[s] = x
                                 THEN Append(queue[x], d) ELSE queue[x]]
      BY DEF Deliver
    <3>2. \A s \in Names : ms[s] = members(s)
      BY <1>2 DEF SubscriptionsOver
    <3>3. sv = served
      BY <3>2
    <3>4. \A s \in served : tk[s] = taker[s]
      BY <3>2, <3>3
    <3> HIDE DEF sv, tk, served, taker, d
    <3> QED BY <3>1, <3>3, <3>4
  <2>2. \E s \in served : taker[s] = c
    <3> HIDE DEF served, taker, d
    <3>1. Len(queue[c]) \in Nat
      BY <1>1 DEF TypeOK
    <3> QED BY <2>1, <3>1 DEF Takes
  <2> QED BY <2>2
<1>4. attached \in Seq(1..nextId)
  BY <1>1 DEF TypeOK
<1>5. PICK M : M = members(s)
  OBVIOUS
<1>6. /\ M \in Seq(1..nextId) /\ M # <<>>
      /\ \A i \in 1..Len(M) : reg[M[i]].name = s /\ Reads(listed, M[i], t)
  BY <1>3, <1>4, <1>5, MembersProps
<1>7. reg[M[1]].sharing \in Sharings /\ rotation[s] \in Nat
  <2>1. M[1] \in 1..nextId
    BY <1>1, <1>6
  <2>2. M[1] \in Ids /\ M[1] <= nextId
    BY <1>1, <2>1, RouterAssumption DEF TypeOK, Ids
  <2>3. reg[M[1]] \in Registration
    BY <1>1, <2>2, RouterAssumption DEF TypeOK
  <2> QED BY <1>1, <2>3 DEF TypeOK, Registration
<1>8. NoKey \in Keys
  BY OpeningAssumption
<1>9. PICK i \in 1..Len(M) : c = M[i]
  BY <1>1, <1>3, <1>5, <1>6, <1>7, <1>8, ChooseMember
<1>10. c \in 1..nextId /\ reg[c].name = s /\ t \in reg[c].topics
  BY <1>1, <1>6, <1>9 DEF Reads
<1>11. NextPick(t, s) = c
  BY <1>3 DEF NextPick
<1> QED
  BY <1>10, <1>11

\* A topic's log grows by an entry only when a message is handed out.
LEMMA GrownByDelivery ==
  ASSUME IInv, Next, NEW t \in Topics, Len(log'[t]) = Len(log[t]) + 1
  PROVE  \E k, origin : Deliver(t, k, origin)
<1>1. log \in [Topics -> Seq(LogEntry)]
  BY DEF IInv, TypeOK
<1>2. Len(log[t]) \in Nat
  BY <1>1
<1>3. ~UNCHANGED log
  BY <1>2
<1>4. ASSUME NEW u, NEW k, NEW origin, Deliver(u, k, origin)
      PROVE  Deliver(t, k, origin)
  <2>1. \E e : log' = [log EXCEPT ![u] = Append(log[u], e)]
    BY <1>4 DEF Deliver
  <2>2. u = t
    BY <1>1, <1>2, <2>1
  <2> QED BY <1>4, <2>2
<1>5. CASE Publish
  BY <1>4, <1>5 DEF Publish
<1>6. ASSUME NEW m \in Slots, Nack(m) \/ Fire(m)
      PROVE  \E k, origin : Deliver(t, k, origin)
  <2>1. PICK took : Requeue(settle[m].id, settle[m].d, took)
    BY <1>3, <1>6 DEF Nack, Fire, topicVars
  <2>2. PICK u, k, origin : Deliver(u, k, origin)
    BY <1>3, <2>1 DEF Requeue, topicVars
  <2> QED BY <1>4, <2>2
<1>7. ~Shutdown
  BY <1>2 DEF Shutdown
<1>8. ~Subscribe /\ ~Refresh /\ ~FinishSeek
  BY <1>3 DEF Subscribe, Refresh, FinishSeek, topicVars
<1>9. \A c \in Ids : ~Unsubscribe(c) /\ \A pos \in Positions : ~Seek(c, pos)
  BY <1>3 DEF Unsubscribe, Seek, topicVars
<1>10. \A m \in Slots : /\ ~Ack(m) /\ ~Drop(m) /\ ~NackAfter(m) /\ ~Count(m) /\ ~Release(m)
                        /\ \A c \in Ids : ~Poll(m, c)
  BY <1>3 DEF Ack, Drop, NackAfter, Count, Release, Poll, topicVars
<1> QED
  BY <1>5, <1>6, <1>7, <1>8, <1>9, <1>10 DEF Next, Settled, Others

\* For any service that has started and any topic that exists, the next unkeyed
\* message goes to the consumers the harness was told of (routes, next_pick).
THEOREM AnswerAlways == MountSpec => AnswerNamesTaker
<1>1. ASSUME MountInv, MountNext, NEW t \in Topics, Len(opened) = Len(plan),
             t \in created, Len(log'[t]) = Len(log[t]) + 1,
             log'[t][Len(log'[t])].key = NoKey, NEW c \in Ids, Takes(c)
      PROVE  {r.consumer : r \in {a \in {RecordAt(Asked, p) : p \in Routes(t, Asked)} :
                                    a.subscription = reg[c].name}} = {c}
  <2>1. IInv /\ Len(opened) \in Nat
    BY <1>1 DEF MountInv, MountTypeOK
  <2>2. ~Mounting
    BY <1>1, <2>1 DEF Mounting
  <2>3. Next
    BY <1>1, <2>2 DEF MountNext, Declare, Check, Attach, RecordOpened, Refuse, Beside
  <2>4. PICK k, origin : Deliver(t, k, origin)
    BY <1>1, <2>1, <2>3, GrownByDelivery
  <2>5. k = NoKey
    <3>1. log \in [Topics -> Seq(LogEntry)]
      BY <2>1 DEF IInv, TypeOK
    <3>2. PICK at : log'[t] = Append(log[t], [key |-> k, at |-> at, origin |-> origin])
      BY <2>4, <3>1 DEF Deliver
    <3> QED BY <1>1, <3>1, <3>2
  <2>6. c \in 1..nextId /\ t \in reg[c].topics /\ c = NextPick(t, reg[c].name)
    BY <1>1, <2>1, <2>4, <2>5, TakerIsPick
  <2> QED BY <1>1, <2>6, AnswerIs
<1>2. MountInv /\ [MountNext]_<<vars, mountVars>>
        => [TakenAsAnswered]_<<vars, mountVars>>
  BY <1>1 DEF TakenAsAnswered
<1> QED
  BY <1>2, MountInvariance, PTL DEF MountSpec, AnswerNamesTaker

-----------------------------------------------------------------------------
(* The whole service *)

\* A step beside the mounts that is one of the router's, and no subscribe.
LEMMA RouterStep ==
  ASSUME Next, nextId' = nextId, UNCHANGED mountVars
  PROVE  MountNext
BY DEF MountNext, Beside

\* What the framework does with a settlement is a step of the router or none.
LEMMA HandlerStep ==
  ASSUME MountInv, NEW m \in Slots,
         \/ \E c \in Ids : Take(m, c)
         \/ Run(m) \/ Send(m) \/ Move(m) \/ Settle(m) \/ Cancel(m)
  PROVE  MountNext \/ UNCHANGED <<vars, mountVars>>
<1>1. CASE \E c \in Ids : Take(m, c)
  <2>1. PICK c \in Ids : Poll(m, c) /\ UNCHANGED mountVars
    BY <1>1 DEF Take, mountVars
  <2>2. Next
    BY <2>1 DEF Next, Others
  <2>3. nextId' = nextId
    BY <2>1 DEF Poll, registry
  <2> QED BY <2>1, <2>2, <2>3, RouterStep
<1>2. CASE Run(m)
  BY <1>2 DEF Run
<1>3. CASE Send(m)
  <2>1. CASE UNCHANGED vars
    BY <1>3, <2>1 DEF Send
  <2>2. CASE Publish /\ UNCHANGED <<registry, mountVars>>
    <3>1. Next
      BY <2>2 DEF Next, Others
    <3>2. nextId' = nextId
      BY <2>2 DEF registry
    <3> QED BY <2>2, <3>1, <3>2, RouterStep
  <2>3. UNCHANGED vars \/ (Publish /\ UNCHANGED <<registry, mountVars>>)
    <3>1. ASSUME NEW k \in ShipmentKeys(m), LockFree, Deliver(Shipments, k, None),
                 UNCHANGED <<up, registry, unacked, parked, settle, swap>>
          PROVE  Publish
      <4>1. k \in Keys
        BY OpeningAssumption DEF ShipmentKeys
      <4> QED BY <3>1, <4>1, ServicesAssumption DEF Publish
    <3> QED BY <1>3, <3>1 DEF Send
  <2> QED BY <2>1, <2>2, <2>3
<1>4. CASE Move(m)
  <2> DEFINE c == stage[m].to.consumer
             pos == stage[m].to.pos
  <2>1. CASE pos \in Positions /\ Seek(c, pos) /\ UNCHANGED mountVars
    <3>1. c \in Attached
      BY <2>1 DEF Seek
    <3>2. c \in Ids
      <4>1. attached \in Seq(1..nextId) /\ nextId \in 0..MaxConsumers
        BY DEF MountInv, IInv, TypeOK
      <4>2. \A i \in 1..Len(attached) : attached[i] \in 1..nextId
        BY <4>1
      <4>3. PICK i \in 1..Len(attached) : attached[i] = c
        BY <3>1 DEF Attached
      <4>4. c \in 1..nextId
        BY <4>2, <4>3
      <4> QED BY <4>1, <4>4, RouterAssumption DEF Ids
    <3>3. Next
      BY <2>1, <3>2 DEF Next, Others
    <3>4. nextId' = nextId
      BY <2>1 DEF Seek, registry
    <3> QED BY <2>1, <3>3, <3>4, RouterStep
  <2>2. CASE UNCHANGED <<vars, mountVars>>
    BY <2>2
  <2> QED BY <1>4, <2>1, <2>2 DEF Move
<1>5. CASE Settle(m) \/ Cancel(m)
  <2>1. /\ Ack(m) \/ Nack(m) \/ NackAfter(m) \/ Drop(m)
        /\ UNCHANGED mountVars
    BY <1>5 DEF Settle, Cancel
  <2>2. Next
    BY <2>1 DEF Next, Others, Settled
  <2>3. nextId' = nextId
    BY <2>1 DEF Ack, Nack, NackAfter, Drop, registry
  <2> QED BY <2>1, <2>2, <2>3, RouterStep
<1> QED
  BY <1>1, <1>2, <1>3, <1>4, <1>5

\* So is what goes on around the handlers.
LEMMA AroundStep ==
  ASSUME \/ Customer \/ Outage \/ Stop \/ Background \/ Start
         \/ \E c \in Ids : Leave(c)
  PROVE  MountNext \/ UNCHANGED <<vars, mountVars>>
<1>1. CASE Customer
  <2>1. Publish
    BY <1>1, OpeningAssumption, ServicesAssumption DEF Customer, Publish
  <2>2. nextId' = nextId /\ UNCHANGED mountVars
    BY <1>1 DEF Customer, registry
  <2> QED BY <2>1, <2>2, RouterStep DEF Next, Others
<1>2. CASE Outage
  BY <1>2 DEF Outage
<1>3. CASE Stop
  <2>1. Shutdown /\ UNCHANGED mountVars
    BY <1>3 DEF Stop
  <2>2. nextId' = nextId
    BY <2>1 DEF Shutdown
  <2> QED BY <2>1, <2>2, RouterStep DEF Next, Others
<1>4. CASE Background
  <2>1. /\ FinishSeek \/ Refresh \/ \E m \in Slots : Fire(m) \/ Count(m) \/ Release(m)
        /\ UNCHANGED mountVars
    BY <1>4 DEF Background
  <2>2. nextId' = nextId
    BY <2>1 DEF FinishSeek, Refresh, Fire, Count, Release, registry
  <2> QED BY <2>1, <2>2, RouterStep DEF Next, Others
<1>5. CASE Start
  BY <1>5 DEF Start, MountNext
<1>6. CASE \E c \in Ids : Leave(c)
  <2>1. PICK c \in Ids : Unsubscribe(c) /\ UNCHANGED mountVars
    BY <1>6 DEF Leave
  <2>2. nextId' = nextId
    BY <2>1 DEF Unsubscribe
  <2> QED BY <2>1, <2>2, RouterStep DEF Next, Others
<1> QED
  BY <1>1, <1>2, <1>3, <1>4, <1>5, <1>6

LEMMA ServiceStep ==
  MountInv /\ [ServiceNext]_allVars => [MountNext]_<<vars, mountVars>>
<1> SUFFICES ASSUME MountInv, [ServiceNext]_allVars PROVE [MountNext]_<<vars, mountVars>>
  OBVIOUS
<1>1. CASE ServiceNext
  BY <1>1, HandlerStep, AroundStep DEF ServiceNext, Runtime, Surroundings
<1>2. CASE UNCHANGED allVars
  BY <1>2 DEF allVars
<1> QED
  BY <1>1, <1>2

\* The invariant of the mounts holds of a service.
LEMMA ServiceInvariance == ServiceSpec => []MountInv
<1>1. ServiceInit => MountInv
  BY MountInitStep DEF ServiceInit
<1>2. MountInv /\ [ServiceNext]_allVars => MountInv'
  BY ServiceStep, MountStep
<1> QED
  BY <1>1, <1>2, PTL DEF ServiceSpec

\* Every service is the router under that service's mounts.
THEOREM ServicesAreMounts == ServiceSpec => MountSpec
<1>1. ServiceInit => MountInit
  BY DEF ServiceInit
<1> QED
  BY <1>1, ServiceInvariance, ServiceStep, PTL DEF ServiceSpec, MountSpec

\* In every service, whatever its handlers do, each consumer carries the policy its
\* own registration declared (declare, subscription), and the routing answer names
\* the consumer that then takes the message (routes, next_pick).
THEOREM ServicesKeepFaith ==
  ServiceSpec => []MountTypeOK /\ []PolicyAsDeclared /\ AnswerNamesTaker
BY ServicesAreMounts, MountTypeCorrect, PolicyAlways, AnswerAlways

-----------------------------------------------------------------------------
(* Copies of an entry, one by one *)

\* A list that carries an entry somewhere has a copy of it, and one that has a copy
\* carries it somewhere.
LEMMA CopyCarried ==
  ASSUME NEW ds \in Seq(Delivery), NEW x
  PROVE  CopiesIn(ds, x) > 0 <=> \E i \in 1..Len(ds) : Carries(ds[i], x)
<1> DEFINE A == {i \in 1..Len(ds) : Carries(ds[i], x)}
<1>1. A \subseteq 1..Len(ds) /\ IsFiniteSet(1..Len(ds))
  BY FS_Interval
<1>2. IsFiniteSet(A) /\ Cardinality(A) \in Nat
  BY <1>1, FS_Subset, FS_CardinalityType
<1>3. Cardinality(A) = 0 <=> A = {}
  BY <1>2, FS_EmptySet
<1>4. CopiesIn(ds, x) = Cardinality(A)
  BY DEF CopiesIn
<1>5. A # {} <=> \E i \in 1..Len(ds) : Carries(ds[i], x)
  OBVIOUS
<1> HIDE DEF A
<1> QED
  BY <1>2, <1>3, <1>4, <1>5

\* Consumers C have at least the copies one of them has.
LEMMA CopyKept ==
  ASSUME NEW q \in Queues, NEW C, NEW c \in Ids, c \in C, NEW x
  PROVE  CopiesAt(q, C, x) >= CopiesIn(q[c], x)
<1> DEFINE p == [q EXCEPT ![c] = <<>>]
<1>1. p \in Queues /\ p[c] = <<>> /\ \A y \in Ids : y # c => p[y] = q[y]
  BY DEF Queues
<1> HIDE DEF p
<1>2. AlikeBut(q, C, p, C, c)
  BY <1>1 DEF AlikeBut
<1>3. /\ CopiesAt(q, C, x) \in Nat
      /\ CopiesAt(p, C, x) = CopiesAt(q, C, x) + (Part(p, C, c, x) - Part(q, C, c, x))
  BY <1>1, <1>2, AtUpdate
<1>4. CopiesAt(p, C, x) \in Nat
  BY <1>1, AtNat
<1>5. Part(p, C, c, x) = 0 /\ Part(q, C, c, x) = CopiesIn(q[c], x)
  BY <1>1, CopiesEmpty DEF Part
<1>6. CopiesIn(q[c], x) \in Nat
  BY CopiesNat DEF Queues
<1> QED
  BY <1>3, <1>4, <1>5, <1>6

\* And when they have copies, one of them has.
LEMMA CopySomewhere ==
  ASSUME NEW q \in Queues, NEW C, NEW x, CopiesAt(q, C, x) > 0
  PROVE  \E c \in Ids : c \in C /\ CopiesIn(q[c], x) > 0
<1> SUFFICES ASSUME \A c \in Ids : c \in C => ~(CopiesIn(q[c], x) > 0) PROVE FALSE
  OBVIOUS
<1> DEFINE f == [c \in Ids |-> IF c \in C THEN CopiesIn(q[c], x) ELSE 0]
<1>1. \A c \in Ids : CopiesIn(q[c], x) \in Nat
  BY CopiesNat DEF Queues
<1>2. f \in [Ids -> Int] /\ \A c \in Ids : f[c] = 0
  BY <1>1
<1>3. CopiesAt(q, C, x) = SumFunction(f)
  BY DEF CopiesAt
<1> HIDE DEF f
<1> QED
  BY <1>2, <1>3, IdsFinite, SumNat

\* A settlement that holds an entry counts once.
LEMMA HeldLess ==
  ASSUME NEW f, NEW g, NEW m \in Slots, NEW C, NEW x, HeldFor(f[m], C, x), g[m] = Idle,
         \A y \in Slots : y # m => g[y] = f[y]
  PROVE  HeldIn(g, C, x) \in Nat /\ HeldIn(f, C, x) = HeldIn(g, C, x) + 1
<1> DEFINE A == {z \in Slots : HeldFor(f[z], C, x)}
           B == {z \in Slots : HeldFor(g[z], C, x)}
<1>1. /\ A \subseteq Slots /\ B \subseteq Slots /\ m \in A
      /\ \A z \in Slots : z # m => (z \in A <=> z \in B)
  OBVIOUS
<1>2. m \notin B
  BY DEF HeldFor, Idle
<1>3. HeldIn(f, C, x) = Cardinality(A) /\ HeldIn(g, C, x) = Cardinality(B)
  BY DEF HeldIn
<1> HIDE DEF A, B
<1>4. /\ Cardinality(A) \in Nat /\ Cardinality(B) \in Nat
      /\ Cardinality(B) = Cardinality(A) + (One(m \in B) - One(m \in A))
  BY <1>1, OneSlot
<1>5. One(m \in B) = 0 /\ One(m \in A) = 1
  BY <1>1, <1>2 DEF One
<1> QED
  BY <1>3, <1>4, <1>5

\* One settlement that holds an entry, or two of them.
LEMMA HeldOnce ==
  ASSUME TypeOK, NEW C, NEW x, NEW m \in Slots, HeldFor(settle[m], C, x)
  PROVE  /\ HeldIn(settle, C, x) >= 1
         /\ \A n \in Slots : n # m /\ HeldFor(settle[n], C, x) => HeldIn(settle, C, x) >= 2
<1>1. PICK g : g = [settle EXCEPT ![m] = Idle]
  OBVIOUS
<1>2. g[m] = Idle /\ \A y \in Slots : y # m => g[y] = settle[y]
  BY <1>1 DEF TypeOK
<1>3. HeldIn(g, C, x) \in Nat /\ HeldIn(settle, C, x) = HeldIn(g, C, x) + 1
  BY <1>2, HeldLess
<1>4. ASSUME NEW n \in Slots, n # m, HeldFor(settle[n], C, x)
      PROVE  HeldIn(g, C, x) >= 1
  <2>1. PICK k : k = [y \in Slots |-> IF y = n THEN Idle ELSE g[y]]
    OBVIOUS
  <2>2. k[n] = Idle /\ \A y \in Slots : y # n => k[y] = g[y]
    BY <2>1
  <2>3. HeldFor(g[n], C, x)
    BY <1>2, <1>4
  <2>4. HeldIn(k, C, x) \in Nat /\ HeldIn(g, C, x) = HeldIn(k, C, x) + 1
    BY <2>2, <2>3, HeldLess
  <2> QED BY <2>4
<1> QED
  BY <1>3, <1>4


-----------------------------------------------------------------------------
(* Services that go straight ahead *)

\* The handlers that ask the broker to move a cursor.
Movers == {"index", "skip", "redo", "rebuild"}

\* The consumers that mounts ms open.
Consumed(ms) == {RegistrationOf(Intended(ms[i])) : i \in 1..Len(ms)}

\* No handler moves a cursor, no two subscriptions send the messages of one topic to
\* dead letters, and none of those reads a topic of dead letters.
Straight(ms) ==
  /\ \A i \in 1..Len(ms) : ms[i].handler \notin Movers
  /\ \A r, q, x, y \in Consumed(ms) :
       r.dead # None /\ q.dead # None /\ x.name = r.name /\ y.name = q.name
         => /\ r.name # q.name => x.topics \cap y.topics = {}
            /\ r.dead.topic \notin y.topics

\* The tasks there may be, and how many live copies of its message a task has.
AllTasks == [name : Names, topic : Topics, seq : 1..MaxEntries]
Copies(x) == LiveCopies(x.name, PlaceOf(x))

\* A stage is one of a handler that moves nothing, a settlement has one while a
\* handler of a mounted subscription holds it.
Outcomes == {"run", "send", "ack", "drop", "retry", "retry_after"}
Stages == [do : Outcomes \cup {"none"}, odd : BOOLEAN, to : {None}, owed : {{}}]
Staged ==
  /\ stage \in [Slots -> Stages]
  /\ \A m \in Slots : stage[m].do = "none" <=> settle[m].duty # "handle"
  /\ \A m \in Slots : settle[m].duty = "handle" => settle[m].id <= Len(opened)

\* What is done and not settled yet.
Finished(m) == stage[m].do \in {"ack", "drop"}
Done == {TaskOf(m) : m \in {n \in Slots : Finished(n)}}

\* The message of place p is a dead letter.
Rested(p) == \E d \in DeadLetters : OriginOf(d) = p

\* What is due and what is not, by the live copies.
Single == \A x \in AllTasks : Copies(x) <= 1
Charged == \A x \in AllTasks : Copies(x) > 0 /\ x \notin Done => x \in due \cup cut
Covered == \A x \in due : x \in cut \/ Copies(x) > 0 \/ Rested(PlaceOf(x))
Ledger ==
  /\ due \subseteq AllTasks /\ again \subseteq cut /\ Done \cap due = {}
  /\ Single /\ Charged /\ Covered

\* Dead letter d came of task x, of which nothing is left.
Laid(d, x) ==
  /\ x \in AllTasks /\ PlaceOf(x) = OriginOf(d)
  /\ x \in due \cup cut /\ Copies(x) = 0
  /\ \E c \in 1..nextId : reg[c].dead # None /\ reg[c].name = x.name
  /\ \E c \in 1..nextId : reg[c].name = x.name /\ x.topic \in reg[c].topics
Letters ==
  /\ \A d \in DeadLetters :
       /\ \E x : Laid(d, x)
       /\ \E c \in 1..nextId : reg[c].dead # None /\ reg[c].dead.topic = d.topic
  /\ \A d, e \in DeadLetters : OriginOf(d) = OriginOf(e) => d = e

\* A consumer of the subscription reads the topic of task x, or one did.
Seated(x) == \E c \in Attached : reg[c].name = x.name /\ Reads(listed, c, x.topic)
Rooted(x) == \E c \in 1..nextId : reg[c].name = x.name /\ x.topic \in reg[c].topics

\* The deliveries ds of subscription s are of tasks in C.
Leaves(C, s, ds) == \A i \in 1..Len(ds) : Task(s, ds[i].topic, ds[i].seq) \in C

\* What nobody holds and no queue is left to whoever comes.
LeftBehind ==
  /\ \A c \in 1..nextId : Leaves(cut, reg[c].name, unacked[c])
  /\ \A s \in Names : Leaves(cut, s, parked[s])
Listings == \A c \in 1..nextId : listed[c] \subseteq created \cap reg[c].topics
Seats ==
  /\ \A x \in due : x \in cut \/ Seated(x)
  /\ \A x \in AllTasks : Copies(x) > 0 => Rooted(x)
  /\ LeftBehind /\ Listings

Steady == Staged /\ Ledger /\ Letters /\ Seats

WInv ==
  /\ MountInv /\ BInv /\ OriginIsPublished /\ Len(opened) <= Len(plan)
  /\ up /\ Straight(plan) => Steady

-----------------------------------------------------------------------------
(* What a step does to the tasks *)

\* Tasks X come to their end, the copies of Y leave for good and those of N are new.
Turn(X, Y, N) ==
  /\ X \subseteq AllTasks /\ N \subseteq AllTasks
  /\ \A x \in X : Copies(x) > 0 /\ x \notin Done /\ x \in Done'
  /\ \A x \in Y : Copies(x) > 0 /\ (x \in Done \/ Rested(PlaceOf(x))')
  /\ \A x \in N : Copies(x) = 0
  /\ \A x \in AllTasks : Copies(x)' = IF x \in N THEN 1 ELSE Copies(x) - One(x \in Y)
  /\ due' = (due \ X) \cup N
  /\ again' = again \cup (X \ due)
  /\ cut \subseteq cut'
  /\ Done' \subseteq Done \cup X
  /\ Done \subseteq Done' \cup Y \cup cut'
  /\ \A x \in AllTasks : Rested(PlaceOf(x)) => Rested(PlaceOf(x))'

\* The copies of a task are a number.
LEMMA CopiesAreNat ==
  ASSUME IInv, NEW x \in AllTasks
  PROVE  Copies(x) \in Nat /\ x.name \in Names /\ PlaceOf(x) \in Places
         /\ x = Task(x.name, x.topic, x.seq)
<1>1. x.name \in Names /\ PlaceOf(x) \in Places
  BY DEF AllTasks, PlaceOf, Places
<1>2. LiveCopies(x.name, PlaceOf(x)) \in Nat
  BY <1>1, LiveParts
<1> QED
  BY <1>1, <1>2 DEF Copies, AllTasks, Task

\* Such a step keeps the ledger.
LEMMA LedgerTurn ==
  ASSUME IInv, Ledger, \A x \in Done : x \in AllTasks /\ Copies(x) > 0,
         NEW X, NEW Y, NEW N, Turn(X, Y, N)
  PROVE  Ledger'
<1>1. \A x \in AllTasks : Copies(x) \in Nat /\ Copies(x) <= 1
  BY CopiesAreNat DEF Ledger, Single
<1>2. \A x \in AllTasks : Copies(x)' = IF x \in N THEN 1 ELSE Copies(x) - One(x \in Y)
  BY DEF Turn
<1>3. due' \subseteq AllTasks
  BY DEF Turn, Ledger
<1>4. ASSUME NEW x \in AllTasks PROVE Copies(x)' <= 1
  BY <1>1, <1>2 DEF One
<1>5. ASSUME NEW x \in AllTasks, Copies(x)' > 0, x \notin Done' PROVE x \in due' \cup cut'
  <2>1. CASE x \in N
    BY <2>1 DEF Turn
  <2>2. CASE x \notin N
    <3>1. x \notin Y /\ Copies(x) > 0
      BY <1>1, <1>2, <1>5, <2>2 DEF One
    <3>2. x \notin X
      BY <1>5 DEF Turn
    <3>3. x \notin Done \/ x \in cut'
      BY <1>5, <3>1 DEF Turn
    <3>4. x \notin Done => x \in due \cup cut
      BY <3>1 DEF Ledger, Charged
    <3> QED BY <3>2, <3>3, <3>4 DEF Turn
  <2> QED BY <2>1, <2>2
<1>6. Done' \cap due' = {}
  <2> SUFFICES ASSUME NEW x \in Done', x \in due' PROVE FALSE
    OBVIOUS
  <2>1. x \in Done \cup X /\ Copies(x) > 0
    BY DEF Turn
  <2>2. x \notin N
    BY <2>1 DEF Turn
  <2>3. x \in due /\ x \notin X
    BY <2>2 DEF Turn
  <2> QED BY <2>1, <2>3 DEF Ledger
<1>7. ASSUME NEW x \in due' PROVE x \in cut' \/ Copies(x)' > 0 \/ Rested(PlaceOf(x))'
  <2>1. x \in AllTasks
    BY <1>3, <1>7
  <2>2. CASE x \in N
    BY <1>2, <2>1, <2>2
  <2>3. CASE x \notin N
    <3>1. x \in due
      BY <2>3, <1>7 DEF Turn
    <3>2. x \in cut \/ Copies(x) > 0 \/ Rested(PlaceOf(x))
      BY <3>1 DEF Ledger, Covered
    <3>3. Copies(x) > 0 /\ x \notin Y => Copies(x)' > 0
      BY <1>1, <1>2, <2>1, <2>3 DEF One
    <3>4. x \in Y => Rested(PlaceOf(x))'
      BY <3>1 DEF Turn, Ledger
    <3> QED BY <2>1, <3>2, <3>3, <3>4 DEF Turn
  <2> QED BY <2>2, <2>3
<1>8. again' \subseteq cut'
  <2>1. X \ due \subseteq cut
    BY DEF Turn, Ledger, Charged
  <2> QED BY <2>1 DEF Turn, Ledger
<1> QED
  BY <1>3, <1>4, <1>5, <1>6, <1>7, <1>8 DEF Ledger, Single, Charged, Covered

\* The consumers there are stay as they registered.
Enrolled == /\ nextId \in Nat /\ nextId' \in Nat /\ nextId <= nextId'
            /\ \A c \in 1..nextId : reg'[c] = reg[c]

LEMMA EnrolledStays ==
  ASSUME Enrolled, NEW c \in 1..nextId
  PROVE  c \in 1..nextId' /\ reg'[c] = reg[c]
BY DEF Enrolled

\* A dead letter there is stays what it is.
LEMMA LaidStays ==
  ASSUME IInv, Enrolled, NEW X, NEW Y, NEW N, Turn(X, Y, N), NEW d,
         NEW x, Laid(d, x), x \notin N, x \notin Y, OriginOf(d)' = OriginOf(d)
  PROVE  Laid(d, x)'
<1>1. x \in AllTasks /\ PlaceOf(x) = OriginOf(d) /\ x \in due \cup cut /\ Copies(x) = 0
  BY DEF Laid
<1>2. Copies(x)' = 0
  BY <1>1 DEF Turn, One
<1>3. x \in due' \cup cut'
  <2>1. x \notin X
    BY <1>1 DEF Turn
  <2> QED BY <1>1, <2>1 DEF Turn
<1>4. /\ \E c \in 1..nextId' : reg'[c].dead # None /\ reg'[c].name = x.name
      /\ \E c \in 1..nextId' : reg'[c].name = x.name /\ x.topic \in reg'[c].topics
  BY EnrolledStays DEF Laid
<1> QED
  BY <1>1, <1>2, <1>3, <1>4 DEF Laid

\* When no message becomes a dead letter.
LEMMA LettersTurn ==
  ASSUME IInv, Letters, Enrolled, NEW X, NEW Y, NEW N, Turn(X, Y, N),
         DeadLetters' = DeadLetters, \A d \in DeadLetters : OriginOf(d)' = OriginOf(d),
         \A d \in DeadLetters : \A x \in N : PlaceOf(x) # OriginOf(d)
  PROVE  Letters'
<1>1. ASSUME NEW d \in DeadLetters PROVE \E x : Laid(d, x)'
  <2>1. PICK x : Laid(d, x)
    BY DEF Letters
  <2>2. x \notin N
    BY <2>1 DEF Laid
  <2>3. x \notin Y
    BY <2>1 DEF Laid, Turn
  <2> QED BY <2>1, <2>2, <2>3, LaidStays
<1>2. ASSUME NEW d \in DeadLetters
      PROVE  \E c \in 1..nextId' : reg'[c].dead # None /\ reg'[c].dead.topic = d.topic
  BY EnrolledStays DEF Letters
<1> QED
  BY <1>1, <1>2 DEF Letters

\* When the last delivery of a task of settlement m does.
LEMMA LettersBuried ==
  ASSUME IInv, Letters, Enrolled, NEW N, NEW z, Turn({}, {z}, N),
         z \notin N, z \notin Done, Ledger,
         NEW e, e \notin DeadLetters, DeadLetters' = DeadLetters \cup {e},
         OriginOf(e)' = PlaceOf(z), z \in AllTasks,
         \A d \in DeadLetters : OriginOf(d)' = OriginOf(d) /\ OriginOf(d) # PlaceOf(z),
         \A d \in DeadLetters : \A x \in N : PlaceOf(x) # OriginOf(d),
         NEW c \in 1..nextId, reg[c].dead # None, reg[c].name = z.name, Rooted(z),
         reg[c].dead.topic = e.topic
  PROVE  Letters'
<1>1. ASSUME NEW d \in DeadLetters PROVE \E x : Laid(d, x)'
  <2>1. PICK x : Laid(d, x)
    BY DEF Letters
  <2>2. x \notin N
    BY <2>1 DEF Laid
  <2>3. x \notin {z}
    BY <2>1 DEF Laid
  <2> QED BY <2>1, <2>2, <2>3, LaidStays
<1>2. Laid(e, z)'
  <2>1. Copies(z) \in Nat /\ Copies(z) <= 1 /\ Copies(z) > 0
    BY CopiesAreNat DEF Ledger, Single, Turn
  <2>2. Copies(z)' = 0
    BY <2>1 DEF Turn, One
  <2>3. z \in due' \cup cut'
    <3>1. z \in due \cup cut
      BY <2>1 DEF Ledger, Charged
    <3> QED BY <3>1 DEF Turn
  <2>4. /\ \E b \in 1..nextId' : reg'[b].dead # None /\ reg'[b].name = z.name
        /\ \E b \in 1..nextId' : reg'[b].name = z.name /\ z.topic \in reg'[b].topics
    BY EnrolledStays DEF Rooted
  <2> QED BY <2>2, <2>3, <2>4 DEF Laid
<1>3. ASSUME NEW d \in DeadLetters'
      PROVE  \E b \in 1..nextId' : reg'[b].dead # None /\ reg'[b].dead.topic = d.topic
  <2>1. CASE d = e
    BY <2>1, EnrolledStays
  <2>2. CASE d \in DeadLetters
    BY <2>2, EnrolledStays DEF Letters
  <2> QED BY <2>1, <2>2
<1>4. \A d \in DeadLetters' : \E x : Laid(d, x)'
  BY <1>1, <1>2
<1>5. ASSUME NEW d \in DeadLetters', NEW b \in DeadLetters', OriginOf(d)' = OriginOf(b)'
      PROVE  d = b
  <2>1. CASE d \in DeadLetters /\ b \in DeadLetters
    BY <1>5, <2>1 DEF Letters
  <2>2. CASE d = e \/ b = e
    BY <1>5, <2>2
  <2> QED BY <2>1, <2>2
<1> QED
  BY <1>3, <1>4, <1>5 DEF Letters

\* When everybody who reads a topic goes on reading it, or what is due is left.
LEMMA SeatsTurn ==
  ASSUME IInv, Seats, Enrolled, NEW X, NEW Y, NEW N, Turn(X, Y, N), Attached' \subseteq 1..nextId',
         \A x \in due : x \notin cut' /\ Seated(x) => Seated(x)',
         \A x \in N : Seated(x)', LeftBehind', Listings'
  PROVE  Seats'
<1>1. ASSUME NEW x \in due' PROVE x \in cut' \/ Seated(x)'
  <2>1. CASE x \in N
    BY <2>1
  <2>2. CASE x \in due
    <3>1. x \in cut \/ Seated(x)
      BY <2>2 DEF Seats
    <3> QED BY <2>2, <3>1 DEF Turn
  <2> QED BY <2>1, <2>2, <1>1 DEF Turn
<1>2. ASSUME NEW x \in AllTasks, Copies(x)' > 0 PROVE Rooted(x)'
  <2>1. CASE x \in N
    <3>1. PICK c \in Attached' : reg'[c].name = x.name /\ Reads(listed, c, x.topic)'
      BY <2>1 DEF Seated
    <3> QED BY <3>1 DEF Reads, Rooted
  <2>2. CASE x \notin N
    <3>1. Copies(x)' = Copies(x) - One(x \in Y) /\ Copies(x) \in Nat
      BY <2>2, CopiesAreNat DEF Turn
    <3>2. Copies(x) > 0
      BY <1>2, <3>1 DEF One
    <3>3. Rooted(x)
      BY <3>2 DEF Seats
    <3> QED BY <3>3, EnrolledStays DEF Rooted
  <2> QED BY <2>1, <2>2
<1> QED
  BY <1>1, <1>2 DEF Seats

-----------------------------------------------------------------------------
(* Who holds a task *)

\* What a settlement holds is a live task.
LEMMA TaskHeld ==
  ASSUME BInv, up, NEW m \in Slots, settle[m].duty \in {"handle", "timer"}
  PROVE  /\ TaskOf(m) \in AllTasks /\ Copies(TaskOf(m)) > 0
         /\ TaskOf(m).name = reg[settle[m].id].name /\ PlaceOf(TaskOf(m)) = PlaceOf(settle[m].d)
         /\ HeldFor(settle[m], Of(TaskOf(m).name), PlaceOf(TaskOf(m)))
<1> DEFINE s == reg[settle[m].id].name
           x == PlaceOf(settle[m].d)
<1>1. TaskOf(m).name = s /\ PlaceOf(TaskOf(m)) = x
  BY DEF TaskOf, Task, PlaceOf
<1>2. s \in Names /\ x \in Places /\ Outstanding[s][x] > 0
  BY HeldIsOwed
<1>3. Outstanding[s][x] = LiveCopies(s, x)
  BY <1>2, Debts DEF BInv, CInv
<1>4. HeldFor(settle[m], Of(s), x)
  <2>1. \A n \in Names : \A y : HeldFor(settle[m], Of(n), y) <=> n = s /\ Carries(settle[m].d, y)
    BY HeldBy
  <2> QED BY <1>2, <2>1 DEF Carries, PlaceOf
<1>5. TaskOf(m) \in AllTasks
  BY <1>2 DEF TaskOf, Task, AllTasks, PlaceOf, Places
<1> HIDE DEF s, x
<1> QED
  BY <1>1, <1>2, <1>3, <1>4, <1>5 DEF Copies, s, x

\* So what is done and not settled is live.
LEMMA DoneLive ==
  ASSUME BInv, up, Staged, NEW x \in Done
  PROVE  x \in AllTasks /\ Copies(x) > 0
<1>1. PICK m \in Slots : Finished(m) /\ x = TaskOf(m)
  BY DEF Done
<1>2. settle[m].duty = "handle"
  BY <1>1 DEF Staged, Finished
<1> QED
  BY <1>1, <1>2, TaskHeld

\* Of one live copy there is one holder.
LEMMA HoldsApart ==
  ASSUME BInv, up, Single, NEW m \in Slots, settle[m].duty \in {"handle", "timer"},
         NEW n \in Slots, settle[n].duty \in {"handle", "timer"}, TaskOf(m) = TaskOf(n)
  PROVE  m = n
<1> SUFFICES ASSUME n # m PROVE FALSE
  OBVIOUS
<1>1. PICK z : z = TaskOf(m)
  OBVIOUS
<1>2. PICK C : C = Of(z.name)
  OBVIOUS
<1>3. PICK x : x = PlaceOf(z)
  OBVIOUS
<1>4. z \in AllTasks /\ HeldFor(settle[m], C, x) /\ HeldFor(settle[n], C, x)
  <2>1. z \in AllTasks /\ HeldFor(settle[m], Of(z.name), PlaceOf(z))
    BY <1>1, TaskHeld
  <2>2. HeldFor(settle[n], Of(z.name), PlaceOf(z))
    <3>1. z = TaskOf(n)
      BY <1>1
    <3> QED BY <3>1, TaskHeld
  <2> QED BY <1>2, <1>3, <2>1, <2>2
<1>5. HeldIn(settle, C, x) >= 2
  BY <1>4, HeldOnce DEF BInv, CInv, IInv
<1>6. Copies(z) = HandCopies(Hand, z.name, x) + Away(unacked, settle, C, x)
      /\ HandCopies(Hand, z.name, x) \in Nat /\ CopiesAt(unacked, C, x) \in Nat
      /\ HeldIn(settle, C, x) \in Nat
  <2>1. IInv /\ z.name \in Names
    BY <1>4 DEF AllTasks, BInv, CInv
  <2> QED BY <1>2, <1>3, <2>1, LiveParts DEF Copies
<1>7. Copies(z) >= 2
  BY <1>5, <1>6 DEF Away
<1>8. Copies(z) <= 1 /\ Copies(z) \in Nat
  BY <1>4, CopiesAreNat DEF Single, BInv, CInv
<1> QED
  BY <1>7, <1>8

\* What a settlement holds that is not done, nobody has done.
LEMMA NotDone ==
  ASSUME BInv, up, Staged, Single, NEW m \in Slots, settle[m].duty \in {"handle", "timer"},
         ~Finished(m)
  PROVE  TaskOf(m) \notin Done
<1> SUFFICES ASSUME NEW n \in Slots, Finished(n), TaskOf(n) = TaskOf(m) PROVE FALSE
  BY DEF Done
<1>1. settle[n].duty = "handle"
  BY DEF Staged, Finished
<1>2. n = m
  BY <1>1, HoldsApart
<1> QED
  BY <1>2

\* Nor what waits in a queue.
LEMMA QueuedApart ==
  ASSUME BInv, up, Staged, Single, NEW c \in 1..nextId, NEW i \in 1..Len(queue[c]), NEW x,
         x = Task(reg[c].name, queue[c][i].topic, queue[c][i].seq)
  PROVE  x \in AllTasks /\ Copies(x) > 0 /\ x \notin Done
<1> DEFINE s == reg[c].name
           d == queue[c][i]
           e == PlaceOf(d)
<1>1. IInv /\ TypeOK /\ queue \in Queues
  BY DEF BInv, CInv, IInv, TypeOK, Queues
<1>2. c \in Ids /\ c <= nextId /\ reg[c] \in Registrations
  BY <1>1, RouterAssumption DEF TypeOK, Ids
<1>3. s \in Names
  BY <1>2, RouterAssumption DEF Registration
<1>4. Logged(d)
  BY <1>1, <1>2 DEF IInv, DeliveriesAreLogged, AllLogged
<1>5. e \in Places /\ Carries(d, e)
  BY <1>4, LoggedPlaced DEF PlaceOf, Carries
<1>6. x \in AllTasks /\ x.name = s /\ PlaceOf(x) = e
  BY <1>3, <1>5 DEF AllTasks, Task, PlaceOf, Places
<1>7. CopiesIn(queue[c], e) > 0
  <2>1. queue[c] \in Seq(Delivery)
    BY <1>1, <1>2 DEF Queues
  <2> HIDE DEF e
  <2> QED BY <1>5, <2>1, CopyCarried
<1>8. c \in Of(s)
  BY <1>2 DEF Of
<1>9. /\ CopiesAt(queue, Of(s), e) > 0
      /\ CopiesIn(queue[c], e) \in Nat
  <2>1. PICK C : C = Of(s)
    OBVIOUS
  <2>2. queue[c] \in Seq(Delivery)
    BY <1>1, <1>2 DEF Queues
  <2>3. CopiesIn(queue[c], e) \in Nat
    BY <2>2, CopiesNat
  <2>4. CopiesAt(queue, C, e) >= CopiesIn(queue[c], e)
    BY <1>1, <1>2, <1>8, <2>1, CopyKept
  <2>5. CopiesAt(queue, C, e) \in Nat
    BY <1>1, AtNat
  <2> HIDE DEF s, e
  <2> QED BY <1>7, <2>1, <2>3, <2>4, <2>5
<1> HIDE DEF s, d, e
<1>10. /\ LiveCopies(s, e) = HandCopies(Hand, s, e) + Away(unacked, settle, Of(s), e)
       /\ HandCopies(Hand, s, e) = CopiesAt(queue, Of(s), e) + CopiesIn(parked[s], e)
       /\ CopiesAt(queue, Of(s), e) \in Nat /\ CopiesIn(parked[s], e) \in Nat
       /\ CopiesAt(unacked, Of(s), e) \in Nat /\ HeldIn(settle, Of(s), e) \in Nat
  BY <1>1, <1>3, LiveParts
<1>11. Copies(x) = LiveCopies(s, e)
  BY <1>6 DEF Copies
<1>12. Copies(x) > 0
  BY <1>9, <1>10, <1>11 DEF Away
<1>13. ASSUME x \in Done PROVE FALSE
  <2>1. PICK m \in Slots : Finished(m) /\ x = TaskOf(m)
    BY <1>13 DEF Done
  <2>2. settle[m].duty = "handle"
    BY <2>1 DEF Staged, Finished
  <2>3. HeldFor(settle[m], Of(s), e)
    BY <1>6, <2>1, <2>2, TaskHeld
  <2>4. HeldIn(settle, Of(s), e) >= 1
    <3>1. PICK C : C = Of(s)
      OBVIOUS
    <3>2. HeldIn(settle, C, e) >= 1
      BY <1>1, <2>3, <3>1, HeldOnce
    <3> QED BY <3>1, <3>2
  <2>5. Copies(x) >= 2
    BY <1>9, <1>10, <1>11, <2>4 DEF Away
  <2>6. Copies(x) <= 1
    BY <1>6 DEF Single
  <2>7. Copies(x) \in Nat
    BY <1>1, <1>6, CopiesAreNat
  <2> QED BY <2>5, <2>6, <2>7
<1> QED
  BY <1>6, <1>12, <1>13

-----------------------------------------------------------------------------
(* A message that is handed out *)

\* No log grows, no task is added.
LEMMA FreshNone ==
  ASSUME TypeOK, log' = log
  PROVE  Fresh = {}
<1>1. \A x \in Topics : Len(log[x]) \in Nat
  BY DEF TypeOK
<1>2. {x \in Topics : Len(log'[x]) > Len(log[x])} = {}
  BY <1>1
<1> QED
  BY <1>2 DEF Fresh

\* What is appended to a topic.
LEMMA LogAfter ==
  ASSUME TypeOK, NEW t \in Topics, NEW k, NEW o, Deliver(t, k, o)
  PROVE  /\ Len(log[t]) \in Nat /\ Len(log[t]) < MaxEntries /\ Len(log'[t]) = Len(log[t]) + 1
         /\ log'[t][Len(log[t]) + 1].origin = o
         /\ \A i \in 1..Len(log[t]) : log'[t][i] = log[t][i]
         /\ \A x \in Topics : x # t => log'[x] = log[x]
         /\ \A x \in Topics : Len(log[x]) \in Nat
<1>1. /\ log \in [Topics -> Seq(LogEntry)] /\ Len(log[t]) < MaxEntries
      /\ \E at \in Times :
           log' = [log EXCEPT ![t] = Append(@, [key |-> k, at |-> at, origin |-> o])]
  BY DEF TypeOK, Deliver
<1>2. PICK at \in Times :
        log' = [log EXCEPT ![t] = Append(log[t], [key |-> k, at |-> at, origin |-> o])]
  BY <1>1
<1> DEFINE e == [key |-> k, at |-> at, origin |-> o]
<1>3. log' = [log EXCEPT ![t] = Append(log[t], e)] /\ e.origin = o
  BY <1>2
<1> HIDE DEF e
<1>4. log'[t] = Append(log[t], e) /\ log[t] \in Seq(LogEntry)
  BY <1>1, <1>3
<1>5. /\ Len(log'[t]) = Len(log[t]) + 1 /\ log'[t][Len(log[t]) + 1] = e
      /\ \A i \in 1..Len(log[t]) : log'[t][i] = log[t][i]
  BY <1>4
<1> QED
  BY <1>1, <1>3, <1>5

\* Its tasks, one for each subscription that is served.
LEMMA FreshIs ==
  ASSUME TypeOK, NEW t \in Topics, NEW k, NEW o, Deliver(t, k, o)
  PROVE  Fresh = {Task(s, t, Len(log[t]) + 1) : s \in ServedBy(t)}
<1>1. {x \in Topics : Len(log'[x]) > Len(log[x])} = {t}
  BY LogAfter
<1>2. Len(log'[t]) = Len(log[t]) + 1
  BY LogAfter
<1> QED
  BY <1>1, <1>2 DEF Fresh, ServedBy

\* They are new: nobody has a copy of one, no dead letter came of one.
LEMMA FreshApart ==
  ASSUME BInv, OriginIsPublished, up, NEW t \in Topics, NEW k, NEW o, Deliver(t, k, o)
  PROVE  /\ Fresh \subseteq AllTasks /\ \A x \in Fresh : Copies(x) = 0
         /\ \A x \in AllTasks : x \in Fresh <=> x.name \in ServedBy(t) /\ PlaceOf(x) = NextPlace(t)
         /\ \A d \in DeadLetters : \A x \in Fresh : PlaceOf(x) # OriginOf(d)
<1>1. TypeOK
  BY DEF BInv, CInv, IInv
<1>2. Fresh = {Task(s, t, Len(log[t]) + 1) : s \in ServedBy(t)} /\ ServedBy(t) \subseteq Names
  BY <1>1, FreshIs DEF ServedBy
<1>3. Len(log[t]) \in Nat /\ Len(log[t]) + 1 \in 1..MaxEntries
  BY <1>1, LogAfter, RouterAssumption
<1>4. Fresh \subseteq AllTasks
  BY <1>2, <1>3 DEF Task, AllTasks
<1>5. ASSUME NEW x \in Fresh PROVE Copies(x) = 0
  <2>1. x.name \in Names /\ PlaceOf(x) = <<t, Len(log[t]) + 1>>
    BY <1>2 DEF Task, PlaceOf
  <2> QED BY <2>1, NothingOwedYet DEF Copies
<1>6. ASSUME NEW x \in AllTasks
      PROVE  x \in Fresh <=> x.name \in ServedBy(t) /\ PlaceOf(x) = NextPlace(t)
  <2>1. x.name \in ServedBy(t) /\ PlaceOf(x) = NextPlace(t) => x = Task(x.name, t, Len(log[t]) + 1)
    BY DEF AllTasks, Task, PlaceOf, NextPlace
  <2> QED BY <1>2, <2>1 DEF Task, PlaceOf, NextPlace
<1>7. ASSUME NEW d \in DeadLetters, NEW x \in Fresh PROVE PlaceOf(x) # OriginOf(d)
  <2>1. PlaceOf(x) = <<t, Len(log[t]) + 1>>
    BY <1>2 DEF Task, PlaceOf
  <2>2. d.topic \in Topics /\ d.seq \in 1..Len(log[d.topic]) /\ OriginOf(d) # None
    BY <1>1 DEF DeadLetters, OriginOf, TypeOK
  <2>3. OriginOf(d)[2] \in 1..Len(log[OriginOf(d)[1]])
    BY <2>2 DEF OriginIsPublished, OriginOf
  <2> QED BY <1>3, <2>1, <2>3
<1> QED
  BY <1>4, <1>5, <1>6, <1>7

\* The dead letters there are stay, and there is one more if the message is one.
LEMMA LettersAfter ==
  ASSUME TypeOK, NEW t \in Topics, NEW k, NEW o, Deliver(t, k, o),
         NEW e, e = [topic |-> t, seq |-> Len(log[t]) + 1]
  PROVE  /\ \A d \in DeadLetters : OriginOf(d)' = OriginOf(d)
         /\ o = None => DeadLetters' = DeadLetters
         /\ o # None => /\ DeadLetters' = DeadLetters \cup {e} /\ e \notin DeadLetters
                        /\ OriginOf(e)' = o
         /\ \A p : Rested(p) => Rested(p)'
<1> DEFINE D == [topic : Topics, seq : 1..MaxEntries]
<1>1. /\ Len(log[t]) \in Nat /\ Len(log[t]) < MaxEntries /\ Len(log'[t]) = Len(log[t]) + 1
      /\ log'[t][Len(log[t]) + 1].origin = o
      /\ \A i \in 1..Len(log[t]) : log'[t][i] = log[t][i]
      /\ \A x \in Topics : x # t => log'[x] = log[x]
      /\ \A x \in Topics : Len(log[x]) \in Nat
  BY LogAfter
<1>2. e \in D /\ OriginOf(e)' = o /\ e \notin DeadLetters
  <2>1. e.topic = t /\ e.seq = Len(log[t]) + 1
    OBVIOUS
  <2>2. Len(log[t]) + 1 \in 1..MaxEntries
    BY <1>1, RouterAssumption
  <2>3. e \in D
    BY <2>2
  <2>4. OriginOf(e)' = o
    BY <1>1, <2>1 DEF OriginOf
  <2>5. ~(e.seq <= Len(log[e.topic]))
    BY <1>1, <2>1
  <2> QED BY <2>3, <2>4, <2>5 DEF DeadLetters
<1>3. ASSUME NEW d \in D, d # e
      PROVE  /\ d \in DeadLetters' <=> d \in DeadLetters
             /\ d \in DeadLetters => OriginOf(d)' = OriginOf(d)
  <2>1. CASE d.topic # t
    BY <1>1, <2>1 DEF DeadLetters, OriginOf
  <2>2. CASE d.topic = t
    <3>1. d.seq # Len(log[t]) + 1 /\ d.seq \in 1..MaxEntries
      BY <1>3, <2>2
    <3>2. d.seq <= Len(log'[t]) <=> d.seq <= Len(log[t])
      BY <1>1, <3>1, RouterAssumption
    <3>3. d.seq <= Len(log[t]) => log'[t][d.seq] = log[t][d.seq]
      BY <1>1, <3>1, RouterAssumption
    <3> QED BY <2>2, <3>2, <3>3 DEF DeadLetters, OriginOf
  <2> QED BY <2>1, <2>2
<1>4. e \in DeadLetters' <=> o # None
  <2>1. e.topic = t /\ e.seq = Len(log[t]) + 1
    OBVIOUS
  <2>2. e.seq <= Len(log'[e.topic])
    BY <1>1, <2>1
  <2>3. log'[e.topic][e.seq].origin = o
    BY <1>1, <2>1
  <2>4. DeadLetters' = {d \in D : d.seq <= Len(log'[d.topic])
                                  /\ log'[d.topic][d.seq].origin # None}
    BY DEF DeadLetters
  <2> HIDE DEF D
  <2> QED BY <1>2, <2>2, <2>3, <2>4, Zenon
<1>5. DeadLetters \subseteq D /\ DeadLetters' \subseteq D
  BY DEF DeadLetters
<1> HIDE DEF D
<1>6. \A d \in DeadLetters : d \in DeadLetters' /\ OriginOf(d)' = OriginOf(d)
  BY <1>2, <1>3, <1>5
<1>7. \A p : Rested(p) => Rested(p)'
  BY <1>6 DEF Rested
<1>8. \A d : d \in DeadLetters' <=> d \in DeadLetters \/ (d = e /\ o # None)
  <2> TAKE d
  <2>1. CASE d = e
    BY <1>2, <1>4, <2>1
  <2>2. CASE d # e
    BY <1>3, <1>5, <2>2
  <2> QED BY <2>1, <2>2
<1>9. PICK A : A = DeadLetters
  OBVIOUS
<1>10. PICK B : B = DeadLetters'
  OBVIOUS
<1>11. B = IF o # None THEN A \cup {e} ELSE A
  BY <1>8, <1>9, <1>10
<1> QED
  BY <1>2, <1>6, <1>7, <1>9, <1>10, <1>11

-----------------------------------------------------------------------------
(* Who reads a topic *)

\* The members of a subscription are among those asked.
LEMMA MembersAmong ==
  ASSUME NEW ids \in Seq(1..nextId), NEW ls, NEW s, NEW t, NEW M,
         M = MembersOf(ids, ls, s, t), NEW i \in 1..Len(M)
  PROVE  M[i] \in Consumers(ids)
<1> DEFINE S == {c \in 1..nextId : reg[c].name = s /\ Reads(ls, c, t)}
<1>1. M = Select(ids, S)
  BY DEF MembersOf
<1> HIDE DEF S
<1>2. PICK T : T = 1..nextId
  OBVIOUS
<1>3. ids \in Seq(T)
  BY <1>2
<1>4. \E j \in 1..Len(ids) : Select(ids, S)[i] = ids[j]
  BY <1>1, <1>3, SelectProps
<1> QED
  BY <1>1, <1>4 DEF Consumers

\* What a consumer has listed it keeps.
Lists == \A c \in 1..nextId : listed[c] \subseteq listed'[c]

\* A listing only grows.
LEMMA ListingGrows ==
  ASSUME TypeOK, Listings, UNCHANGED <<nextId, reg>>, created \subseteq created',
         NEW due1, listed' = Listing(due1, created')
  PROVE  Listings' /\ Lists
<1>1. \A c \in 1..nextId : c \in Ids
  BY RouterAssumption DEF TypeOK, Ids
<1>2. \A c \in 1..nextId :
        listed'[c] = IF c \in due1 THEN reg[c].topics \cap created' ELSE listed[c]
  BY <1>1 DEF Listing
<1> QED
  BY <1>2 DEF Listings, Lists

\* So who read a topic goes on reading it.
LEMMA SeatedStays ==
  ASSUME TypeOK, Lists, UNCHANGED <<nextId, reg>>, Attached \subseteq Attached', NEW x, Seated(x)
  PROVE  Seated(x)'
<1>1. PICK c \in Attached : reg[c].name = x.name /\ Reads(listed, c, x.topic)
  BY DEF Seated
<1>2. c \in 1..nextId
  BY <1>1, KnownConsumer
<1>3. Reads(listed, c, x.topic)'
  BY <1>1, <1>2 DEF Reads, Lists, IsPattern
<1> QED
  BY <1>1, <1>3 DEF Seated

\* When nothing changes who reads what.
LEMMA SeatsKept ==
  ASSUME BInv, Seats, UNCHANGED <<nextId, reg, attached, created, listed>>, LeftBehind',
         NEW X, NEW Y, Turn(X, Y, {})
  PROVE  Seats'
<1>1. IInv /\ TypeOK
  BY DEF BInv, CInv, IInv
<1>2. Enrolled /\ Attached' = Attached /\ Attached \subseteq 1..nextId
  BY <1>1, RouterAssumption, KnownConsumer DEF Enrolled, TypeOK, Attached
<1>3. Listings'
  BY DEF Seats, Listings
<1>4. \A x \in due : Seated(x) => Seated(x)'
  BY <1>1, <1>2, SeatedStays DEF Lists
<1> QED
  BY <1>1, <1>2, <1>3, <1>4, SeatsTurn

\* Nor what is left.
LEMMA SeatsStill ==
  ASSUME BInv, Seats, UNCHANGED <<nextId, reg, attached, created, listed, unacked, parked>>,
         NEW X, NEW Y, Turn(X, Y, {})
  PROVE  Seats'
<1>1. LeftBehind'
  BY DEF Seats, LeftBehind, Leaves, Turn
<1> QED
  BY <1>1, SeatsKept

\* When a message is handed out: whom it is for reads its topic.
LEMMA SeatsDelivered ==
  ASSUME BInv, Seats, UNCHANGED <<nextId, reg, attached, unacked, parked>>,
         NEW t \in Topics, NEW k, NEW o, Deliver(t, k, o), NEW X, NEW Y, Turn(X, Y, Fresh)
  PROVE  Seats'
<1>1. IInv /\ TypeOK
  BY DEF BInv, CInv, IInv
<1>2. Enrolled /\ Attached' = Attached /\ Attached \subseteq 1..nextId
  BY <1>1, RouterAssumption, KnownConsumer DEF Enrolled, TypeOK, Attached
<1>3. PICK due1 : listed' = Listing(due1, created')
  BY DEF Deliver
<1>4. created \subseteq created'
  BY DEF Deliver
<1>5. Listings' /\ Lists
  BY <1>1, <1>3, <1>4, ListingGrows DEF Seats
<1>6. \A x \in due : Seated(x) => Seated(x)'
  BY <1>1, <1>2, <1>5, SeatedStays
<1>7. LeftBehind'
  BY DEF Seats, LeftBehind, Leaves, Turn
<1>8. ASSUME NEW x \in Fresh PROVE Seated(x)'
  <2>1. PICK s \in ServedBy(t) : x = Task(s, t, Len(log[t]) + 1)
    BY <1>1, FreshIs
  <2>2. PICK M : M = MembersOf(attached, listed', s, t)
    OBVIOUS
  <2>3. M # <<>> /\ attached \in Seq(1..nextId)
    BY <1>1, <2>1, <2>2 DEF ServedBy, TypeOK
  <2>4. /\ M \in Seq(1..nextId)
        /\ \A i \in 1..Len(M) : reg[M[i]].name = s /\ Reads(listed', M[i], t)
    BY <2>2, <2>3, MembersProps
  <2>5. 1 \in 1..Len(M)
    BY <2>3, <2>4
  <2>6. M[1] \in Attached
    <3>1. M[1] \in Consumers(attached)
      BY <2>2, <2>3, <2>5, MembersAmong
    <3> QED BY <3>1 DEF Consumers, Attached
  <2>7. Reads(listed, M[1], t)'
    BY <2>4, <2>5 DEF Reads, IsPattern
  <2> QED BY <1>2, <2>1, <2>4, <2>5, <2>6, <2>7 DEF Seated, Task
<1> QED
  BY <1>1, <1>2, <1>5, <1>6, <1>7, <1>8, SeatsTurn

-----------------------------------------------------------------------------
(* What a step does to the stages *)

\* A service at work: what holds before each of its steps while the broker is open.
Going ==
  /\ MountInv /\ BInv /\ OriginIsPublished /\ Len(opened) <= Len(plan)
  /\ up /\ Straight(plan) /\ Steady

\* The parts of it.
LEMMA GoingParts ==
  ASSUME Going
  PROVE  /\ IInv /\ TypeOK /\ BInv /\ up /\ Staged /\ Ledger /\ Letters /\ Seats
         /\ Single /\ OriginIsPublished /\ nextId \in Nat
         /\ \A x \in Done : x \in AllTasks /\ Copies(x) > 0
<1>1. IInv /\ TypeOK /\ BInv /\ up /\ Staged /\ Ledger /\ Letters /\ Seats /\ Single
      /\ OriginIsPublished
  BY DEF Going, Steady, Ledger, BInv, CInv, IInv
<1>2. nextId \in Nat
  BY <1>1, RouterAssumption DEF TypeOK
<1> QED
  BY <1>1, <1>2, DoneLive

\* Only settlement m and its handler move.
Elsewhere(m) == \A n \in Slots : n # m => stage'[n] = stage[n] /\ settle'[n] = settle[n]

\* What is done follows the one settlement that changed.
LEMMA StageTurn ==
  ASSUME BInv, Staged, Enrolled, NEW m \in Slots, Elsewhere(m), opened' = opened,
         stage' \in [Slots -> Stages],
         stage'[m].do = "none" <=> settle'[m].duty # "handle",
         settle'[m].duty = "handle" => settle'[m].id <= Len(opened)
  PROVE  /\ Staged'
         /\ \A x : x \in Done' => x \in Done \/ (Finished(m)' /\ x = TaskOf(m)')
         /\ \A x : x \in Done => x \in Done' \/ (Finished(m) /\ x = TaskOf(m))
<1>1. Staged'
  BY DEF Staged, Elsewhere
<1>2. ASSUME NEW n \in Slots, n # m, Finished(n) \/ Finished(n)'
      PROVE  TaskOf(n)' = TaskOf(n) /\ (Finished(n)' <=> Finished(n))
  <2>1. stage'[n] = stage[n] /\ settle'[n] = settle[n]
    BY <1>2 DEF Elsewhere
  <2>2. Finished(n)' <=> Finished(n)
    BY <2>1 DEF Finished
  <2>3. settle[n].duty = "handle"
    BY <1>2, <2>2 DEF Finished, Staged
  <2>4. settle[n].id \in 1..nextId
    BY <2>3 DEF BInv, CapInv
  <2>5. reg'[settle[n].id] = reg[settle[n].id]
    BY <2>4, EnrolledStays
  <2> QED BY <2>1, <2>2, <2>5 DEF TaskOf
<1>3. ASSUME NEW x, x \in Done' PROVE x \in Done \/ (Finished(m)' /\ x = TaskOf(m)')
  <2>1. PICK n \in Slots : Finished(n)' /\ x = TaskOf(n)'
    BY <1>3 DEF Done
  <2> QED BY <1>2, <2>1 DEF Done
<1>4. ASSUME NEW x, x \in Done PROVE x \in Done' \/ (Finished(m) /\ x = TaskOf(m))
  <2>1. PICK n \in Slots : Finished(n) /\ x = TaskOf(n)
    BY <1>4 DEF Done
  <2>2. n # m => Finished(n)' /\ x = TaskOf(n)'
    BY <1>2, <2>1
  <2> QED BY <2>1, <2>2 DEF Done
<1> QED
  BY <1>1, <1>3, <1>4

\* Nothing changed.
LEMMA StageStill ==
  ASSUME BInv, Staged, Enrolled, UNCHANGED <<stage, settle>>, Len(opened') >= Len(opened),
         Len(opened) \in Nat, Len(opened') \in Nat
  PROVE  Staged' /\ Done' = Done
<1>1. \A m \in Slots : settle[m].duty = "handle" => settle[m].id \in 1..nextId
  BY DEF BInv, CapInv
<1>2. nextId \in Nat /\ \A m \in Slots : settle[m].duty = "handle" => settle[m].id \in Nat
  BY <1>1 DEF Enrolled
<1>3. Staged'
  BY <1>2 DEF Staged
<1>4. \A m \in Slots : Finished(m)' <=> Finished(m)
  BY DEF Finished
<1>5. ASSUME NEW m \in Slots, Finished(m) PROVE TaskOf(m)' = TaskOf(m)
  <2>1. settle[m].id \in 1..nextId
    BY <1>1, <1>5 DEF Finished, Staged
  <2>2. reg'[settle[m].id] = reg[settle[m].id]
    BY <2>1, EnrolledStays
  <2> QED BY <2>2 DEF TaskOf
<1> QED
  BY <1>3, <1>4, <1>5 DEF Done

-----------------------------------------------------------------------------
(* Steps of one kind *)

\* A step that hands nothing out keeps the ledger and the dead letters.
LEMMA SilentTurn ==
  ASSUME Going, Enrolled, log' = log, NEW X, NEW Y, Turn(X, Y, {})
  PROVE  Ledger' /\ Letters'
<1>1. Ledger'
  BY GoingParts, LedgerTurn
<1>2. DeadLetters' = DeadLetters /\ \A d \in DeadLetters : OriginOf(d)' = OriginOf(d)
  BY DEF DeadLetters, OriginOf
<1> QED
  BY <1>1, <1>2, GoingParts, LettersTurn

\* A step that moves no copy for good.
LEMMA QuietTurn ==
  ASSUME Going, Keeping, due' = due, again' = again, cut \subseteq cut',
         Done' \subseteq Done, Done \subseteq Done' \cup cut'
  PROVE  Turn({}, {}, {}) /\ log' = log
<1>1. log' = log /\ StillOwed
  BY GoingParts DEF Keeping
<1>2. \A x \in AllTasks : Copies(x)' = Copies(x) /\ Copies(x) \in Nat
  BY <1>1, GoingParts, CopiesAreNat DEF StillOwed, Copies
<1>3. \A x \in AllTasks : Rested(PlaceOf(x)) => Rested(PlaceOf(x))'
  BY <1>1 DEF Rested, DeadLetters, OriginOf
<1> QED
  BY <1>1, <1>2, <1>3 DEF Turn, One

\* A step that also leaves everybody where they are.
LEMMA QuietStep ==
  ASSUME Going, Keeping, due' = due, again' = again, cut \subseteq cut',
         Done' \subseteq Done, Done \subseteq Done' \cup cut', Staged',
         UNCHANGED <<nextId, reg, attached, created, listed, unacked, parked>>
  PROVE  Steady'
<1>1. Turn({}, {}, {}) /\ log' = log
  BY QuietTurn
<1>2. Enrolled
  BY GoingParts DEF Enrolled
<1>3. Ledger' /\ Letters'
  BY <1>1, <1>2, SilentTurn
<1>4. Seats'
  BY <1>1, GoingParts, SeatsStill
<1> QED
  BY <1>3, <1>4 DEF Steady

\* A message of a customer or of a handler is handed out, and tasks X are done.
LEMMA HandedOut ==
  ASSUME Going, BInv', up', UNCHANGED <<nextId, reg, attached, unacked, parked, settle>>,
         NEW t \in Topics, NEW k \in Keys, Deliver(t, k, None), NEW X, X \subseteq AllTasks,
         \A x \in X : Copies(x) > 0 /\ x \notin Done /\ x \in Done',
         due' = (due \ X) \cup Fresh, again' = again \cup (X \ due), cut' = cut,
         Done' \subseteq Done \cup X, Done \subseteq Done', Staged'
  PROVE  Steady'
<1>1. /\ Fresh \subseteq AllTasks /\ \A x \in Fresh : Copies(x) = 0
      /\ \A x \in AllTasks : x \in Fresh <=> x.name \in ServedBy(t) /\ PlaceOf(x) = NextPlace(t)
      /\ \A d \in DeadLetters : \A x \in Fresh : PlaceOf(x) # OriginOf(d)
  BY GoingParts, FreshApart
<1>2. Adds(t, Outstanding, ServedBy(t))
  <2>1. IInv' /\ up' = up
    BY GoingParts DEF BInv, CInv, IInv, TypeOK
  <2> QED BY <2>1, GoingParts, PublishAdds
<1>3. \A x \in AllTasks : Copies(x)' = IF x \in Fresh THEN 1 ELSE Copies(x) - One(x \in {})
  <2> TAKE x \in AllTasks
  <2>1. Copies(x) \in Nat /\ x.name \in Names /\ PlaceOf(x) \in Places
    BY GoingParts, CopiesAreNat
  <2>2. Outstanding[x.name][PlaceOf(x)] = Copies(x)
    BY <2>1, GoingParts, Debts DEF Copies
  <2>3. LiveCopies(x.name, PlaceOf(x))'
          = IF x.name \in ServedBy(t) /\ PlaceOf(x) = NextPlace(t) THEN 1 ELSE Copies(x)
    BY <1>2, <2>1, <2>2 DEF Adds
  <2>4. Copies(x)' = IF x \in Fresh THEN 1 ELSE Copies(x)
    BY <1>1, <2>3 DEF Copies
  <2> QED BY <2>1, <2>4 DEF One
<1>4. PICK e : e = [topic |-> t, seq |-> Len(log[t]) + 1]
  OBVIOUS
<1>5. /\ \A d \in DeadLetters : OriginOf(d)' = OriginOf(d)
      /\ DeadLetters' = DeadLetters
      /\ \A p : Rested(p) => Rested(p)'
  <2>1. PICK o : o = None
    OBVIOUS
  <2>2. Deliver(t, k, o)
    BY <2>1
  <2> QED BY <1>4, <2>1, <2>2, GoingParts, LettersAfter
<1>6. Turn(X, {}, Fresh)
  <2>1. \A x \in AllTasks : Rested(PlaceOf(x)) => Rested(PlaceOf(x))'
    BY <1>5
  <2> QED BY <1>1, <1>3, <2>1 DEF Turn
<1>7. Enrolled
  BY GoingParts DEF Enrolled
<1>8. Ledger'
  BY <1>6, GoingParts, LedgerTurn
<1>9. Letters'
  <2>1. PICK N : N = Fresh
    OBVIOUS
  <2> QED BY <1>1, <1>5, <1>6, <1>7, <2>1, GoingParts, LettersTurn
<1>10. Seats'
  <2>1. PICK o : o = None
    OBVIOUS
  <2>2. Deliver(t, k, o)
    BY <2>1
  <2> QED BY <1>6, <2>2, GoingParts, SeatsDelivered
<1> QED
  BY <1>8, <1>9, <1>10 DEF Steady

-----------------------------------------------------------------------------
(* What a straight service runs *)

\* Each of its consumers is one a mount opened.
LEMMA AllConsumed ==
  ASSUME Going, NEW c \in 1..nextId
  PROVE  reg[c] \in Consumed(plan)
<1>1. /\ MountTypeOK /\ OwnAttached /\ Len(opened) <= Len(plan)
      /\ \A i \in 1..Len(opened) : OpenedAs(i)
  BY DEF Going, MountInv
<1>2. plan \in Seq(Mount) /\ Len(opened) \in Nat /\ Len(plan) \in Nat /\ nextId \in Nat
  BY <1>1, GoingParts, OpeningAssumption DEF MountTypeOK
<1>3. CASE c <= Len(opened)
  <2>1. c \in 1..Len(opened) /\ c \in 1..Len(plan)
    BY <1>1, <1>2, <1>3
  <2>2. reg[c] = RegistrationOf(Intended(plan[c]))
    BY <1>1, <2>1 DEF OpenedAs
  <2> QED BY <2>1, <2>2 DEF Consumed
<1>4. CASE c > Len(opened)
  <2>1. phase = "attached" /\ c = nextId /\ c = Len(opened) + 1
    BY <1>1, <1>2, <1>4 DEF MountTypeOK
  <2>2. Len(opened) < Len(plan) /\ reg[c] = RegistrationOf(Intended(plan[c]))
    BY <1>1, <2>1 DEF OwnAttached, Mounting, Current
  <2>3. c \in 1..Len(plan)
    BY <1>2, <2>1, <2>2
  <2> QED BY <2>2, <2>3 DEF Consumed
<1> QED
  BY <1>2, <1>3, <1>4

\* Its handlers ask for no move, and what they are done with they settle for good.
LEMMA BodyIs ==
  ASSUME Going, NEW m \in Slots, settle[m].duty = "handle", NEW odd,
         NEW b, b = Body(HandlerOf(settle[m].id), m, odd)
  PROVE  /\ b.do \in Outcomes \ {"run"} /\ b.to = None /\ b.owed = {}
         /\ b.done \in BOOLEAN /\ (b.done <=> b.do \in {"ack", "drop"})
<1>1. settle[m].id \in 1..Len(plan)
  <2>1. settle[m].id \in 1..nextId /\ settle[m].id <= Len(opened)
    BY GoingParts DEF BInv, CapInv, Staged
  <2>2. plan \in Seq(Mount) /\ Len(opened) \in Nat /\ Len(opened) <= Len(plan)
    BY OpeningAssumption DEF Going, MountInv, MountTypeOK
  <2> QED BY <2>1, <2>2, GoingParts
<1>2. PICK h : h = HandlerOf(settle[m].id)
  OBVIOUS
<1>3. h \notin Movers
  BY <1>1, <1>2 DEF Going, Straight, HandlerOf
<1>4. \A do : /\ Refused(do).do = do /\ Refused(do).to = None /\ Refused(do).owed = {}
              /\ Refused(do).done = FALSE
  BY DEF Refused, Step
<1>5. \A do, done : /\ Step(do, done).do = do /\ Step(do, done).to = None
                    /\ Step(do, done).owed = {} /\ Step(do, done).done = done
  BY DEF Step
<1> DEFINE Fine(a) == /\ a.do \in Outcomes \ {"run"} /\ a.to = None /\ a.owed = {}
                      /\ a.done \in BOOLEAN /\ (a.done <=> a.do \in {"ack", "drop"})
<1>6. Fine(Step("ack", TRUE)) /\ Fine(Step("drop", TRUE)) /\ Fine(Step("send", FALSE))
      /\ Fine(Step("retry", FALSE))
  BY <1>5 DEF Outcomes
<1>7. Fine(Calling("retry")) /\ Fine(Calling("retry_after"))
  <2>1. Fine(Refused("retry")) /\ Fine(Refused("retry_after"))
    BY <1>4 DEF Outcomes
  <2> HIDE DEF Fine
  <2> QED BY <1>6, <2>1 DEF Calling
<1>8. Fine(Project(m, odd))
  BY DEF Project, Step, Outcomes
<1> HIDE DEF Fine
<1>9. Fine(ProcessRefund(odd))
  BY <1>5, <1>6, <1>7 DEF ProcessRefund
<1>10. Fine(Reserve(odd)) /\ Fine(Fulfil(odd)) /\ Fine(Issue) /\ Fine(Upload) /\ Fine(Book(odd))
       /\ Fine(Handle(odd)) /\ Fine(Ship(odd)) /\ Fine(Pack) /\ Fine(Note)
  BY <1>6, <1>7 DEF Reserve, Fulfil, Issue, Upload, Book, Handle, Ship, Pack, Note
<1>11. Fine(Body(h, m, odd))
  BY <1>3, <1>8, <1>9, <1>10 DEF Body, Movers
<1> QED
  BY <1>2, <1>11 DEF Fine

-----------------------------------------------------------------------------
(* The steps of a straight service: a settlement through the framework *)

\* A task is its subscription and its place.
LEMMA OneTask ==
  ASSUME NEW x \in AllTasks, NEW z \in AllTasks, x.name = z.name, PlaceOf(x) = PlaceOf(z)
  PROVE  x = z
BY DEF AllTasks, PlaceOf

\* The handler takes a delivery.
LEMMA TakeSteady ==
  ASSUME Going, BInv', NEW m \in Slots, NEW c \in Ids, Take(m, c)
  PROVE  Steady'
<1>1. /\ Poll(m, c) /\ m \notin Holding /\ c <= Len(opened)
      /\ UNCHANGED <<mountVars, due, again, cut>>
      /\ \E odd \in BOOLEAN :
           stage' = [stage EXCEPT ![m] = [NoStage EXCEPT !.do = "run", !.odd = odd]]
  BY DEF Take
<1>2. IInv' /\ Enrolled
  BY <1>1, GoingParts DEF BInv, CInv, Poll, registry, Enrolled
<1>3. Keeping
  BY <1>1, <1>2, GoingParts, PollPromise
<1>4. stage[m].do = "none" /\ ~Finished(m)
  BY <1>1 DEF Holding, Finished
<1>5. /\ stage' \in [Slots -> Stages] /\ stage'[m].do = "run"
      /\ \A n \in Slots : n # m => stage'[n] = stage[n]
  <2>1. PICK odd \in BOOLEAN :
          stage' = [stage EXCEPT ![m] = [NoStage EXCEPT !.do = "run", !.odd = odd]]
    BY <1>1
  <2>2. [NoStage EXCEPT !.do = "run", !.odd = odd] \in Stages
    BY DEF NoStage, Stages, Outcomes
  <2> QED BY <2>1, <2>2, GoingParts DEF Staged, NoStage
<1>6. settle'[m].duty = "handle" /\ settle'[m].id = c /\ Elsewhere(m)
  BY <1>1, <1>5, GoingParts DEF Poll, TypeOK, Elsewhere
<1>7. opened' = opened
  BY <1>1 DEF mountVars
<1>8. /\ Staged'
      /\ \A x : x \in Done' => x \in Done \/ (Finished(m)' /\ x = TaskOf(m)')
      /\ \A x : x \in Done => x \in Done' \/ (Finished(m) /\ x = TaskOf(m))
  BY <1>1, <1>2, <1>5, <1>6, <1>7, GoingParts, StageTurn
<1>9. ~Finished(m)'
  BY <1>5 DEF Finished
<1>10. Done' \subseteq Done /\ Done \subseteq Done' \cup cut'
  BY <1>4, <1>8, <1>9
<1>11. UNCHANGED <<nextId, reg, attached, created, listed, unacked, parked>>
  BY <1>1 DEF Poll, registry, topicVars
<1> QED
  BY <1>1, <1>3, <1>8, <1>10, <1>11, QuietStep

\* Its body runs.
LEMMA RunSteady ==
  ASSUME Going, BInv', NEW m \in Slots, Run(m)
  PROVE  Steady'
<1>1. PICK b : /\ b = Body(HandlerOf(settle[m].id), m, stage[m].odd)
               /\ stage' = [stage EXCEPT ![m].do = b.do, ![m].to = b.to, ![m].owed = b.owed]
               /\ IF b.done THEN Finish(TaskOf(m)) ELSE UNCHANGED <<due, again>>
  BY DEF Run
<1>2. stage[m].do = "run" /\ UNCHANGED <<vars, mountVars, cut>>
  BY DEF Run
<1>3. settle[m].duty = "handle" /\ ~Finished(m)
  BY <1>2, GoingParts DEF Staged, Finished
<1>4. /\ b.do \in Outcomes \ {"run"} /\ b.to = None /\ b.owed = {}
      /\ b.done \in BOOLEAN /\ (b.done <=> b.do \in {"ack", "drop"})
  <2>1. PICK odd : odd = stage[m].odd
    OBVIOUS
  <2>2. b = Body(HandlerOf(settle[m].id), m, odd)
    BY <1>1, <2>1
  <2> QED BY <1>3, <2>2, BodyIs
<1>5. /\ stage' \in [Slots -> Stages] /\ stage'[m].do = b.do
      /\ \A n \in Slots : n # m => stage'[n] = stage[n]
  <2>1. PICK v : v = [stage[m] EXCEPT !.do = b.do, !.to = b.to, !.owed = b.owed]
    OBVIOUS
  <2>2. stage \in [Slots -> Stages] /\ stage[m] \in Stages
    BY GoingParts DEF Staged
  <2>3. stage' = [stage EXCEPT ![m] = v]
    BY <1>1, <2>1, <2>2
  <2>4. v \in Stages /\ v.do = b.do
    BY <1>4, <2>1, <2>2 DEF Stages
  <2> QED BY <2>2, <2>3, <2>4
<1>6. /\ UNCHANGED <<nextId, reg, attached, created, listed, log, queue, unacked, parked,
                     settle, swap, up>>
      /\ opened' = opened
  BY <1>2 DEF vars, mountVars
<1>7. Enrolled /\ Elsewhere(m)
  BY <1>5, <1>6, GoingParts DEF Enrolled, Elsewhere
<1>8. /\ Staged'
      /\ \A x : x \in Done' => x \in Done \/ (Finished(m)' /\ x = TaskOf(m)')
      /\ \A x : x \in Done => x \in Done' \/ (Finished(m) /\ x = TaskOf(m))
  <2>1. settle'[m].duty = "handle" /\ settle'[m].id <= Len(opened)
    BY <1>3, <1>6, GoingParts DEF Staged
  <2>2. stage'[m].do # "none"
    BY <1>4, <1>5 DEF Outcomes
  <2> QED BY <1>5, <1>6, <1>7, <2>1, <2>2, GoingParts, StageTurn
<1>9. PICK z : z = TaskOf(m)
  OBVIOUS
<1>10. TaskOf(m)' = z /\ (Finished(m)' <=> b.done)
  BY <1>4, <1>5, <1>6, <1>9 DEF TaskOf, Finished
<1>11. z \in AllTasks /\ Copies(z) > 0 /\ z \notin Done
  BY <1>3, <1>9, GoingParts, TaskHeld, NotDone
<1>12. Keeping /\ Fresh = {}
  BY <1>6, GoingParts, CopiesKept, FreshNone DEF Keeping
<1>13. \A x \in AllTasks : Copies(x)' = Copies(x) /\ Copies(x) \in Nat
  BY <1>12, GoingParts, CopiesAreNat DEF Keeping, StillOwed, Copies
<1>14. \A x \in AllTasks : Rested(PlaceOf(x)) => Rested(PlaceOf(x))'
  BY <1>6 DEF Rested, DeadLetters, OriginOf
<1>15. PICK X : X = IF b.done THEN {z} ELSE {}
  OBVIOUS
<1>16. Turn(X, {}, {})
  <2>1. due' = (due \ X) \cup {} /\ again' = again \cup (X \ due)
    BY <1>1, <1>4, <1>9, <1>12, <1>15 DEF Finish
  <2>2. \A x \in X : x = z /\ Finished(m)'
    BY <1>10, <1>15
  <2>3. \A x \in X : Copies(x) > 0 /\ x \notin Done /\ x \in Done'
    BY <1>10, <1>11, <2>2 DEF Done
  <2>4. Done' \subseteq Done \cup X
    BY <1>4, <1>8, <1>10, <1>15
  <2>5. Done \subseteq Done'
    BY <1>3, <1>8
  <2>6. X \subseteq AllTasks
    BY <1>11, <1>15
  <2> QED BY <1>2, <1>13, <1>14, <2>1, <2>3, <2>4, <2>5, <2>6 DEF Turn, One
<1>17. Ledger' /\ Letters'
  BY <1>6, <1>7, <1>16, SilentTurn
<1>18. Seats'
  BY <1>6, <1>16, GoingParts, SeatsStill
<1> QED
  BY <1>8, <1>17, <1>18 DEF Steady

\* A shipment is published.
LEMMA SendSteady ==
  ASSUME Going, BInv', up', NEW m \in Slots, Send(m)
  PROVE  Steady'
<1>1. PICK k \in ShipmentKeys(m) : Deliver(Shipments, k, None)
  BY GoingParts DEF Send
<1>2. /\ stage[m].do = "send" /\ up /\ Deliver(Shipments, k, None)
      /\ UNCHANGED <<up, registry, unacked, parked, settle, swap>>
      /\ Finish(TaskOf(m)) /\ stage' = [stage EXCEPT ![m].do = "ack"]
      /\ UNCHANGED <<mountVars, cut>>
  BY <1>1, GoingParts DEF Send
<1>3. k \in Keys /\ Shipments \in Topics
  BY <1>1, OpeningAssumption, ServicesAssumption DEF ShipmentKeys
<1>4. settle[m].duty = "handle" /\ ~Finished(m)
  BY <1>2, GoingParts DEF Staged, Finished
<1>5. /\ stage' \in [Slots -> Stages] /\ stage'[m].do = "ack"
      /\ \A n \in Slots : n # m => stage'[n] = stage[n]
  BY <1>2, GoingParts DEF Staged, Stages, Outcomes
<1>6. UNCHANGED <<nextId, reg, attached, unacked, parked, settle>> /\ opened' = opened
  BY <1>2 DEF registry, mountVars
<1>7. Enrolled /\ Elsewhere(m)
  BY <1>5, <1>6, GoingParts DEF Enrolled, Elsewhere
<1>8. /\ Staged'
      /\ \A x : x \in Done' => x \in Done \/ (Finished(m)' /\ x = TaskOf(m)')
      /\ \A x : x \in Done => x \in Done' \/ (Finished(m) /\ x = TaskOf(m))
  <2>1. settle'[m].duty = "handle" /\ settle'[m].id <= Len(opened)
    BY <1>4, <1>6, GoingParts DEF Staged
  <2> QED BY <1>5, <1>6, <1>7, <2>1, GoingParts, StageTurn
<1>9. PICK z : z = TaskOf(m)
  OBVIOUS
<1>10. TaskOf(m)' = z /\ Finished(m)'
  BY <1>5, <1>6, <1>9 DEF TaskOf, Finished
<1>11. z \in AllTasks /\ Copies(z) > 0 /\ z \notin Done /\ z \in Done'
  <2>1. z \in AllTasks /\ Copies(z) > 0 /\ z \notin Done
    BY <1>4, <1>9, GoingParts, TaskHeld, NotDone
  <2> QED BY <1>10, <2>1 DEF Done
<1>12. PICK X : X = {z}
  OBVIOUS
<1>13. due' = (due \ X) \cup Fresh /\ again' = again \cup (X \ due) /\ cut' = cut
  BY <1>2, <1>9, <1>12 DEF Finish
<1>14. Done' \subseteq Done \cup X /\ Done \subseteq Done'
  BY <1>4, <1>8, <1>10, <1>12
<1>15. X \subseteq AllTasks /\ \A x \in X : Copies(x) > 0 /\ x \notin Done /\ x \in Done'
  BY <1>11, <1>12
<1>16. PICK t \in Topics : t = Shipments
  BY <1>3
<1>17. Deliver(t, k, None)
  BY <1>2, <1>16
<1> QED
  BY <1>3, <1>6, <1>8, <1>13, <1>14, <1>15, <1>17, HandedOut

\* How far a settlement has come once the framework settled it.
LEMMA SettledStage ==
  ASSUME Going, Enrolled, NEW m \in Slots, stage' = [stage EXCEPT ![m] = NoStage],
         \A n \in Slots : n # m => settle'[n] = settle[n], settle'[m].duty # "handle",
         opened' = opened
  PROVE  /\ Staged' /\ Done' \subseteq Done
         /\ \A x : x \in Done => x \in Done' \/ (Finished(m) /\ x = TaskOf(m))
<1>1. NoStage \in Stages /\ NoStage.do = "none"
  BY DEF NoStage, Stages
<1>2. /\ stage' \in [Slots -> Stages] /\ stage'[m].do = "none"
      /\ \A n \in Slots : n # m => stage'[n] = stage[n]
  BY <1>1, GoingParts DEF Staged
<1>3. ~Finished(m)' /\ Elsewhere(m)
  BY <1>2 DEF Finished, Elsewhere
<1> QED
  BY <1>2, <1>3, GoingParts, StageTurn

\* What is done is acknowledged.
LEMMA AckSteady ==
  ASSUME Going, BInv', NEW m \in Slots, Ack(m), Finished(m),
         stage' = [stage EXCEPT ![m] = NoStage], due' = due \cup Fresh,
         again' = again, cut' = cut, opened' = opened
  PROVE  Steady'
<1>1. /\ settle[m].duty = "handle"
      /\ UNCHANGED <<up, nextId, reg, attached, created, listed, log, unacked, parked>>
      /\ Becomes(m, "none", FALSE)
  BY DEF Ack, registry, topicVars
<1>2. IInv' /\ Enrolled
  BY <1>1, GoingParts DEF BInv, CInv, Enrolled
<1>3. PICK z : z = TaskOf(m)
  OBVIOUS
<1>4. /\ z \in AllTasks /\ Copies(z) > 0 /\ z \in Done
      /\ z.name = reg[settle[m].id].name /\ PlaceOf(z) = PlaceOf(settle[m].d)
  BY <1>1, <1>3, GoingParts, TaskHeld DEF Done
<1>5. \A x \in AllTasks : Copies(x)' = Copies(x) - One(x \in {z}) /\ Copies(x) \in Nat
  <2> TAKE x \in AllTasks
  <2>1. Copies(x) \in Nat /\ x.name \in Names /\ PlaceOf(x) \in Places
    BY GoingParts, CopiesAreNat
  <2>2. LiveCopies(x.name, PlaceOf(x))' = LiveCopies(x.name, PlaceOf(x))
          - One(x.name = reg[settle[m].id].name /\ PlaceOf(settle[m].d) = PlaceOf(x))
    BY <1>2, <2>1, GoingParts, AckTakes
  <2>3. x.name = reg[settle[m].id].name /\ PlaceOf(settle[m].d) = PlaceOf(x) <=> x \in {z}
    BY <1>4, OneTask
  <2> QED BY <2>1, <2>2, <2>3 DEF Copies
<1>6. /\ Staged' /\ Done' \subseteq Done
      /\ \A x : x \in Done => x \in Done' \/ (Finished(m) /\ x = TaskOf(m))
  <2>1. settle'[m].duty # "handle" /\ \A n \in Slots : n # m => settle'[n] = settle[n]
    BY <1>1, GoingParts DEF Becomes, Idle, TypeOK
  <2> QED BY <1>2, <2>1, SettledStage
<1>7. Fresh = {}
  BY <1>1, GoingParts, FreshNone
<1>8. \A x \in AllTasks : Rested(PlaceOf(x)) => Rested(PlaceOf(x))'
  BY <1>1 DEF Rested, DeadLetters, OriginOf
<1>9. Turn({}, {z}, {})
  BY <1>3, <1>4, <1>5, <1>6, <1>7, <1>8 DEF Turn
<1>10. Ledger' /\ Letters'
  BY <1>1, <1>2, <1>9, SilentTurn
<1>11. Seats'
  BY <1>1, <1>9, GoingParts, SeatsStill
<1> QED
  BY <1>6, <1>10, <1>11 DEF Steady

\* What is to be tried later waits for its timer.
LEMMA NackAfterSteady ==
  ASSUME Going, BInv', NEW m \in Slots, NackAfter(m), stage[m].do = "retry_after",
         stage' = [stage EXCEPT ![m] = NoStage], due' = due \cup Fresh,
         again' = again, cut' = cut, opened' = opened
  PROVE  Steady'
<1>1. /\ UNCHANGED <<nextId, reg, attached, created, listed, log, unacked, parked>>
      /\ Becomes(m, "timer", TRUE)
  BY DEF NackAfter, registry, topicVars
<1>2. IInv' /\ Enrolled
  BY <1>1, GoingParts DEF BInv, CInv, Enrolled
<1>3. Keeping /\ Fresh = {}
  BY <1>1, <1>2, GoingParts, NackAfterPromise, FreshNone
<1>4. /\ Staged' /\ Done' \subseteq Done
      /\ \A x : x \in Done => x \in Done' \/ (Finished(m) /\ x = TaskOf(m))
  <2>1. settle'[m].duty # "handle" /\ \A n \in Slots : n # m => settle'[n] = settle[n]
    BY <1>1, GoingParts DEF Becomes, Idle, TypeOK
  <2> QED BY <1>2, <2>1, SettledStage
<1>5. ~Finished(m)
  BY DEF Finished
<1>6. Done \subseteq Done' \cup cut'
  BY <1>4, <1>5
<1> QED
  BY <1>1, <1>3, <1>4, <1>6, QuietStep

-----------------------------------------------------------------------------
(* The steps of a straight service: what is tried again *)

\* What only those read who left is left to whoever comes.
LEMMA Unread ==
  ASSUME Going, NEW z \in AllTasks, Copies(z) > 0, z \notin Done,
         MembersOf(attached, listed, z.name, z.topic) = <<>>
  PROVE  z \in cut
<1>1. z \in due \cup cut
  BY GoingParts DEF Ledger, Charged
<1>2. z \in due => z \in cut \/ Seated(z)
  BY GoingParts DEF Seats
<1>3. ~Seated(z)
  <2>1. attached \in Seq(1..nextId)
    BY GoingParts DEF TypeOK
  <2>2. \A j \in 1..Len(attached) :
          ~(reg[attached[j]].name = z.name /\ Reads(listed, attached[j], z.topic))
    BY <2>1, MembersProps
  <2> QED BY <2>2 DEF Seated, Attached
<1> QED
  BY <1>1, <1>2, <1>3

\* So what is parked for it.
LEMMA LeavesOne ==
  ASSUME NEW C, NEW s, NEW ds \in Seq(Delivery), Leaves(C, s, ds), NEW d \in Delivery,
         Task(s, d.topic, d.seq) \in C
  PROVE  Leaves(C, s, Append(ds, d))
<1>1. \A i \in 1..Len(Append(ds, d)) :
        Append(ds, d)[i] = d \/ \E j \in 1..Len(ds) : Append(ds, d)[i] = ds[j]
  BY AppendAll
<1> QED
  BY <1>1 DEF Leaves

\* A message that a straight service hands out is no dead letter, so that its own dead
\* letter names it, and no other does.
LEMMA OwnLetter ==
  ASSUME Going, NEW m \in Slots, settle[m].duty \in {"handle", "timer"}, ~Finished(m),
         reg[settle[m].id].dead # None
  PROVE  /\ StampOrigin(settle[m].d) = PlaceOf(TaskOf(m))
         /\ \A d \in DeadLetters : OriginOf(d) # PlaceOf(TaskOf(m))
<1>1. PICK c : c = settle[m].id
  OBVIOUS
<1>2. PICK d : d = settle[m].d
  OBVIOUS
<1>3. PICK z : z = TaskOf(m)
  OBVIOUS
<1>4. /\ z \in AllTasks /\ Copies(z) > 0 /\ z.name = reg[c].name /\ PlaceOf(z) = PlaceOf(d)
      /\ c \in 1..nextId /\ Logged(d) /\ reg[c].dead # None
  BY <1>1, <1>2, <1>3, GoingParts, TaskHeld, HeldBy
<1>5. PICK b \in 1..nextId : reg[b].name = z.name /\ z.topic \in reg[b].topics
  BY <1>4, GoingParts DEF Seats, Rooted
<1>6. reg[b] \in Consumed(plan) /\ reg[c] \in Consumed(plan)
  BY <1>4, AllConsumed
<1>7. \A r, x \in Consumed(plan) : r.dead # None /\ x.name = r.name =>
        /\ r.name # reg[c].name => x.topics \cap reg[b].topics = {}
        /\ r.dead.topic \notin reg[b].topics
  BY <1>4, <1>5, <1>6 DEF Going, Straight
<1>8. z.topic = d.topic /\ z.seq = d.seq
  BY <1>4 DEF PlaceOf
<1>9. log[d.topic][d.seq].origin = None
  <2> SUFFICES ASSUME log[d.topic][d.seq].origin # None PROVE FALSE
    OBVIOUS
  <2>1. PICK e : e = [topic |-> d.topic, seq |-> d.seq]
    OBVIOUS
  <2>2. e.topic = d.topic /\ e.seq = d.seq /\ e \in [topic : Topics, seq : 1..MaxEntries]
    BY <1>4, <1>8, <2>1 DEF AllTasks
  <2>3. e.seq <= Len(log[e.topic])
    BY <1>4, <2>2, GoingParts DEF Logged, TypeOK
  <2>4. e \in DeadLetters
    BY <2>2, <2>3 DEF DeadLetters
  <2>5. PICK f \in 1..nextId : reg[f].dead # None /\ reg[f].dead.topic = e.topic
    BY <2>4, GoingParts DEF Letters
  <2>6. reg[f] \in Consumed(plan)
    BY AllConsumed
  <2>7. reg[f].dead.topic \notin reg[b].topics
    BY <1>7, <2>5, <2>6
  <2> QED BY <1>5, <1>8, <2>2, <2>5, <2>7
<1>10. StampOrigin(d) = PlaceOf(z)
  BY <1>4, <1>9 DEF StampOrigin, PlaceOf
<1>11. ASSUME NEW e \in DeadLetters, OriginOf(e) = PlaceOf(z) PROVE FALSE
  <2>1. PICK x : Laid(e, x)
    BY GoingParts DEF Letters
  <2>2. x \in AllTasks /\ PlaceOf(x) = PlaceOf(z) /\ Copies(x) = 0
    BY <1>11, <2>1 DEF Laid
  <2>3. x.name # z.name
    BY <1>4, <2>2, OneTask
  <2>4. PICK g \in 1..nextId : reg[g].dead # None /\ reg[g].name = x.name
    BY <2>1 DEF Laid
  <2>5. PICK h \in 1..nextId : reg[h].name = x.name /\ x.topic \in reg[h].topics
    BY <2>1 DEF Laid
  <2>6. reg[g] \in Consumed(plan) /\ reg[h] \in Consumed(plan)
    BY AllConsumed
  <2>7. reg[h].topics \cap reg[b].topics = {}
    BY <1>4, <1>7, <2>3, <2>4, <2>5, <2>6
  <2>8. x.topic = z.topic
    BY <2>2 DEF PlaceOf
  <2> QED BY <1>5, <2>5, <2>7, <2>8
<1> QED
  BY <1>2, <1>3, <1>10, <1>11

\* A message becomes a dead letter.
LEMMA BuriedSteady ==
  ASSUME Going, BInv', up', NEW m \in Slots, ~Finished(m), DeadLettered(m), attached' = attached,
         due' = due \cup Fresh, again' = again, cut' = cut,
         Staged', Done' \subseteq Done, Done \subseteq Done'
  PROVE  Steady'
<1>1. PICK c : c = settle[m].id
  OBVIOUS
<1>2. PICK d : d = settle[m].d
  OBVIOUS
<1>3. PICK z : z = TaskOf(m)
  OBVIOUS
<1>4. /\ settle[m].duty \in {"handle", "timer"}
      /\ reg[c].dead # None /\ reg[c].dead.topic \in Topics /\ KeyOf(d) \in Keys
      /\ Deliver(reg[c].dead.topic, KeyOf(d), StampOrigin(d))
      /\ UNCHANGED <<nextId, reg, unacked, parked, up>>
      /\ \E counted \in BOOLEAN : Becomes(m, "none", counted)
  BY <1>1, <1>2, GoingParts DEF DeadLettered
<1>5. PICK t \in Topics : t = reg[c].dead.topic
  BY <1>4
<1>6. PICK k \in Keys : k = KeyOf(d)
  BY <1>4
<1>7. PICK o : o = PlaceOf(z)
  OBVIOUS
<1>8. /\ z \in AllTasks /\ Copies(z) > 0 /\ z.name = reg[c].name /\ PlaceOf(z) = PlaceOf(d)
      /\ c \in 1..nextId /\ z \notin Done
  BY <1>1, <1>2, <1>3, <1>4, GoingParts, TaskHeld, HeldBy, NotDone
<1>9. StampOrigin(d) = o /\ \A e \in DeadLetters : OriginOf(e) # o
  BY <1>1, <1>2, <1>3, <1>4, <1>7, OwnLetter
<1>10. Deliver(t, k, o)
  BY <1>4, <1>5, <1>6, <1>9
<1>11. PICK N : N = Fresh
  OBVIOUS
<1>12. /\ N \subseteq AllTasks /\ \A x \in N : Copies(x) = 0
       /\ \A x \in AllTasks : x \in N <=> x.name \in ServedBy(t) /\ PlaceOf(x) = NextPlace(t)
       /\ \A e \in DeadLetters : \A x \in N : PlaceOf(x) # OriginOf(e)
  BY <1>10, <1>11, GoingParts, FreshApart
<1>13. \A x \in AllTasks : Copies(x)' = IF x \in N THEN 1 ELSE Copies(x) - One(x \in {z})
  <2>1. IInv'
    BY DEF BInv, CInv
  <2>2. z.name \in Names /\ PlaceOf(z) \in Places
    BY <1>8, GoingParts, CopiesAreNat
  <2>3. Adds(t, Promise!Minus(z.name, PlaceOf(z)), ServedBy(t))
    <3>1. Adds(t, Promise!Minus(reg[settle[m].id].name, PlaceOf(settle[m].d)), ServedBy(t))
      BY <1>4, <1>10, <2>1, GoingParts, DeadLetterAdds
    <3> QED BY <1>1, <1>2, <1>8, <3>1
  <2>4. \A n \in Names : \A x \in Places : Promise!Minus(z.name, PlaceOf(z))[n][x]
          = LiveCopies(n, x) - One(n = z.name /\ PlaceOf(z) = x)
    BY <2>2, GoingParts, MinusOne
  <2> TAKE x \in AllTasks
  <2>5. x.name \in Names /\ PlaceOf(x) \in Places
    BY GoingParts, CopiesAreNat
  <2>6. x.name = z.name /\ PlaceOf(z) = PlaceOf(x) <=> x \in {z}
    BY <1>8, OneTask
  <2>7. LiveCopies(x.name, PlaceOf(x))'
          = IF x.name \in ServedBy(t) /\ PlaceOf(x) = NextPlace(t) THEN 1
            ELSE LiveCopies(x.name, PlaceOf(x)) - One(x \in {z})
    BY <2>3, <2>4, <2>5, <2>6 DEF Adds
  <2> QED BY <1>12, <2>7 DEF Copies
<1>14. o # None
  BY <1>7, <1>8, NoneAssumption DEF PlaceOf, AllTasks
<1>15. PICK e : e = [topic |-> t, seq |-> Len(log[t]) + 1]
  OBVIOUS
<1>16. /\ \A f \in DeadLetters : OriginOf(f)' = OriginOf(f)
       /\ DeadLetters' = DeadLetters \cup {e} /\ e \notin DeadLetters
       /\ OriginOf(e)' = o
       /\ \A p : Rested(p) => Rested(p)'
  BY <1>10, <1>14, <1>15, GoingParts, LettersAfter
<1>17. Turn({}, {z}, N)
  <2>1. Rested(PlaceOf(z))'
    BY <1>7, <1>16 DEF Rested
  <2>2. \A x \in AllTasks : Rested(PlaceOf(x)) => Rested(PlaceOf(x))'
    BY <1>16
  <2> QED BY <1>8, <1>11, <1>12, <1>13, <2>1, <2>2 DEF Turn
<1>18. Enrolled
  BY <1>4, GoingParts DEF Enrolled
<1>19. Ledger'
  BY <1>17, GoingParts, LedgerTurn
<1>20. Letters'
  <2>1. z \notin N
    BY <1>8, <1>12
  <2>2. Rooted(z)
    BY <1>8, GoingParts DEF Seats
  <2>3. OriginOf(e)' = PlaceOf(z) /\ reg[c].dead.topic = e.topic
    BY <1>5, <1>7, <1>15, <1>16
  <2>4. \A f \in DeadLetters : OriginOf(f)' = OriginOf(f) /\ OriginOf(f) # PlaceOf(z)
    BY <1>7, <1>9, <1>16
  <2> QED BY <1>4, <1>8, <1>12, <1>16, <1>17, <1>18, <2>1, <2>2, <2>3, <2>4, GoingParts,
             LettersBuried
<1>21. Seats'
  BY <1>4, <1>10, <1>11, <1>17, GoingParts, SeatsDelivered
<1> QED
  BY <1>19, <1>20, <1>21 DEF Steady

\* One delivery more that is parked, or kept on its consumer.
LEMMA ParkedOne ==
  ASSUME TypeOK, LeftBehind, cut \subseteq cut', UNCHANGED <<nextId, reg, unacked>>,
         NEW s \in Names, NEW d \in Delivery,
         parked' = [parked EXCEPT ![s] = Append(parked[s], d)], Task(s, d.topic, d.seq) \in cut'
  PROVE  LeftBehind'
<1>1. parked \in [Names -> Seq(Delivery)]
  BY DEF TypeOK
<1>2. Leaves(cut', s, parked[s])
  BY DEF LeftBehind, Leaves
<1>3. Leaves(cut', s, Append(parked[s], d))
  BY <1>1, <1>2, LeavesOne
<1>4. \A n \in Names : Leaves(cut', n, parked'[n])
  BY <1>1, <1>3 DEF LeftBehind, Leaves
<1> QED
  BY <1>4 DEF LeftBehind, Leaves

LEMMA DroppedOne ==
  ASSUME TypeOK, LeftBehind, cut \subseteq cut', UNCHANGED <<nextId, reg, parked>>,
         NEW c \in 1..nextId, NEW d \in Delivery,
         unacked' = [unacked EXCEPT ![c] = Append(unacked[c], d)],
         Task(reg[c].name, d.topic, d.seq) \in cut'
  PROVE  LeftBehind'
<1>1. unacked \in [Ids -> Seq(Delivery)] /\ 1..nextId \subseteq Ids
  BY RouterAssumption DEF TypeOK, Ids
<1>2. unacked[c] \in Seq(Delivery) /\ unacked'[c] = Append(unacked[c], d)
  BY <1>1
<1>3. Leaves(cut', reg[c].name, unacked[c])
  BY DEF LeftBehind, Leaves
<1>4. Leaves(cut', reg[c].name, unacked'[c])
  BY <1>2, <1>3, LeavesOne
<1>5. \A b \in 1..nextId : Leaves(cut', reg[b].name, unacked'[b])
  BY <1>1, <1>4 DEF LeftBehind, Leaves
<1> QED
  BY <1>5 DEF LeftBehind, Leaves

\* A requeue: the attempts of the message are spent, somebody reads its topic, or
\* it is left.
LEMMA RequeueSteady ==
  ASSUME Going, BInv', up', NEW m \in Slots, settle[m].duty \in {"handle", "timer"},
         ~Finished(m), NEW took, Requeue(settle[m].id, settle[m].d, took),
         Keeping \/ DeadLettered(m), UNCHANGED <<up, registry, unacked, swap>>,
         due' = due \cup Fresh, again' = again, cut' = cut,
         Staged', Done' \subseteq Done, Done \subseteq Done'
  PROVE  Steady'
<1>1. UNCHANGED <<nextId, reg, attached>>
  BY DEF registry
<1>2. CASE DeadLettered(m)
  BY <1>1, <1>2, BuriedSteady
<1>3. CASE Keeping
  <2>1. PICK c : c = settle[m].id
    OBVIOUS
  <2>2. PICK d : d = settle[m].d
    OBVIOUS
  <2>3. PICK z : z = TaskOf(m)
    OBVIOUS
  <2>4. /\ z \in AllTasks /\ Copies(z) > 0 /\ z \notin Done /\ z = Task(reg[c].name, d.topic, d.seq)
        /\ c \in 1..nextId /\ Logged(d) /\ d \in Delivery
        /\ reg[c] \in Registrations /\ reg[c].name \in Names
    BY <2>1, <2>2, <2>3, GoingParts, TaskHeld, HeldBy, NotDone DEF TaskOf
  <2>5. log' = log /\ Fresh = {}
    BY <1>3, GoingParts, FreshNone DEF Keeping
  <2>6. reg[c].dead # None => reg[c].dead.topic \in Topics
    BY <2>4, RouterAssumption DEF Registration
  <2>7. ~(Spent(reg[c], Again(d))
            /\ Deliver(reg[c].dead.topic, KeyOf(d), StampOrigin(d)))
    <3> SUFFICES ASSUME Spent(reg[c], Again(d)),
                        Deliver(reg[c].dead.topic, KeyOf(d), StampOrigin(d))
                 PROVE  FALSE
      OBVIOUS
    <3>1. PICK t \in Topics : t = reg[c].dead.topic
      BY <2>6 DEF Spent
    <3>2. PICK k : k = KeyOf(d)
      OBVIOUS
    <3>3. PICK o : o = StampOrigin(d)
      OBVIOUS
    <3>4. Deliver(t, k, o)
      BY <3>1, <3>2, <3>3
    <3>5. Len(log'[t]) = Len(log[t]) + 1 /\ Len(log[t]) \in Nat
      BY <3>4, GoingParts, LogAfter
    <3> QED BY <2>5, <3>5
  <2>8. PICK M : M = MembersOf(attached, listed, reg[c].name, d.topic)
    OBVIOUS
  <2>9. /\ UNCHANGED topicVars
        /\ \/ M = <<>> /\ SetHand(Park(Hand, reg[c].name, Again(d)))
           \/ SetHand(Share(Hand, reg[c].name, reg[c].sharing, M, Again(d)))
    BY <2>1, <2>2, <2>7, <2>8 DEF Requeue
  <2>10. UNCHANGED <<created, listed>>
    BY <2>9 DEF topicVars
  <2>11. Turn({}, {}, {})
    BY <1>3, <2>5, QuietTurn
  <2>12. Enrolled
    BY <1>1, GoingParts DEF Enrolled
  <2>13. Ledger' /\ Letters'
    BY <2>5, <2>11, <2>12, SilentTurn
  <2>14. CASE M = <<>> /\ SetHand(Park(Hand, reg[c].name, Again(d)))
    <3>1. parked' = [parked EXCEPT ![reg[c].name] = Append(parked[reg[c].name], Again(d))]
      BY <2>14 DEF SetHand, Park, Hand
    <3>2. Again(d) \in Delivery /\ Again(d).topic = d.topic /\ Again(d).seq = d.seq
      BY <2>4 DEF Again, Delivery
    <3>3. z \in cut
      <4>1. MembersOf(attached, listed, z.name, z.topic) = <<>>
        BY <2>4, <2>8, <2>14 DEF Task
      <4> QED BY <2>4, <4>1, Unread
    <3>4. PICK e \in Delivery : e = Again(d)
      BY <3>2
    <3>5. PICK s \in Names : s = reg[c].name
      BY <2>4
    <3>6. LeftBehind'
      <4>1. parked' = [parked EXCEPT ![s] = Append(parked[s], e)] /\ Task(s, e.topic, e.seq) \in cut'
        BY <2>4, <3>1, <3>2, <3>3, <3>4, <3>5
      <4> QED BY <1>1, <4>1, GoingParts, ParkedOne DEF Seats
    <3>7. Seats'
      BY <1>1, <2>10, <2>11, <3>6, GoingParts, SeatsKept
    <3> QED BY <2>13, <3>7 DEF Steady
  <2>15. CASE SetHand(Share(Hand, reg[c].name, reg[c].sharing, M, Again(d)))
    <3>1. parked' = parked
      BY <2>15 DEF SetHand, Share, Hand
    <3>2. Seats'
      BY <1>1, <2>10, <2>11, <3>1, GoingParts, SeatsStill
    <3> QED BY <2>13, <3>2 DEF Steady
  <2> QED BY <2>9, <2>14, <2>15
<1> QED
  BY <1>2, <1>3

\* What the handler failed on is tried again.
LEMMA NackSteady ==
  ASSUME Going, BInv', up', NEW m \in Slots, Nack(m), stage[m].do = "retry",
         stage' = [stage EXCEPT ![m] = NoStage], due' = due \cup Fresh,
         again' = again, cut' = cut, opened' = opened
  PROVE  Steady'
<1>1. settle[m].duty = "handle" /\ UNCHANGED <<up, registry, unacked, swap>> /\ ~Finished(m)
  BY DEF Nack, Finished
<1>2. PICK took \in BOOLEAN : /\ Requeue(settle[m].id, settle[m].d, took)
                              /\ Becomes(m, IF took THEN "count" ELSE "none", TRUE)
  BY <1>1, GoingParts, HeldBy DEF Nack
<1>3. IInv' /\ Enrolled
  BY <1>1, GoingParts DEF BInv, CInv, Enrolled, registry
<1>4. Keeping \/ DeadLettered(m)
  BY <1>3, GoingParts, NackPromise
<1>5. settle'[m].duty # "handle" /\ \A n \in Slots : n # m => settle'[n] = settle[n]
  BY <1>2, GoingParts DEF Becomes, Idle, TypeOK
<1>6. /\ Staged' /\ Done' \subseteq Done
      /\ \A x : x \in Done => x \in Done' \/ (Finished(m) /\ x = TaskOf(m))
  BY <1>3, <1>5, SettledStage
<1> QED
  BY <1>1, <1>2, <1>4, <1>6, RequeueSteady

\* A settlement that no handler holds moves no stage.
LEMMA StageBeside ==
  ASSUME Going, Enrolled, NEW m \in Slots, UNCHANGED <<stage, opened>>,
         \A n \in Slots : n # m => settle'[n] = settle[n],
         settle[m].duty # "handle", settle'[m].duty # "handle"
  PROVE  Staged' /\ Done' \subseteq Done /\ Done \subseteq Done' /\ ~Finished(m)
<1>1. stage[m].do = "none" /\ stage \in [Slots -> Stages]
  BY GoingParts DEF Staged
<1>2. ~Finished(m) /\ ~Finished(m)' /\ Elsewhere(m)
  BY <1>1 DEF Finished, Elsewhere
<1> QED
  BY <1>1, <1>2, GoingParts, StageTurn

\* Its timer fires.
LEMMA FireSteady ==
  ASSUME Going, BInv', up', NEW m \in Slots, Fire(m), UNCHANGED <<stage, opened>>,
         due' = due \cup Fresh, again' = again, cut' = cut
  PROVE  Steady'
<1>1. settle[m].duty = "timer" /\ UNCHANGED <<up, registry, unacked, swap>>
  BY DEF Fire
<1>2. PICK took \in BOOLEAN : /\ Requeue(settle[m].id, settle[m].d, took)
                              /\ Becomes(m, IF took THEN "recount" ELSE "none", settle[m].counted)
  BY <1>1, GoingParts, HeldBy DEF Fire
<1>3. IInv' /\ Enrolled
  BY <1>1, GoingParts DEF BInv, CInv, Enrolled, registry
<1>4. Keeping \/ DeadLettered(m)
  BY <1>3, GoingParts, FirePromise
<1>5. settle'[m].duty # "handle" /\ \A n \in Slots : n # m => settle'[n] = settle[n]
  BY <1>2, GoingParts DEF Becomes, Idle, TypeOK
<1>6. Staged' /\ Done' \subseteq Done /\ Done \subseteq Done' /\ ~Finished(m)
  BY <1>1, <1>3, <1>5, StageBeside
<1> QED
  BY <1>1, <1>2, <1>4, <1>6, RequeueSteady

\* The framework settles a delivery.
LEMMA SettleSteady ==
  ASSUME Going, BInv', up', NEW m \in Slots, Settle(m)
  PROVE  Steady'
<1>1. /\ stage' = [stage EXCEPT ![m] = NoStage] /\ due' = due \cup Fresh
      /\ again' = again /\ cut' = cut /\ opened' = opened
  BY DEF Settle, mountVars
<1>2. CASE stage[m].do \in {"ack", "drop"}
  BY <1>1, <1>2, AckSteady DEF Settle, Finished
<1>3. CASE stage[m].do = "retry"
  BY <1>1, <1>3, NackSteady DEF Settle
<1>4. CASE stage[m].do = "retry_after"
  <2>1. settle[m].duty = "handle"
    BY <1>4, GoingParts DEF Staged
  <2>2. settle[m].id \in Attached \cup departed
    BY <2>1, GoingParts, HeldBy
  <2>3. NackAfter(m)
    BY <1>4, <2>2 DEF Settle
  <2> QED BY <1>1, <1>4, <2>3, NackAfterSteady
<1> QED
  BY <1>2, <1>3, <1>4 DEF Settle

\* A handler is dropped: its task is left.
LEMMA CancelSteady ==
  ASSUME Going, BInv', NEW m \in Slots, Cancel(m)
  PROVE  Steady'
<1>1. /\ Drop(m) /\ m \in Holding /\ TaskOf(m) \in cut' /\ cut \subseteq cut'
      /\ stage' = [stage EXCEPT ![m] = NoStage] /\ UNCHANGED <<mountVars, due, again>>
  BY DEF Cancel
<1>2. /\ settle[m].duty = "handle" /\ Becomes(m, "none", TRUE)
      /\ UNCHANGED <<up, registry, topicVars, swap>>
  BY <1>1 DEF Drop
<1>3. UNCHANGED <<nextId, reg, attached, created, listed, log>> /\ opened' = opened
  BY <1>1, <1>2 DEF registry, topicVars, mountVars
<1>4. IInv' /\ Enrolled
  BY <1>3, GoingParts DEF BInv, CInv, Enrolled
<1>5. Keeping
  BY <1>1, <1>4, GoingParts, DropPromise
<1>6. /\ Staged' /\ Done' \subseteq Done
      /\ \A x : x \in Done => x \in Done' \/ (Finished(m) /\ x = TaskOf(m))
  <2>1. settle'[m].duty # "handle" /\ \A n \in Slots : n # m => settle'[n] = settle[n]
    BY <1>2, GoingParts DEF Becomes, TypeOK
  <2> QED BY <1>1, <1>3, <1>4, <2>1, SettledStage
<1>7. Done \subseteq Done' \cup cut'
  BY <1>1, <1>6
<1>8. Turn({}, {}, {}) /\ log' = log
  BY <1>1, <1>5, <1>6, <1>7, QuietTurn
<1>9. Ledger' /\ Letters'
  BY <1>4, <1>8, SilentTurn
<1>10. PICK c : c = settle[m].id
  OBVIOUS
<1>11. PICK d : d = settle[m].d
  OBVIOUS
<1>12. /\ c \in 1..nextId /\ c \in Attached \cup departed /\ Logged(d) /\ d \in Delivery
       /\ reg[c] \in Registrations /\ reg[c].name \in Names
       /\ Task(reg[c].name, d.topic, d.seq) \in cut'
  BY <1>1, <1>2, <1>10, <1>11, GoingParts, HeldBy DEF TaskOf
<1>13. LeftBehind /\ TypeOK
  BY GoingParts DEF Seats
<1>14. \/ unacked' = [unacked EXCEPT ![c] = Append(unacked[c], d)] /\ parked' = parked
       \/ SetHand(HandBack(Hand, attached, reg[c], Again(d), FALSE)) /\ unacked' = unacked
  BY <1>1, <1>10, <1>11, <1>12 DEF Drop
<1>15. LeftBehind'
  <2>1. CASE unacked' = [unacked EXCEPT ![c] = Append(unacked[c], d)] /\ parked' = parked
    BY <1>1, <1>3, <1>12, <1>13, <2>1, DroppedOne
  <2>2. CASE SetHand(HandBack(Hand, attached, reg[c], Again(d), FALSE)) /\ unacked' = unacked
    <3>1. PICK e \in Delivery : e = Again(d) /\ Logged(e) /\ e.topic = d.topic /\ e.seq = d.seq
      <4>1. Again(d) \in LoggedSet
        BY <1>12, AgainIn DEF LoggedSet
      <4>2. Again(d).topic = d.topic /\ Again(d).seq = d.seq
        BY <1>12 DEF Again, Delivery
      <4> QED BY <4>1, <4>2 DEF LoggedSet
    <3>2. PICK s \in Names : s = reg[c].name
      BY <1>12
    <3>3. Hand \in TidyHand(attached) /\ attached \in Seq(1..nextId)
      BY GoingParts, HandIsTidy DEF TypeOK
    <3>4. Given(Hand, HandBack(Hand, attached, reg[c], e, FALSE), s, e)
      BY <1>12, <1>13, <3>1, <3>2, <3>3, HandBackGiven
    <3>5. parked' = HandBack(Hand, attached, reg[c], e, FALSE).parked
      BY <2>2, <3>1 DEF SetHand
    <3>6. parked' = parked \/ parked' = [parked EXCEPT ![s] = Append(parked[s], e)]
      BY <3>4, <3>5 DEF Given, Hand
    <3>7. Task(s, e.topic, e.seq) \in cut'
      BY <1>12, <3>1, <3>2
    <3>8. CASE parked' = parked
      BY <1>1, <1>3, <1>13, <2>2, <3>8 DEF LeftBehind, Leaves
    <3>9. CASE parked' = [parked EXCEPT ![s] = Append(parked[s], e)]
      BY <1>1, <1>3, <1>13, <2>2, <3>7, <3>9, ParkedOne
    <3> QED BY <3>6, <3>8, <3>9
  <2> QED BY <1>14, <2>1, <2>2
<1>16. Seats'
  BY <1>3, <1>8, <1>15, GoingParts, SeatsKept
<1> QED
  BY <1>6, <1>9, <1>16 DEF Steady

-----------------------------------------------------------------------------
(* The steps of a straight service: around the handlers *)

\* The record of what was opened, of this length or longer.
LEMMA OpenedLength ==
  ASSUME Going
  PROVE  Len(opened) \in Nat
BY DEF Going, MountInv, MountTypeOK

\* Neither the router moves nor the ledger.
LEMMA RestingSteady ==
  ASSUME Going, UNCHANGED <<vars, stage, due, again, cut>>, Len(opened') \in Nat,
         Len(opened') >= Len(opened)
  PROVE  Steady'
<1>1. /\ UNCHANGED <<up, nextId, reg, attached, created, listed, log, queue, unacked, parked,
                     settle, swap>>
      /\ UNCHANGED <<stage, due, again, cut>>
  BY DEF vars
<1>2. Keeping
  BY <1>1, CopiesKept DEF Keeping
<1>3. Enrolled
  BY <1>1, GoingParts DEF Enrolled
<1>4. Staged' /\ Done' = Done
  BY <1>1, <1>3, GoingParts, OpenedLength, StageStill
<1> QED
  BY <1>1, <1>2, <1>4, QuietStep

\* A customer publishes.
LEMMA CustomerSteady ==
  ASSUME Going, BInv', up', Customer
  PROVE  Steady'
<1>1. PICK t \in Topics, k \in {NoKey, OddKey} : Deliver(t, k, None)
  BY DEF Customer
<1>2. /\ UNCHANGED <<up, registry, unacked, parked, settle, swap>>
      /\ due' = due \cup Fresh /\ UNCHANGED <<mountVars, stage, again, cut>>
  BY DEF Customer
<1>3. UNCHANGED <<nextId, reg, attached, unacked, parked, settle>> /\ opened' = opened
  BY <1>2 DEF registry, mountVars
<1>4. Enrolled
  BY <1>3, GoingParts DEF Enrolled
<1>5. Staged' /\ Done' = Done
  BY <1>2, <1>3, <1>4, GoingParts, OpenedLength, StageStill
<1>6. k \in Keys
  BY OpeningAssumption, ServicesAssumption
<1>7. PICK X : X = {}
  OBVIOUS
<1>8. /\ due' = (due \ X) \cup Fresh /\ again' = again \cup (X \ due) /\ cut' = cut
      /\ Done' \subseteq Done \cup X /\ Done \subseteq Done' /\ X \subseteq AllTasks
      /\ \A x \in X : Copies(x) > 0 /\ x \notin Done /\ x \in Done'
  BY <1>2, <1>5, <1>7
<1> QED
  BY <1>1, <1>3, <1>5, <1>6, <1>8, HandedOut

\* A requeued delivery is counted, a settled one released.
LEMMA CountingSteady ==
  ASSUME Going, BInv', NEW m \in Slots, Count(m) \/ Release(m), UNCHANGED <<stage, opened>>,
         due' = due \cup Fresh, again' = again, cut' = cut
  PROVE  Steady'
<1>1. /\ UNCHANGED <<nextId, reg, attached, created, listed, log, unacked, parked>>
      /\ settle[m].duty # "handle"
      /\ \E counted : Becomes(m, "none", counted) \/ Becomes(m, settle[m].duty, counted)
  BY DEF Count, Release, registry, topicVars
<1>2. IInv' /\ Enrolled
  BY <1>1, GoingParts DEF BInv, CInv, Enrolled
<1>3. Keeping /\ Fresh = {}
  BY <1>1, <1>2, GoingParts, CountPromise, ReleasePromise, FreshNone
<1>4. settle'[m].duty # "handle" /\ \A n \in Slots : n # m => settle'[n] = settle[n]
  BY <1>1, GoingParts DEF Becomes, Idle, TypeOK
<1>5. Staged' /\ Done' \subseteq Done /\ Done \subseteq Done'
  BY <1>1, <1>2, <1>4, StageBeside
<1> QED
  BY <1>1, <1>3, <1>5, QuietStep

\* Consumers of patterns list what there is, a seek lets go of the lock.
LEMMA ListingSteady ==
  ASSUME Going, Refresh \/ FinishSeek, UNCHANGED <<stage, opened>>,
         due' = due \cup Fresh, again' = again, cut' = cut
  PROVE  Steady'
<1>1. UNCHANGED <<up, nextId, reg, attached, created, log, queue, unacked, parked, settle>>
  BY DEF Refresh, FinishSeek, registry, topicVars
<1>2. Enrolled /\ Fresh = {}
  BY <1>1, GoingParts, FreshNone DEF Enrolled
<1>3. Staged' /\ Done' = Done
  BY <1>1, <1>2, GoingParts, OpenedLength, StageStill
<1>4. \A x \in AllTasks : Copies(x)' = Copies(x) /\ Copies(x) \in Nat
  <2>1. StillOwed
    BY <1>1, CopiesKept
  <2> QED BY <2>1, GoingParts, CopiesAreNat DEF StillOwed, Copies
<1>5. \A x \in AllTasks : Rested(PlaceOf(x)) => Rested(PlaceOf(x))'
  BY <1>1 DEF Rested, DeadLetters, OriginOf
<1>6. Turn({}, {}, {})
  BY <1>2, <1>3, <1>4, <1>5 DEF Turn, One
<1>7. Ledger' /\ Letters'
  BY <1>1, <1>2, <1>6, SilentTurn
<1>8. LeftBehind'
  BY <1>1, GoingParts DEF Seats, LeftBehind, Leaves
<1>9. PICK D : listed' = Listing(D, created')
  <2>1. CASE Refresh
    BY <1>1, <2>1 DEF Refresh
  <2>2. CASE FinishSeek
    <3>1. listed' = listed /\ listed = [c \in Ids |-> listed[c]]
      BY <2>2, GoingParts DEF FinishSeek, topicVars, TypeOK
    <3>2. Listing({}, created') = listed
      BY <3>1 DEF Listing
    <3> QED BY <3>1, <3>2
  <2> QED BY <2>1, <2>2
<1>10. Listings' /\ Lists
  BY <1>1, <1>9, GoingParts, ListingGrows DEF Seats
<1>11. \A x \in due : Seated(x) => Seated(x)'
  <2>1. Attached' = Attached
    BY <1>1 DEF Attached
  <2> QED BY <1>1, <1>10, <2>1, GoingParts, SeatedStays
<1>12. Attached' \subseteq 1..nextId'
  BY <1>1, GoingParts, KnownConsumer DEF Attached
<1>13. Seats'
  BY <1>2, <1>6, <1>8, <1>10, <1>11, <1>12, GoingParts, SeatsTurn
<1> QED
  BY <1>3, <1>7, <1>13 DEF Steady

\* What the transport does on its own.
LEMMA BackgroundSteady ==
  ASSUME Going, BInv', up', Background
  PROVE  Steady'
<1>1. /\ UNCHANGED <<stage, opened>> /\ due' = due \cup Fresh /\ again' = again /\ cut' = cut
  BY DEF Background, mountVars
<1>2. CASE Refresh \/ FinishSeek
  BY <1>1, <1>2, ListingSteady
<1>3. ASSUME NEW m \in Slots, Fire(m) PROVE Steady'
  BY <1>1, <1>3, FireSteady
<1>4. ASSUME NEW m \in Slots, Count(m) \/ Release(m) PROVE Steady'
  BY <1>1, <1>4, CountingSteady
<1> QED
  BY <1>2, <1>3, <1>4 DEF Background

-----------------------------------------------------------------------------
(* The steps of a straight service: subscribers that come and go *)

\* What is parked of a hand is of tasks in C.
LeavesHand(C, h) == \A s \in Names : Leaves(C, s, h.parked[s])

\* Handing a delivery back keeps that when it is parked only if it is one of them.
LEMMA HandBackLeaves ==
  ASSUME TypeOK, NEW ids \in Seq(1..nextId), NEW h \in TidyHand(ids), NEW C, LeavesHand(C, h),
         NEW r \in Registrations, NEW d \in LoggedSet, NEW counted \in BOOLEAN,
         MembersOf(ids, listed, r.name, d.topic) = <<>> => Task(r.name, d.topic, d.seq) \in C
  PROVE  LeavesHand(C, HandBack(h, ids, r, d, counted))
<1> DEFINE M == MembersOf(ids, listed, r.name, d.topic)
           e == HandBack(h, ids, r, d, counted)
<1>1. r.name \in Names /\ r.sharing \in Sharings /\ Logged(d) /\ d \in Delivery
  BY RouterAssumption DEF Registration, LoggedSet
<1>2. h.parked \in [Names -> Seq(Delivery)]
  BY DEF TidyHand
<1>3. CASE M = <<>>
  <2>1. e.parked = [h.parked EXCEPT ![r.name] = Append(h.parked[r.name], d)]
    BY <1>1, <1>3 DEF HandBack, Park, TidyHand
  <2>2. Leaves(C, r.name, Append(h.parked[r.name], d))
    BY <1>1, <1>2, <1>3, LeavesOne DEF LeavesHand
  <2> HIDE DEF e
  <2>3. \A s \in Names : Leaves(C, s, e.parked[s])
    BY <1>2, <2>1, <2>2 DEF LeavesHand
  <2> QED BY <2>3 DEF LeavesHand, e
<1>4. CASE M # <<>>
  <2> DEFINE p == Share(h, r.name, r.sharing, M, d)
  <2>1. p.parked = h.parked
    <3> HIDE DEF M
    <3> QED BY DEF Share, TidyHand
  <2>2. p \in TidyHand(ids)
    <3>1. M \in Seq(1..nextId)
      BY MembersProps
    <3> HIDE DEF M
    <3> QED BY <1>1, <1>4, <3>1, ShareIn
  <2>3. e = [p EXCEPT !.inflight = IF counted THEN p.inflight ELSE p.inflight + 1]
    BY <1>4 DEF HandBack
  <2> HIDE DEF p, e
  <2>4. e.parked = h.parked
    BY <2>1, <2>2, <2>3 DEF TidyHand
  <2>5. LeavesHand(C, e)
    BY <2>4 DEF LeavesHand
  <2> QED BY <2>5 DEF e
<1> QED
  BY <1>3, <1>4

\* So does handing back all of them.
LEMMA HandBackAllLeaves ==
  ASSUME TypeOK, NEW ids \in Seq(1..nextId), NEW h \in TidyHand(ids), NEW C, LeavesHand(C, h),
         NEW r \in Registrations, NEW ds \in Seq(LoggedSet), NEW counted \in BOOLEAN,
         \A i \in 1..Len(ds) : MembersOf(ids, listed, r.name, ds[i].topic) = <<>>
                                 => Task(r.name, ds[i].topic, ds[i].seq) \in C
  PROVE  /\ HandBackAll(h, ids, r, ds, counted) \in TidyHand(ids)
         /\ LeavesHand(C, HandBackAll(h, ids, r, ds, counted))
<1> DEFINE X == {x \in TidyHand(ids) : LeavesHand(C, x)}
           T == {d \in LoggedSet : MembersOf(ids, listed, r.name, d.topic) = <<>>
                                     => Task(r.name, d.topic, d.seq) \in C}
<1>1. \A x \in X : \A d \in T : HandBack(x, ids, r, d, counted) \in X
  BY HandBackLeaves, HandBackIn DEF LoggedSet
<1>2. ds \in Seq(T)
  <2>1. Len(ds) \in Nat /\ \A i \in 1..Len(ds) : ds[i] \in LoggedSet
    <3> HIDE DEF LoggedSet
    <3> QED OBVIOUS
  <2>2. \A i \in 1..Len(ds) : ds[i] \in T
    BY <2>1
  <2>3. ds \in [1..Len(ds) -> LoggedSet]
    <3> HIDE DEF LoggedSet
    <3> QED OBVIOUS
  <2>4. ds \in [1..Len(ds) -> T]
    <3> HIDE DEF T
    <3> QED BY <2>2, <2>3
  <2> HIDE DEF T
  <2> QED BY <2>1, <2>4
<1>3. h \in X
  OBVIOUS
<1>4. HandBackAll(h, ids, r, ds, counted) \in X
  <2> HIDE DEF X, T
  <2> QED BY <1>1, <1>2, <1>3, HandBackAllIn
<1> QED
  BY <1>4

\* The consumers other than c.
LEMMA Remaining ==
  ASSUME TypeOK, NEW c, NEW others, others = Select(attached, Ids \ {c})
  PROVE  /\ others \in Seq(1..nextId) /\ Consumers(others) \subseteq Attached
         /\ \A b \in Attached : b # c => b \in Consumers(others)
<1>1. PICK T : T = 1..nextId
  OBVIOUS
<1>2. PICK rest : rest = Ids \ {c}
  OBVIOUS
<1>3. attached \in Seq(T) /\ T \subseteq Ids /\ others = Select(attached, rest)
  <2>1. attached \in Seq(1..nextId) /\ 1..nextId \subseteq Ids
    BY RouterAssumption DEF TypeOK, Ids
  <2> QED BY <1>1, <1>2, <2>1
<1>4. /\ others \in Seq(T)
      /\ \A i \in 1..Len(others) : \E j \in 1..Len(attached) : others[i] = attached[j]
      /\ \A j \in 1..Len(attached) : attached[j] \in rest =>
            \E i \in 1..Len(others) : others[i] = attached[j]
  <2>1. PICK ds : ds = attached
    OBVIOUS
  <2>2. ds \in Seq(T)
    BY <1>3, <2>1
  <2>3. /\ Select(ds, rest) \in Seq(T)
        /\ \A i \in 1..Len(Select(ds, rest)) :
             \E j \in 1..Len(ds) : Select(ds, rest)[i] = ds[j]
        /\ \A j \in 1..Len(ds) : ds[j] \in rest =>
             \E i \in 1..Len(Select(ds, rest)) : Select(ds, rest)[i] = ds[j]
    BY <2>2, SelectProps
  <2>4. others = Select(ds, rest)
    BY <1>3, <2>1
  <2>5. others \in Seq(T)
    BY <2>3, <2>4, Zenon
  <2>6. ASSUME NEW i \in 1..Len(others)
        PROVE  \E j \in 1..Len(attached) : others[i] = attached[j]
    <3>1. i \in 1..Len(Select(ds, rest))
      BY <2>4
    <3>2. PICK j \in 1..Len(ds) : Select(ds, rest)[i] = ds[j]
      BY <2>3, <3>1
    <3> QED BY <2>1, <2>4, <3>2
  <2>7. ASSUME NEW j \in 1..Len(attached), attached[j] \in rest
        PROVE  \E i \in 1..Len(others) : others[i] = attached[j]
    <3>1. j \in 1..Len(ds) /\ ds[j] \in rest
      BY <2>1, <2>7
    <3>2. PICK i \in 1..Len(Select(ds, rest)) : Select(ds, rest)[i] = ds[j]
      BY <2>3, <3>1
    <3> QED BY <2>1, <2>4, <3>2
  <2> QED BY <2>5, <2>6, <2>7
<1>5. \A j \in 1..Len(attached) : attached[j] # c => attached[j] \in rest
  <2>1. \A j \in 1..Len(attached) : attached[j] \in T
    BY <1>3, ElementOfSeq
  <2> QED BY <1>2, <1>3, <2>1
<1>6. others \in Seq(1..nextId)
  BY <1>1, <1>4
<1>7. Consumers(others) \subseteq Attached
  <2> SUFFICES ASSUME NEW i \in 1..Len(others) PROVE others[i] \in Attached
    BY DEF Consumers
  <2>1. PICK j \in 1..Len(attached) : others[i] = attached[j]
    BY <1>4
  <2> QED BY <2>1 DEF Attached
<1>8. ASSUME NEW b \in Attached, b # c PROVE b \in Consumers(others)
  <2>1. PICK j \in 1..Len(attached) : b = attached[j]
    BY DEF Attached
  <2>2. PICK i \in 1..Len(others) : others[i] = attached[j]
    BY <1>4, <1>5, <1>8, <2>1
  <2> QED BY <2>1, <2>2 DEF Consumers
<1> QED
  BY <1>6, <1>7, <1>8

\* When consumer c leaves, a task of its subscription is left or another reads it.
LEMMA LeftOrRead ==
  ASSUME Going, NEW c \in Attached, NEW others, others = Select(attached, Ids \ {c}),
         NEW x, x \in due \cup cut
  PROVE  \/ x \in cut \cup {y \in due : y.name = reg[c].name /\ y.topic \in reg[c].topics}
         \/ \E b \in Consumers(others) : reg[b].name = x.name /\ Reads(listed, b, x.topic)
<1>1. CASE x \in cut
  BY <1>1
<1>2. CASE x \in due /\ x \notin cut
  <2>1. PICK b \in Attached : reg[b].name = x.name /\ Reads(listed, b, x.topic)
    BY <1>2, GoingParts DEF Seats, Seated
  <2>2. CASE b = c
    BY <1>2, <2>1, <2>2 DEF Reads
  <2>3. CASE b # c
    BY <2>1, <2>3, GoingParts, Remaining
  <2> QED BY <2>2, <2>3
<1> QED
  BY <1>1, <1>2

\* A subscriber leaves: what it held is handed on, and left where nobody takes it.
LEMMA LeaveSteady ==
  ASSUME Going, BInv', NEW c \in Ids, Leave(c)
  PROVE  Steady'
<1> DEFINE others == Select(attached, Ids \ {c})
           r == reg[c]
           h == [Hand EXCEPT !.queue = [queue EXCEPT ![c] = <<>>]]
           g == HandBackAll(h, others, r, queue[c], TRUE)
           e == HandBackAll(g, others, r, AgainAll(unacked[c]), FALSE)
<1>1. /\ Unsubscribe(c) /\ opened' = opened /\ UNCHANGED <<stage, due, again>>
      /\ cut' = cut \cup {y \in due : y.name = reg[c].name /\ y.topic \in reg[c].topics}
  BY DEF Leave, mountVars
<1>2. /\ c \in Attached /\ attached' = others
      /\ unacked' = [unacked EXCEPT ![c] = <<>>] /\ SetHand(e)
      /\ UNCHANGED <<up, nextId, reg, created, listed, log, settle, swap>>
  BY <1>1 DEF Unsubscribe, topicVars, Hand
<1>3. Enrolled /\ IInv' /\ IInv /\ TypeOK /\ Hand \in TidyHand(attached)
      /\ Consumers(attached) = Attached
  BY <1>2, GoingParts, HandIsTidy DEF Enrolled, BInv, CInv
<1>4. Keeping
  BY <1>1, <1>3, GoingParts, UnsubscribePromise
<1>5. Staged' /\ Done' = Done
  BY <1>1, <1>2, <1>3, GoingParts, OpenedLength, StageStill
<1>6. Turn({}, {}, {}) /\ log' = log
  BY <1>1, <1>4, <1>5, QuietTurn
<1>7. Ledger' /\ Letters'
  BY <1>3, <1>6, SilentTurn
<1>8. PICK o : o = others
  OBVIOUS
<1>9. /\ o \in Seq(1..nextId) /\ Consumers(o) \subseteq Attached
      /\ c \in 1..nextId /\ r \in Registrations
  <2>1. o = Select(attached, Ids \ {c})
    BY <1>8
  <2>2. o \in Seq(1..nextId) /\ Consumers(o) \subseteq Attached
    BY <1>3, <2>1, Remaining
  <2>3. c \in 1..nextId /\ reg[c] \in Registrations
    BY <1>2, <1>3, KnownConsumer
  <2> QED BY <2>2, <2>3
<1>10. ASSUME NEW x, x \in due \cup cut
       PROVE  x \in cut' \/ \E b \in Consumers(o) : reg[b].name = x.name /\ Reads(listed, b, x.topic)
  BY <1>1, <1>2, <1>8, <1>10, LeftOrRead
<1>11. ASSUME NEW x, x \in due \cup cut, MembersOf(o, listed, x.name, x.topic) = <<>>
       PROVE  x \in cut'
  <2>1. \A j \in 1..Len(o) : ~(reg[o[j]].name = x.name /\ Reads(listed, o[j], x.topic))
    BY <1>9, <1>11, MembersProps
  <2> QED BY <1>10, <1>11, <2>1 DEF Consumers
<1>12. PICK q : q = [queue EXCEPT ![c] = <<>>]
  OBVIOUS
<1>13. h \in TidyHand(o) /\ LeavesHand(cut', h)
  <2>1. Hand \in TidyHand(o)
    BY <1>3, <1>9 DEF TidyHand
  <2>2. q \in [Ids -> Seq(Delivery)] /\ \A x \in Ids : AllLogged(q[x])
    BY <1>3, <1>12 DEF TypeOK, IInv, DeliveriesAreLogged, AllLogged
  <2>3. h = [Hand EXCEPT !.queue = q]
    BY <1>12
  <2> HIDE DEF h
  <2>4. h \in TidyHand(o) /\ h.parked = parked
    BY <2>1, <2>2, <2>3 DEF TidyHand, Hand
  <2>5. \A s \in Names : Leaves(cut', s, parked[s])
    BY <1>1, GoingParts DEF Seats, LeftBehind, Leaves
  <2> QED BY <2>4, <2>5 DEF LeavesHand
<1>14. /\ queue[c] \in Seq(LoggedSet) /\ AgainAll(unacked[c]) \in Seq(LoggedSet)
       /\ Len(AgainAll(unacked[c])) = Len(unacked[c])
       /\ unacked[c] \in Seq(Delivery) /\ queue[c] \in Seq(Delivery)
  BY <1>3, LoggedSeq, AgainLogged DEF IInv, TypeOK, DeliveriesAreLogged
<1>15. \A i \in 1..Len(queue[c]) : MembersOf(o, listed, r.name, queue[c][i].topic) = <<>>
         => Task(r.name, queue[c][i].topic, queue[c][i].seq) \in cut'
  <2> SUFFICES ASSUME NEW i \in 1..Len(queue[c]),
                      MembersOf(o, listed, r.name, queue[c][i].topic) = <<>>
               PROVE  Task(r.name, queue[c][i].topic, queue[c][i].seq) \in cut'
    OBVIOUS
  <2>1. PICK x : x = Task(reg[c].name, queue[c][i].topic, queue[c][i].seq)
    OBVIOUS
  <2>2. x \in AllTasks /\ Copies(x) > 0 /\ x \notin Done
    BY <1>9, <2>1, GoingParts, QueuedApart
  <2>3. x \in due \cup cut
    BY <2>2, GoingParts DEF Ledger, Charged
  <2>4. x.name = r.name /\ x.topic = queue[c][i].topic
    BY <2>1 DEF Task
  <2> QED BY <1>11, <2>1, <2>3, <2>4
<1>16. \A i \in 1..Len(AgainAll(unacked[c])) :
         Task(r.name, AgainAll(unacked[c])[i].topic, AgainAll(unacked[c])[i].seq) \in cut'
  <2> SUFFICES ASSUME NEW i \in 1..Len(unacked[c])
               PROVE  Task(r.name, AgainAll(unacked[c])[i].topic, AgainAll(unacked[c])[i].seq) \in cut'
    BY <1>14
  <2>1. unacked[c][i] \in Delivery
    BY <1>14
  <2>2. /\ AgainAll(unacked[c])[i].topic = unacked[c][i].topic
        /\ AgainAll(unacked[c])[i].seq = unacked[c][i].seq
    BY <2>1 DEF AgainAll, Again, Delivery
  <2>3. Task(r.name, unacked[c][i].topic, unacked[c][i].seq) \in cut
    BY <1>9, GoingParts DEF Seats, LeftBehind, Leaves
  <2> QED BY <1>1, <2>2, <2>3
<1>17. PICK p : p = h
  OBVIOUS
<1>18. PICK ds : ds = AgainAll(unacked[c])
  OBVIOUS
<1>19. PICK C : C = cut'
  OBVIOUS
<1> HIDE DEF h, others
<1>20. g \in TidyHand(o) /\ LeavesHand(C, g)
  <2>1. \A i \in 1..Len(queue[c]) : MembersOf(o, listed, r.name, queue[c][i].topic) = <<>>
          => Task(r.name, queue[c][i].topic, queue[c][i].seq) \in C
    BY <1>15, <1>19
  <2>2. p \in TidyHand(o) /\ LeavesHand(C, p) /\ g = HandBackAll(p, o, r, queue[c], TRUE)
    BY <1>8, <1>13, <1>17, <1>19
  <2> HIDE DEF g, r
  <2> QED BY <1>3, <1>9, <1>14, <2>1, <2>2, HandBackAllLeaves
<1>21. LeavesHand(C, e)
  <2>1. \A i \in 1..Len(ds) : Task(r.name, ds[i].topic, ds[i].seq) \in C
    BY <1>16, <1>18, <1>19
  <2>2. ds \in Seq(LoggedSet) /\ e = HandBackAll(g, o, r, ds, FALSE)
    BY <1>8, <1>14, <1>18
  <2> HIDE DEF g, e, r
  <2> QED BY <1>3, <1>9, <1>20, <2>1, <2>2, HandBackAllLeaves
<1>22. LeftBehind'
  <2>1. parked' = e.parked
    BY <1>2 DEF SetHand
  <2> HIDE DEF e
  <2>2. \A s \in Names : Leaves(cut', s, parked'[s])
    BY <1>19, <1>21, <2>1 DEF LeavesHand
  <2>3. \A b \in 1..nextId : unacked'[b] = unacked[b] \/ unacked'[b] = <<>>
    BY <1>2, <1>3 DEF TypeOK
  <2>4. \A b \in 1..nextId : Leaves(cut', reg[b].name, unacked'[b])
    BY <1>1, <2>3, GoingParts DEF Seats, LeftBehind, Leaves
  <2> QED BY <1>2, <2>2, <2>4 DEF LeftBehind, Leaves
<1>23. Attached' = Consumers(o)
  BY <1>2, <1>8 DEF Attached, Consumers
<1>24. \A x \in due : x \notin cut' /\ Seated(x) => Seated(x)'
  <2> SUFFICES ASSUME NEW x \in due, x \notin cut' PROVE Seated(x)'
    OBVIOUS
  <2>1. PICK b \in Consumers(o) : reg[b].name = x.name /\ Reads(listed, b, x.topic)
    BY <1>10
  <2>2. PICK n : n = b
    OBVIOUS
  <2>3. n \in Attached' /\ reg'[n].name = x.name /\ Reads(listed, n, x.topic)
    BY <1>2, <1>23, <2>1, <2>2
  <2>4. Reads(listed, n, x.topic)'
    BY <1>2, <2>3 DEF Reads, IsPattern
  <2> QED BY <2>3, <2>4 DEF Seated
<1>25. Listings' /\ Attached' \subseteq 1..nextId'
  <2>1. Attached \subseteq 1..nextId
    BY <1>3, KnownConsumer
  <2> QED BY <1>2, <1>9, <1>23, <2>1, GoingParts DEF Seats, Listings
<1>26. Seats'
  BY <1>3, <1>6, <1>22, <1>24, <1>25, GoingParts, SeatsTurn
<1> QED
  BY <1>5, <1>7, <1>26 DEF Steady

\* A subscriber comes: it takes what was left, the others stay.
LEMMA AttachSteady ==
  ASSUME Going, BInv', up', Attach, UNCHANGED <<stage, due, again, cut>>
  PROVE  Steady'
<1>1. Subscribe /\ opened' = opened
  BY DEF Attach
<1>2. PICK c : c = nextId + 1
  OBVIOUS
<1>3. nextId' = c /\ nextId < MaxConsumers /\ UNCHANGED <<up, log, unacked, settle, swap>>
  BY <1>1, <1>2 DEF Subscribe
<1>4. PICK r \in Registrations :
        \E R : /\ R = IF IsPattern(r) THEN r.topics \cap created ELSE r.topics
               /\ reg' = [reg EXCEPT ![c] = r] /\ attached' = Append(attached, c)
               /\ created' = IF IsPattern(r) THEN created ELSE created \cup r.topics
               /\ parked' = [parked EXCEPT ![r.name] =
                               Select(parked[r.name], Over(Topics \ R))]
               /\ \E D : listed' = [Listing(D, created') EXCEPT
                                      ![c] = IF IsPattern(r) THEN R ELSE {}]
  BY <1>1, <1>2 DEF Subscribe
<1>5. PICK R : /\ R = IF IsPattern(r) THEN r.topics \cap created ELSE r.topics
               /\ reg' = [reg EXCEPT ![c] = r] /\ attached' = Append(attached, c)
               /\ created' = IF IsPattern(r) THEN created ELSE created \cup r.topics
               /\ parked' = [parked EXCEPT ![r.name] =
                               Select(parked[r.name], Over(Topics \ R))]
               /\ \E D : listed' = [Listing(D, created') EXCEPT
                                      ![c] = IF IsPattern(r) THEN R ELSE {}]
  BY <1>4
<1>6. PICK D : listed' = [Listing(D, created') EXCEPT ![c] = IF IsPattern(r) THEN R ELSE {}]
  BY <1>5
<1>7. /\ IInv' /\ IInv /\ TypeOK /\ nextId \in Nat /\ MaxConsumers \in Nat
      /\ reg \in [Ids -> Registrations \cup {None}] /\ attached \in Seq(1..nextId)
      /\ parked \in [Names -> Seq(Delivery)] /\ unacked \in [Ids -> Seq(Delivery)]
  BY RouterAssumption, GoingParts DEF BInv, CInv, TypeOK
<1>8. /\ c \in Ids /\ r.name \in Names /\ 1..nextId \subseteq Ids /\ c \notin 1..nextId
      /\ \A b : b \in 1..nextId' <=> b \in 1..nextId \/ b = c
  BY <1>2, <1>3, <1>7, RouterAssumption DEF Ids, Registration
<1>9. reg'[c] = r /\ \A b \in 1..nextId : reg'[b] = reg[b]
  BY <1>5, <1>7, <1>8
<1>10. Enrolled
  BY <1>2, <1>3, <1>7, <1>9 DEF Enrolled
<1>11. Keeping
  BY <1>1, <1>7, GoingParts, SubscribePromise
<1>12. Staged' /\ Done' = Done
  BY <1>1, <1>3, <1>10, GoingParts, OpenedLength, StageStill
<1>13. Turn({}, {}, {}) /\ log' = log
  BY <1>11, <1>12, QuietTurn
<1>14. Ledger' /\ Letters'
  BY <1>10, <1>13, SilentTurn
<1>15. LeftBehind'
  <2>1. \A b \in 1..nextId' : Leaves(cut, reg'[b].name, unacked[b])
    <3>1. unacked[c] = <<>>
      <4>1. c > nextId
        BY <1>2, <1>7
      <4> QED BY <1>8, <4>1 DEF Going, BInv, Backed, Unopened
    <3>2. Leaves(cut, reg'[c].name, unacked[c])
      BY <3>1 DEF Leaves
    <3> QED BY <1>8, <1>9, <3>2, GoingParts DEF Seats, LeftBehind
  <2>2. ASSUME NEW s \in Names PROVE Leaves(cut, s, parked'[s])
    <3>1. Leaves(cut, s, parked[s])
      BY GoingParts DEF Seats, LeftBehind
    <3>2. CASE s = r.name
      <4>1. PICK S : S = Over(Topics \ R)
        OBVIOUS
      <4>2. PICK ds : ds = parked[s]
        OBVIOUS
      <4>3. ds \in Seq(Delivery) /\ parked'[s] = Select(ds, S)
        BY <1>5, <1>7, <1>8, <3>2, <4>1, <4>2
      <4>4. \A i \in 1..Len(Select(ds, S)) : \E j \in 1..Len(ds) : Select(ds, S)[i] = ds[j]
        BY <4>3, SelectProps
      <4>5. Leaves(cut, s, Select(ds, S))
        BY <3>1, <4>2, <4>4 DEF Leaves
      <4> QED BY <4>3, <4>5
    <3>3. CASE s # r.name
      BY <1>5, <1>7, <3>1, <3>3
    <3> QED BY <3>2, <3>3
  <2>3. cut' = cut /\ unacked' = unacked
    BY <1>3
  <2>4. (\A b \in 1..nextId : Leaves(cut, reg[b].name, unacked[b]))'
    BY <2>1, <2>3 DEF Leaves
  <2>5. (\A s \in Names : Leaves(cut, s, parked[s]))'
    BY <2>2, <2>3 DEF Leaves
  <2> QED BY <2>4, <2>5 DEF LeftBehind
<1>16. /\ \A b \in 1..nextId : listed[b] \subseteq listed'[b]
       /\ Listings'
  <2>1. created \subseteq created'
    BY <1>5
  <2>2. \A b \in 1..nextId :
          listed'[b] = IF b \in D THEN reg[b].topics \cap created' ELSE listed[b]
    BY <1>6, <1>8 DEF Listing
  <2>3. listed'[c] = IF IsPattern(r) THEN R ELSE {}
    BY <1>6, <1>8 DEF Listing
  <2>4. \A b \in 1..nextId : listed[b] \subseteq created \cap reg[b].topics
    BY GoingParts DEF Seats, Listings
  <2>5. \A b \in 1..nextId : /\ listed[b] \subseteq listed'[b]
                             /\ listed'[b] \subseteq created' \cap reg'[b].topics
    BY <1>9, <2>1, <2>2, <2>4
  <2>6. listed'[c] \subseteq created' \cap reg'[c].topics
    BY <1>5, <1>9, <2>3
  <2> QED BY <1>8, <2>5, <2>6 DEF Listings
<1>17. Attached \subseteq Attached' /\ Attached' \subseteq 1..nextId'
  <2>1. /\ Len(attached') = Len(attached) + 1 /\ attached'[Len(attached) + 1] = c
        /\ \A i \in 1..Len(attached) : attached'[i] = attached[i]
        /\ Len(attached) \in Nat
    BY <1>5, <1>7
  <2>2. \A i \in 1..Len(attached') : i \in 1..Len(attached) \/ i = Len(attached) + 1
    BY <2>1
  <2>3. \A i \in 1..Len(attached) : i \in 1..Len(attached') /\ attached[i] \in 1..nextId
    BY <1>7, <2>1
  <2> QED BY <1>8, <2>1, <2>2, <2>3 DEF Attached
<1>18. ASSUME NEW x \in due, Seated(x) PROVE Seated(x)'
  <2>1. PICK b \in Attached : reg[b].name = x.name /\ Reads(listed, b, x.topic)
    BY <1>18 DEF Seated
  <2>2. b \in 1..nextId
    BY <2>1, <1>7, KnownConsumer
  <2>3. PICK n : n = b
    OBVIOUS
  <2>4. n \in Attached' /\ reg'[n].name = x.name /\ reg'[n] = reg[n]
        /\ listed[n] \subseteq listed'[n] /\ Reads(listed, n, x.topic)
    BY <1>9, <1>16, <1>17, <2>1, <2>2, <2>3
  <2>5. Reads(listed, n, x.topic)'
    BY <2>4 DEF Reads, IsPattern
  <2> QED BY <2>4, <2>5 DEF Seated
<1>19. Seats'
  BY <1>10, <1>13, <1>15, <1>16, <1>17, <1>18, GoingParts, SeatsTurn
<1> QED
  BY <1>12, <1>14, <1>19 DEF Steady

\* The service starts up.
LEMMA StartSteady ==
  ASSUME Going, BInv', up', Start
  PROVE  Steady'
<1>1. UNCHANGED <<stage, due, again, cut>>
  BY DEF Start, serviceVars
<1>2. CASE Attach
  BY <1>1, <1>2, AttachSteady
<1>3. CASE Declare \/ Check \/ Refuse
  <2>1. UNCHANGED vars /\ opened' = opened
    BY <1>3 DEF Declare, Check, Refuse
  <2> QED BY <1>1, <2>1, OpenedLength, RestingSteady
<1>4. CASE RecordOpened
  <2>1. UNCHANGED vars /\ \E o : opened' = Append(opened, o)
    BY <1>4 DEF RecordOpened
  <2>2. opened \in Seq(Record)
    BY DEF Going, MountInv, MountTypeOK
  <2>3. Len(opened') = Len(opened) + 1
    BY <2>1, <2>2
  <2> QED BY <1>1, <2>1, <2>3, OpenedLength, RestingSteady
<1> QED
  BY <1>2, <1>3, <1>4 DEF Start

-----------------------------------------------------------------------------
(* Services that go straight ahead do what they are to do, once *)

\* No step opens a broker.
LEMMA OpenBefore ==
  ASSUME TypeOK, [Next]_vars, up'
  PROVE  up
<1> SUFFICES ASSUME ~up PROVE up' = up
  OBVIOUS
<1>1. up = FALSE
  BY DEF TypeOK
<1>2. CASE UNCHANGED vars
  BY <1>2 DEF vars
<1>3. CASE Publish \/ Subscribe \/ Refresh \/ FinishSeek \/ Shutdown
  BY <1>1, <1>3 DEF Publish, Subscribe, Refresh, FinishSeek, Shutdown
<1>4. ASSUME NEW c \in Ids, Unsubscribe(c) PROVE up' = up
  BY <1>4 DEF Unsubscribe
<1>5. ASSUME NEW c \in Ids, NEW pos \in Positions, Seek(c, pos) PROVE up' = up
  BY <1>5 DEF Seek
<1>6. ASSUME NEW m \in Slots, NEW c \in Ids, Poll(m, c) PROVE up' = up
  BY <1>6 DEF Poll
<1>7. ASSUME NEW m \in Slots, \/ Nack(m) \/ Fire(m) \/ NackAfter(m) \/ Count(m)
                             \/ Release(m) \/ Ack(m) \/ Drop(m)
      PROVE  up' = up
  BY <1>7 DEF Nack, Fire, NackAfter, Count, Release, Ack, Drop
<1> QED
  BY <1>2, <1>3, <1>4, <1>5, <1>6, <1>7 DEF Next, Settled, Others

\* What a step of a service leaves of the router and of its mounts.
LEMMA MountedStep ==
  ASSUME MountInv, BInv, OriginIsPublished, Len(opened) <= Len(plan), [ServiceNext]_allVars
  PROVE  /\ MountInv' /\ BInv' /\ OriginIsPublished' /\ Len(opened') <= Len(plan')
         /\ plan' = plan /\ (up' => up)
<1>1. [MountNext]_<<vars, mountVars>>
  BY ServiceStep
<1>2. [Next]_vars
  <2>1. Declare \/ Check \/ RecordOpened \/ Refuse => UNCHANGED vars
    BY DEF Declare, Check, RecordOpened, Refuse
  <2>2. Attach => Next
    BY DEF Attach, Next, Others
  <2>3. Beside => Next
    BY DEF Beside
  <2> QED BY <1>1, <2>1, <2>2, <2>3 DEF MountNext
<1>3. MountInv' /\ BInv'
  BY <1>1, <1>2, MountStep, BackedStep
<1>4. OriginIsPublished'
  BY <1>2, OriginStep DEF BInv, CInv
<1>5. up' => up
  BY <1>2, OpenBefore DEF BInv, CInv, IInv
<1>6. opened \in Seq(Record) /\ Len(plan) \in Nat
  BY OpeningAssumption DEF MountInv, MountTypeOK
<1>7. CASE RecordOpened
  <2>1. plan' = plan /\ \E o : opened' = Append(opened, o)
    BY <1>7 DEF RecordOpened
  <2>2. Len(opened') = Len(opened) + 1 /\ Len(opened) \in Nat
    BY <1>6, <2>1
  <2>3. Len(opened) < Len(plan)
    BY <1>7 DEF RecordOpened, Mounting
  <2> QED BY <1>3, <1>4, <1>5, <1>6, <2>1, <2>2, <2>3
<1>8. CASE ~RecordOpened
  <2>1. plan' = plan /\ opened' = opened
    BY <1>1, <1>8 DEF MountNext, Beside, Declare, Check, Attach, Refuse, mountVars
  <2> QED BY <1>3, <1>4, <1>5, <2>1
<1> QED
  BY <1>7, <1>8

\* A step of a straight service keeps it going.
LEMMA WorkSteady ==
  ASSUME Going, BInv', up', [ServiceNext]_allVars
  PROVE  Steady'
<1>1. ASSUME NEW m \in Slots, NEW c \in Ids, Take(m, c) PROVE Steady'
  BY <1>1, TakeSteady
<1>2. ASSUME NEW m \in Slots, Run(m) PROVE Steady'
  BY <1>2, RunSteady
<1>3. ASSUME NEW m \in Slots, Send(m) PROVE Steady'
  BY <1>3, SendSteady
<1>4. ASSUME NEW m \in Slots, Move(m) PROVE FALSE
  <2>1. stage[m] \in Stages
    BY GoingParts DEF Staged
  <2> QED BY <1>4, <2>1 DEF Move, Stages, Outcomes
<1>5. ASSUME NEW m \in Slots, Settle(m) PROVE Steady'
  BY <1>5, SettleSteady
<1>6. ASSUME NEW m \in Slots, Cancel(m) PROVE Steady'
  BY <1>6, CancelSteady
<1>7. ASSUME NEW c \in Ids, Leave(c) PROVE Steady'
  BY <1>7, LeaveSteady
<1>8. CASE Start
  BY <1>8, StartSteady
<1>9. CASE Background
  BY <1>9, BackgroundSteady
<1>10. CASE Customer
  BY <1>10, CustomerSteady
<1>11. CASE Outage \/ UNCHANGED allVars
  <2>1. UNCHANGED <<vars, stage, due, again, cut>> /\ opened' = opened
    BY <1>11 DEF Outage, mountVars, allVars, serviceVars
  <2> QED BY <2>1, OpenedLength, RestingSteady
<1>12. CASE Stop
  BY <1>12 DEF Stop, Shutdown
<1> QED
  BY <1>1, <1>2, <1>3, <1>4, <1>5, <1>6, <1>7, <1>8, <1>9, <1>10, <1>11, <1>12
     DEF ServiceNext, Runtime, Surroundings

\* Nothing is to do before anything was published.
LEMMA ServiceStart == ServiceInit => WInv
<1> SUFFICES ASSUME ServiceInit PROVE WInv
  OBVIOUS
<1>1. MountInit /\ Init /\ MountInv /\ BInv /\ IInv
  BY MountInitStep, BackedInit DEF ServiceInit, MountInit, BInv, CInv
<1>2. /\ nextId = 0 /\ log = [t \in Topics |-> <<>>] /\ parked = [s \in Names |-> <<>>]
      /\ settle = [m \in Slots |-> Idle] /\ opened = <<>> /\ due = {} /\ again = {} /\ cut = {}
      /\ stage = [m \in Slots |-> NoStage] /\ plan \in Plans
  BY <1>1 DEF Init, MountInit, ServiceInit
<1>3. OriginIsPublished
  BY <1>2 DEF OriginIsPublished
<1>4. Len(opened) <= Len(plan)
  BY <1>2, OpeningAssumption
<1>5. Staged /\ Done = {}
  BY <1>2 DEF Staged, Done, Finished, NoStage, Stages, Idle
<1>6. DeadLetters = {}
  BY <1>2 DEF DeadLetters
<1>7. ASSUME NEW x \in AllTasks PROVE Copies(x) = 0
  BY <1>1, <1>7, CopiesAreNat, StartOwesNothing DEF Copies
<1>8. Ledger
  BY <1>2, <1>5, <1>7 DEF Ledger, Single, Charged, Covered
<1>9. Letters
  BY <1>6 DEF Letters
<1>10. Seats
  <2>1. \A s \in Names : Leaves(cut, s, parked[s])
    BY <1>2 DEF Leaves
  <2> QED BY <1>2, <1>7, <2>1 DEF Seats, LeftBehind, Listings
<1> QED
  BY <1>1, <1>3, <1>4, <1>5, <1>8, <1>9, <1>10 DEF WInv, Steady

\* And every step keeps the invariant.
LEMMA ServiceKeeps == WInv /\ [ServiceNext]_allVars => WInv'
<1> SUFFICES ASSUME WInv, [ServiceNext]_allVars PROVE WInv'
  OBVIOUS
<1>1. /\ MountInv' /\ BInv' /\ OriginIsPublished' /\ Len(opened') <= Len(plan')
      /\ plan' = plan /\ (up' => up)
  BY MountedStep DEF WInv
<1>2. ASSUME up', Straight(plan)' PROVE Steady'
  <2>1. up /\ Straight(plan)
    <3>1. PICK ms : ms = plan
      OBVIOUS
    <3>2. Straight(ms)' <=> Straight(ms)
      BY DEF Straight, Consumed, Intended, RegistrationOf
    <3>3. plan' = ms
      BY <1>1, <3>1
    <3> QED BY <1>1, <1>2, <3>1, <3>2, <3>3 DEF Straight, Consumed
  <2>2. Going
    BY <2>1 DEF WInv, Going
  <2> QED BY <1>1, <1>2, <2>2, WorkSteady
<1> QED
  BY <1>1, <1>2 DEF WInv

LEMMA WorkInvariance == ServiceSpec => []WInv
BY ServiceStart, ServiceKeeps, PTL DEF ServiceSpec

\* In every straight service, with any topics, subscriptions, consumers, handlers at
\* work, log lengths and retries, and whatever is cancelled, left or delayed: until the
\* broker shuts down no handler does anew what was done, no message becomes two dead
\* letters and none is a dead letter that was also done (settle, requeue, dead_letter).
THEOREM StraightDoneOnce == ServiceSpec => [](Straight(plan) => DoneOnce)
<1>1. WInv => (Straight(plan) => DoneOnce)
  <2> SUFFICES ASSUME WInv, Straight(plan), up PROVE
                 /\ again \subseteq cut
                 /\ \A d, e \in DeadLetters : OriginOf(d) = OriginOf(e) => d = e
                 /\ \A d \in DeadLetters : \E x \in due \cup cut : <<x.topic, x.seq>> = OriginOf(d)
    BY DEF DoneOnce
  <2>1. Ledger /\ Letters
    BY DEF WInv, Steady
  <2>2. ASSUME NEW d \in DeadLetters
        PROVE  \E x \in due \cup cut : <<x.topic, x.seq>> = OriginOf(d)
    <3>1. PICK x : Laid(d, x)
      BY <2>1 DEF Letters
    <3> QED BY <3>1 DEF Laid, PlaceOf
  <2> QED BY <2>1, <2>2 DEF Ledger, Letters
<1> QED
  BY <1>1, WorkInvariance, PTL

\* A quiet service holds nothing but what was left.
LEMMA QuietLeaves ==
  ASSUME Going, Drained, \A m \in Slots : settle[m].duty # "timer",
         NEW x \in AllTasks, Copies(x) > 0
  PROVE  x \in cut
<1> DEFINE s == x.name
           e == PlaceOf(x)
<1>1. /\ s \in Names /\ e \in Places /\ x = Task(s, x.topic, x.seq) /\ e = <<x.topic, x.seq>>
  BY GoingParts, CopiesAreNat DEF PlaceOf
<1>2. IInv /\ TypeOK /\ queue \in Queues /\ unacked \in Queues
      /\ parked \in [Names -> Seq(Delivery)] /\ LeftBehind
  BY GoingParts DEF TypeOK, Queues, Seats
<1> HIDE DEF s, e
<1>3. PICK C : C = Of(s)
  OBVIOUS
<1>4. /\ Copies(x) = CopiesAt(queue, C, e) + CopiesIn(parked[s], e) + CopiesAt(unacked, C, e)
                       + HeldIn(settle, C, e)
      /\ CopiesAt(queue, C, e) \in Nat /\ CopiesIn(parked[s], e) \in Nat
      /\ CopiesAt(unacked, C, e) \in Nat /\ HeldIn(settle, C, e) \in Nat
  <2>1. /\ LiveCopies(s, e) = HandCopies(Hand, s, e) + Away(unacked, settle, Of(s), e)
        /\ HandCopies(Hand, s, e) = CopiesAt(queue, Of(s), e) + CopiesIn(parked[s], e)
        /\ CopiesAt(queue, Of(s), e) \in Nat /\ CopiesIn(parked[s], e) \in Nat
        /\ CopiesAt(unacked, Of(s), e) \in Nat /\ HeldIn(settle, Of(s), e) \in Nat
    BY <1>1, <1>2, LiveParts
  <2>2. Copies(x) = LiveCopies(s, e)
    BY DEF Copies, s, e
  <2> QED BY <1>3, <2>1, <2>2 DEF Away
<1>5. HeldIn(settle, C, e) = 0
  <2>1. \A m \in Slots : settle[m].duty # "handle"
    BY DEF Drained, Doing
  <2>2. {m \in Slots : HeldFor(settle[m], C, e)} = {}
    BY <2>1 DEF HeldFor
  <2> QED BY <2>2, FS_EmptySet DEF HeldIn
<1>6. CopiesAt(queue, C, e) = 0
  <2> SUFFICES ASSUME CopiesAt(queue, C, e) > 0 PROVE FALSE
    BY <1>4
  <2>1. PICK c \in Ids : CopiesIn(queue[c], e) > 0
    BY <1>2, CopySomewhere
  <2>2. queue[c] = <<>>
    BY DEF Drained
  <2> QED BY <2>1, <2>2, CopiesEmpty
<1>7. CASE CopiesIn(parked[s], e) > 0
  <2>1. PICK ds : ds = parked[s]
    OBVIOUS
  <2>2. ds \in Seq(Delivery) /\ CopiesIn(ds, e) > 0 /\ Leaves(cut, s, ds)
    BY <1>1, <1>2, <1>7, <2>1 DEF LeftBehind
  <2>3. PICK i \in 1..Len(ds) : Carries(ds[i], e)
    BY <2>2, CopyCarried
  <2>4. ds[i].topic = x.topic /\ ds[i].seq = x.seq
    BY <1>1, <2>3 DEF Carries
  <2>5. Task(s, ds[i].topic, ds[i].seq) \in cut
    BY <2>2 DEF Leaves
  <2> QED BY <1>1, <2>4, <2>5
<1>8. CASE CopiesAt(unacked, C, e) > 0
  <2>1. PICK c \in Ids : c \in C /\ CopiesIn(unacked[c], e) > 0
    BY <1>2, <1>8, CopySomewhere
  <2>2. c \in 1..nextId /\ reg[c].name = s
    <3>1. nextId \in Nat /\ Ids = 1..MaxConsumers
      BY GoingParts DEF Ids
    <3> QED BY <1>3, <2>1, <3>1, RouterAssumption DEF Of
  <2>3. PICK ds : ds = unacked[c]
    OBVIOUS
  <2>4. ds \in Seq(Delivery) /\ CopiesIn(ds, e) > 0 /\ Leaves(cut, s, ds)
    BY <1>2, <2>1, <2>2, <2>3 DEF LeftBehind, Queues
  <2>5. PICK i \in 1..Len(ds) : Carries(ds[i], e)
    BY <2>4, CopyCarried
  <2>6. ds[i].topic = x.topic /\ ds[i].seq = x.seq
    BY <1>1, <2>5 DEF Carries
  <2>7. Task(s, ds[i].topic, ds[i].seq) \in cut
    BY <2>4 DEF Leaves
  <2> QED BY <1>1, <2>6, <2>7
<1> QED
  BY <1>4, <1>5, <1>6, <1>7, <1>8

\* And when nothing is in flight and no retry waits, nothing is left to do: every
\* message was handled by every subscription it reached, is in the dead-letter topic,
\* or was left by a handler or a subscriber that was dropped (inflight, idle).
THEOREM StraightAllDone == ServiceSpec => [](Straight(plan) => AllDone)
<1>1. WInv => (Straight(plan) => AllDone)
  <2> SUFFICES ASSUME WInv, Straight(plan), up, inflight = 0,
                      \A m \in Slots : settle[m].duty \notin {"timer", "recount"},
                      NEW x \in due
               PROVE  x \in Buried \cup cut
    BY DEF AllDone
  <2>1. Going
    BY DEF WInv, Going
  <2>2. Drained
    <3>1. CInv /\ Doing({"recount"}) = {}
      BY DEF WInv, BInv, Doing
    <3> QED BY <3>1, QuietCounted DEF QuietIsDrained
  <2>3. x \in AllTasks /\ (x \in cut \/ Copies(x) > 0 \/ Rested(PlaceOf(x)))
    BY <2>1, GoingParts DEF Ledger, Covered
  <2>4. Copies(x) > 0 => x \in cut
    BY <2>1, <2>2, <2>3, QuietLeaves
  <2>5. Rested(PlaceOf(x)) => x \in Buried
    BY DEF Rested, PlaceOf, Buried
  <2> QED BY <2>3, <2>4, <2>5
<1> QED
  BY <1>1, WorkInvariance, PTL
=============================================================================
