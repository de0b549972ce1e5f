------------------------------- MODULE Opening -------------------------------
(***************************************************************************)
(* How a service's registrations become consumers of the in-process        *)
(* router: a retry declaration is taken in, the descriptor is checked, the *)
(* consumer attached and the subscription recorded (subscription.rs,       *)
(* broker.rs); and the answer that record gives the test harness about     *)
(* who a publish reaches (in_process/route.rs).                            *)
(*                                                                         *)
(* The framework mounts one registration at a time, declaration first, and *)
(* a refused one ends the startup.  Everything else the router does goes   *)
(* on between the steps of a mount.                                        *)
(***************************************************************************)
EXTENDS Router

CONSTANTS
  Plans,        \* what a service may mount: sequences of mounts
  DefaultName,  \* the broker's default subscription, None when it names none
  NoKey         \* the key of an unkeyed message

\* What a registration declares about its retries: 0 and None when it does not.
\* `sound': its dead-letter topic, if it names one, is a name the server takes.
Retry == [cap : Nat, dead : {None} \cup Topics, sound : BOOLEAN]
NoRetry == [cap |-> 0, dead |-> None, sound |-> TRUE]

\* A registration.  `spelled' is its topic as written, "" for a list of several
\* and for a pattern; `bare' registrations are that name and nothing else.
\* `sound': every topic name, or the pattern, is one the server takes.  `handler'
\* names what is mounted, which the framework calls.
Mount ==
  [spelled : STRING, bare : BOOLEAN, sound : BOOLEAN, name : {None} \cup Names,
   sharing : Sharings, pattern : STRING, topics : SUBSET Topics, retry : Retry,
   handler : STRING]

MountsOf(ms) == {ms[i] : i \in 1..Len(ms)}

Spellings == {m.spelled : m \in UNION {MountsOf(ms) : ms \in Plans}}

ASSUME OpeningAssumption ==
  /\ Plans \subseteq Seq(Mount)
  /\ DefaultName \in {None} \cup Names
  /\ NoKey \in Keys

VARIABLES
  plan,      \* the mounts of this service
  phase,     \* how far the mount at hand has come
  declared,  \* the declaration held for each bare name
  opened     \* the record of the subscriptions opened

mountVars == <<plan, phase, declared, opened>>

Phases == {"mount", "declared", "checked", "attached", "refused"}

Record == [name : STRING \cup Names, subscription : Names,
           topics : SUBSET Topics, consumer : Ids]

-----------------------------------------------------------------------------
(* One mount *)

Mounting == Len(opened) < Len(plan) /\ phase # "refused"
Current == plan[Len(opened) + 1]

\* The name the framework reports a subscription by.
Reported(m) == IF m.spelled # "" THEN m.spelled ELSE m.name

\* A cap and a dead-letter topic come together or not at all, and the topic is
\* a name the server takes.
Resolves(retry) == retry.sound /\ ((retry.cap = 0) <=> (retry.dead = None))

\* A bare name opens the default subscription under what was declared for it.
Descriptor(m) ==
  IF m.bare THEN [m EXCEPT !.name = DefaultName, !.retry = declared[m.spelled]]
            ELSE m

\* A policy the client can apply: redeliveries are counted only where a
\* subscription has competing consumers.
DeadLetterPolicy(d) ==
  /\ Resolves(d.retry)
  /\ d.retry # NoRetry => d.sharing \in {"Shared", "KeyShared"}

Valid(d) == d.name # None /\ d.sound /\ DeadLetterPolicy(d)

RegistrationOf(d) ==
  [name |-> d.name, sharing |-> d.sharing, pattern |-> d.pattern,
   topics |-> d.topics,
   dead |-> IF d.retry = NoRetry THEN None
                                 ELSE [topic |-> d.retry.dead, limit |-> d.retry.cap]]

\* Mutant: the first declaration made for a name stays.
DeclareFirst ==
  /\ Mounting /\ phase = "mount"
  /\ Current.bare /\ Resolves(Current.retry)
  /\ declared' = [declared EXCEPT ![Current.spelled] =
                    IF @ = NoRetry THEN Current.retry ELSE @]
  /\ phase' = "declared"
  /\ UNCHANGED <<vars, plan, opened>>

\* The declaration a bare registration made is held under its name.
Declare ==
  /\ Mounting /\ phase = "mount"
  /\ Current.bare /\ Resolves(Current.retry)
  /\ declared' = [declared EXCEPT ![Current.spelled] = Current.retry]
  /\ phase' = "declared"
  /\ UNCHANGED <<vars, plan, opened>>

Declared == phase = (IF Current.bare THEN "declared" ELSE "mount")

\* The descriptor is valid and the broker was open.
Check ==
  /\ Mounting /\ Declared
  /\ Valid(Descriptor(Current)) /\ up
  /\ phase' = "checked"
  /\ UNCHANGED <<vars, plan, declared, opened>>

\* Mutant: an attach that succeeded is tried again.
AttachAgain ==
  /\ Mounting /\ phase = "checked"
  /\ Subscribe /\ reg'[nextId'] = RegistrationOf(Descriptor(Current))
  /\ UNCHANGED <<plan, phase, declared, opened>>

\* The router takes the consumer: a shutdown may have come in between.
Attach ==
  /\ Mounting /\ phase = "checked"
  /\ Subscribe /\ reg'[nextId'] = RegistrationOf(Descriptor(Current))
  /\ phase' = "attached"
  /\ UNCHANGED <<plan, declared, opened>>

\* The subscription is recorded, with its consumer.
RecordOpened ==
  /\ Mounting /\ phase = "attached"
  /\ LET d == Descriptor(Current)
     IN  opened' = Append(opened, [name |-> Reported(d), subscription |-> d.name,
                                   topics |-> d.topics, consumer |-> nextId])
  /\ phase' = "mount"
  /\ UNCHANGED <<vars, plan, declared>>

\* Half a declaration, or one whose topic is no name, an invalid descriptor, a closed broker, an exclusive
\* subscription that is held.
Refuse ==
  /\ Mounting
  /\ \/ phase = "mount" /\ Current.bare /\ ~Resolves(Current.retry)
     \/ Declared /\ (~Valid(Descriptor(Current)) \/ ~up)
     \/ phase = "checked" /\ Contested(RegistrationOf(Descriptor(Current)))
  /\ phase' = "refused"
  /\ UNCHANGED <<vars, plan, declared, opened>>

-----------------------------------------------------------------------------
(* The routing answer *)

\* Mutant: the answer takes the rotation to stand at its start.
NextPickUnturned(t, s) ==
  LET members == MembersOf(attached, listed, s, t)
  IN  IF members = <<>> THEN None
      ELSE Choose(reg[members[1]].sharing, members, NoKey, 0)

\* The consumer of subscription s that takes the next unkeyed message of t.
NextPick(t, s) ==
  LET members == MembersOf(attached, listed, s, t)
  IN  IF members = <<>> THEN None
      ELSE Choose(reg[members[1]].sharing, members, NoKey, rotation[s])

\* How many of the first n names are `name'.
Occurrences(names, name, n) == Cardinality({i \in 1..n : names[i] = name})

\* The record behind the p-th of the names asked about: the k-th subscription
\* reported by a name is the k-th one opened under it.
RecordAt(names, p) ==
  LET own == [i \in 1..Len(opened) |-> opened[i].name]
  IN  opened[CHOOSE i \in 1..Len(opened) :
               /\ own[i] = names[p]
               /\ Occurrences(own, names[p], i) = Occurrences(names, names[p], p)]

\* The positions in `names' a message published to t reaches: of every durable
\* subscription the one consumer that takes it, or the first when none does.
Routes(t, names) ==
  LET record == [p \in 1..Len(names) |-> RecordAt(names, p)]
      over == {p \in 1..Len(names) : t \in record[p].topics}
      of(s) == {p \in over : record[p].subscription = s}
      picked(s) == {p \in of(s) : record[p].consumer = NextPick(t, s)}
      first(P) == CHOOSE p \in P : \A q \in P : p <= q
  IN  {first(IF picked(s) # {} THEN picked(s) ELSE of(s)) :
         s \in {record[p].subscription : p \in over}}

-----------------------------------------------------------------------------
MountInit ==
  /\ Init
  /\ plan \in Plans
  /\ phase = "mount"
  /\ declared = [n \in Spellings |-> NoRetry]
  /\ opened = <<>>

\* Everything the router does but attach a consumer.
Beside == Next /\ nextId' = nextId /\ UNCHANGED mountVars

MountNext == Declare \/ Check \/ Attach \/ RecordOpened \/ Refuse \/ Beside

MountSpec == MountInit /\ [][MountNext]_<<vars, mountVars>>
=============================================================================
