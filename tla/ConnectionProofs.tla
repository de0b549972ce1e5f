-------------------------- MODULE ConnectionProofs --------------------------
(***************************************************************************)
(* Theorems about a broker's connection, for every set of clones, callers  *)
(* and topics and any number of publishes.                                 *)
(***************************************************************************)
EXTENDS ConnectionProps, TLAPS, SequenceTheorems

-----------------------------------------------------------------------------
(* Lines *)

Tasks == Callers \cup Brokers

\* Asking for a lock takes it from nobody who holds it.
LEMMA AskedLine ==
  ASSUME NEW q \in Seq(Tasks), NEW x \in Tasks
  PROVE  /\ Append(q, x) \in Seq(Tasks)
         /\ \A y : Holds(y, q) => Holds(y, Append(q, x))
<1>1. /\ Append(q, x) \in Seq(Tasks) /\ Append(q, x) # <<>>
      /\ q # <<>> => Head(Append(q, x)) = Head(q)
  BY AppendProperties
<1> QED
  BY <1>1 DEF Holds

\* Who leaves a line takes no lock from anybody else.
LEMMA LeftLine ==
  ASSUME NEW q \in Seq(Tasks), NEW x
  PROVE  /\ Without(q, x) \in Seq(Tasks)
         /\ \A y : Holds(y, q) /\ y # x => Holds(y, Without(q, x))
<1>1. CASE \A i \in 1..Len(q) : q[i] # x
  BY <1>1 DEF Without
<1>2. CASE \E i \in 1..Len(q) : q[i] = x
  <2> DEFINE i == CHOOSE i \in 1..Len(q) : q[i] = x
             n == Len(q) - 1
             e(j) == IF j < i THEN q[j] ELSE q[j + 1]
             w == [j \in 1..n |-> e(j)]
  <2>1. i \in 1..Len(q) /\ q[i] = x
    BY <1>2
  <2>2. Without(q, x) = w
    BY <1>2 DEF Without
  <2> HIDE DEF i
  <2>3. n \in Nat /\ Len(q) \in Nat
    BY <2>1
  <2>4. \A j \in 1..n : j \in 1..Len(q) /\ j + 1 \in 1..Len(q)
    BY <2>3
  <2>5. \A j \in 1..n : e(j) \in Tasks
    BY <2>4, ElementOfSeq
  <2> HIDE DEF e
  <2>6. w \in Seq(Tasks) /\ Len(w) = n
    <3> HIDE DEF n
    <3> QED BY <2>3, <2>5, IsASeq
  <2>7. ASSUME NEW y, q # <<>>, Head(q) = y, y # x
        PROVE  w # <<>> /\ Head(w) = y
    <3>1. q[1] = y /\ i # 1
      BY <2>1, <2>7
    <3>2. 1 \in 1..n /\ 1 < i
      BY <2>1, <2>3, <3>1
    <3>3. w[1] = y
      BY <3>1, <3>2 DEF e
    <3>4. w # <<>>
      <4> HIDE DEF w, n
      <4> QED BY <2>6, <3>2
    <3> HIDE DEF w
    <3> QED BY <3>3, <3>4
  <2> HIDE DEF w
  <2> QED BY <2>2, <2>6, <2>7 DEF Holds
<1> QED
  BY <1>1, <1>2

\* The next one in a line has its turn.
LEMMA ServedLine ==
  ASSUME NEW q \in Seq(Tasks), NEW x, Holds(x, q)
  PROVE  Tail(q) \in Seq(Tasks)
BY HeadTailProperties DEF Holds

-----------------------------------------------------------------------------
(* The inductive invariant *)

\* One clone dials at a time, and only while there is no connection.
Dialing ==
  /\ \A b \in Brokers : broker[b].at = "dialing" => ~filled
  /\ \A a, b \in Brokers : broker[a].at = "dialing" /\ broker[b].at = "dialing" => a = b

\* Who awaits a producer holds the map, which has none for that topic.
Building ==
  \A c \in Callers : caller[c].at = "building" =>
    /\ Holds(c, line)
    /\ caller[c].with \in Producers
    /\ producer[caller[c].with].of = caller[c].to
    /\ cache[caller[c].to] = 0

\* A publish that sends has a producer.
Sending ==
  \A c \in Callers : caller[c].at \in {"found", "turn", "receipt"} => caller[c].with # 0

\* A shutdown under way has marked the connection, and has producers left to
\* close only once it drained them.
Closing ==
  \A b \in Brokers :
    /\ broker[b].at \in {"marked", "lining", "closing", "turn", "shut"} => closed
    /\ broker[b].left # {} => broker[b].at \in {"closing", "turn"}
    /\ broker[b].at = "turn" => broker[b].now \in broker[b].left

IInv == /\ TypeOK /\ OneClient /\ Dialing /\ Building /\ Sending /\ Closing
        /\ OneProducerPerTopic /\ NoneOutOfReach

\* A clone, a caller and a producer keep their types when a step sets one field
\* to a value of the field's type.
LEMMA Fields ==
  ASSUME TypeOK
  PROVE  /\ \A b \in Brokers, r \in Clone : [broker EXCEPT ![b] = r] \in [Brokers -> Clone]
         /\ \A c \in Callers, r \in Caller : [caller EXCEPT ![c] = r] \in [Callers -> Caller]
         /\ \A p \in Producers, r \in Producer :
              [producer EXCEPT ![p] = r] \in [Producers -> Producer]
         /\ Idle \in Caller
<1>1. Idle \in Caller
  BY ConnectionAssumption DEF Idle, Caller
<1> QED
  BY <1>1 DEF TypeOK

LEMMA CloneAt ==
  ASSUME TypeOK, NEW b \in Brokers,
         NEW at \in {"new", "dialing", "failed", "connected", "marked", "lining",
                     "closing", "turn", "shut"}
  PROVE  [broker EXCEPT ![b].at = at] \in [Brokers -> Clone]
BY DEF TypeOK, Clone

LEMMA CallerAt ==
  ASSUME TypeOK, NEW c \in Callers,
         NEW at \in {"idle", "checked", "lining", "building", "found", "turn", "receipt"}
  PROVE  /\ [caller EXCEPT ![c].at = at] \in [Callers -> Caller]
         /\ \A p \in 0..MaxPublishes :
              [caller EXCEPT ![c].at = at, ![c].with = p] \in [Callers -> Caller]
BY DEF TypeOK, Caller

LEMMA CloneStep ==
  ASSUME TypeOK, NEW b \in Brokers, NEW at, Step(b, at)
  PROVE  \A a \in Brokers : /\ broker'[a].left = broker[a].left
                            /\ broker'[a].now = broker[a].now
                            /\ broker'[a].at = IF a = b THEN at ELSE broker[a].at
BY DEF TypeOK, Clone, Step

LEMMA ProducerBecomes ==
  ASSUME TypeOK, NEW p, NEW is, Becomes(p, is)
  PROVE  \A q \in Producers : /\ producer'[q].of = producer[q].of
                              /\ producer'[q].is = IF q = p THEN is ELSE producer[q].is
BY DEF TypeOK, Producer, Becomes

LEMMA ProducerIs ==
  ASSUME TypeOK, NEW p \in Producers,
         NEW is \in {"none", "building", "open", "gone", "closed", "refused"}
  PROVE  [producer EXCEPT ![p].is = is] \in [Producers -> Producer]
BY DEF TypeOK, Producer

\* Each action keeps every variable in its set.
LEMMA TypeStep ==
  ASSUME TypeOK, [Next]_vars
  PROVE  TypeOK'
<1> USE ConnectionAssumption DEF connection, map
<1>1. CASE UNCHANGED vars
  BY <1>1 DEF vars, TypeOK
<1>2. ASSUME NEW b \in Brokers, Connect(b) PROVE TypeOK'
  <2>1. broker' \in [Brokers -> Clone]
    <3>1. CASE Step(b, "connected")
      BY <3>1, CloneAt DEF Step
    <3>2. CASE Step(b, "dialing")
      BY <3>2, CloneAt DEF Step
    <3> QED BY <1>2, <3>1, <3>2 DEF Connect
  <2> QED BY <1>2, <2>1 DEF Connect, TypeOK
<1>3. ASSUME NEW b \in Brokers, Dialed(b) PROVE TypeOK'
  <2>1. broker' \in [Brokers -> Clone]
    <3>1. CASE Step(b, "connected")
      BY <3>1, CloneAt DEF Step
    <3>2. CASE Step(b, "failed")
      BY <3>2, CloneAt DEF Step
    <3> QED BY <1>3, <3>1, <3>2 DEF Dialed
  <2>2. clients' \in Nat /\ filled' \in BOOLEAN
    <3>1. CASE clients' = clients + 1 /\ filled' = TRUE
      BY <3>1 DEF TypeOK
    <3>2. CASE UNCHANGED <<clients, filled>>
      BY <3>2 DEF TypeOK
    <3> QED BY <1>3, <3>1, <3>2 DEF Dialed
  <2> QED BY <1>3, <2>1, <2>2 DEF Dialed, TypeOK
<1>4. ASSUME NEW c \in Callers, NEW t \in Topics, Publish(c, t) PROVE TypeOK'
  <2>1. [at |-> "checked", to |-> t, with |-> 0] \in Caller
    BY DEF Caller
  <2>2. caller' \in [Callers -> Caller]
    BY <1>4, <2>1, Fields DEF Publish
  <2> QED BY <1>4, <2>2 DEF Publish, TypeOK
<1>5. ASSUME NEW c \in Callers, AskMap(c) PROVE TypeOK'
  <2>1. line' \in Seq(Callers \cup Brokers)
    BY <1>5, AppendProperties DEF AskMap, TypeOK
  <2>2. caller' \in [Callers -> Caller]
    BY <1>5, CloneAt, CallerAt DEF AskMap, Goes, TypeOK
  <2> QED BY <1>5, <2>1, <2>2 DEF AskMap, TypeOK
<1>6. ASSUME NEW c \in Callers, Find(c) PROVE TypeOK'
  <2>1. line' \in Seq(Callers \cup Brokers)
    BY <1>6, ServedLine DEF Find, TypeOK, Tasks
  <2>2. cache[caller[c].to] \in 0..MaxPublishes
    BY DEF TypeOK, Caller
  <2>3. caller' \in [Callers -> Caller]
    BY <1>6, <2>2, CallerAt DEF Find
  <2> QED BY <1>6, <2>1, <2>3 DEF Find, TypeOK
<1>7. ASSUME NEW c \in Callers, Build(c) PROVE TypeOK'
  <2>1. PICK p \in Producers :
          /\ producer' = [producer EXCEPT ![p] = [of |-> caller[c].to, is |-> "building"]]
          /\ caller' = [caller EXCEPT ![c].at = "building", ![c].with = p]
    BY <1>7 DEF Build
  <2>2. p \in 0..MaxPublishes /\ [of |-> caller[c].to, is |-> "building"] \in Producer
    BY DEF Producers, Producer, TypeOK, Caller
  <2>3. caller' \in [Callers -> Caller]
    BY <2>1, <2>2, CallerAt
  <2>4. producer' \in [Producers -> Producer]
    BY <2>1, <2>2, Fields
  <2> QED BY <1>7, <2>3, <2>4 DEF Build, TypeOK
<1>8. ASSUME NEW p \in Producers, Built(p) PROVE TypeOK'
  <2>1. line' \in Seq(Callers \cup Brokers)
    BY <1>8, ServedLine DEF Built, Freed, Tasks, TypeOK
  <2>2. p \in 0..MaxPublishes
    BY DEF Producers
  <2>3. cache' \in [Topics -> 0..MaxPublishes]
    BY <1>8, <2>2 DEF Built, TypeOK
  <2>4. producer' \in [Producers -> Producer]
    <3>1. CASE Becomes(p, "open")
      BY <3>1, ProducerIs DEF Becomes
    <3>2. CASE Becomes(p, "gone")
      BY <3>2, ProducerIs DEF Becomes
    <3> QED BY <1>8, <3>1, <3>2 DEF Built
  <2>5. \A c \in Callers : [caller[c] EXCEPT !.at = "found"] \in Caller
    BY DEF TypeOK, Caller
  <2>6. caller' \in [Callers -> Caller]
    <3>1. Idle \in Caller /\ \A c \in Callers : caller[c] \in Caller
      BY Fields DEF TypeOK
    <3>2. \/ caller' = [c \in Callers |-> IF c \in Awaiting(p)
                                         THEN [caller[c] EXCEPT !.at = "found"]
                                         ELSE caller[c]]
          \/ caller' = [c \in Callers |-> IF c \in Awaiting(p) THEN Idle ELSE caller[c]]
      BY <1>8 DEF Built
    <3> QED BY <2>5, <3>1, <3>2
  <2> QED BY <1>8, <2>1, <2>3, <2>4, <2>6 DEF Built, TypeOK
<1>9. ASSUME NEW c \in Callers, AskProducer(c) PROVE TypeOK'
  <2>1. turns' \in [Producers -> Seq(Callers \cup Brokers)]
    <3>1. CASE turns' = [turns EXCEPT ![caller[c].with] = Append(@, c)]
      BY <3>1, AppendProperties DEF TypeOK
    <3> QED BY <1>9, <3>1 DEF AskProducer, TypeOK
  <2>2. caller' \in [Callers -> Caller]
    <3>1. CASE Goes(c, "turn")
      BY <3>1, CallerAt DEF Goes
    <3>2. CASE caller' = [caller EXCEPT ![c] = Idle]
      BY <3>2, Fields DEF TypeOK
    <3> QED BY <1>9, <3>1, <3>2 DEF AskProducer
  <2> QED BY <1>9, <2>1, <2>2 DEF AskProducer, TypeOK
<1>10. ASSUME NEW c \in Callers, Send(c) PROVE TypeOK'
  <2>1. turns' \in [Producers -> Seq(Callers \cup Brokers)]
    BY <1>10, ServedLine DEF Send, Tasks, TypeOK
  <2>2. caller' \in [Callers -> Caller]
    <3>1. CASE Goes(c, "receipt")
      BY <3>1, CallerAt DEF Goes
    <3>2. CASE caller' = [caller EXCEPT ![c] = Idle]
      BY <3>2, Fields
    <3> QED BY <1>10, <3>1, <3>2 DEF Send
  <2> QED BY <1>10, <2>1, <2>2 DEF Send, TypeOK
<1>11. ASSUME NEW c \in Callers, Receive(c) PROVE TypeOK'
  BY <1>11, Fields DEF Receive, TypeOK
<1>12. ASSUME NEW c \in Callers, Cancel(c) PROVE TypeOK'
  <2>1. /\ line' \in Seq(Callers \cup Brokers)
        /\ turns' \in [Producers -> Seq(Callers \cup Brokers)]
    BY <1>12, LeftLine DEF Cancel, Tasks, TypeOK
  <2>2. caller' \in [Callers -> Caller]
    BY <1>12, Fields DEF Cancel
  <2> QED BY <1>12, <2>1, <2>2 DEF Cancel, TypeOK
<1>13. ASSUME NEW b \in Brokers, Mark(b) PROVE TypeOK'
  BY <1>13, CloneAt DEF Mark, Step, TypeOK
<1>14. ASSUME NEW b \in Brokers, AskDrain(b) PROVE TypeOK'
  <2>1. line' \in Seq(Callers \cup Brokers)
    BY <1>14, AppendProperties DEF AskDrain, TypeOK
  <2>2. broker' \in [Brokers -> Clone]
    BY <1>14, CloneAt DEF AskDrain, Step
  <2> QED BY <1>14, <2>1, <2>2 DEF AskDrain, TypeOK
<1>15. ASSUME NEW b \in Brokers, Drain(b) PROVE TypeOK'
  <2>1. line' \in Seq(Callers \cup Brokers)
    BY <1>15, ServedLine DEF Drain, Tasks, TypeOK
  <2> DEFINE drained == {cache[t] : t \in Topics} \ {0}
  <2>2. drained \in SUBSET Producers
    BY DEF Producers, TypeOK
  <2>3. broker' = [broker EXCEPT ![b].at = "closing", ![b].left = drained]
    BY <1>15 DEF Drain
  <2>4. broker' \in [Brokers -> Clone]
    <3> HIDE DEF drained
    <3>1. [broker[b] EXCEPT !.at = "closing", !.left = drained] \in Clone
      BY <2>2 DEF TypeOK, Clone
    <3> QED BY <2>3, <3>1, Fields DEF TypeOK
  <2>5. cache' \in [Topics -> 0..MaxPublishes]
    BY <1>15 DEF Drain
  <2> QED BY <1>15, <2>1, <2>4, <2>5 DEF Drain, TypeOK
<1>16. ASSUME NEW b \in Brokers, AskClose(b) PROVE TypeOK'
  <2>1. PICK p \in broker[b].left :
          /\ broker' = [broker EXCEPT ![b].at = "turn", ![b].now = p]
          /\ turns' = [turns EXCEPT ![p] = Append(@, b)]
    BY <1>16 DEF AskClose
  <2>2. p \in Producers /\ p \in 0..MaxPublishes
    BY DEF Producers, TypeOK, Clone
  <2>3. turns' \in [Producers -> Seq(Callers \cup Brokers)]
    BY <2>1, <2>2, AppendProperties DEF TypeOK
  <2>4. broker' \in [Brokers -> Clone]
    <3>1. [broker[b] EXCEPT !.at = "turn", !.now = p] \in Clone
      BY <2>2 DEF TypeOK, Clone
    <3> QED BY <2>1, <3>1, Fields DEF TypeOK
  <2> QED BY <1>16, <2>3, <2>4 DEF AskClose, TypeOK
<1>17. ASSUME NEW b \in Brokers, Close(b) PROVE TypeOK'
  <2>1. turns' \in [Producers -> Seq(Callers \cup Brokers)]
    BY <1>17, ServedLine DEF Close, Tasks, TypeOK
  <2>2. producer' \in [Producers -> Producer]
    <3> DEFINE p == broker[b].now
    <3>1. CASE p \notin Producers
      BY <1>17, <3>1 DEF Close, Becomes, TypeOK
    <3>2. CASE p \in Producers /\ Becomes(p, "closed")
      BY <3>2, ProducerIs DEF Becomes
    <3>3. CASE p \in Producers /\ Becomes(p, "refused")
      BY <3>3, ProducerIs DEF Becomes
    <3> QED BY <1>17, <3>1, <3>2, <3>3 DEF Close
  <2>3. broker' \in [Brokers -> Clone]
    <3> DEFINE p == broker[b].now
               r == [broker[b] EXCEPT !.at = "closing", !.now = 0, !.left = @ \ {p}]
    <3>1. r \in Clone
      <4>1. broker[b] \in Clone /\ 0 \in 0..MaxPublishes
        BY DEF TypeOK
      <4>2. broker[b].left \ {p} \in SUBSET Producers
        BY <4>1 DEF Clone
      <4> HIDE DEF p
      <4> QED BY <4>1, <4>2 DEF Clone
    <3>2. broker' = [broker EXCEPT ![b] = r]
      BY <1>17 DEF Close, TypeOK
    <3> HIDE DEF r
    <3> QED BY <3>1, <3>2, Fields
  <2> QED BY <1>17, <2>1, <2>2, <2>3 DEF Close, TypeOK
<1>18. ASSUME NEW b \in Brokers, Return(b) PROVE TypeOK'
  BY <1>18, CloneAt DEF Return, Step, TypeOK
<1> QED
  BY <1>1, <1>2, <1>3, <1>4, <1>5, <1>6, <1>7, <1>8, <1>9, <1>10, <1>11, <1>12,
     <1>13, <1>14, <1>15, <1>16, <1>17, <1>18 DEF Next, Proceed, ShutDown

-----------------------------------------------------------------------------
(* Each part of the invariant *)

\* Only one clone at a time gets to dial, and it finds no connection; nothing
\* but a dial that succeeded builds a client.
LEMMA DialStep ==
  ASSUME TypeOK, OneClient, Dialing, [Next]_vars
  PROVE  OneClient' /\ Dialing'
<1> USE DEF connection, map
<1>1. CASE UNCHANGED <<broker, clients, filled>>
  BY <1>1 DEF OneClient, Dialing
<1>2. ASSUME NEW b \in Brokers, Connect(b) PROVE OneClient' /\ Dialing'
  <2>1. CASE filled /\ Step(b, "connected")
    BY <1>2, <2>1 DEF Connect, Step, OneClient, Dialing, TypeOK
  <2>2. CASE /\ ~filled /\ Step(b, "dialing")
             /\ \A a \in Brokers : broker[a].at # "dialing"
    BY <1>2, <2>2 DEF Connect, Step, OneClient, Dialing, TypeOK
  <2> QED BY <1>2, <2>1, <2>2 DEF Connect
<1>3. ASSUME NEW b \in Brokers, Dialed(b) PROVE OneClient' /\ Dialing'
  <2>1. broker[b].at = "dialing" /\ ~filled /\ clients = 0
    BY <1>3 DEF Dialed, OneClient, Dialing
  <2>2. CASE clients' = clients + 1 /\ filled' = TRUE /\ Step(b, "connected")
    BY <2>1, <2>2 DEF Step, OneClient, Dialing, TypeOK
  <2>3. CASE Step(b, "failed") /\ UNCHANGED <<clients, filled>>
    BY <2>1, <2>3 DEF Step, OneClient, Dialing, TypeOK
  <2> QED BY <1>3, <2>2, <2>3 DEF Dialed
<1>4. ASSUME NEW b \in Brokers, Mark(b) \/ ShutDown(b) PROVE OneClient' /\ Dialing'
  <2> DEFINE outside == {"new", "dialing", "failed"}
  <2>1. broker[b].at \notin outside /\ UNCHANGED <<clients, filled>>
    BY <1>4 DEF Mark, ShutDown, AskDrain, Drain, AskClose, Close, Return
  <2>2. \A a \in Brokers : broker'[a].at # broker[a].at => a = b /\ broker'[a].at \notin outside
    <3>1. CASE Mark(b) \/ AskDrain(b) \/ Return(b)
      BY <3>1, CloneStep DEF Mark, AskDrain, Return
    <3>2. CASE Drain(b)
      BY <3>2 DEF Drain, TypeOK, Clone
    <3>3. CASE AskClose(b)
      BY <3>3 DEF AskClose, TypeOK, Clone
    <3>4. CASE Close(b)
      BY <3>4 DEF Close, TypeOK, Clone
    <3> QED BY <1>4, <3>1, <3>2, <3>3, <3>4 DEF ShutDown
  <2> QED
    BY <2>1, <2>2 DEF OneClient, Dialing
<1> QED
  BY <1>1, <1>2, <1>3, <1>4
  DEF Next, Proceed, AskMap, Find, Build, AskProducer, Send, Receive, Cancel, Publish,
      Built, vars

\* A shutdown has marked the connection before it does anything else, and what
\* it has left is what it drained and did not close yet.
LEMMA ClosingStep ==
  ASSUME TypeOK, Closing, [Next]_vars
  PROVE  Closing'
<1> USE DEF connection, map, Closing
<1>1. CASE UNCHANGED <<broker, closed>>
  BY <1>1
<1>2. ASSUME NEW b \in Brokers, Connect(b) \/ Dialed(b) PROVE Closing'
  <2>1. PICK at \in {"connected", "dialing", "failed"} : Step(b, at)
    BY <1>2 DEF Connect, Dialed
  <2>2. UNCHANGED closed /\ broker[b].at \in {"new", "dialing"}
    BY <1>2 DEF Connect, Dialed
  <2> QED BY <2>1, <2>2, CloneStep
<1>3. ASSUME NEW b \in Brokers, Mark(b) PROVE Closing'
  BY <1>3 DEF Mark, Step, TypeOK
<1>4. ASSUME NEW b \in Brokers, AskDrain(b) PROVE Closing'
  BY <1>4 DEF AskDrain, Step, TypeOK
<1>5. ASSUME NEW b \in Brokers, Drain(b) PROVE Closing'
  BY <1>5 DEF Drain, TypeOK
<1>6. ASSUME NEW b \in Brokers, AskClose(b) PROVE Closing'
  BY <1>6 DEF AskClose, TypeOK
<1>7. ASSUME NEW b \in Brokers, Close(b) PROVE Closing'
  BY <1>7 DEF Close, TypeOK
<1>8. ASSUME NEW b \in Brokers, Return(b) PROVE Closing'
  BY <1>8 DEF Return, Step, TypeOK
<1> QED
  BY <1>1, <1>2, <1>3, <1>4, <1>5, <1>6, <1>7, <1>8
  DEF Next, Proceed, AskMap, Find, Build, AskProducer, Send, Receive, Cancel, Publish,
      Built, ShutDown, vars

\* When a build ends, those who awaited it go on with it or give up, and nobody
\* else moves.
LEMMA BuiltCallers ==
  ASSUME TypeOK, NEW p \in Producers, Built(p), NEW c \in Callers
  PROVE  \/ c \notin Awaiting(p) /\ caller'[c] = caller[c]
         \/ /\ c \in Awaiting(p) /\ caller'[c].at = "found"
            /\ caller'[c].to = caller[c].to /\ caller'[c].with = p
            /\ cache' = [cache EXCEPT ![producer[p].of] = p]
         \/ c \in Awaiting(p) /\ caller'[c].at = "idle"
<1>1. CASE cache' = [cache EXCEPT ![producer[p].of] = p] /\
           caller' = [d \in Callers |-> IF d \in Awaiting(p)
                                        THEN [caller[d] EXCEPT !.at = "found"]
                                        ELSE caller[d]]
  BY <1>1 DEF TypeOK, Caller, Awaiting
<1>2. CASE caller' = [d \in Callers |-> IF d \in Awaiting(p) THEN Idle ELSE caller[d]]
  BY <1>2 DEF Idle
<1> QED
  BY <1>1, <1>2 DEF Built

\* Who awaits a producer is the only one who holds the map.
LEMMA Alone ==
  ASSUME Building, NEW x, Holds(x, line)
  PROVE  \A c \in Callers : caller[c].at = "building" => c = x
BY DEF Building, Holds

\* The map is kept by whoever awaits a producer, through everything that others
\* do and until the build ends or the publish is dropped.
LEMMA BuildingStep ==
  ASSUME TypeOK, Building, [Next]_vars
  PROVE  Building'
<1> USE ConnectionAssumption DEF connection, map
<1>1. CASE UNCHANGED <<caller, line, producer, cache>>
  BY <1>1 DEF Building, Holds
<1>2. ASSUME NEW c \in Callers, AskMap(c) PROVE Building'
  <2>1. \A y : Holds(y, line) => Holds(y, line')
    BY <1>2, AskedLine DEF AskMap, TypeOK, Tasks
  <2> QED BY <1>2, <2>1 DEF AskMap, Goes, Building, TypeOK
<1>3. ASSUME NEW c \in Callers, Find(c) PROVE Building'
  <2>1. \A d \in Callers : caller'[d].at # "building"
    BY <1>3, Alone DEF Find, TypeOK
  <2> QED BY <2>1 DEF Building
<1>4. ASSUME NEW c \in Callers, Build(c) PROVE Building'
  <2>1. PICK p \in Producers :
          /\ producer' = [producer EXCEPT ![p] = [of |-> caller[c].to, is |-> "building"]]
          /\ caller' = [caller EXCEPT ![c].at = "building", ![c].with = p]
    BY <1>4 DEF Build
  <2>2. \A d \in Callers : caller'[d].at = "building" => d = c
    BY <1>4, <2>1, Alone DEF Build, TypeOK
  <2>3. /\ caller'[c].with = p /\ caller'[c].to = caller[c].to
        /\ producer'[p].of = caller[c].to
    BY <2>1 DEF TypeOK, Caller
  <2>4. Holds(c, line') /\ cache'[caller[c].to] = 0
    BY <1>4 DEF Build
  <2> QED BY <2>2, <2>3, <2>4 DEF Building
<1>5. ASSUME NEW p \in Producers, Built(p) PROVE Building'
  <2>1. CASE Awaiting(p) # {}
    <3>1. PICK c \in Callers : c \in Awaiting(p)
      BY <2>1 DEF Awaiting
    <3>2. \A d \in Callers : caller[d].at = "building" => d = c
      BY <3>1, Alone DEF Awaiting, Building
    <3>3. ASSUME NEW d \in Callers PROVE caller'[d].at # "building"
      <4>1. d \in Awaiting(p) \/ caller[d].at # "building"
        BY <3>1, <3>2
      <4> QED BY <1>5, <4>1, BuiltCallers
    <3> QED BY <3>3 DEF Building
  <2>2. CASE Awaiting(p) = {}
    <3>1. line' = line /\ cache' = cache /\ caller' = caller
      BY <1>5, <2>2 DEF Built, Freed, TypeOK
    <3>2. \A q \in Producers : producer'[q].of = producer[q].of
      BY <1>5, ProducerBecomes DEF Built
    <3> QED BY <3>1, <3>2 DEF Building
  <2> QED BY <2>1, <2>2
<1>6. ASSUME NEW c \in Callers, AskProducer(c) \/ Send(c) \/ Receive(c) PROVE Building'
  <2>1. UNCHANGED <<line, producer, cache>>
    BY <1>6 DEF AskProducer, Send, Receive
  <2>2. \A d \in Callers : caller'[d].at = "building" => caller'[d] = caller[d]
    <3>1. CASE Goes(c, "turn") \/ Goes(c, "receipt")
      BY <3>1 DEF Goes, TypeOK, Caller
    <3>2. CASE caller' = [caller EXCEPT ![c] = Idle]
      BY <3>2 DEF Idle, TypeOK
    <3> QED BY <1>6, <3>1, <3>2 DEF AskProducer, Send, Receive
  <2> QED BY <2>1, <2>2 DEF Building, Holds
<1>7. ASSUME NEW c \in Callers, NEW t \in Topics, Publish(c, t) PROVE Building'
  <2>1. \A d \in Callers : caller'[d].at = "building" => caller'[d] = caller[d]
    <3>1. caller' = [caller EXCEPT ![c] = [at |-> "checked", to |-> t, with |-> 0]]
      BY <1>7 DEF Publish
    <3> QED BY <3>1 DEF TypeOK
  <2> QED BY <1>7, <2>1 DEF Publish, Building, Holds
<1>8. ASSUME NEW c \in Callers, Cancel(c) PROVE Building'
  <2>1. \A y : Holds(y, line) /\ y # c => Holds(y, line')
    BY <1>8, LeftLine DEF Cancel, TypeOK, Tasks
  <2>2. \A d \in Callers : caller'[d].at = "building" => d # c /\ caller'[d] = caller[d]
    <3>1. caller' = [caller EXCEPT ![c] = Idle] /\ Idle.at # "building"
      BY <1>8 DEF Cancel, Idle
    <3> QED BY <3>1 DEF TypeOK
  <2> QED BY <1>8, <2>1, <2>2 DEF Cancel, Building
<1>9. ASSUME NEW b \in Brokers, AskDrain(b) PROVE Building'
  <2>1. \A y : Holds(y, line) => Holds(y, line')
    BY <1>9, AskedLine DEF AskDrain, TypeOK, Tasks
  <2> QED BY <1>9, <2>1 DEF AskDrain, Building
<1>10. ASSUME NEW b \in Brokers, Drain(b) PROVE Building'
  <2>1. \A d \in Callers : caller[d].at # "building"
    BY <1>10, Alone DEF Drain
  <2> QED BY <1>10, <2>1 DEF Drain, Building
<1>11. ASSUME NEW b \in Brokers, Close(b) PROVE Building'
  <2>1. \A q \in Producers : producer'[q].of = producer[q].of
    BY <1>11, ProducerBecomes DEF Close
  <2> QED BY <1>11, <2>1 DEF Close, Building, Holds
<1> QED
  BY <1>1, <1>2, <1>3, <1>4, <1>5, <1>6, <1>7, <1>8, <1>9, <1>10, <1>11
  DEF Next, Proceed, ShutDown, Connect, Dialed, Mark, AskClose, Return, vars

\* A publish that is told to send has been given a producer.
LEMMA SendingStep ==
  ASSUME TypeOK, Building, Sending, [Next]_vars
  PROVE  Sending'
<1> USE DEF connection, map
<1>1. CASE UNCHANGED caller
  BY <1>1 DEF Sending
<1>2. ASSUME NEW c \in Callers, NEW t \in Topics, Publish(c, t) PROVE Sending'
  <2>1. caller' = [caller EXCEPT ![c] = [at |-> "checked", to |-> t, with |-> 0]]
    BY <1>2 DEF Publish
  <2> QED BY <2>1 DEF Sending, TypeOK
<1>3. ASSUME NEW c \in Callers, Find(c) PROVE Sending'
  BY <1>3 DEF Find, Sending, TypeOK, Caller
<1>4. ASSUME NEW c \in Callers, Build(c) PROVE Sending'
  BY <1>4 DEF Build, Sending, TypeOK, Caller
<1>5. ASSUME NEW p \in Producers, Built(p) PROVE Sending'
  <2> SUFFICES ASSUME NEW c \in Callers, caller'[c].at \in {"found", "turn", "receipt"}
               PROVE  caller'[c].with # 0
    BY DEF Sending
  <2> QED BY <1>5, BuiltCallers DEF Sending, Producers
<1>6. ASSUME NEW c \in Callers, AskMap(c) \/ AskProducer(c) PROVE Sending'
  <2>1. CASE Goes(c, "lining")
    BY <2>1 DEF Goes, Sending, TypeOK, Caller
  <2>2. CASE Goes(c, "turn") /\ caller[c].at = "found"
    BY <2>2 DEF Goes, Sending, TypeOK, Caller
  <2>3. CASE caller' = [caller EXCEPT ![c] = Idle]
    BY <2>3 DEF Idle, Sending, TypeOK
  <2> QED BY <1>6, <2>1, <2>2, <2>3 DEF AskMap, AskProducer
<1>7. ASSUME NEW c \in Callers, Send(c) \/ Receive(c) \/ Cancel(c) PROVE Sending'
  <2>1. CASE Goes(c, "receipt") /\ caller[c].at = "turn"
    BY <2>1 DEF Goes, Sending, TypeOK, Caller
  <2>2. CASE caller' = [caller EXCEPT ![c] = Idle]
    BY <2>2 DEF Idle, Sending, TypeOK
  <2> QED BY <1>7, <2>1, <2>2 DEF Send, Receive, Cancel
<1> QED
  BY <1>1, <1>2, <1>3, <1>4, <1>5, <1>6, <1>7
  DEF Next, Proceed, ShutDown, Connect, Dialed, Mark, AskDrain, Drain, AskClose, Close,
      Return, vars

\* Until the shutdown, whoever sends to a topic has the producer that the map
\* keeps: no one puts a second one in while another builds, and only a shutdown
\* takes one out.
LEMMA OneProducerStep ==
  ASSUME TypeOK, Building, Sending, Closing, OneProducerPerTopic, [Next]_vars
  PROVE  OneProducerPerTopic'
<1> USE DEF connection, map
<1>1. CASE UNCHANGED <<caller, cache>> /\ (closed' = closed \/ closed')
  BY <1>1 DEF OneProducerPerTopic
<1>2. ASSUME NEW c \in Callers, NEW t \in Topics, Publish(c, t) PROVE OneProducerPerTopic'
  <2>1. caller' = [caller EXCEPT ![c] = [at |-> "checked", to |-> t, with |-> 0]]
    BY <1>2 DEF Publish
  <2> QED BY <1>2, <2>1 DEF Publish, OneProducerPerTopic, TypeOK
<1>3. ASSUME NEW c \in Callers, Find(c) PROVE OneProducerPerTopic'
  BY <1>3 DEF Find, OneProducerPerTopic, TypeOK, Caller
<1>4. ASSUME NEW c \in Callers, Build(c) PROVE OneProducerPerTopic'
  BY <1>4 DEF Build, OneProducerPerTopic, TypeOK, Caller
<1>5. ASSUME NEW p \in Producers, Built(p) PROVE OneProducerPerTopic'
  <2> SUFFICES ASSUME ~closed, NEW c \in Callers,
                      caller'[c].at \in {"found", "turn", "receipt"}
               PROVE  cache'[caller'[c].to] = caller'[c].with
    BY <1>5 DEF Built, OneProducerPerTopic
  <2>1. CASE c \in Awaiting(p)
    <3>1. /\ caller'[c].to = caller[c].to /\ caller'[c].with = p
          /\ cache' = [cache EXCEPT ![producer[p].of] = p]
      BY <1>5, <2>1, BuiltCallers
    <3>2. producer[p].of = caller[c].to /\ caller[c].to \in Topics
      BY <2>1 DEF Awaiting, Building, TypeOK, Caller
    <3> QED BY <3>1, <3>2 DEF TypeOK
  <2>2. CASE c \notin Awaiting(p)
    <3>1. caller'[c] = caller[c] /\ cache[caller[c].to] = caller[c].with
      BY <1>5, <2>2, BuiltCallers DEF OneProducerPerTopic
    <3>2. caller[c].with # 0
      BY <3>1 DEF Sending
    <3>3. CASE cache' = cache
      BY <3>1, <3>3
    <3>4. CASE Awaiting(p) # {} /\ cache' = [cache EXCEPT ![producer[p].of] = p]
      <4>1. cache[producer[p].of] = 0
        BY <3>4 DEF Awaiting, Building
      <4> QED BY <3>1, <3>2, <3>4, <4>1 DEF TypeOK
    <3> QED BY <1>5, <3>3, <3>4 DEF Built
  <2> QED BY <2>1, <2>2
<1>6. ASSUME NEW c \in Callers, AskMap(c) \/ AskProducer(c) PROVE OneProducerPerTopic'
  <2>1. UNCHANGED <<closed, cache>>
    BY <1>6 DEF AskMap, AskProducer
  <2>2. CASE Goes(c, "lining")
    BY <2>1, <2>2 DEF Goes, OneProducerPerTopic, TypeOK, Caller
  <2>3. CASE Goes(c, "turn") /\ caller[c].at = "found"
    BY <2>1, <2>3 DEF Goes, OneProducerPerTopic, TypeOK, Caller
  <2>4. CASE caller' = [caller EXCEPT ![c] = Idle]
    BY <2>1, <2>4 DEF Idle, OneProducerPerTopic, TypeOK
  <2> QED BY <1>6, <2>2, <2>3, <2>4 DEF AskMap, AskProducer
<1>7. ASSUME NEW c \in Callers, Send(c) \/ Receive(c) \/ Cancel(c)
      PROVE  OneProducerPerTopic'
  <2>1. UNCHANGED <<closed, cache>>
    BY <1>7 DEF Send, Receive, Cancel
  <2>2. CASE Goes(c, "receipt") /\ caller[c].at = "turn"
    BY <2>1, <2>2 DEF Goes, OneProducerPerTopic, TypeOK, Caller
  <2>3. CASE caller' = [caller EXCEPT ![c] = Idle]
    BY <2>1, <2>3 DEF Idle, OneProducerPerTopic, TypeOK
  <2> QED BY <1>7, <2>2, <2>3 DEF Send, Receive, Cancel
<1>8. ASSUME NEW b \in Brokers, Drain(b) PROVE OneProducerPerTopic'
  BY <1>8 DEF Drain, Closing, OneProducerPerTopic
<1> QED
  BY <1>1, <1>2, <1>3, <1>4, <1>5, <1>6, <1>7, <1>8
  DEF Next, Proceed, ShutDown, Connect, Dialed, Mark, AskDrain, AskClose, Close,
      Return, vars

\* A producer that opens goes into the map in a place that was free; a drain
\* takes all of them along and a close takes out the one it closes.
LEMMA ReachStep ==
  ASSUME TypeOK, Building, Closing, NoneOutOfReach, [Next]_vars
  PROVE  NoneOutOfReach'
<1> USE DEF connection, map
<1>1. CASE UNCHANGED <<producer, cache>> /\ \A b \in Brokers : broker'[b].left = broker[b].left
  BY <1>1 DEF NoneOutOfReach
<1>2. ASSUME NEW c \in Callers, Build(c) PROVE NoneOutOfReach'
  BY <1>2 DEF Build, NoneOutOfReach, TypeOK
<1>3. ASSUME NEW p \in Producers, Built(p) PROVE NoneOutOfReach'
  <2>1. broker' = broker
    BY <1>3 DEF Built
  <2>2. CASE Awaiting(p) # {} /\ Becomes(p, "open")
             /\ cache' = [cache EXCEPT ![producer[p].of] = p]
    <3>1. cache[producer[p].of] = 0 /\ producer[p].of \in Topics
      BY <2>2 DEF Awaiting, Building, TypeOK, Producer
    <3>2. \A q \in Producers : /\ producer'[q].of = producer[q].of
                               /\ producer'[q].is = IF q = p THEN "open" ELSE producer[q].is
      BY <2>2, ProducerBecomes
    <3>3. \A q \in Producers : q # 0
      BY DEF Producers
    <3>4. ASSUME NEW q \in Producers, q # p, producer[q].is = "open"
          PROVE  cache'[producer[q].of] = q \/ \E b \in Brokers : q \in broker[b].left
      BY <2>2, <3>1, <3>3, <3>4 DEF NoneOutOfReach, TypeOK
    <3>5. cache'[producer[p].of] = p
      BY <2>2, <3>1 DEF TypeOK
    <3> QED BY <2>1, <3>2, <3>4, <3>5 DEF NoneOutOfReach
  <2>3. CASE Becomes(p, "gone") /\ cache' = cache
    BY <2>1, <2>3, ProducerBecomes DEF NoneOutOfReach
  <2> QED BY <1>3, <2>2, <2>3 DEF Built
<1>4. ASSUME NEW b \in Brokers, Drain(b) PROVE NoneOutOfReach'
  <2> DEFINE drained == {cache[t] : t \in Topics} \ {0}
  <2>1. broker'[b].left = drained
    BY <1>4 DEF Drain, TypeOK, Clone
  <2>2. \A a \in Brokers : a # b => broker'[a].left = broker[a].left
    BY <1>4 DEF Drain, TypeOK
  <2>3. broker[b].left = {}
    BY <1>4 DEF Drain, Closing
  <2>4. producer' = producer
    BY <1>4 DEF Drain
  <2>5. ASSUME NEW p \in Producers, cache[producer[p].of] = p PROVE p \in drained
    BY <2>5 DEF Producers, Producer, TypeOK
  <2> HIDE DEF drained
  <2> QED BY <2>1, <2>2, <2>3, <2>4, <2>5 DEF NoneOutOfReach
<1>5. ASSUME NEW b \in Brokers, Close(b) PROVE NoneOutOfReach'
  <2> DEFINE p == broker[b].now
  <2>1. \A q \in Producers : q # p => producer'[q] = producer[q]
    BY <1>5 DEF Close, Becomes, TypeOK
  <2>2. p \in Producers /\ producer'[p].is # "open"
    <3>1. p \in Producers
      BY <1>5 DEF Close, Closing, TypeOK, Clone
    <3> QED BY <1>5, <3>1, ProducerBecomes DEF Close
  <2>3. \A q \in Producers, a \in Brokers :
          q # p /\ q \in broker[a].left => q \in broker'[a].left
    BY <1>5 DEF Close, TypeOK, Clone
  <2>4. cache' = cache
    BY <1>5 DEF Close
  <2> HIDE DEF p
  <2> QED BY <2>1, <2>2, <2>3, <2>4 DEF NoneOutOfReach
<1>6. ASSUME NEW b \in Brokers, Connect(b) \/ Dialed(b) \/ Mark(b) \/ AskDrain(b) \/ Return(b)
      PROVE  NoneOutOfReach'
  <2>1. \E at : Step(b, at)
    BY <1>6 DEF Connect, Dialed, Mark, AskDrain, Return
  <2>2. UNCHANGED <<producer, cache>>
    BY <1>6 DEF Connect, Dialed, Mark, AskDrain, Return
  <2> QED BY <1>1, <2>1, <2>2, CloneStep
<1>7. ASSUME NEW b \in Brokers, AskClose(b) PROVE NoneOutOfReach'
  <2>1. \A a \in Brokers : broker'[a].left = broker[a].left
    BY <1>7 DEF AskClose, TypeOK, Clone
  <2> QED BY <1>1, <1>7, <2>1 DEF AskClose
<1> QED
  BY <1>1, <1>2, <1>3, <1>4, <1>5, <1>6, <1>7
  DEF Next, Proceed, ShutDown, AskMap, Find, AskProducer, Send, Receive, Cancel, Publish, vars

-----------------------------------------------------------------------------
(* Theorems *)

\* The inductive invariant: types, the one client, who holds the map while a
\* producer is built, and where each producer is.
THEOREM Invariance == Spec => []IInv
<1>1. Init => IInv
  <2> SUFFICES ASSUME Init PROVE IInv
    OBVIOUS
  <2>1. Idle \in Caller /\ Idle.at = "idle" /\ Idle.to \in Topics
    BY ConnectionAssumption DEF Idle, Caller
  <2>2. TypeOK
    <3>1. /\ [at |-> "new", left |-> {}, now |-> 0] \in Clone
          /\ [of |-> Idle.to, is |-> "none"] \in Producer
          /\ 0 \in 0..MaxPublishes
      BY <2>1, ConnectionAssumption DEF Clone, Producer
    <3>2. <<>> \in Seq(Callers \cup Brokers)
      OBVIOUS
    <3> QED BY <2>1, <3>1, <3>2 DEF Init, TypeOK
  <2>3. OneClient /\ Dialing /\ Closing
    BY DEF Init, OneClient, Dialing, Closing
  <2>4. Building /\ Sending /\ OneProducerPerTopic
    BY <2>1 DEF Init, Building, Sending, OneProducerPerTopic
  <2>5. NoneOutOfReach
    BY DEF Init, NoneOutOfReach
  <2> QED BY <2>2, <2>3, <2>4, <2>5 DEF IInv
<1>2. IInv /\ [Next]_vars => IInv'
  BY TypeStep, DialStep, ClosingStep, BuildingStep, SendingStep, OneProducerStep, ReachStep
  DEF IInv
<1> QED
  BY <1>1, <1>2, PTL DEF Spec

\* Every variable of the connection, its callers and its producers keeps its
\* type.
THEOREM TypeCorrect == Spec => []TypeOK
<1>1. IInv => TypeOK
  BY DEF IInv
<1> QED
  BY <1>1, Invariance, PTL

\* Any number of clones that connect at once build one client, whoever's dial
\* fails.
THEOREM OneClientAlways == Spec => []OneClient
<1>1. IInv => OneClient
  BY DEF IInv
<1> QED
  BY <1>1, Invariance, PTL

\* Before the shutdown, no interleaving of publishes, of which any may be
\* dropped, makes two of them send to one topic through different producers.
THEOREM OneProducerAlways == Spec => []OneProducerPerTopic
<1>1. IInv => OneProducerPerTopic
  BY DEF IInv
<1> QED
  BY <1>1, Invariance, PTL

\* An open producer is in the map or in the hands of a shutdown, whatever
\* builds, drops, drains and failed closes went before.
THEOREM NeverOutOfReach == Spec => []NoneOutOfReach
<1>1. IInv => NoneOutOfReach
  BY DEF IInv
<1> QED
  BY <1>1, Invariance, PTL
=============================================================================
