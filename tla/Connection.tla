----------------------------- MODULE Connection -----------------------------
(***************************************************************************)
(* A broker's connection and the producers on it (broker.rs,               *)
(* publisher.rs).                                                          *)
(*                                                                         *)
(* Every clone of a broker and every publisher taken off one shares a cell *)
(* that the first connect fills.  A publish looks its topic's producer up  *)
(* in a map, under a lock it keeps while the client builds a missing one,  *)
(* and sends under the producer's own lock.  A shutdown marks the          *)
(* connection closed, drains the map and closes what it drained.           *)
(*                                                                         *)
(* Both locks hand themselves over first come, first served: each is the   *)
(* sequence of those who asked for it, and its head holds it.  The client  *)
(* is external: it answers a dial, a build, a send and a close as it likes.*)
(***************************************************************************)
EXTENDS Integers, Sequences, FiniteSets

CONSTANTS
  Brokers,       \* clones of one PulsarBroker
  Callers,       \* tasks that publish
  Topics,        \* topics by full name
  MaxPublishes,  \* bound: publishes that pass the closed check
  MayCancel      \* a publish may be dropped before it is done

ASSUME ConnectionAssumption ==
  /\ Brokers \cap Callers = {} /\ Topics # {}
  /\ MaxPublishes \in Nat
  /\ MayCancel \in BOOLEAN

\* A producer is the number of its build; a publish builds one at most.
Producers == 1..MaxPublishes

VARIABLES
  clients,    \* clients built
  filled,     \* the cell holds a connection
  closed,     \* the connection was shut down
  broker,     \* each clone: where its connect or its shutdown is, the
              \* producers it has left to close and the one it is closing
  caller,     \* each task: where its publish is, the topic, the producer
  line,       \* those who asked for the map's lock
  cache,      \* the map: each topic's producer, or 0
  producer,   \* each producer: its topic and what became of it
  turns,      \* those who asked for each producer's lock
  publishes   \* publishes so far

vars == <<clients, filled, closed, broker, caller, line, cache, producer, turns,
          publishes>>

connection == <<clients, filled, closed>>
map == <<line, cache>>

\* Leaves a line, whether at its head or not; nobody stands in one twice.
Without(q, x) ==
  IF \A i \in 1..Len(q) : q[i] # x THEN q
  ELSE LET i == CHOOSE i \in 1..Len(q) : q[i] = x
       IN  [j \in 1..(Len(q) - 1) |-> IF j < i THEN q[j] ELSE q[j + 1]]

Holds(x, q) == q # <<>> /\ Head(q) = x

Goes(c, at) == caller' = [caller EXCEPT ![c].at = at]

Step(b, at) == broker' = [broker EXCEPT ![b].at = at]

Idle == [at |-> "idle", to |-> CHOOSE t \in Topics : TRUE, with |-> 0]

-----------------------------------------------------------------------------
(* Connecting *)

\* Mutant: a connect that finds the cell empty dials, whoever else does.
ConnectUnguarded(b) ==
  /\ broker[b].at = "new"
  /\ IF filled THEN Step(b, "connected") ELSE Step(b, "dialing")
  /\ UNCHANGED <<connection, caller, map, producer, turns, publishes>>

\* A connect takes the connection that is there, or dials; while another
\* clone dials it waits for what comes of that.
Connect(b) ==
  /\ broker[b].at = "new"
  /\ IF filled THEN Step(b, "connected")
     ELSE /\ \A other \in Brokers : broker[other].at # "dialing"
          /\ Step(b, "dialing")
  /\ UNCHANGED <<connection, caller, map, producer, turns, publishes>>

\* The client is built and fills the cell, or the dial failed.
Dialed(b) ==
  /\ broker[b].at = "dialing"
  /\ \/ /\ clients' = clients + 1
        /\ filled' = TRUE
        /\ Step(b, "connected")
     \/ Step(b, "failed") /\ UNCHANGED <<clients, filled>>
  /\ UNCHANGED <<closed, caller, map, producer, turns, publishes>>

-----------------------------------------------------------------------------
(* Publishing *)

\* A publish finds the connection there and open; otherwise it is refused and
\* nothing changes.
Publish(c, t) ==
  /\ caller[c].at = "idle"
  /\ filled /\ ~closed
  /\ publishes < MaxPublishes
  /\ publishes' = publishes + 1
  /\ caller' = [caller EXCEPT ![c] = [at |-> "checked", to |-> t, with |-> 0]]
  /\ UNCHANGED <<connection, broker, map, producer, turns>>

\* It asks for the map.
AskMap(c) ==
  /\ caller[c].at = "checked"
  /\ line' = Append(line, c)
  /\ Goes(c, "lining")
  /\ UNCHANGED <<connection, broker, cache, producer, turns, publishes>>

\* It takes the topic's producer, and the map is free again.
Find(c) ==
  /\ caller[c].at = "lining" /\ Holds(c, line)
  /\ cache[caller[c].to] # 0
  /\ line' = Tail(line)
  /\ caller' = [caller EXCEPT ![c].at = "found", ![c].with = cache[caller[c].to]]
  /\ UNCHANGED <<connection, broker, cache, producer, turns, publishes>>

\* Mutant: the map is free while the client builds.
BuildUnlocked(c) ==
  /\ caller[c].at = "lining" /\ Holds(c, line)
  /\ cache[caller[c].to] = 0
  /\ \E p \in Producers :
       /\ producer[p].is = "none"
       /\ \A q \in 1..(p - 1) : producer[q].is # "none"
       /\ producer' = [producer EXCEPT ![p] = [of |-> caller[c].to, is |-> "building"]]
       /\ caller' = [caller EXCEPT ![c].at = "building", ![c].with = p]
  /\ line' = Tail(line)
  /\ UNCHANGED <<connection, broker, cache, turns, publishes>>

\* It has the client build one, on a task of the broker's runtime, and keeps
\* the map meanwhile.
Build(c) ==
  /\ caller[c].at = "lining" /\ Holds(c, line)
  /\ cache[caller[c].to] = 0
  /\ \E p \in Producers :
       /\ producer[p].is = "none"
       /\ \A q \in 1..(p - 1) : producer[q].is # "none"
       /\ producer' = [producer EXCEPT ![p] = [of |-> caller[c].to, is |-> "building"]]
       /\ caller' = [caller EXCEPT ![c].at = "building", ![c].with = p]
  /\ UNCHANGED <<connection, broker, map, turns, publishes>>

\* Who awaits the build of p.
Awaiting(p) == {c \in Callers : caller[c].at = "building" /\ caller[c].with = p}

\* The line once whoever awaited p lets go of the map.
Freed(p) == IF \E c \in Awaiting(p) : Holds(c, line) THEN Tail(line) ELSE line

Becomes(p, is) == producer' = [producer EXCEPT ![p].is = is]

\* Mutant: a build that failed leaves the map locked.
BuiltKeepingMap(p) ==
  /\ producer[p].is = "building"
  /\ \/ /\ Awaiting(p) # {}
        /\ Becomes(p, "open")
        /\ cache' = [cache EXCEPT ![producer[p].of] = p]
        /\ caller' = [c \in Callers |->
                        IF c \in Awaiting(p) THEN [caller[c] EXCEPT !.at = "found"]
                        ELSE caller[c]]
        /\ line' = Freed(p)
     \/ /\ Becomes(p, "gone")
        /\ caller' = [c \in Callers |-> IF c \in Awaiting(p) THEN Idle ELSE caller[c]]
        /\ UNCHANGED map
  /\ UNCHANGED <<connection, broker, turns, publishes>>

\* The build ends.  Its producer goes into the map, or it failed and so did the
\* publish; nobody keeps it when the publish was dropped meanwhile.
Built(p) ==
  /\ producer[p].is = "building"
  /\ \/ /\ Awaiting(p) # {}
        /\ Becomes(p, "open")
        /\ cache' = [cache EXCEPT ![producer[p].of] = p]
        /\ caller' = [c \in Callers |->
                        IF c \in Awaiting(p) THEN [caller[c] EXCEPT !.at = "found"]
                        ELSE caller[c]]
     \/ /\ Becomes(p, "gone")
        /\ caller' = [c \in Callers |-> IF c \in Awaiting(p) THEN Idle ELSE caller[c]]
        /\ UNCHANGED cache
  /\ line' = Freed(p)
  /\ UNCHANGED <<connection, broker, turns, publishes>>

\* It asks for the producer, to send; a message the client has no form for is
\* refused before that, and the producer stays in the map.
AskProducer(c) ==
  /\ caller[c].at = "found"
  /\ \/ /\ turns' = [turns EXCEPT ![caller[c].with] = Append(@, c)]
        /\ Goes(c, "turn")
     \/ caller' = [caller EXCEPT ![c] = Idle] /\ UNCHANGED turns
  /\ UNCHANGED <<connection, broker, map, producer, publishes>>

\* The client took the message, and the producer is free again; or it did not,
\* and the publish failed.
Send(c) ==
  /\ caller[c].at = "turn" /\ Holds(c, turns[caller[c].with])
  /\ turns' = [turns EXCEPT ![caller[c].with] = Tail(@)]
  /\ \/ Goes(c, "receipt")
     \/ caller' = [caller EXCEPT ![c] = Idle]
  /\ UNCHANGED <<connection, broker, map, producer, publishes>>

\* The server's receipt, or the news that there will be none.
Receive(c) ==
  /\ caller[c].at = "receipt"
  /\ caller' = [caller EXCEPT ![c] = Idle]
  /\ UNCHANGED <<connection, broker, map, producer, turns, publishes>>

\* The publish is dropped where it waits, and with it its places in the lines.
Cancel(c) ==
  /\ MayCancel
  /\ caller[c].at \in {"lining", "building", "turn", "receipt"}
  /\ line' = Without(line, c)
  /\ turns' = [p \in Producers |-> Without(turns[p], c)]
  /\ caller' = [caller EXCEPT ![c] = Idle]
  /\ UNCHANGED <<connection, broker, cache, producer, publishes>>

-----------------------------------------------------------------------------
(* Shutting down *)

\* The connection is closed to everything that starts from here on.
Mark(b) ==
  /\ broker[b].at = "connected"
  /\ closed' = TRUE
  /\ Step(b, "marked")
  /\ UNCHANGED <<clients, filled, caller, map, producer, turns, publishes>>

AskDrain(b) ==
  /\ broker[b].at = "marked"
  /\ line' = Append(line, b)
  /\ Step(b, "lining")
  /\ UNCHANGED <<connection, caller, cache, producer, turns, publishes>>

\* Mutant: a topic without a producer is drained too.
DrainBlanks(b) ==
  /\ broker[b].at = "lining" /\ Holds(b, line)
  /\ line' = Tail(line)
  /\ broker' = [broker EXCEPT ![b].at = "closing",
                              ![b].left = {cache[t] : t \in Topics}]
  /\ cache' = [t \in Topics |-> 0]
  /\ UNCHANGED <<connection, caller, producer, turns, publishes>>

\* The map is emptied.
Drain(b) ==
  /\ broker[b].at = "lining" /\ Holds(b, line)
  /\ line' = Tail(line)
  /\ broker' = [broker EXCEPT ![b].at = "closing",
                              ![b].left = {cache[t] : t \in Topics} \ {0}]
  /\ cache' = [t \in Topics |-> 0]
  /\ UNCHANGED <<connection, caller, producer, turns, publishes>>

\* The next producer is asked for, in the order the map gave them out.
AskClose(b) ==
  /\ broker[b].at = "closing"
  /\ \E p \in broker[b].left :
       /\ broker' = [broker EXCEPT ![b].at = "turn", ![b].now = p]
       /\ turns' = [turns EXCEPT ![p] = Append(@, b)]
  /\ UNCHANGED <<connection, caller, map, producer, publishes>>

\* Mutant: a producer that fails to close ends the shutdown.
CloseOrStop(b) ==
  LET p == broker[b].now
  IN  /\ broker[b].at = "turn" /\ Holds(b, turns[p])
      /\ turns' = [turns EXCEPT ![p] = Tail(@)]
      /\ \/ /\ Becomes(p, "closed")
            /\ broker' = [broker EXCEPT ![b].at = "closing", ![b].now = 0,
                                        ![b].left = @ \ {p}]
         \/ /\ Becomes(p, "refused")
            /\ broker' = [broker EXCEPT ![b].at = "closing", ![b].now = 0,
                                        ![b].left = {}]
      /\ UNCHANGED <<connection, caller, map, publishes>>

\* Mutant: a producer that fails to close is asked again.
CloseOrAgain(b) ==
  LET p == broker[b].now
  IN  /\ broker[b].at = "turn" /\ Holds(b, turns[p])
      /\ turns' = [turns EXCEPT ![p] = Tail(@)]
      /\ \/ /\ Becomes(p, "closed")
            /\ broker' = [broker EXCEPT ![b].at = "closing", ![b].now = 0,
                                        ![b].left = @ \ {p}]
         \/ /\ broker' = [broker EXCEPT ![b].at = "closing", ![b].now = 0]
            /\ UNCHANGED producer
      /\ UNCHANGED <<connection, caller, map, publishes>>

\* It closes, or fails to, which changes nothing for the shutdown.
Close(b) ==
  LET p == broker[b].now
  IN  /\ broker[b].at = "turn" /\ Holds(b, turns[p])
      /\ turns' = [turns EXCEPT ![p] = Tail(@)]
      /\ Becomes(p, "closed") \/ Becomes(p, "refused")
      /\ broker' = [broker EXCEPT ![b].at = "closing", ![b].now = 0,
                                  ![b].left = @ \ {p}]
      /\ UNCHANGED <<connection, caller, map, publishes>>

\* The shutdown returns.
Return(b) ==
  /\ broker[b].at = "closing" /\ broker[b].left = {}
  /\ Step(b, "shut")
  /\ UNCHANGED <<connection, caller, map, producer, turns, publishes>>

-----------------------------------------------------------------------------
Init ==
  /\ clients = 0
  /\ filled = FALSE
  /\ closed = FALSE
  /\ broker = [b \in Brokers |-> [at |-> "new", left |-> {}, now |-> 0]]
  /\ caller = [c \in Callers |-> Idle]
  /\ line = <<>>
  /\ cache = [t \in Topics |-> 0]
  /\ producer = [p \in Producers |-> [of |-> Idle.to, is |-> "none"]]
  /\ turns = [p \in Producers |-> <<>>]
  /\ publishes = 0

\* What a publish and a shutdown do once they are scheduled.
Proceed(c) == AskMap(c) \/ Find(c) \/ Build(c) \/ AskProducer(c) \/ Send(c) \/ Receive(c)
ShutDown(b) == AskDrain(b) \/ Drain(b) \/ AskClose(b) \/ Close(b) \/ Return(b)

Next ==
  \/ \E b \in Brokers : Connect(b) \/ Dialed(b) \/ Mark(b) \/ ShutDown(b)
  \/ \E c \in Callers : Proceed(c) \/ Cancel(c) \/ \E t \in Topics : Publish(c, t)
  \/ \E p \in Producers : Built(p)

Spec == Init /\ [][Next]_vars

\* The runtime runs every task, and the client answers what it is asked: the
\* receipts, the closes, and the builds, which is so only of a server that is
\* there or of a broker whose OperationRetries are bounded.
Fairness ==
  /\ \A c \in Callers : WF_vars(Proceed(c))
  /\ \A b \in Brokers : WF_vars(ShutDown(b))
  /\ \A p \in Producers : WF_vars(Built(p))

FairSpec == Spec /\ Fairness
=============================================================================
