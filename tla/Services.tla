------------------------------- MODULE Services -------------------------------
(***************************************************************************)
(* Whole services on the in-process transport: the applications of the     *)
(* crate's guides and examples, each a few handlers mounted on             *)
(* subscriptions, over Opening and Router.  A handler calls a client that  *)
(* may refuse, and comes to an outcome by which the framework settles the  *)
(* delivery (external).                                                    *)
(*                                                                         *)
(* Data.  A topic is its rank among the topics of its service, and a       *)
(* subscription name the place it takes among the names of its service.    *)
(* Of a message matters only whether it is an ordinary one or the one its  *)
(* service treats apart (a declined card, a job to do again): its key      *)
(* stands for that.  The n-th order of a topic has the id n.  A batch is   *)
(* one of a single message.                                                *)
(***************************************************************************)
EXTENDS Opening

CONSTANTS
  NameAt,    \* the n-th subscription name of a service
  OddKey,    \* the key of a message that is treated apart
  Refusals,  \* how often a client may refuse before it takes a call
  Arrivals,  \* bound: what customers publish to each topic of a service
  Workers,   \* the settlements a service has at once
  Disturbances \* bound: what comes over a service (cancel, leave, stop)

\* The topic the sending services publish to.
Shipments == 3

ASSUME ServicesAssumption ==
  /\ Shipments \in Topics
  /\ NameAt \in Seq(Names) /\ Len(NameAt) >= 4
  /\ OddKey \in Keys /\ Refusals \in Nat
  /\ Arrivals \in [Plans -> [Topics -> Nat]]
  /\ Workers \in [Plans -> SUBSET Slots]
  /\ Disturbances \in [Plans -> SUBSET {"cancel", "leave", "stop"}]

VARIABLES
  client,  \* the client that the handlers of the service share
  stage,   \* how far the handler of each settlement has come
  due,     \* what the handlers have still to do
  again,   \* what one of them did although it was not due
  cut      \* what is left to whoever comes: a handler or a subscriber was dropped

serviceVars == <<client, stage, due, again, cut>>
allVars == <<vars, mountVars, serviceVars>>

\* What the handler of a subscription is to do: a log entry.
Task(s, t, i) == [name |-> s, topic |-> t, seq |-> i]
Tasks(s, t) == {Task(s, t, i) : i \in 1..Len(log[t])}
TaskOf(m) == Task(reg[settle[m].id].name, settle[m].d.topic, settle[m].d.seq)

Handlers == {plan[i].handler : i \in 1..Len(plan)}

\* The tasks a step of the router adds: its new entries, for every subscription
\* with a consumer that reads them.
Fresh ==
  UNION {{Task(s, t, Len(log'[t])) :
            s \in {x \in Names : MembersOf(attached, listed', x, t) # <<>>}} :
         t \in {x \in Topics : Len(log'[x]) > Len(log[x])}}

-----------------------------------------------------------------------------
(* Applications: what each mounts, and on which subscription. *)

Mounted(handler, spelled, topic, n, sharing) ==
  [spelled |-> spelled, bare |-> FALSE, sound |-> TRUE, name |-> NameAt[n],
   sharing |-> sharing, pattern |-> "", topics |-> {topic}, retry |-> NoRetry,
   handler |-> handler]
Capped(m, cap, dead) ==
  [m EXCEPT !.retry = [cap |-> cap, dead |-> dead, sound |-> TRUE]]

RefundsApp ==
  <<Capped(Mounted("process_refund", "refunds", 1, 1, "Shared"), 5, 2),
    Mounted("review", "refunds-dlq", 2, 2, "Shared")>>

InventoryApp ==
  <<Mounted("reserve", "reservations", 1, 1, "Shared"),
    Mounted("record_counts", "stock-counts", 2, 1, "Shared")>>

ShippingApp ==
  <<Mounted("pack", "orders", 1, 1, "Shared"),
    Mounted("track", "shipments", Shipments, 2, "KeyShared"),
    Mounted("book_payment", "payments", 2, 3, "Exclusive"),
    Mounted("invoice", "orders", 1, 4, "Failover")>>

\* Its projection of the ledger, which starts at a position, is left out.
SearchApp == <<Mounted("index", "orders", 1, 1, "Shared")>>

SkippingApp == <<Mounted("skip", "jobs", 1, 1, "Shared")>>

RedoingApp == <<Mounted("redo", "jobs", 1, 1, "Shared")>>

LedgerApp ==
  <<Mounted("project", "ledger", 1, 1, "Shared"),
    Mounted("rebuild", "ledger.rebuild", 2, 1, "Shared")>>

BillingApp == <<Mounted("issue", "invoices", 1, 1, "Shared")>>

ArchiverApp == <<Mounted("upload", "exports", 1, 1, "Shared")>>

FulfilmentApp == <<Mounted("fulfil", "orders", 1, 1, "Shared")>>

BookkeepingApp ==
  <<Capped(Mounted("book", "payments", 1, 1, "Shared"), 3, 2)>>

OrdersApp == <<Capped(Mounted("handle", "orders", 1, 1, "Shared"), 5, 2)>>

ParcelsApp ==
  <<Capped(Mounted("ship", "orders", 1, 1, "Shared"), 3, 2)>>

\* Its last handler mounts a bare name, under the default subscription, which is
\* also the name of the first.
TopicsApp ==
  <<Mounted("fulfil_order", "orders", 1, 1, "Shared"),
    Mounted("notify", "orders", 1, 2, "Shared"),
    [Mounted("tally", "", 2, 3, "Shared") EXCEPT !.topics = {2, 3}],
    [Mounted("audit", "", 2, 4, "Shared")
       EXCEPT !.topics = {2, 3}, !.pattern = "persistent://public/default/orders-.*"],
    [Mounted("restock", "returns", 4, 1, "Shared") EXCEPT !.bare = TRUE, !.name = None]>>

-----------------------------------------------------------------------------
(* Handlers.  Settlement m holds the message, `odd' is whether it is the one *)
(* treated apart.  `do' is the outcome the body comes to, or what it does    *)
(* next; `done': the task is done with; `owed': what a move is to bring.     *)

Step(do, done) ==
  [do |-> do, to |-> None, done |-> done, owed |-> {}, client |-> client]

Moving(c, pos, owed) ==
  [Step("seek", FALSE) EXCEPT !.to = [consumer |-> c, pos |-> pos], !.owed = owed]

\* The client refuses, once less from now on.
Refused(do) == [Step(do, FALSE) EXCEPT !.client.left = @ - 1]

\* The client takes the call, or refuses it and the handler comes to `do'.
Calling(do) == IF client.left > 0 THEN Refused(do) ELSE Step("ack", TRUE)

\* The card processor: unavailable, declining, busy, or it pays.
ProcessRefund(odd) ==
  CASE client.offline         -> Step("retry", FALSE)
    [] ~client.offline /\ odd -> Step("drop", TRUE)
    [] OTHER                  -> Calling("retry_after")

\* The stock service, which knows no such SKU.
Reserve(odd) == IF odd THEN Step("drop", TRUE) ELSE Calling("retry")

\* The warehouse, which an order of nothing never reaches.
Fulfil(odd) == IF odd THEN Step("drop", TRUE) ELSE Calling("retry")

\* The customer directory.
Issue == Calling("retry_after")

\* The archive.
Upload == Calling("retry_after")

\* A currency the ledger does not know fails every attempt.
Book(odd) == IF odd THEN Step("retry", FALSE) ELSE Step("ack", TRUE)

\* So does an order without items.
Handle(odd) == IF odd THEN Step("retry", FALSE) ELSE Step("ack", TRUE)

\* A shipment over the size limit is refused before it is sent.
Ship(odd) == IF odd THEN Step("retry", FALSE) ELSE Step("send", FALSE)

Pack == Step("send", FALSE)

\* Mutant: the index is built again from the order at hand on.
IndexOnwards(m) ==
  LET d == settle[m].d
  IN  IF client.lost # d.seq THEN Step("ack", TRUE)
      ELSE [Moving(settle[m].id, [kind |-> "MessageId", arg |-> d.seq],
                   Tasks(reg[settle[m].id].name, d.topic))
              EXCEPT !.client.lost = 0]

\* A lost index is built again from the oldest retained order on.
Index(m) ==
  LET d == settle[m].d
  IN  IF client.lost # d.seq THEN Step("ack", TRUE)
      ELSE [Moving(settle[m].id, [kind |-> "Earliest", arg |-> 0],
                   Tasks(reg[settle[m].id].name, d.topic))
              EXCEPT !.client.lost = 0]

\* A poisoned run of jobs is skipped.
Skip(m, odd) ==
  IF odd THEN Moving(settle[m].id, [kind |-> "Latest", arg |-> 0], {}) ELSE Step("ack", TRUE)

\* A job whose result was lost is done again, from its own position, once.
Redo(m, odd) ==
  LET d == settle[m].d
  IN  IF ~odd \/ d.seq \in client.asked THEN Step("ack", TRUE)
      ELSE [Moving(settle[m].id, [kind |-> "MessageId", arg |-> d.seq], {TaskOf(m)})
              EXCEPT !.client.asked = @ \cup {d.seq}]

\* The entry that closes a day is kept as a bookmark, with its subscription's handle.
Project(m, odd) ==
  [Step("ack", TRUE) EXCEPT
     !.client.mark = IF odd THEN [consumer |-> settle[m].id, d |-> settle[m].d] ELSE @]

\* The ledger is projected again from the bookmark on.
Rebuild ==
  LET at == client.mark
  IN  IF at = None THEN Step("ack", TRUE)
      ELSE Moving(at.consumer, [kind |-> "MessageId", arg |-> at.d.seq],
                  {x \in Tasks(reg[at.consumer].name, at.d.topic) : x.seq >= at.d.seq})

\* The handlers that only take note.
Note == Step("ack", TRUE)

\* What the handler mounted under a name does.
Body(handler, m, odd) ==
  CASE handler = "process_refund" -> ProcessRefund(odd)
    [] handler = "reserve"  -> Reserve(odd)
    [] handler = "fulfil"   -> Fulfil(odd)
    [] handler = "issue"    -> Issue
    [] handler = "upload"   -> Upload
    [] handler = "book"     -> Book(odd)
    [] handler = "handle"   -> Handle(odd)
    [] handler = "ship"     -> Ship(odd)
    [] handler = "pack"     -> Pack
    [] handler = "index"    -> Index(m)
    [] handler = "skip"     -> Skip(m, odd)
    [] handler = "redo"     -> Redo(m, odd)
    [] handler = "project"  -> Project(m, odd)
    [] handler = "rebuild"  -> Rebuild
    [] OTHER                -> Note

-----------------------------------------------------------------------------
(* One settlement through the framework, which runs the handler of a         *)
(* subscription one at a time, or in lanes where its mount asks for them.    *)

NoStage == [do |-> "none", odd |-> FALSE, to |-> None, owed |-> {}]
Holding == {m \in Slots : stage[m].do # "none"}

HandlerOf(c) == plan[c].handler
Busy(c) == HandlerOf(c) # "track" /\ \E m \in Holding : settle[m].id = c

\* The handler takes the next delivery of its subscription.
Take(m, c) ==
  /\ m \in Workers[plan] \ Holding /\ c <= Len(opened) /\ ~Busy(c)
  /\ Poll(m, c)
  /\ stage' = [stage EXCEPT ![m] =
                 [NoStage EXCEPT !.do = "run", !.odd = KeyOf(Head(queue[c])) = OddKey]]
  /\ UNCHANGED <<mountVars, client, due, again, cut>>

\* Task x is done with, and there are the tasks of what was just published.
Finish(x) ==
  /\ due' = (due \ {x}) \cup Fresh
  /\ again' = again \cup ({x} \ due)

\* The body runs to its outcome, or up to what it asks of the broker.
Run(m) ==
  /\ stage[m].do = "run"
  /\ UNCHANGED <<vars, mountVars, cut>>
  /\ LET b == Body(HandlerOf(settle[m].id), m, stage[m].odd)
     IN  /\ stage' = [stage EXCEPT ![m].do = b.do, ![m].to = b.to, ![m].owed = b.owed]
         /\ client' = b.client
         /\ IF b.done THEN Finish(TaskOf(m)) ELSE UNCHANGED <<due, again>>

\* The keys a shipment may carry: the order's id where the handler packs, which is
\* any key but the empty one, and none where it ships.
ShipmentKeys(m) == IF HandlerOf(settle[m].id) = "pack" THEN Keys \ {NoKey} ELSE {NoKey}

\* Mutant: a shipment that was sent is sent again.
SendTwice(m) ==
  /\ stage[m].do = "send" /\ up
  /\ LockFree
  /\ \E k \in ShipmentKeys(m) : Deliver(Shipments, k, None)
  /\ UNCHANGED <<up, registry, unacked, parked, settle, swap>>
  /\ Finish(TaskOf(m))
  /\ stage' = [stage EXCEPT ![m].do = "retry"]
  /\ UNCHANGED <<mountVars, client, cut>>

\* The shipment of an order is published; a broker that shut down takes none.
Send(m) ==
  /\ stage[m].do = "send"
  /\ \/ /\ up /\ LockFree
        /\ \E k \in ShipmentKeys(m) : Deliver(Shipments, k, None)
        /\ UNCHANGED <<up, registry, unacked, parked, settle, swap>>
        /\ Finish(TaskOf(m))
        /\ stage' = [stage EXCEPT ![m].do = "ack"]
     \/ /\ ~up
        /\ stage' = [stage EXCEPT ![m].do = "retry"]
        /\ UNCHANGED <<vars, due, again>>
  /\ UNCHANGED <<mountVars, client, cut>>

\* The move a handler asked for, or the failure of one that comes too late.
Move(m) ==
  LET c == stage[m].to.consumer
      pos == stage[m].to.pos
      passed == IF pos.kind # "Latest" THEN {}
                ELSE UNION {Tasks(reg[c].name, t) : t \in reg[c].topics}
  IN  /\ stage[m].do = "seek"
      /\ \/ /\ pos \in Positions /\ Seek(c, pos)
            /\ stage' = [stage EXCEPT ![m].do = "ack"]
            /\ due' = (due \ (passed \cup {TaskOf(m)})) \cup stage[m].owed
            /\ again' = again \cup ({TaskOf(m)} \ due)
            /\ UNCHANGED cut
         \/ /\ LockFree /\ c \notin Attached
            /\ stage' = [stage EXCEPT ![m].do = "retry"]
            /\ cut' = cut \cup {TaskOf(m)}
            /\ UNCHANGED <<vars, due, again>>
      /\ UNCHANGED <<mountVars, client>>

\* The framework settles the delivery by the outcome; a rejected message is
\* acknowledged, and a delay that is refused leaves it unsettled.
Settle(m) ==
  /\ CASE stage[m].do \in {"ack", "drop"} -> Ack(m)
       [] stage[m].do = "retry"           -> Nack(m)
       [] stage[m].do = "retry_after"     ->
            IF settle[m].id \in Attached \cup departed THEN NackAfter(m) ELSE Drop(m)
       [] OTHER                           -> FALSE
  /\ stage' = [stage EXCEPT ![m] = NoStage]
  /\ due' = due \cup Fresh
  /\ UNCHANGED <<mountVars, client, again, cut>>

\* A handler is dropped before it settled its delivery.
Cancel(m) ==
  /\ "cancel" \in Disturbances[plan] /\ m \in Holding
  /\ Drop(m)
  /\ cut' = cut \cup {TaskOf(m)} \cup stage[m].owed
  /\ stage' = [stage EXCEPT ![m] = NoStage]
  /\ UNCHANGED <<mountVars, client, due, again>>

-----------------------------------------------------------------------------
(* Around the handlers *)

Refusing == Handlers \cap {"fulfil", "issue", "upload"} # {}

\* A client: `left' calls it refuses yet, whether it is offline, the order at
\* which its index is lost (0: none), the jobs that asked to be done again, and
\* the bookmark.
Clients ==
  [left : IF Refusing THEN {1}
          ELSE IF Handlers \cap {"process_refund", "reserve"} # {} THEN 0..Refusals
          ELSE {0},
   offline : {FALSE},
   lost : IF "index" \in Handlers THEN 0..Arrivals[plan][1] ELSE {0},
   asked : {{}}, mark : {None}]

\* A customer publishes an ordinary message or one that is treated apart.
Customer ==
  /\ LockFree
  /\ \E t \in Topics, k \in {NoKey, OddKey} :
       /\ Len(log[t]) < Arrivals[plan][t]
       /\ Deliver(t, k, None)
  /\ UNCHANGED <<up, registry, unacked, parked, settle, swap>>
  /\ due' = due \cup Fresh
  /\ UNCHANGED <<mountVars, client, stage, again, cut>>

\* What the transport does on its own.
Background ==
  /\ FinishSeek \/ Refresh \/ \E m \in Slots : Fire(m) \/ Count(m) \/ Release(m)
  /\ due' = due \cup Fresh
  /\ UNCHANGED <<mountVars, client, stage, again, cut>>

\* The card processor stops answering, or answers again.
Outage ==
  /\ "process_refund" \in Handlers
  /\ client' = [client EXCEPT !.offline = ~@]
  /\ UNCHANGED <<vars, mountVars, stage, due, again, cut>>

\* A subscriber is dropped: what its subscription has still to do is left.
Leave(c) ==
  /\ "leave" \in Disturbances[plan]
  /\ Unsubscribe(c)
  /\ cut' = cut \cup {x \in due : x.name = reg[c].name /\ x.topic \in reg[c].topics}
  /\ UNCHANGED <<mountVars, client, stage, due, again>>

\* The broker shuts down.
Stop ==
  /\ "stop" \in Disturbances[plan]
  /\ Shutdown /\ UNCHANGED <<mountVars, serviceVars>>

\* The service starts up.
Start == (Declare \/ Check \/ Attach \/ RecordOpened \/ Refuse) /\ UNCHANGED serviceVars

ServiceInit ==
  /\ MountInit
  /\ client \in Clients
  /\ stage = [m \in Slots |-> NoStage]
  /\ due = {} /\ again = {} /\ cut = {}

\* What the runtime drives.
Runtime ==
  \/ Start \/ Background
  \/ \E m \in Slots : \/ \E c \in Ids : Take(m, c)
                      \/ Run(m) \/ Send(m) \/ Move(m) \/ Settle(m)

Surroundings ==
  \/ Customer \/ Outage \/ Stop
  \/ \E m \in Slots : Cancel(m)
  \/ \E c \in Ids : Leave(c)

ServiceNext == Runtime \/ Surroundings

\* The executor runs every task it can: the program always goes on while there
\* is anything to run.
ServiceSpec == ServiceInit /\ [][ServiceNext]_allVars /\ WF_allVars(Runtime)
=============================================================================
