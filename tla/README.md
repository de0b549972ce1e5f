# A verification project for ruststream-pulsar

TLA+ models of the crate `ruststream-pulsar` (`src/crates/ruststream-pulsar/src/`, below just
`src/`), the TLC runs that check them on small instances, and theorems about them that TLAPS
proves for every value of the constants. Line numbers are those of the sources at the modelled
commit.

Run a check with `tlc -config <run>.cfg <module>.tla`, a proof with `tlapm <module>.tla`.
`PROJECT.json` lists the runs, the source lines of each definition, the mutants that show each
property can fail, the hazards and the theorems.

## 1. Inventory

### The system

The crate puts a Pulsar client behind the RustStream broker traits. It has two transports with one
surface. **Live**: a connection to a server (`broker.rs`), producers on it (`publisher.rs`), and one
driver task per subscription that owns the client's consumer (`subscriber.rs`); handlers settle
deliveries through that driver (`message.rs`). **In process**: one address router for all consumers
of a broker (`in_process/router.rs`) that imitates a Pulsar server for tests, with settlements that
call back into it (`in_process/deliveries.rs`) and a coordinator that counts the deliveries in flight
so that a test harness can wait for quiescence.

| component | state | operations | talks to |
|---|---|---|---|
| In-process router (`in_process/router.rs`) | consumers in attach order, departed consumers, retained log per topic, queues, unacknowledged lists, parked deliveries, rotations, all behind one mutex | subscribe, unsubscribe, publish, requeue, hold, seek, clear, and the listing of topics by pattern consumers | the coordinator, under and outside the mutex |
| In-process settlements (`in_process/deliveries.rs`, `bus.rs`) | the delivery, its consumer, whether it is still counted | poll, ack, nack, delayed nack, drop | the router's `requeue` and `hold`; the coordinator; a timer task |
| Seek handle (`in_process/seek.rs`) | the consumer it moves | seek | the router's `seek` |
| Routes (`in_process/route.rs`) | topics or a pattern; the record of opened subscriptions | overlap, matching, the harness's routing question | read by the router |
| Live driver (`subscriber.rs`) | the consumer, the delivery that waits for capacity, a bounded channel out, an unbounded channel in, the generation counter | pull, forward, serve a settlement, start a delayed retry, seek, drain, close | the client; subscriber, handlers, timers and seek handles over the channels |
| Live messages (`message.rs`) | a sender of the driver's channel | ack, nack, delayed nack, drop | the driver |
| Broker connection (`broker.rs`) | a cell shared by clones, a closed flag, a map of producers | connect, shutdown | the client; the producers' locks |
| Publisher (`publisher.rs`) | none of its own | publish | the map under its lock, a producer under its own |
| Descriptors and declared retries (`subscription.rs`) | settings; a table of retry declarations by topic | validation, declaration | read when a subscription opens |
| Topic names and patterns (`topic.rs`, `pattern.rs`) | none | parsing, rendering, matching | the router's routes |
| Message conversions (`message.rs`, `in_process/bus.rs`) | none | headers and key to the client's message and back, on each transport | publisher, subscriber, bus |
| Context, bindings, errors | none | accessors | |
| Example services (`examples/`) | the clients their handlers share | publish, handle, retry, drop, send on, move their own subscription | everything above, through the framework |

### What is hard

* The router's methods are atomic (one mutex), but the in-flight count is changed by settlements after
  the router returned: a requeue queues a fresh delivery under the lock and counts it outside it.
* A settlement outlives its consumer, and its consumer's broker. A late drop, retry or timer must find
  the subscription of a consumer that closed, and nothing of one that was shut down.
* A seek swaps queued deliveries for replayed ones while others wait for the count to reach zero.
* A pattern consumer lists topics late, so who reads a topic changes without any call.
* Four parties feed the live driver through two channels of which one is bounded; it must serve
  commands while it waits for room, tell deliveries of before a seek from those of after it wherever
  they are, and close after the last settlement and not before.
* A retry declaration and the subscription it is for reach the broker in two calls that have only a
  topic's name in common, and the name stays in the table.
* The harness asks who a publish will reach, by names several subscriptions may share, before it
  publishes; closed consumers stay in the record the answer is read from.
* The closed flag, the map of producers and each producer have different locks; a publish may be
  dropped at any await, while the build of its producer goes on on another task.
* Whether a pattern consumer has listed a topic is worked out from two stamps and the clock; events of
  one instant are told apart by their order alone.
* A topic has several spellings, and every part of the crate that takes a name must mean the same topic
  by it. The two transports convert a message on paths of their own.
* A delayed retry is held by the process while the server's own timer of the message runs.
* A service puts all of this together: handlers retry at once, after a delay and under a cap, move their
  own subscription back while they hold a delivery, and are dropped half-way.

### What makes each component correct

* **Router and settlements.** No delivery a subscription owes is lost or doubled, whoever closes,
  takes over, drops or retries (`KeepsPromise`, `NothingStranded`, `DeliveriesAreLogged`), and none is set aside
  past a consumer that reads it (`ParkedWhenUnread`); the count
  is exact and never shows a false zero (`Balanced`, `QuietIsDrained`); an active consumer gets fresh
  deliveries in log order (`FreshInOrder`); exclusive means alone (`ExclusiveAlone`); a dead letter
  names the message that was published (`OriginIsPublished`); a capped handler sees a message no oftener
  than its cap says, until a consumer closes (`AttemptsWithinCap`).
* **Driver.** No delivery or command is mislaid (`NothingMislaid`), none of before a move is delivered
  after it (`NoStaleDelivery`), the consumer closes after the last settlement (`ClosedWhenSettled`)
  and does close (`DropCloses`); a delivery is discarded only for a move (`DiscardedByAMove`); settlements are
  answered, retries asked for, deliveries delivered, unless an error wedges the driver
  (`AnsweredUnlessWedged`, `RetryAsked`, `Delivered`).
* **Opening a subscription.** A consumer carries the dead-letter policy its own registration declared,
  or the service does not start (`PolicyAsDeclared`); what the harness is told about who a publish
  reaches is what the router then does (`AnswerNamesTaker`).
* **Clock.** A pattern consumer has listed what its client would have, at every instant (`ListedOnTime`), the
  arithmetic only chooses among the listings the router leaves open (`RefinesRouter`), and
  an active consumer is overtaken at a refresh and at no other time (`TakeoverByListing`).
* **Names and messages.** One topic has one log whatever it is called (`OneLogPerTopic`, `NamesLeadBack`,
  `RoutesMeet`); both transports answer and keep the same (`SameOnBothTransports`); a key and the headers travel
  with a message however often it is sent on (`KeyTravels`).
* **Services.** What a customer sent is done by every subscription it reached, or ends in the dead-letter topic
  (`AllDone`, `MessagesEnd`), and is done once (`DoneOnce`).
* **Connection.** One client (`OneClient`), one producer per topic (`OneProducerPerTopic`), no open
  producer that no shutdown finds (`NoneOutOfReach`), and both a shutdown and every publish come to an
  end (`ShutdownReturns`, `PublishEnds`).

## 2. Modules

| module | what it is |
|---|---|
| `Router` | the in-process router, its settlements and the coordinator's count |
| `RouterProps` | its invariants |
| `Backlog` | the abstract specification: what each subscription owes of each log entry |
| `RouterBacklog` | the refinement mapping from `Router` to `Backlog` |
| `MCRouter`, `MCBacklog` | instances for TLC |
| `Folding`, `RouterProofs` | lemmas and theorems about the router |
| `CountProofs` | lemmas and theorems about the count of deliveries in flight, and that `Router` implements `Backlog` |
| `Listing`, `ListingProps`, `MCListing` | the runtime's clock on top of `Router`: when a pattern consumer lists a topic |
| `ListingProofs` | theorems about the clock, and that it implements `Router` |
| `Opening`, `OpeningProps` | a service's registrations on top of `Router`, and the routing answer |
| `Services`, `ServicesProps`, `MCServices` | whole services on top of `Opening`: the applications of the guides and examples |
| `ServicesProofs` | theorems about `Opening`; that a service implements it, and what follows; that straight services do what there is to do, once |
| `Addresses` | topic names, patterns and routes as operators |
| `Publishing`, `PublishingProps`, `MCPublishing` | a publish on both transports side by side, over `Addresses` |
| `PublishingProofs` | theorems about names, routes and publishes |
| `Driver`, `DriverProps`, `MCDriver` | the live subscription |
| `DriverProofs` | theorems about the live subscription |
| `DelayedRetry` | a delayed retry beside the client's ack timeout, in time |
| `Connection`, `ConnectionProps`, `MCConnection` | the connection and its producers |
| `ConnectionProofs` | theorems about the connection |

Definitions whose comment starts with `Mutant:` are faulty variants of the definition after them, kept
to show that a property can fail; no specification uses them.

How they build on one another: `Listing` and `Opening` extend `Router`, `Services` extends `Opening`, `Publishing`
extends `Addresses`; `RouterBacklog` maps `Router` to `Backlog`, `RefinesRouter` maps `Listing` to `Router`, and
`ServicesAreMounts` maps `Services` to `Opening`. `Driver`, `Connection` and `DelayedRetry` stand alone.

### Router

| state | code |
|---|---|
| `reg`, `attached`, `departed`, `nextId` | `Consumer`, `RouterState.consumers`, `.departed`, `.next_consumer` |
| `created`, `listed` | the keys of `.topics`, and `listed_by`, a function of the runtime's clock |
| `log` | each topic's retained `LogEntry` list |
| `queue`, `unacked` | each consumer's sending end and its unacknowledged list |
| `parked`, `rotation` | `.parked`, `.rotations` |
| `settle` | the `Settlement` values that live in handlers and timers |
| `inflight` | the coordinator's count |
| `swap` | the second half of `seek`, which runs while the lock is still held |

A method that holds the mutex is one action (`Publish`, `Subscribe`, `Unsubscribe`, `Drop`, `Nack`,
`Fire`, `Seek`...). What a settlement does after the router returned is an action of its own: `Count`
counts a fresh delivery, `Release` releases the settled one. `Seek` counts the replay and leaves the
lock taken; `FinishSeek` releases what was discarded. Between the two nobody else enters the router,
yet a settlement may change the count and a test may read it.

A topic is its rank in the sorted order that `seek` uses to break ties; a pattern is the set of topics
it selects plus its text, since that is what `overlaps` compares; a payload never changes and is the
log entry. The wall clock (`Times`) stamps entries and may step back. The runtime's clock appears only as
`Refresh`: a pattern consumer comes to list the topics there are. `Publish`, `Subscribe` and
`Shutdown` have no guard on `up`: the closed flag is read before the router is locked, and a second clone
of the broker shares the router, so each may land after a shutdown.

### Backlog

A subscription owes a log entry a number of deliveries. Publishing owes one, acknowledging takes one,
a dead letter moves one to another topic, a reposition owes the log from a point on again, of the topics
it moves alone, and a shutdown forgets everything. Everything else the router does (attach, close,
take over, drop, retry now or later, list) must be a stuttering step. `LiveCopies` counts where a
delivery may be: queued, unacknowledged, parked, with a handler or with a timer. So that a lost delivery
cannot pass for an acknowledged or discarded one, `Backlog` also counts acknowledgements (modulo 2, in
the history variable `acked` that `RouterBacklog` adds) and, in `moving`, how many deliveries a reposition
discarded, which must be what the seek then releases (`swap`).

### Opening

`Opening` extends `Router`: a service is a sequence of mounts, and each goes through the phases of the
code.

| step | code |
|---|---|
| `Declare` | `declare_retry` of a bare name: half a declaration is refused, a whole one replaces what the table holds for the name |
| `Check` | `subscribe` of a bare name, which takes the table's entry into a descriptor, `validate` and `ensure_open` |
| `Attach` | `in_process::subscribe`: `Router`'s `Subscribe` with what the descriptor says |
| `RecordOpened` | `Subscriptions::record` |
| `Refuse` | each early return of these, which ends the startup |
| `Beside` | any step of `Router` but an attach, at any point between the others |

The mounts come one at a time, declaration first: the framework's contract, on which the code's comment
relies (`subscription.rs:512-518`). A bare name is declared for each time it is mounted, with an empty
declaration when the registration says nothing. A topic is its rank, as in `Router`, so how a name was
written is separate (`spelled`): two spellings of one topic read the same log and are reported by
different names, and the table of declarations is by spelling. `sound` stands for the verdict of the topic
and pattern parsers, of the descriptor's names and, in `Retry`, of its dead-letter topic. `Routes` is the answer in
process; a name the broker did not open, which concerns a
second broker of the same application, and the answer against a server, which is the first consumer
asked about, are left out. The harness's list of names is that of a started service (`Asked`).

### Listing

`Router` lets a pattern consumer list at any time (`Refresh`). `Listing` has what the code has instead: the
moment each consumer opened and each topic was made (`opened`, `made`: the clock's reading and an order), and
`ListedBy`, the arithmetic of `listed_by`. `Stamped(A)` is a step `A` of the router that reads the clock, `Tick`
lets time pass. The specification of `Router` is then a property of it. Several consumers may come to list
in one tick, which is why `Refresh` is a step of a set of consumers.

### Services

`Services` extends `Opening`: once a handler's subscription is recorded, the framework takes its deliveries
(`Take`), runs the handler's body (`Run`) and settles by its outcome (`Settle`); a body that publishes or
moves a subscription stops at that await (`Send`, `Move`). Each body is an operator from what it is given to
an outcome. Around them are the customers (`Customer`), a client that refuses a number of calls or goes
offline (`Outage`), a handler that is dropped (`Cancel`), a subscriber that is (`Leave`), the shutdown
(`Stop`), and what the transport does on its own (`Background`).

`due` is what every subscription has still to do, `again` what was done without being due, `cut` what a drop
left half-way. A step of the router adds to `due` whatever entries it added (`Fresh`), a move what it is to
bring again. Fourteen applications are modelled: those of the guides on acknowledgement, retries, replay,
subscription types and topics, and the examples on context, positions, settlement, ack timeouts, delayed
retries, dead letters, broker errors and the first service. A message matters only by whether its service
treats it apart. A shipment that `pack` publishes carries the order's id as its key, one that `ship` publishes none
(`ShipmentKeys`). Seven more services (`Trials`) only try the startup. Each initial state is one service.

### Addresses and Publishing

A name is its scheme and the parts between its slashes. `Parse`, `Lookup`, `Selects`, `Overlaps` and `Named`
translate `TopicName::parse`, the namespace of a pattern, and `Route`'s questions. `Publishing` makes the same call
on a connected broker and on an in-process one: `Live` with `ClientMessage` and `HeadersRead`, `InProcess` with
`DeliveredHeaders` and `KeySlot`; a handler sends deliveries on with the headers it was given (`SendOn`). Calls
come one after the other; their interleavings are `Connection`'s and `Router`'s.

### DelayedRetry

One message with its deliveries in time: the handler takes a while, asks for a delay, the process waits, and the
client's timer, which counts from the delivery, runs all along (external).

### Driver

`pc` is where the driver's `select!` or its await stands: `idle` (pulling), `pending` (a delivery waits for
room), `errored` and `ended` (awaiting room for an error), `seeking` and `draining` (awaiting the
client's answer to a seek), `drain` (the loop after the select loop, which serves commands until
every sender is gone), `closed`. `Senders` is the count of command senders, which the subscriber, every
unsettled message, every timer and every seek handle keeps up. The select is biased to commands,
hence `Free`. A seek of several topics moves one after the other; one that moved some and failed on the next counts
as a move. `life` follows each delivery from its pull to its end. The client is external: pulls,
errors, its end and its answers are nondeterministic. `moved` and `pulledAt` are history: how often the
cursor was moved, of some topic at least, and how often it had when a delivery was pulled.

### Connection

A publish is a sequence of actions at its awaits: the closed check, the map's lock, the lookup, the
build (on another task, with the map locked), the producer's lock, the send, the receipt; it can be
dropped at each. The conversion between the lookup and the producer's lock may refuse the message. The locks are tokio's, which are fair: each is the line of those who asked for it. A
shutdown marks, drains under the map's lock, and closes one producer after the other. `Connect` and
`Dialed` are the cell that clones share (`get_or_try_init`: one dials, the others wait for what comes
of it).

## 3. Runs

Every run that passes is exhaustive within its bounds. Deadlock is not checked: in every model the system
stops when its bounded inputs are used up, and the router's may stop for good after a shutdown.

| run | instance | shows |
|---|---|---|
| `router_requeue` | two capped subscriptions, the second reads the first's dead-letter topic and has one of its own; three consumers, two settlements, two redeliveries | retries, dead letters, drops and closes in every order never show a false zero and leave deliveries logged, origins right and attempts within the cap, over a chain of two dead-letter topics |
| `router_moves` | a capped consumer and one that reads its dead-letter topic too, of one subscription; seeks to the start and past the end; one topic non-persistent | the router implements `Backlog`; every step keeps the count exact, also half-way through a seek |
| `router_active` | failover consumers of two topics and an exclusive pattern consumer of one; three consumers, two entries a topic, two clock readings, moves to a time and to the end | order within each topic, also when a replay merges two logs, and exclusiveness |
| `listing` | pattern consumers beside a list on one failover subscription; three consumers, two topics, one settlement, a redelivery, a refresh every two units, four units | the arithmetic of the clock, that it implements the router, and when it takes over; nothing parked past a consumer that reads it, nothing left where a consumer names it |
| `services` | the fourteen applications and seven trials; one or two messages for each topic a service reads, a client that refuses once, one or two settlements, drops, closes and a shutdown | declarations reach their own consumers, the routing answer comes true, every message is done once or ends in the dead-letter topic |
| `driver` | two pulls over a channel of one, two handlers at once, a handle with two seeks, an error, an end, a shutdown, a drop of the subscriber | the safety and the progress of the driver |
| `connection` | two clones, two callers, two topics, two publishes that may be dropped | the safety and the progress of the connection |
| `publishing` | four spellings of three topics and two names that are none; seven kinds of message; lists and patterns; three calls | names, routes and messages mean the same on both transports |
| `wedged_by_error`, `stream_never_ends`, `early_return`, `producer_outlives` | | one divergence each, see section 6 |

Why the bounds are enough for the cases that matter: two consumers show a takeover and a sibling, a
third an attach while one of them is gone, or a rotation of which one left; two settlements show every race between two handlers, or
a handler and a timer; two entries show an order, a third adds none between two; a redelivery limit
of two passes the dead-letter limit of every instance. In `driver`, one delivery fills the channel and a
second one waits for room; two seeks show one that overtakes another. Two clones and two callers show every
pair of a connect, a publish and a shutdown. `TurnLimit` (2^64 in the code) lies beyond the turns of
`router_requeue` and wraps within `router_moves`. In `listing`, four units hold two refreshes of a consumer that
opens first and one of a consumer that opens next, and a topic may be made at, before and after each. In `services`, two messages
of a topic show one that is treated apart beside one that is not, in either order; one refusal shows a retry and the
call after it; the most redeliveries a handler asks for is five, and dead letters and shipments add at most one
entry for each message, so neither `MaxRedeliveries` nor `MaxEntries` cuts a behaviour off. Where a service runs
with one settlement, its handlers still meet each other's retries and the transport's own steps. Three calls in
`publishing` show a publish, a delivery of it sent on, and that one sent on again.

**Fairness.** `Router`, `Listing` and `Opening` assume none and no liveness is claimed of them: the router has no
task of its own, and a service need not start.
`Services` assumes weak fairness of `Runtime` as a whole: the executor goes on while any task can run. That is less
than fairness to each task, and enough, since the bounds leave no endless run of tasks. Customers, outages, drops and
shutdowns are not driven by anything.
`Driver`: the runtime runs the driver (`Drive`), the client answers what the driver awaits, the
dispatch polls the stream while a handler is free (`Take`), handlers end and timers fire. Nothing makes the
client yield, nor the service drop its subscriber. `DropCloses` also needs the service to let its
seek handles go (`ReleasingSpec`), since each holds a sender. `Unwedged`, which three properties assume, says that an
error does not find the channel full for ever: the run `wedged_by_error` shows that it can, and what the driver owes
is claimed of every other behaviour. `Connection`: the runtime runs every task and
the client answers receipts, closes and builds. The last is so of a server that is there, or when
the broker's operation retries are bounded (`broker.rs`, the retry settings handed to the client);
a build that never ends keeps the map, and with it the shutdown.

## 4. Proofs

`RouterProofs` proves, for every set of topics, names, keys, registrations, positions, clock readings and
settlements, and for every bound, under `RouterAssumption` alone (constants are of their kinds; topics,
names and slots are finite):

* `TypeCorrect`: `Spec => []TypeOK`
* `LoggedAlways`: `Spec => []DeliveriesAreLogged`
* `NeverStranded`: `Spec => []NothingStranded`
* `ParkedAlways`: `Spec => ParkedWhenUnread`, the action property
* `ExclusiveAlways`: `Spec => []ExclusiveAlone`
* `OriginAlways`: `Spec => []OriginIsPublished`
* `AttemptsAlways`: `Spec => []AttemptsWithinCap`
* `FreshAlways`: `Spec => []FreshInOrder`

The first three follow from one inductive invariant, `IInv == TypeOK /\ DeliveriesAreLogged /\
NothingStranded` (`Invariance`). None of the parts is inductive alone: a member is chosen by the key of a
delivery's log entry, so that a queue stays a queue only when the delivery is logged; a settlement puts its
delivery back, so it must be logged while its consumer is known; what is parked is decided by the
types of registrations. `ExclusiveAlone` is inductive relative to `IInv` (`ExclusiveStep`), and
so is `OriginIsPublished` (`OriginStep`): the log only grows until a shutdown clears it, so an origin keeps
naming its entry (`OriginAppended`), and a new dead letter copies the origin of a logged delivery, or names
that delivery's entry when it was published itself (`OriginStamped`).

Deliveries are moved by folds over queues (`HandBackAll`, `ReplayAll`, `Select`, `Total`). The argument about a
fold is: a set of hands that each step maps into itself is kept by the whole fold (`HandBackAllIn`,
`ReplayAllIn`, from `UpTo` and `FoldExists` of `Folding`). `TidyHand` is that set: well typed, every
delivery logged, nothing parked that an attached consumer names. `ShareIn`, `ParkIn`, `HandBackIn` and
`ReplayIn` show that each way of moving a delivery keeps a hand tidy, and then every action has one
lemma (`PublishStep`, `SubscribeStep`, ...) that `NextStep` combines.

`ParkedAlways` narrows that set to `BareHand`: the tidy hands in which whatever was not parked before the step has no
reader now, patterns included. A hand-back parks only then (`HandBackBare`), so the folds of a close stay in it, a seek
parks nothing (`SeekParking`), and an attach only takes from what is parked (`SubscribeParking`).

`AttemptsAlways` follows a delivery through all of this. Its invariant, `CapInv`, is that of a capped subscription
none of whose consumers closed nothing is queued or parked with its attempts spent (`Waits`), and that no handler or
timer which may put its delivery back holds one (`Holds`). Only a requeue raises the count of such a subscription,
and it is the one step that looks at the cap first. That a handler is within its cap (what the property says) is not
inductive without where the delivery came from and goes to.

`FreshAlways` rests on who may have new deliveries at all. On a subscription with one active consumer a topic
belongs to the first attached consumer that registers it (`Owns`). The invariant `Orderly` says that only the owner's
queue has deliveries of the topic which nobody was handed yet, that nothing new is parked while there is an owner, and
that every queue and what is parked is `Ordered`. A close of the owner hands on its whole queue, in order, to a
consumer or a parking place that by the invariant has nothing new of these topics (`FedAll`); an attach takes what is
parked the same way; a dropped or retried delivery is not new any more. A publish comes after all that is in the log,
and a seek clears every queue first and replays by the clock (`SeekOrder`), which is where the clock comes into the
property. Consumers attach in the order of their ids (`Rising`), so that the owner is the one `Choose` names
(`TakerOwns`). A listing changes nothing: patterns are exclusive there, and `Apart` shows that they then have their
topics to themselves.

`CountProofs` proves, under the same assumption, that the coordinator's count is right, and that `Router` implements
`Backlog`:

* `BalancedAlways`: `Spec => []Balanced`
* `QuietAlways`: `Spec => []QuietIsDrained`
* `RouterKeepsPromise`: `CountedSpec => KeepsPromise`, the refinement

Its inductive invariant is `CInv == IInv /\ Balanced /\ Held /\ Unopened(queue)`. `Held`: a handler's
settlement is counted until the handler has counted its requeue, without which an acknowledgement or a
handler's requeue could not be balanced. `Unopened`: nothing is queued for a consumer that is still to attach, so
an attach finds its queue empty. The balance is read as two sides, `Flight` (the count less the queues) and `Owed`
(what settlements and an unfinished seek account for), and each action is shown to move both by the same
amount. `Flight` follows the queues: `QueueUpdate` and `GrownTotal` say what one changed queue and a set of
grown queues do to their total, `TakersApart` that an append grows as many queues as it serves
subscriptions, and `HandBackAllLoad` and `ReplayAllLoad` what the folds of a close and of a seek do, along the
same argument as above. `Owed` follows the settlements: one settlement changes and two cardinalities by at
most one (`OneSlot`, `OwedMoves`). `QuietAlways` is then counting: with no retry owing, every requeue that
still owes is a counted settlement, so zero leaves neither a queued delivery nor a handler.

`RouterKeepsPromise` counts again, this time the copies of each log entry. Its invariant is `BInv == CInv /\ CapInv /\
Backed`; `Backed` says that nothing was dropped by a consumer still to attach, that a log stays within its bound, and
that while the broker is open every consumer is attached or departed, so that what a settlement holds is of a known
subscription. `LiveCopies` then has four parts, and each way of moving a delivery one lemma about them: a
sequence that is appended to, cut or filtered (`CopiesAppend`, `CopiesTail`, `CopiesSelect`), one consumer's queue among
those of a subscription (`AtUpdate`), a hand that is given deliveries (`Gains`, through the same folds as above), one
settlement (`HeldUpdate`). `LiveStep` and `LiveBroker` add them up, so that an action comes down to what it moves
in the hand, at the consumers and in the settlement (`Shifts`, `Moves`). A close, an attach, a poll, a drop, a retry and a
timer come to zero, and `Unseen` makes them stutter. A publish adds one copy to exactly the subscriptions with a
reader, and finds none there (`NothingOwedYet`: every live copy of an entry is of an entry that is logged). An
acknowledgement and a dead letter take one, which was there (`HeldIsOwed`). A seek is the long one: what it replays of
a topic is the log from one entry on (`ReplaysFrom`), each entry of it once (`ReplayedOnce`), and some reader takes it;
what it discards is of the moved topics and of its own subscription (`DiscardedCopies`), and summed over all entries
is what the lengths of the queues lost (`SumOfDiscarded`), which is what the seek then releases.

`DriverProofs` proves the safety of the live subscription, for every number of pulls, seeks, errors, handlers
and handles and every capacity, under `DriverAssumption`:

* `TypeCorrect`: `Spec => []TypeOK`
* `NeverMislaid`: `Spec => []NothingMislaid`
* `ClosedAfterSettled`: `Spec => []ClosedWhenSettled`
* `NeverStale`: `Spec => NoStaleDelivery`, the action property
* `DiscardedAlways`: `Spec => []DiscardedByAMove`

Its inductive invariant is `IInv == TypeOK /\ Unpulled /\ NothingMislaid /\ Gone /\ Current`. `Unpulled`: what the
client has not yielded is nowhere. `NothingMislaid` counts the places of a delivery in a channel, so each step
comes down to what appending to a sequence and taking its head do to such a count (`PlacesAppend`,
`PlacesTail`); it is inductive with `Unpulled`, since a pull must find no place taken. `Gone`: a closed driver left no
command and no sender, which is what keeps later steps from settling. `Current`: a queued delivery with the
current generation was pulled after the last move, and no generation in a channel is ahead of it; `NeverStale`
is what that says of the step that takes a delivery. `DiscardedAlways` adds `Dated`: a queued delivery with an older
generation, and one that is discarded, was pulled before the cursor's last move, as long as each generation belongs
to an accepted move.

`ConnectionProofs` proves the safety of the connection, for every set of clones, callers and topics and any
number of publishes, under `ConnectionAssumption` (clones are not callers, there is a topic):

* `TypeCorrect`: `Spec => []TypeOK`
* `OneClientAlways`: `Spec => []OneClient`
* `OneProducerAlways`: `Spec => []OneProducerPerTopic`
* `NeverOutOfReach`: `Spec => []NoneOutOfReach`

Its inductive invariant adds to these four `Dialing` (one clone dials at a time, without a connection),
`Building` (who awaits a producer heads the line for the map, and the map has none for that topic), `Sending`
(who sends has a producer) and `Closing` (a shutdown has marked the connection before it drains, and has
left only what it drained). `Building` carries the argument: since the head of a line is one task, a build that
ends finds its place in the map free, and neither a lookup nor a drain can come between. What the lines need is
that asking and leaving take the lock from nobody (`AskedLine`, `LeftLine`).

`ServicesProofs` first proves what `services` checks of the startup, for every service, default subscription, key and bound, under
`RouterAssumption` and `OpeningAssumption` (a service is a sequence of mounts):

* `MountTypeCorrect`: `MountSpec => []MountTypeOK`
* `PolicyAlways`: `MountSpec => []PolicyAsDeclared`
* `AnswerAlways`: `MountSpec => AnswerNamesTaker`, the action property
* `RouterKept`: `MountSpec => Spec`, so that whatever is proved of the router holds of every startup

The inductive invariant `MountInv` is the router's `IInv` with `MountTypeOK`, `OwnDeclared` (past its
declaration, the table holds for the mount at hand what it declared itself), `OwnAttached` (a checked mount is
valid, an attached one is the last consumer) and `OpenedAs` (the i-th record and the i-th consumer are
those of the i-th mount). `AnswerAlways` goes from both ends to the consumer that takes the message: of
the steps that add a log entry with a consumer's queue growing, the new entry's consumer is the one
`Choose` names (`GrownByDelivery`, `TakerIsPick`); and a position in the list of names leads to the
record of the mount at that position (`RecordIs`), so that the answer's one position of a subscription is
that of the picked consumer (`AnswerIs`).

It then carries this to whole services, for any bodies' outcomes, names, customers and disturbances:

* `ServicesAreMounts`: `ServiceSpec => MountSpec`, the refinement: a body's step is a stutter, what the framework does
  with a settlement is a step of the router, whatever the applications do
* `ServicesKeepFaith`: `ServiceSpec => []MountTypeOK /\ []PolicyAsDeclared /\ AnswerNamesTaker`

With `RouterKept` every invariant proved of the router is one of every service.

Last, it proves what services are for, of those that go straight ahead, with any topics, subscriptions, consumers, handlers
at work, customers, cancellations and shutdowns, under `RouterAssumption`, `OpeningAssumption`, `ServicesAssumption` and
`NoneAssumption` (the value that stands for nothing is no place in a log):

* `StraightDoneOnce`: `ServiceSpec => [](Straight(plan) => DoneOnce)`
* `StraightAllDone`: `ServiceSpec => [](Straight(plan) => AllDone)`

`Straight` says that no handler moves a cursor, that no two subscriptions send the messages of one topic to dead letters,
and that none of those reads a topic of dead letters. Ten of the fourteen applications are straight: all but search,
skipping, redoing and the ledger, whose handlers move cursors. The conditions on dead letters are needed: `DoneOnce` names
a dead letter by the message it came of, and two subscriptions that each give up the same message make two.

The inductive invariant `WInv` (`WorkInvariance`) is the startup's and the count's (`MountInv`, `BInv`), the origins, and,
until the broker shuts down, `Steady`, which follows a task (a message that a subscription owes) through its life:

* `Staged`: a handler has a stage exactly while it holds a delivery of a mounted subscription.
* `Ledger`: a task has at most one live copy (`Single`); a live one that nobody has done is due or was cut (`Charged`);
  what is due was cut, is live or ended as a dead letter (`Covered`).
* `Letters`: each dead letter came of a task of which nothing is left, and no two came of the same message.
* `Seats`: what is due and not cut has an attached consumer that reads it, and what waits with nobody, parked or unacked,
  was cut.

None of the four is inductive alone. That a settled task is not done again needs that its copy was the only one; that this
is so needs that a requeue, a drop or a close moves copies and makes none, which the count of live copies in
`CountProofs` shows (`...Promise`, one lemma per action); that a message given up is not given up again needs `Letters`,
by which nothing is left of it. `Turn` says what a step may do to the tasks: which come to their end, which copies leave
for good, which are new. Three lemmas show that a turn keeps the parts (`LedgerTurn`, `LettersTurn`, `SeatsTurn`), and
each action has one that shows what turn it is and that `Steady` is kept (`TakeSteady` to `AttachSteady`). `AllDone` follows from `Covered`: with nothing in flight and no timer running a live copy
could only be parked or unacked (`QuietCounted`), and by `Seats` that was cut.

`ListingProofs` proves the clock right for every refresh interval, every set of topics and patterns and every order of
openings and creations, under `RouterAssumption` and `ListingAssumption`:

* `ClockInvariance`: `ListingSpec => [](IInv /\ Clock)`
* `ListingRefinesRouter`: `ListingSpec => RefinesRouter`, the refinement of `Router`
* `ListedOnTimeAlways`: `ListingSpec => []ListedOnTime`
* `TakeoverByListingAlways`: `ListingSpec => TakeoverByListing`, the action property

`Clock` says that every stamp lies in the past and that the orders of openings and creations agree with their times,
and that what a pattern consumer has listed is what the division gives (`ListedNow`). `TicksIs` states the
division once, as the least number of refreshes that reach a creation, and the rest uses only that. A tick is then a
`Refresh` of what became due (`TickRefreshes`), since nothing due is ever taken back (`ListedTick`). `TakeoverStep`
compares the active consumer before and after a step: the list of attached consumers only gains a last one or
loses one, so that an attached active consumer gives way only to an earlier one that has just listed the topic.

`PublishingProofs` proves what names, routes and publishes promise, for any domains, parts, patterns, headers, keys, sizes
and sequences of calls, under the assumptions of `Addresses` and `Publishing`:

* `NamesLeadBackAlways`, `RoutesMeetAlways`: facts about the operators of `Addresses`, from `ParseIs` (what parsing a
  spelling gives) and `Meant` (two spellings parse alike exactly when they mean the same)
* `SameOnBothTransportsAlways`: by induction over the calls, from `StepIs` and `Converted`: the headers a client message
  is read back with are those the bus stores, and the key of both is the one the call gave
* `KeyTravelsAlways`: each stored message is that of the first call of its payload, or of one with the same key and
  headers (`Travelled`); only the first call of a payload makes it up (`FirstCallIs`)
* `OneLogPerTopicAlways`: the log of a topic is as long as the calls accepted for it, and holds the i-th of them
  at i (`OneLog`, over the count `CallsIn`)

**Only model-checked.** `DoneOnce` and `AllDone` of services whose handlers move cursors (search, skipping, redoing, the
ledger, which `DoneOnce` leaves aside): a seek gives back whole stretches of a log, done or not, and what is due then
depends on what the handler meant by its move. Liveness under fairness (`Services`, `Driver`, `Connection`) is out of the
prover's reach, as is what a RECURSIVE operator or a fold computes for every input, which needs an induction over data.

## 5. What is not modelled

* What a regular expression matches, what text an accepted part of a name is made of: the parsers are modelled
  over parts and given verdicts.
* The answer against a server and for names of another broker; two services started at once
  through clones, which would share the table of declarations and come in turns no more.
* Of the services: handlers that reply or take batches of several messages, the ledger of the replay guide that
  starts at a position.
* Examples that only set something (security, TLS, limits, descriptors, generated documents) and those under
  `examples/manual`, which repeat the others without the macros: they are a third of the lines under `crates/`, and
  a model of them would be the same definitions again. Together with accessors, builders and their documentation
  they are why the mapped lines are about a seventh of the lines there.
* Building the client from the settings, metrics, document bindings but for the channel's, errors' wording.
* The client and the server, which appear as what they may answer.
* Tests, benchmarks, the website and the scripts.

## 6. Divergences

Each of the first four is a run that TLC ends with a counterexample.

* `wedged_by_error` (`subscriber.rs:414`): the driver awaits room for the client's error and serves no
  command meanwhile. With the channel full and a dispatch that awaits a settlement before it polls on,
  neither moves again.
* `stream_never_ends` (`subscriber.rs:449`): after the client gave up, the driver waits for every command
  sender to go, and the subscriber that waits for its stream to end holds one.
* `early_return` (`message.rs:218`): the delay is compared to the whole ack timeout, which the client counts from
  the delivery. A handler that takes a while before it asks has the message back before the delay is over, which
  `message.rs:206` says the check excludes.
* `producer_outlives` (`publisher.rs:212`): a publish that passed the closed check opens a producer after the
  shutdown drained the map; nobody closes it.

Seen while modelling, not kept as runs:

* `subscriber.rs:374`: the generation moves on before the seek is tried, so a refused seek discards queued
  deliveries, while `docs/components/positions/seek.md:17` has them dropped when the seek lands. `DiscardedByAMove`
  therefore speaks of drivers whose seeks each moved the cursor of one topic at least.
* `router.rs:501`: a close or a late drop hands a delivery back without a look at the dead-letter limit, so a message
  may be handed out more often than the cap. `AttemptsWithinCap` speaks of subscriptions none of whose consumers closed.
* `route.rs:95`: two patterns overlap when their texts are equal; two different ones may select one topic, and two
  exclusive consumers then share it. `RoutesMeet` states the rule the code has.
* `examples/pulsar_context.rs`, `examples/guide/replay.rs`: a handler that asks for a move notes first that it has asked; when
  the move fails, because its subscription is gone, the next attempt does not ask again. `DoneOnce` and `AllDone` count
  these with what a drop left (`cut`).
* `router.rs:410`: an attach is refused only when one side is exclusive, so consumers of different types
  share a subscription, which the comment at `router.rs:208` says a server refuses.
* `router.rs:305`: what is parked waits for the next attach, also when an attached pattern consumer
  comes to list its topic; the comment at `router.rs:147` says parked is what no consumer reads.
  `NothingStranded` therefore speaks of consumers that name the topic. `ParkedWhenUnread` is what holds of pattern
  consumers: nothing is parked past one that has listed its topic by then.
* `deliveries.rs:219`: a delayed retry's delivery is queued before it is counted, and nothing else is
  counted for it, so the count is zero for an instant with a delivery queued. `QuietIsDrained` exempts
  that window, and `Balanced` measures it.
* `router.rs:338`: a pattern consumer that attached first and lists late becomes the active consumer
  in mid-stream; deliveries its predecessor hands back then land behind newer ones. The same happens between
  exclusive consumers of two different patterns that select one topic (`route.rs:95`, above). `FreshInOrder` therefore
  speaks of subscriptions whose pattern consumers are exclusive and select no topic of another one's pattern
  (`SingleActive`); the attempt to prove it without that condition led to the second case.
* `subscriber.rs:449`: a seek handle that outlives the subscriber keeps the consumer open.
* `subscriber.rs:450`: a seek served after the client gave up opens no generation; what is queued from
  before it is delivered, should the client have accepted the move.
* `route.rs:163`: the answer counts a pattern consumer by the text of its pattern, the router by the topics it
  has listed. Until it lists a topic, the answer promises a delivery that is not handed out yet. A keyed
  message may go to another member of a key-shared subscription than the answer says, which it states
  (`router.rs:465`). `AnswerNamesTaker` therefore speaks of unkeyed messages and of subscriptions with a
  consumer that takes one.
* `broker.rs:501`: a clone that connects after another one's shutdown is handed the closed connection.

## 7. Plan

1. Done: `Router` with `Backlog`, `Listing`, `Opening`, `Services`, `Driver`, `DelayedRetry`, `Connection`, `Addresses` with
   `Publishing`; the inductive invariants of the router, its count, caps and order, the clock, the startup, the driver, the
   connection, the publishes and straight services; the refinements of `Backlog` by `Router`, of `Router` by `Listing` and
   of `Opening` by `Services`.
2. Next proof: `DoneOnce` and `AllDone` of services whose handlers move cursors.
3. Next modules: several services on clones of one broker, which share the table of declarations; handlers that reply.
