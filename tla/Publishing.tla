------------------------------ MODULE Publishing ------------------------------
(***************************************************************************)
(* A publish on the two transports side by side: the same call on a broker *)
(* connected to a server and on one connected in process (publish in       *)
(* publisher.rs and in_process/bus.rs, the conversions of message.rs), and *)
(* the handler of a subscription that sends on what it was delivered.      *)
(*                                                                         *)
(* Connection has the interleavings of callers and the failures of the     *)
(* server; here calls come one after the other and the server takes what   *)
(* it is sent.                                                             *)
(***************************************************************************)
EXTENDS Addresses

CONSTANTS
  Written,         \* the destinations a service may write
  Texts,           \* header values that are text
  Binary,          \* one that is not
  HeaderNames,     \* names of headers,
  PartitionKey,    \* among them that of the partition key
  MaxMessageSize,  \* the broker's limit
  Bodies,          \* what calls carry: a size, headers and the key the call site names
  Readers,         \* the routes of the subscription that sends on
  MaxPublishes,    \* bound: calls of publish
  None             \* no key

\* The headers of a message: what each name it has is set to.
Headers == UNION {[names -> Texts \cup {Binary}] : names \in SUBSET HeaderNames}

ASSUME PublishingAssumption ==
  /\ Written \subseteq Spelling
  /\ PartitionKey \in HeaderNames
  /\ Bodies \subseteq [size : Nat, headers : Headers, key : {None} \cup Texts]
  /\ Binary \notin Texts /\ None \notin Texts
  /\ Readers \subseteq {r \in Route : Routable(r)}
  /\ MaxMessageSize \in Nat

Topics == {Parse(n) : n \in Written} \ {Invalid}

VARIABLES
  reader,     \* the route of the subscription that sends on
  open,       \* the broker is connected
  producers,  \* the topics with a producer
  server,     \* the messages on the server, by topic
  stored,     \* the messages in the router's log, by topic
  answered,   \* what the last call was answered on each transport
  calls       \* the calls made, in order

pubVars == <<reader, open, producers, server, stored, answered, calls>>

-----------------------------------------------------------------------------
(* Conversions *)

Textual(headers) == \A name \in DOMAIN headers : headers[name] \in Texts

Without(headers, name) == [n \in DOMAIN headers \ {name} |-> headers[n]]
With(headers, name, value) ==
  [n \in DOMAIN headers \cup {name} |-> IF n = name THEN value ELSE headers[n]]

\* Mutant: a key the headers carry wins over the one the call site names.
ClientMessageByHeader(m) ==
  [payload |-> m.payload,
   properties |-> Without(m.headers, PartitionKey),
   key |-> IF PartitionKey \in DOMAIN m.headers THEN m.headers[PartitionKey] ELSE m.key]

\* The client's message of a call: the key leaves the headers, and the one that
\* the call site names wins over it.
ClientMessage(m) ==
  [payload |-> m.payload,
   properties |-> Without(m.headers, PartitionKey),
   key |-> IF m.key = None /\ PartitionKey \in DOMAIN m.headers
           THEN m.headers[PartitionKey] ELSE m.key]

\* Mutant: the key does not come back as a header.
HeadersReadKeyless(message) == message.properties

\* The headers a subscriber reads off a message of the server.
HeadersRead(message) ==
  IF message.key = None THEN message.properties
  ELSE With(message.properties, PartitionKey, message.key)

\* The headers the bus stores for what a producer would have been given.
DeliveredHeaders(message) ==
  IF message.key = None THEN message.properties
  ELSE With(message.properties, PartitionKey, message.key)

\* The key the router places a delivery by; the server has the message's own.
KeySlot(headers) ==
  IF PartitionKey \in DOMAIN headers THEN headers[PartitionKey] ELSE None

-----------------------------------------------------------------------------
(* One call on each transport *)

\* What both ask first.
Admitted(m) ==
  IF ~open THEN "NotConnected"
  ELSE IF m.size > MaxMessageSize THEN "Publish" ELSE "Ok"

\* The producer of a destination, which is opened before the message is converted.
LiveAnswer(m) ==
  IF Admitted(m) # "Ok" THEN Admitted(m)
  ELSE IF Parse(m.to) = Invalid THEN "Invalid"
  ELSE IF ~Textual(m.headers) THEN "Publish" ELSE "Ok"

Live(m) ==
  /\ producers' = IF Admitted(m) = "Ok" /\ Parse(m.to) # Invalid
                  THEN producers \cup {Parse(m.to)} ELSE producers
  /\ server' = IF LiveAnswer(m) = "Ok"
               THEN [server EXCEPT ![Parse(m.to)] = Append(@, ClientMessage(m))]
               ELSE server

\* The bus: destination, conversion, log.
BusAnswer(m) ==
  IF Parse(m.to) = Invalid THEN "Invalid"
  ELSE IF ~Textual(m.headers) THEN "Publish" ELSE "Ok"

InProcessAnswer(m) == IF Admitted(m) # "Ok" THEN Admitted(m) ELSE BusAnswer(m)

\* Mutant: the log keeps the headers as the call site wrote them.
InProcessRaw(m) ==
  stored' = IF InProcessAnswer(m) = "Ok"
            THEN [stored EXCEPT ![Parse(m.to)] =
                    Append(@, [payload |-> m.payload, headers |-> m.headers])]
            ELSE stored

InProcess(m) ==
  stored' = IF InProcessAnswer(m) = "Ok"
            THEN [stored EXCEPT ![Parse(m.to)] =
                    Append(@, [payload |-> m.payload,
                               headers |-> DeliveredHeaders(ClientMessage(m))])]
            ELSE stored

\* The same call on both.
Call(m) ==
  /\ Len(calls) < MaxPublishes
  /\ Live(m) /\ InProcess(m)
  /\ answered' = <<LiveAnswer(m), InProcessAnswer(m)>>
  /\ calls' = Append(calls, m)
  /\ UNCHANGED <<reader, open>>

Publish ==
  \E to \in Written, body \in Bodies :
    Call([to |-> to, payload |-> Len(calls) + 1, size |-> body.size,
          headers |-> body.headers, key |-> body.key])

\* A handler of the subscription sends a delivery on, headers and all, to another
\* destination or to the name its own topic is reported by.
SendOn ==
  \E t \in Topics : \E i \in 1..Len(stored[t]) :
    /\ Selects(reader, t)
    /\ \E to \in Written \cup {Named(reader, t)} :
         Call([to |-> to, payload |-> stored[t][i].payload, size |-> 1,
               headers |-> stored[t][i].headers, key |-> None])

\* The messages a test reads back by a name.
Published(name) ==
  IF Parse(name) \in Topics THEN stored[Parse(name)] ELSE <<>>

\* The broker shuts down, which closes its producers and drops the router's log.
Shutdown ==
  /\ open
  /\ open' = FALSE
  /\ producers' = {}
  /\ stored' = [t \in Topics |-> <<>>]
  /\ UNCHANGED <<reader, server, answered, calls>>

Init ==
  /\ reader \in Readers
  /\ open = TRUE
  /\ producers = {}
  /\ server = [t \in Topics |-> <<>>]
  /\ stored = [t \in Topics |-> <<>>]
  /\ answered = <<"Ok", "Ok">>
  /\ calls = <<>>

Next == Publish \/ SendOn \/ Shutdown

Spec == Init /\ [][Next]_pubVars
=============================================================================
