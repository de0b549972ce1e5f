--------------------------- MODULE PublishingProps ---------------------------
(***************************************************************************)
(* What names, routes and publishes promise.                               *)
(***************************************************************************)
EXTENDS Publishing

\* The parts of a name written out in full, taken from its meaning and not from
\* the parser: no scheme is persistent, one part is public/default.
Meaning(n) ==
  <<IF n.scheme = "non-persistent" THEN n.scheme ELSE "persistent">> \o
  (IF Len(n.parts) = 1 THEN <<Public, Default>> \o n.parts ELSE n.parts)

\* What an open broker is to accept for the topic of n.
IsFor(m, n) ==
  Meaning(m.to) = Meaning(n) /\ m.size <= MaxMessageSize /\ Textual(m.headers)

\* Of the calls those, in order.
CallsTo(n) ==
  LET f[i \in 0..Len(calls)] ==
        IF i = 0 THEN <<>>
        ELSE IF IsFor(calls[i], n) THEN Append(f[i - 1], calls[i]) ELSE f[i - 1]
  IN  f[Len(calls)]

\* One topic has one log, whichever of its spellings a publish names and whichever a
\* test reads it back by: of an open broker that log has the accepted calls to any of
\* them, in order (publish, published, parse).
OneLogPerTopic ==
  open => \A n \in Written :
            Parse(n) # Invalid =>
              [i \in 1..Len(Published(n)) |-> Published(n)[i].payload]
                = [i \in 1..Len(CallsTo(n)) |-> CallsTo(n)[i].payload]

\* A call is answered alike in process and on a server, and until the shutdown each
\* topic has the same messages in both: what a subscriber of the server reads is
\* what the router stored, and the key the server places a message by is the one
\* the router does (to_pulsar_message, delivered_headers, PulsarMessage::new).
SameOnBothTransports ==
  /\ answered[1] = answered[2]
  /\ open => \A t \in Topics :
       /\ Len(server[t]) = Len(stored[t])
       /\ \A i \in 1..Len(server[t]) :
            /\ server[t][i].payload = stored[t][i].payload
            /\ HeadersRead(server[t][i]) = stored[t][i].headers
            /\ server[t][i].key = KeySlot(stored[t][i].headers)

\* The call that first brought a payload in.
FirstCall(payload) ==
  calls[CHOOSE i \in 1..Len(calls) :
          calls[i].payload = payload /\ \A j \in 1..(i - 1) : calls[j].payload # payload]

\* However often a message is sent on with the headers it was delivered with, it
\* keeps the key its first call named, or carried where it named none, and every
\* other header as that call had it (to_pulsar_message, delivered_headers).
KeyTravels ==
  \A t \in Topics : \A i \in 1..Len(stored[t]) :
    LET first == FirstCall(stored[t][i].payload)
        key == IF first.key # None THEN first.key ELSE KeySlot(first.headers)
        headers == stored[t][i].headers
    IN  /\ KeySlot(headers) = key
        /\ Without(headers, PartitionKey) = Without(first.headers, PartitionKey)

\* The name a delivery reports its topic by leads back to that topic, is the name
\* the descriptor wrote where it wrote one, and what the document says of the
\* subscription's channel is so of each topic it reads (named, parse, describe_channel).
NamesLeadBack ==
  \A t \in Topics :
    Selects(reader, t) =>
      /\ Parse(Named(reader, t)) = t
      /\ reader.kind = "list" =>
           \E i \in 1..Len(reader.names) : Named(reader, t) = reader.names[i]
      /\ \A c \in Described(reader) : c = Channel(t)

\* Two routes are taken to overlap exactly when some topic is read by both, unless
\* both are patterns, which are the same when they overlap; routes stay as they are,
\* so it is asked before the first call (overlaps).
RoutesMeet ==
  calls = <<>> =>
    \A r \in Readers :
      Overlaps(r, reader) <=>
        IF r.kind = "pattern" /\ reader.kind = "pattern" THEN r = reader
        ELSE \E t \in FullNames : Selects(r, t) /\ Selects(reader, t)
=============================================================================
