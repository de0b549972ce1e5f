--------------------------- MODULE PublishingProofs ---------------------------
(***************************************************************************)
(* Theorems about names, routes and publishes, for every set of names,     *)
(* patterns, headers and calls.                                            *)
(***************************************************************************)
EXTENDS PublishingProps, Folding, SequenceTheorems

-----------------------------------------------------------------------------
(* Names *)

\* The parts of a name.
LEMMA SpellingIs ==
  ASSUME NEW n \in Spelling
  PROVE  /\ n.scheme \in {NoScheme} \cup Domains
         /\ n.parts \in Seq(Parts) /\ Len(n.parts) \in Nat
BY DEF Spelling

\* The scheme a name is completed with.
Scheme(n) == IF n.scheme = NoScheme THEN "persistent" ELSE n.scheme

\* What a name of one part, of three, and of another number means.
LEMMA ParseCases ==
  ASSUME NEW n
  PROVE  /\ Len(n.parts) = 1 => Parse(n) = Of(Scheme(n), Public, Default, n.parts[1])
         /\ Len(n.parts) = 3 => Parse(n) = Of(Scheme(n), n.parts[1], n.parts[2], n.parts[3])
         /\ Len(n.parts) \notin {1, 3} => Parse(n) = Invalid
<1>1. 1 # 3
  OBVIOUS
<1> QED
  BY <1>1, Zenon DEF Parse, Scheme

\* A name means a topic by its full name, or nothing.
LEMMA ParseIs ==
  ASSUME NEW n \in Spelling
  PROVE  Parse(n) \in FullNames \cup {Invalid}
<1>1. Scheme(n) \in Domains
  BY SpellingIs DEF Scheme, Domains
<1>2. \A a, b, c : Of(Scheme(n), a, b, c) \in FullNames \cup {Invalid}
  BY <1>1 DEF Of, Valid, FullNames
<1> QED
  BY <1>2, ParseCases

\* A full name is a name, and means itself.
LEMMA ParseFull ==
  ASSUME NEW t \in FullNames
  PROVE  t \in Spelling /\ Parse(t) = t
<1>1. PICK d \in Domains, a \in Accepted, b \in Accepted, c \in Accepted :
        t = [scheme |-> d, parts |-> <<a, b, c>>]
  BY DEF FullNames
<1>2. <<a, b, c>> \in Seq(Parts) \ {<<>>} /\ Len(<<a, b, c>>) = 3
  BY AddressAssumption
<1>3. t \in Spelling
  BY <1>1, <1>2 DEF Spelling
<1>4. d # NoScheme /\ t.scheme = d /\ t.parts = <<a, b, c>>
  BY <1>1 DEF Domains, NoScheme
<1>5. Scheme(t) = d /\ Len(t.parts) = 3 /\ t.parts[1] = a /\ t.parts[2] = b /\ t.parts[3] = c
  BY <1>2, <1>4 DEF Scheme
<1>6. Parse(t) = Of(d, a, b, c)
  BY <1>5, ParseCases
<1> QED
  BY <1>1, <1>3, <1>6 DEF Of, Valid

\* The parts of a name written out in full.
Full(n) == IF Len(n.parts) = 1 THEN <<Public, Default>> \o n.parts ELSE n.parts

LEMMA FullIs ==
  ASSUME NEW n \in Spelling
  PROVE  /\ Full(n) \in Seq(Parts) /\ Len(Full(n)) \in Nat
         /\ Len(n.parts) # 1 => Full(n) = n.parts
         /\ Len(n.parts) = 1 => /\ Len(Full(n)) = 3 /\ Full(n)[1] = Public
                                /\ Full(n)[2] = Default /\ Full(n)[3] = n.parts[1]
<1> DEFINE p == n.parts
           q == <<Public, Default>>
<1>1. p \in Seq(Parts) /\ Len(p) \in Nat
  BY SpellingIs
<1>2. q \in Seq(Parts) /\ Len(q) = 2 /\ q[1] = Public /\ q[2] = Default
  BY AddressAssumption
<1>3. Len(p) # 1 => Full(n) = p
  BY DEF Full
<1>4. Len(p) = 1 => Full(n) = q \o p
  BY DEF Full
<1> HIDE DEF p, q
<1>5. /\ q \o p \in Seq(Parts) /\ Len(q \o p) = 2 + Len(p)
      /\ (q \o p)[1] = q[1] /\ (q \o p)[2] = q[2] /\ (Len(p) = 1 => (q \o p)[3] = p[1])
  <2>1. /\ q \o p \in Seq(Parts) /\ Len(q \o p) = Len(q) + Len(p)
        /\ \A i \in 1..(Len(q) + Len(p)) :
             (q \o p)[i] = IF i <= Len(q) THEN q[i] ELSE p[i - Len(q)]
    BY <1>1, <1>2, ConcatProperties
  <2> QED BY <1>1, <1>2, <2>1
<1>6. /\ Full(n) \in Seq(Parts) /\ Len(Full(n)) \in Nat
      /\ Len(p) # 1 => Full(n) = p
      /\ Len(p) = 1 => /\ Len(Full(n)) = 3 /\ Full(n)[1] = Public
                       /\ Full(n)[2] = Default /\ Full(n)[3] = p[1]
  <2>1. CASE Len(p) = 1
    BY <1>1, <1>2, <1>4, <1>5, <2>1
  <2>2. CASE Len(p) # 1
    BY <1>1, <1>3, <2>2
  <2> QED BY <2>1, <2>2
<1> QED
  BY <1>6 DEF p

\* A name written out in full is its scheme before its parts.
LEMMA MeaningIs ==
  ASSUME NEW n \in Spelling
  PROVE  /\ Meaning(n) = <<Scheme(n)>> \o Full(n)
         /\ Len(Meaning(n)) = Len(Full(n)) + 1
         /\ Meaning(n)[1] = Scheme(n)
         /\ \A i \in 1..Len(Full(n)) : Meaning(n)[i + 1] = Full(n)[i]
<1>1. (IF n.scheme = "non-persistent" THEN n.scheme ELSE "persistent") = Scheme(n)
  BY SpellingIs DEF Scheme, Domains, NoScheme
<1>2. Meaning(n) = <<Scheme(n)>> \o Full(n)
  BY <1>1, Zenon DEF Meaning, Full
<1> DEFINE T == Parts \cup {Scheme(n)}
           q == <<Scheme(n)>>
           f == Full(n)
<1>3. q \in Seq(T) /\ Len(q) = 1 /\ q[1] = Scheme(n)
  OBVIOUS
<1>4. f \in Seq(T) /\ Len(f) \in Nat
  BY FullIs, SeqMonotonic
<1> HIDE DEF q, f
<1>5. /\ Len(q \o f) = Len(f) + 1 /\ (q \o f)[1] = q[1]
      /\ \A i \in 1..Len(f) : (q \o f)[i + 1] = f[i]
  <2>1. /\ Len(q \o f) = Len(q) + Len(f)
        /\ \A i \in 1..(Len(q) + Len(f)) :
             (q \o f)[i] = IF i <= Len(q) THEN q[i] ELSE f[i - Len(q)]
    <3> HIDE DEF T
    <3> QED BY <1>3, <1>4, ConcatProperties
  <2> QED BY <1>3, <1>4, <2>1
<1> QED
  BY <1>2, <1>3, <1>5 DEF q, f

\* So are the topics it means.
LEMMA ParseFullParts ==
  ASSUME NEW n \in Spelling
  PROVE  /\ Len(Full(n)) = 3 <=> Len(n.parts) \in {1, 3}
         /\ Len(Full(n)) # 3 => Parse(n) = Invalid
         /\ Len(Full(n)) = 3 => Parse(n) = Of(Scheme(n), Full(n)[1], Full(n)[2], Full(n)[3])
<1>1. Len(Full(n)) = 3 <=> Len(n.parts) \in {1, 3}
  BY FullIs, SpellingIs
<1> QED
  BY <1>1, FullIs, ParseCases

\* Two names mean one topic exactly when they are the same once written out in full.
LEMMA Meant ==
  ASSUME NEW m \in Spelling, NEW n \in Spelling, Parse(n) # Invalid
  PROVE  Meaning(m) = Meaning(n) <=> Parse(m) = Parse(n)
<1>1. Len(Full(n)) = 3
  BY ParseFullParts
<1>m. /\ Len(Meaning(m)) = Len(Full(m)) + 1 /\ Meaning(m)[1] = Scheme(m)
      /\ \A i \in 1..Len(Full(m)) : Meaning(m)[i + 1] = Full(m)[i]
      /\ Len(Full(m)) \in Nat
  BY MeaningIs, FullIs
<1>n. /\ Len(Meaning(n)) = Len(Full(n)) + 1 /\ Meaning(n)[1] = Scheme(n)
      /\ \A i \in 1..Len(Full(n)) : Meaning(n)[i + 1] = Full(n)[i]
  BY MeaningIs
<1>2. ASSUME Meaning(m) = Meaning(n) PROVE Parse(m) = Parse(n)
  <2>1. Len(Full(m)) = 3 /\ Scheme(m) = Scheme(n)
    <3>1. Scheme(m) = Scheme(n) /\ Len(Full(m)) + 1 = Len(Full(n)) + 1
      BY <1>2, <1>m, <1>n, Zenon
    <3> DEFINE a == Len(Full(m))
    <3>2. a \in Nat /\ a + 1 = 3 + 1
      BY <1>1, <1>m, <3>1, Zenon
    <3> HIDE DEF a
    <3>3. a = 3
      BY <3>2
    <3> QED BY <3>1, <3>3, Zenon DEF a
  <2>2. Full(m)[1] = Full(n)[1] /\ Full(m)[2] = Full(n)[2] /\ Full(m)[3] = Full(n)[3]
    <3>1. \A i \in 1..3 : Full(m)[i] = Full(n)[i]
      BY <1>1, <1>2, <2>1, <1>m, <1>n
    <3> QED BY <3>1
  <2> QED BY <1>1, <2>1, <2>2, ParseFullParts
<1>3. ASSUME Parse(m) = Parse(n) PROVE Meaning(m) = Meaning(n)
  <2>1. Len(Full(m)) = 3
    BY <1>3, ParseFullParts
  <2> DEFINE M == Of(Scheme(m), Full(m)[1], Full(m)[2], Full(m)[3])
             N == Of(Scheme(n), Full(n)[1], Full(n)[2], Full(n)[3])
  <2>2. M = N /\ M # Invalid
    BY <1>1, <1>3, <2>1, ParseFullParts
  <2>3. /\ M.scheme = Scheme(m) /\ M.parts = <<Full(m)[1], Full(m)[2], Full(m)[3]>>
        /\ N.scheme = Scheme(n) /\ N.parts = <<Full(n)[1], Full(n)[2], Full(n)[3]>>
    BY <2>2 DEF Of
  <2> HIDE DEF M, N
  <2>4. /\ Scheme(m) = Scheme(n) /\ Full(m)[1] = Full(n)[1]
        /\ Full(m)[2] = Full(n)[2] /\ Full(m)[3] = Full(n)[3]
    BY <2>2, <2>3
  <2>5. \A i \in 1..3 : Full(m)[i] = Full(n)[i]
    BY <2>4
  <2>6. Full(m) = Full(n)
    BY <1>1, <2>1, <2>5, FullIs, SeqEqual
  <2> QED BY <2>4, <2>6, MeaningIs
<1> QED
  BY <1>2, <1>3

\* The topics are those of the names a service may write.
LEMMA TopicsFull == Topics \subseteq FullNames
BY ParseIs, PublishingAssumption DEF Topics

-----------------------------------------------------------------------------
(* Routes *)

\* Each name of a list the server takes is one of a topic.
LEMMA ListIs ==
  ASSUME NEW r \in Route, Routable(r), r.kind = "list"
  PROVE  /\ Len(r.names) \in Nat
         /\ \A i \in 1..Len(r.names) :
              /\ r.names[i] \in Spelling
              /\ Qualified(r)[i] = Parse(r.names[i]) /\ Qualified(r)[i] \in FullNames
<1>1. r.names \in Seq(Spelling)
  BY DEF Route
<1>2. Len(r.names) \in Nat
  BY <1>1
<1>3. ASSUME NEW i \in 1..Len(r.names)
      PROVE  /\ r.names[i] \in Spelling /\ Qualified(r)[i] = Parse(r.names[i])
             /\ Parse(r.names[i]) \in FullNames
  <2>1. r.names[i] \in Spelling
    BY <1>1, ElementOfSeq
  <2>2. Parse(r.names[i]) # Invalid
    BY DEF Routable
  <2> QED BY <2>1, <2>2, ParseIs DEF Qualified
<1> QED
  BY <1>2, <1>3

\* The name a route knows a topic by leads back to it, and a list's is one of its own.
LEMMA NamedIs ==
  ASSUME NEW r \in Route, Routable(r), NEW t \in FullNames, Selects(r, t)
  PROVE  /\ Named(r, t) \in Spelling /\ Parse(Named(r, t)) = t
         /\ r.kind = "list" => \E i \in 1..Len(r.names) : Named(r, t) = r.names[i]
<1>1. CASE r.kind = "list"
  <2> DEFINE At == {i \in 1..Len(r.names) : Qualified(r)[i] = t}
             Is(i) == Qualified(r)[i] = t /\ \A j \in 1..(i - 1) : Qualified(r)[j] # t
             i == CHOOSE i \in 1..Len(r.names) : Is(i)
  <2>1. At \in SUBSET Nat /\ At # {}
    BY <1>1, ListIs DEF Selects
  <2>2. PICK n \in At : \A m \in At : n <= m
    <3> HIDE DEF At
    <3> QED BY <2>1, FirstIn
  <2>3. Is(n) /\ n \in 1..Len(r.names)
    BY <2>2, ListIs, <1>1
  <2>4. i \in 1..Len(r.names) /\ Is(i)
    <3> HIDE DEF Is
    <3> QED BY <2>3
  <2>5. Named(r, t) = r.names[i]
    BY <1>1 DEF Named
  <2> HIDE DEF i
  <2> QED BY <1>1, <2>4, <2>5, ListIs
<1>2. CASE r.kind # "list"
  BY <1>2, ParseFull DEF Named
<1> QED
  BY <1>1, <1>2

\* A list meets another route exactly when they have a topic in common.
LEMMA ListMeets ==
  ASSUME NEW a \in Route, Routable(a), a.kind = "list", NEW b
  PROVE  (\E i \in 1..Len(a.names) : Selects(b, Qualified(a)[i]))
           <=> \E t \in FullNames : Selects(a, t) /\ Selects(b, t)
<1>1. \A t : Selects(a, t) <=> \E i \in 1..Len(a.names) : Qualified(a)[i] = t
  BY DEF Selects
<1> QED
  BY <1>1, ListIs, Zenon

\* Routes that overlap read a common topic, two patterns that overlap are one, and
\* those that do not overlap read none in common unless both are patterns.
LEMMA Meets ==
  ASSUME NEW a \in Route, Routable(a), NEW b \in Route, Routable(b)
  PROVE  Overlaps(a, b) <=>
           IF a.kind = "pattern" /\ b.kind = "pattern" THEN a = b
           ELSE \E t \in FullNames : Selects(a, t) /\ Selects(b, t)
<1> DEFINE list(x, y) == \E i \in 1..Len(x.names) : Selects(y, Qualified(x)[i])
           common(x, y) == \E t \in FullNames : Selects(x, t) /\ Selects(y, t)
<1>1. /\ a.kind \in {"list", "pattern"} /\ b.kind \in {"list", "pattern"}
      /\ a.kind = "pattern" /\ b.kind = "pattern" => (a.pattern = b.pattern <=> a = b)
  BY DEF Route
<1>2. a.kind = "list" => (list(a, b) <=> common(a, b))
  BY ListMeets, Zenon
<1>3. b.kind = "list" => (list(b, a) <=> common(b, a))
  BY ListMeets, Zenon
<1>4. common(a, b) <=> common(b, a)
  OBVIOUS
<1>5. Overlaps(a, b) <=> IF a.kind = "list" THEN list(a, b)
                         ELSE IF b.kind = "list" THEN list(b, a) ELSE a.pattern = b.pattern
  BY <1>1, Zenon DEF Overlaps
<1> HIDE DEF list, common
<1>6. "list" # "pattern"
  OBVIOUS
<1>7. Overlaps(a, b) <=> IF a.kind = "pattern" /\ b.kind = "pattern" THEN a = b
                         ELSE common(a, b)
  BY <1>1, <1>2, <1>3, <1>4, <1>5, <1>6
<1> QED
  BY <1>7 DEF common

\* What the document says of a channel is so of each topic the subscription reads.
LEMMA DescribedIs ==
  ASSUME NEW r \in Route, NEW t, Selects(r, t), NEW c \in Described(r)
  PROVE  c = Channel(t)
<1>1. r.kind # "pattern"
  BY DEF Described
<1>2. PICK i \in 1..Len(r.names) : Qualified(r)[i] = t
  BY <1>1 DEF Selects
<1> DEFINE channels == {Channel(Qualified(r)[j]) : j \in 1..Len(r.names)}
<1>3. c \in channels /\ \A d, e \in channels : d = e
  BY <1>1, Zenon DEF Described
<1>4. Channel(t) \in channels
  BY <1>2
<1> QED
  BY <1>3, <1>4, Zenon

-----------------------------------------------------------------------------
(* Conversions *)

\* Headers of which all, or of which none but the key, are text.
TextHeaders == UNION {[names -> Texts] : names \in SUBSET HeaderNames}

\* A call, what the server keeps of it and what the router does.
CallOf == [to : Spelling, payload : Nat, size : Nat, headers : Headers, key : {None} \cup Texts]
ServerMessage == [payload : Nat, properties : TextHeaders, key : {None} \cup Texts]
StoredMessage == [payload : Nat, headers : TextHeaders]

\* The key a call names, or carries where it names none.
KeyGiven(m) == IF m.key # None THEN m.key ELSE KeySlot(m.headers)

\* Headers are a function on some of their names.
LEMMA TextHeadersIs ==
  ASSUME NEW h
  PROVE  h \in TextHeaders <=> /\ h = [name \in DOMAIN h |-> h[name]]
                               /\ DOMAIN h \subseteq HeaderNames
                               /\ \A name \in DOMAIN h : h[name] \in Texts
<1>1. ASSUME h \in TextHeaders
      PROVE  /\ h = [name \in DOMAIN h |-> h[name]]
             /\ DOMAIN h \subseteq HeaderNames
             /\ \A name \in DOMAIN h : h[name] \in Texts
  <2>1. PICK names \in SUBSET HeaderNames : h \in [names -> Texts]
    BY <1>1 DEF TextHeaders
  <2> QED BY <2>1
<1>2. ASSUME h = [name \in DOMAIN h |-> h[name]], DOMAIN h \subseteq HeaderNames,
             \A name \in DOMAIN h : h[name] \in Texts
      PROVE  h \in TextHeaders
  <2>1. h \in [DOMAIN h -> Texts]
    BY <1>2
  <2> QED BY <1>2, <2>1 DEF TextHeaders
<1> QED
  BY <1>1, <1>2

\* Headers that are all text are text headers.
LEMMA TextualIs ==
  ASSUME NEW h \in Headers, Textual(h)
  PROVE  h \in TextHeaders
<1>1. PICK names \in SUBSET HeaderNames : h \in [names -> Texts \cup {Binary}]
  BY DEF Headers
<1>2. h \in [names -> Texts]
  BY <1>1 DEF Textual
<1> QED
  BY <1>2 DEF TextHeaders

\* The key leaves the headers and comes back as the one the call gave; no other
\* header changes on the way, and both transports agree on what comes out.
LEMMA Converted ==
  ASSUME NEW m \in CallOf, Textual(m.headers)
  PROVE  LET cm == ClientMessage(m)
             out == DeliveredHeaders(cm)
         IN  /\ cm \in ServerMessage /\ cm.payload = m.payload
             /\ cm.key = KeyGiven(m)
             /\ out \in TextHeaders /\ HeadersRead(cm) = out
             /\ KeySlot(out) = KeyGiven(m)
             /\ Without(out, PartitionKey) = Without(m.headers, PartitionKey)
<1> DEFINE cm == ClientMessage(m)
           out == DeliveredHeaders(cm)
           h == m.headers
           w == Without(h, PartitionKey)
           k == KeyGiven(m)
<1>1. /\ h \in Headers /\ m.key \in {None} \cup Texts /\ m.payload \in Nat
  BY DEF CallOf
<1>2. /\ h = [name \in DOMAIN h |-> h[name]]
      /\ DOMAIN h \subseteq HeaderNames
      /\ \A name \in DOMAIN h : h[name] \in Texts
  BY <1>1, TextualIs, TextHeadersIs
<1>3. k \in {None} \cup Texts
  BY <1>1, <1>2 DEF KeyGiven, KeySlot
<1>4. cm = [payload |-> m.payload, properties |-> w, key |-> k]
  <2>1. k = IF m.key = None /\ PartitionKey \in DOMAIN h THEN h[PartitionKey] ELSE m.key
    BY DEF KeyGiven, KeySlot
  <2> QED BY <2>1, Zenon DEF ClientMessage
<1>5. w = [name \in DOMAIN h \ {PartitionKey} |-> h[name]]
  BY Zenon DEF Without
<1>6. w \in TextHeaders /\ PartitionKey \notin DOMAIN w
  BY <1>2, <1>5, TextHeadersIs
<1>7. cm \in ServerMessage /\ cm.payload = m.payload /\ cm.key = k /\ cm.properties = w
  BY <1>1, <1>3, <1>4, <1>6 DEF ServerMessage
<1> HIDE DEF cm, k, w
<1>8. HeadersRead(cm) = out
  BY Zenon DEF HeadersRead, DeliveredHeaders
<1>9. CASE k = None
  <2>1. out = w
    BY <1>7, <1>9, Zenon DEF DeliveredHeaders
  <2>2. KeySlot(w) = None
    BY <1>6, Zenon DEF KeySlot
  <2>3. Without(w, PartitionKey) = w
    <3>1. DOMAIN w \ {PartitionKey} = DOMAIN w
      BY <1>6
    <3>2. Without(w, PartitionKey) = [name \in DOMAIN w |-> w[name]]
      BY <3>1, Zenon DEF Without
    <3> QED BY <3>2, <1>6, TextHeadersIs, Zenon
  <2> HIDE DEF out
  <2>4. Without(out, PartitionKey) = w
    BY <2>1, <2>3
  <2> QED BY <1>6, <1>7, <1>8, <1>9, <2>1, <2>2, <2>4 DEF w, cm, k, out
<1>10. CASE k # None
  <2> DEFINE v == With(w, PartitionKey, k)
  <2>1. out = v
    BY <1>7, <1>10, Zenon DEF DeliveredHeaders
  <2>2. v = [name \in DOMAIN w \cup {PartitionKey} |-> IF name = PartitionKey THEN k ELSE w[name]]
    BY Zenon DEF With
  <2> HIDE DEF v, out
  <2>3. /\ DOMAIN v = DOMAIN w \cup {PartitionKey} /\ v[PartitionKey] = k
        /\ \A name \in DOMAIN w : v[name] = w[name]
    BY <2>2, <1>6
  <2>4. v \in TextHeaders
    <3>1. /\ \A name \in DOMAIN w : w[name] \in Texts
          /\ DOMAIN w \subseteq HeaderNames
      BY <1>6, TextHeadersIs
    <3>2. DOMAIN v \subseteq HeaderNames
      BY <2>3, <3>1, PublishingAssumption
    <3>3. \A name \in DOMAIN v : v[name] \in Texts
      BY <2>3, <3>1, <1>3, <1>10
    <3>4. v = [name \in DOMAIN v |-> v[name]]
      BY <2>2
    <3> QED BY <3>2, <3>3, <3>4, TextHeadersIs
  <2>5. KeySlot(v) = k
    BY <2>3 DEF KeySlot
  <2>6. Without(v, PartitionKey) = w
    <3>1. DOMAIN v \ {PartitionKey} = DOMAIN w
      BY <2>3, <1>6
    <3>2. Without(v, PartitionKey) = [name \in DOMAIN w |-> v[name]]
      BY <3>1, Zenon DEF Without
    <3>3. w = [name \in DOMAIN w |-> w[name]]
      BY <1>6, TextHeadersIs, Zenon
    <3> HIDE DEF v
    <3> QED BY <2>3, <3>2, <3>3
  <2> HIDE DEF v
  <2> QED BY <1>7, <1>8, <2>1, <2>4, <2>5, <2>6 DEF w, cm, k, out
<1> QED
  BY <1>9, <1>10

-----------------------------------------------------------------------------
(* The calls of a run *)

PubTypeOK ==
  /\ reader \in Readers
  /\ open \in BOOLEAN
  /\ producers \subseteq Topics
  /\ server \in [Topics -> Seq(ServerMessage)]
  /\ stored \in [Topics -> Seq(StoredMessage)]
  /\ calls \in Seq(CallOf)

\* A call takes up a new payload, or sends on a message of the log.
Fresh(m) == m.payload = Len(calls) + 1
SentOn(m) ==
  \E t \in Topics : \E i \in 1..Len(stored[t]) :
    m.payload = stored[t][i].payload /\ m.headers = stored[t][i].headers /\ m.key = None

\* A call both transports accept.
Taken(m) ==
  open /\ m.size <= MaxMessageSize /\ Parse(m.to) # Invalid /\ Textual(m.headers)

Made(m) == Call(m) /\ Parse(m.to) \in Topics \cup {Invalid} /\ (Fresh(m) \/ SentOn(m))

\* What is stored may be published again.
LEMMA TextIsHeaders == TextHeaders \subseteq Headers
<1>1. \A names \in SUBSET HeaderNames : [names -> Texts] \subseteq [names -> Texts \cup {Binary}]
  OBVIOUS
<1> QED
  BY <1>1 DEF TextHeaders, Headers

\* A step is a call or the shutdown.
LEMMA StepIs ==
  ASSUME PubTypeOK, Next
  PROVE  (\E m \in CallOf : Made(m)) \/ Shutdown
<1>1. CASE Publish
  <2>1. PICK to \in Written, body \in Bodies :
          Call([to |-> to, payload |-> Len(calls) + 1, size |-> body.size,
                headers |-> body.headers, key |-> body.key])
    BY <1>1 DEF Publish
  <2> DEFINE m == [to |-> to, payload |-> Len(calls) + 1, size |-> body.size,
                   headers |-> body.headers, key |-> body.key]
  <2>2. to \in Spelling /\ Len(calls) \in Nat
    BY PublishingAssumption DEF PubTypeOK
  <2>3. body.size \in Nat /\ body.headers \in Headers /\ body.key \in {None} \cup Texts
    BY PublishingAssumption
  <2>4. m \in CallOf
    BY <2>2, <2>3 DEF CallOf
  <2>5. Parse(m.to) \in Topics \cup {Invalid} /\ Fresh(m)
    BY DEF Topics, Fresh
  <2> HIDE DEF m
  <2>6. Call(m)
    BY <2>1 DEF m
  <2> QED BY <2>4, <2>5, <2>6 DEF Made
<1>2. CASE SendOn
  <2>a. PICK t \in Topics : \E i \in 1..Len(stored[t]) :
          /\ Selects(reader, t)
          /\ \E to \in Written \cup {Named(reader, t)} :
               Call([to |-> to, payload |-> stored[t][i].payload, size |-> 1,
                     headers |-> stored[t][i].headers, key |-> None])
    BY <1>2, Zenon DEF SendOn
  <2>b. PICK i \in 1..Len(stored[t]) :
          /\ Selects(reader, t)
          /\ \E to \in Written \cup {Named(reader, t)} :
               Call([to |-> to, payload |-> stored[t][i].payload, size |-> 1,
                     headers |-> stored[t][i].headers, key |-> None])
    BY <2>a, Zenon
  <2>1. PICK to \in Written \cup {Named(reader, t)} :
          /\ Selects(reader, t)
          /\ Call([to |-> to, payload |-> stored[t][i].payload, size |-> 1,
                   headers |-> stored[t][i].headers, key |-> None])
    BY <2>b, Zenon
  <2> DEFINE m == [to |-> to, payload |-> stored[t][i].payload, size |-> 1,
                   headers |-> stored[t][i].headers, key |-> None]
  <2>2. t \in FullNames /\ reader \in Route /\ Routable(reader)
    BY TopicsFull, PublishingAssumption DEF PubTypeOK
  <2>3. Named(reader, t) \in Spelling /\ Parse(Named(reader, t)) = t
    BY <2>1, <2>2, NamedIs
  <2>4. to \in Spelling /\ Parse(to) \in Topics \cup {Invalid}
    BY <2>3, PublishingAssumption DEF Topics
  <2>5. stored[t][i] \in StoredMessage
    BY ElementOfSeq DEF PubTypeOK
  <2>6. stored[t][i].payload \in Nat /\ stored[t][i].headers \in Headers
    BY <2>5, TextIsHeaders DEF StoredMessage
  <2>7. m \in CallOf
    BY <2>4, <2>6 DEF CallOf
  <2>8. SentOn(m) /\ Parse(m.to) \in Topics \cup {Invalid}
    BY <2>4 DEF SentOn
  <2> HIDE DEF m
  <2>9. Call(m)
    BY <2>1 DEF m
  <2> QED BY <2>7, <2>8, <2>9 DEF Made
<1> QED
  BY <1>1, <1>2 DEF Next

\* Both transports answer a call alike, and take it in the same cases.
LEMMA AnswersAgree ==
  ASSUME NEW m \in CallOf
  PROVE  LiveAnswer(m) = InProcessAnswer(m) /\ (LiveAnswer(m) = "Ok" <=> Taken(m))
<1>1. LiveAnswer(m) = InProcessAnswer(m)
  BY Zenon DEF LiveAnswer, InProcessAnswer, BusAnswer
<1>2. Admitted(m) = "Ok" <=> open /\ m.size <= MaxMessageSize
  <2>1. m.size \in Nat /\ MaxMessageSize \in Nat
    BY PublishingAssumption DEF CallOf
  <2>2. "Ok" # "Publish" /\ "Ok" # "NotConnected"
    OBVIOUS
  <2> DEFINE large == m.size > MaxMessageSize
  <2>3. large <=> ~(m.size <= MaxMessageSize)
    BY <2>1
  <2>4. Admitted(m) = IF ~open THEN "NotConnected" ELSE IF large THEN "Publish" ELSE "Ok"
    BY Zenon DEF Admitted
  <2> HIDE DEF large
  <2> QED BY <2>2, <2>3, <2>4, Zenon
<1>3. "Ok" # "Publish" /\ "Ok" # "Invalid"
  OBVIOUS
<1> QED
  BY <1>1, <1>2, <1>3, Zenon DEF LiveAnswer, Taken

\* What a call leaves in the logs of either transport.
LEMMA CallLogs ==
  ASSUME PubTypeOK, NEW m \in CallOf, Made(m)
  PROVE  /\ Taken(m) => /\ Parse(m.to) \in Topics
                        /\ server' = [server EXCEPT ![Parse(m.to)] =
                                        Append(@, ClientMessage(m))]
                        /\ stored' = [stored EXCEPT ![Parse(m.to)] =
                                        Append(@, [payload |-> m.payload,
                                                   headers |-> DeliveredHeaders(ClientMessage(m))])]
         /\ ~Taken(m) => server' = server /\ stored' = stored
         /\ UNCHANGED <<reader, open>> /\ calls' = Append(calls, m)
         /\ answered'[1] = answered'[2]
         /\ producers' \subseteq Topics
<1>1. Live(m) /\ InProcess(m) /\ UNCHANGED <<reader, open>> /\ calls' = Append(calls, m)
  BY Zenon DEF Made, Call
<1>2. answered' = <<LiveAnswer(m), InProcessAnswer(m)>>
  BY Zenon DEF Made, Call
<1>3. answered'[1] = answered'[2]
  <2> DEFINE a == LiveAnswer(m)
             b == InProcessAnswer(m)
  <2>1. a = b /\ answered' = <<a, b>>
    BY <1>2, AnswersAgree
  <2> HIDE DEF a, b
  <2> QED BY <2>1
<1>4. Taken(m) => Parse(m.to) \in Topics
  BY DEF Taken, Made
<1>5. producers' \subseteq Topics
  BY <1>1 DEF Live, Made, PubTypeOK
<1> QED
  BY <1>1, <1>3, <1>4, <1>5, AnswersAgree, Zenon DEF Live, InProcess

\* So, topic by topic: a call that is taken adds to its topic in both.
Adds(m, t) == Taken(m) /\ Parse(m.to) = t
StoredOf(m) == [payload |-> m.payload, headers |-> DeliveredHeaders(ClientMessage(m))]

LEMMA CallAdds ==
  ASSUME PubTypeOK, NEW m \in CallOf, Made(m), NEW t \in Topics
  PROVE  /\ Adds(m, t) => /\ server'[t] = Append(server[t], ClientMessage(m))
                          /\ stored'[t] = Append(stored[t], StoredOf(m))
         /\ ~Adds(m, t) => server'[t] = server[t] /\ stored'[t] = stored[t]
<1>1. DOMAIN server = Topics /\ DOMAIN stored = Topics
  BY DEF PubTypeOK
<1>2. CASE Taken(m)
  <2> DEFINE n == ClientMessage(m)
             o == StoredOf(m)
             u == Parse(m.to)
  <2>1. /\ server' = [server EXCEPT ![u] = Append(@, n)]
        /\ stored' = [stored EXCEPT ![u] = Append(@, o)]
    BY <1>2, CallLogs, Zenon DEF StoredOf
  <2> HIDE DEF n, o, u
  <2>2. IF t = u THEN server'[t] = Append(server[t], n) /\ stored'[t] = Append(stored[t], o)
                 ELSE server'[t] = server[t] /\ stored'[t] = stored[t]
    BY <1>1, <2>1
  <2> QED BY <1>2, <2>2 DEF Adds, n, o, u
<1>3. CASE ~Taken(m)
  BY <1>3, CallLogs, Zenon DEF Adds
<1> QED
  BY <1>2, <1>3

\* What it adds is a message of either.
LEMMA AddedIs ==
  ASSUME NEW m \in CallOf, Taken(m)
  PROVE  ClientMessage(m) \in ServerMessage /\ StoredOf(m) \in StoredMessage
<1>1. m.payload \in Nat
  BY DEF CallOf
<1>2. DeliveredHeaders(ClientMessage(m)) \in TextHeaders /\ ClientMessage(m) \in ServerMessage
  BY Converted, Zenon DEF Taken
<1> QED
  BY <1>1, <1>2 DEF StoredOf, StoredMessage

LEMMA TypeStep ==
  ASSUME PubTypeOK, [Next]_pubVars
  PROVE  PubTypeOK'
<1>1. ASSUME NEW m \in CallOf, Made(m)
      PROVE  PubTypeOK'
  <2>a. calls' = Append(calls, m) /\ reader' = reader /\ open' = open
        /\ producers' \subseteq Topics
    BY <1>1, CallLogs, Zenon
  <2>b. calls' \in Seq(CallOf)
    BY <2>a, AppendProperties DEF PubTypeOK
  <2>1. calls' \in Seq(CallOf) /\ reader' \in Readers /\ open' \in BOOLEAN
        /\ producers' \subseteq Topics
    BY <2>a, <2>b, Zenon DEF PubTypeOK
  <2>2. server' \in [Topics -> Seq(ServerMessage)] /\ stored' \in [Topics -> Seq(StoredMessage)]
    <3>1. CASE Taken(m)
      <4> DEFINE u == Parse(m.to)
                 n == ClientMessage(m)
                 o == StoredOf(m)
      <4>1. /\ u \in Topics
            /\ server' = [server EXCEPT ![u] = Append(@, n)]
            /\ stored' = [stored EXCEPT ![u] = Append(@, o)]
        BY <1>1, <3>1, CallLogs, Zenon DEF StoredOf
      <4>2. n \in ServerMessage /\ o \in StoredMessage
        BY <3>1, AddedIs
      <4> HIDE DEF u, n, o
      <4> QED BY <4>1, <4>2 DEF PubTypeOK
    <3>2. CASE ~Taken(m)
      BY <1>1, <3>2, CallLogs DEF PubTypeOK
    <3> QED BY <3>1, <3>2
  <2> QED BY <2>1, <2>2 DEF PubTypeOK
<1>2. CASE Shutdown
  <2>1. <<>> \in Seq(StoredMessage)
    OBVIOUS
  <2>2. stored' \in [Topics -> Seq(StoredMessage)]
    BY <1>2, <2>1 DEF Shutdown
  <2>3. /\ reader' = reader /\ open' = FALSE /\ producers' = {}
        /\ server' = server /\ calls' = calls
    BY <1>2 DEF Shutdown
  <2> QED BY <2>2, <2>3, Zenon DEF PubTypeOK
<1>3. CASE UNCHANGED pubVars
  BY <1>3 DEF pubVars, PubTypeOK
<1> QED
  BY <1>1, <1>2, <1>3, StepIs

\* The state has the shape the definitions expect: a server that stores messages
\* with text for properties, a log of the router with text for headers.
THEOREM PublishingTypeCorrect == Spec => []PubTypeOK
<1>1. Init => PubTypeOK
  <2> SUFFICES ASSUME Init PROVE PubTypeOK
    OBVIOUS
  <2>1. \A S : <<>> \in Seq(S)
    OBVIOUS
  <2> QED BY <2>1 DEF Init, PubTypeOK
<1> QED
  BY <1>1, TypeStep, PTL DEF Spec

-----------------------------------------------------------------------------
(* Names and routes *)

LEMMA NamesAndRoutes ==
  ASSUME PubTypeOK
  PROVE  NamesLeadBack /\ RoutesMeet
<1>1. reader \in Readers /\ \A r \in Readers : r \in Route /\ Routable(r)
  BY PublishingAssumption DEF PubTypeOK
<1>2. ASSUME NEW t \in Topics, Selects(reader, t)
      PROVE  /\ Parse(Named(reader, t)) = t
             /\ reader.kind = "list" =>
                  \E i \in 1..Len(reader.names) : Named(reader, t) = reader.names[i]
             /\ \A c \in Described(reader) : c = Channel(t)
  BY <1>1, <1>2, TopicsFull, NamedIs, DescribedIs
<1>3. ASSUME NEW r \in Readers
      PROVE  Overlaps(r, reader) <=>
               IF r.kind = "pattern" /\ reader.kind = "pattern" THEN r = reader
               ELSE \E t \in FullNames : Selects(r, t) /\ Selects(reader, t)
  BY <1>1, Meets, Zenon
<1> QED
  BY <1>2, <1>3, Zenon DEF NamesLeadBack, RoutesMeet

\* The name a delivery reports its topic by leads back to the topic, and what the
\* document says of the channel is so of it, for every route and every topic
\* (named, parse, describe_channel).
THEOREM NamesLeadBackAlways == Spec => []NamesLeadBack
<1>1. PubTypeOK => NamesLeadBack
  BY NamesAndRoutes
<1> QED
  BY <1>1, PublishingTypeCorrect, PTL

\* The overlap of two routes is their having a topic in common, over all the names
\* there are and not only those of the run (overlaps).
THEOREM RoutesMeetAlways == Spec => []RoutesMeet
<1>1. PubTypeOK => RoutesMeet
  BY NamesAndRoutes
<1> QED
  BY <1>1, PublishingTypeCorrect, PTL

-----------------------------------------------------------------------------
(* The two transports *)

\* What the server has of a message is what the router has.
Alike(s, o) ==
  s.payload = o.payload /\ HeadersRead(s) = o.headers /\ s.key = KeySlot(o.headers)

SameLogs(t) ==
  /\ Len(server[t]) = Len(stored[t])
  /\ \A i \in 1..Len(server[t]) : Alike(server[t][i], stored[t][i])

LEMMA AddedAlike ==
  ASSUME NEW m \in CallOf, Taken(m)
  PROVE  Alike(ClientMessage(m), StoredOf(m))
<1>1. /\ ClientMessage(m).payload = m.payload /\ ClientMessage(m).key = KeyGiven(m)
      /\ HeadersRead(ClientMessage(m)) = DeliveredHeaders(ClientMessage(m))
      /\ KeySlot(DeliveredHeaders(ClientMessage(m))) = KeyGiven(m)
  BY Converted, Zenon DEF Taken
<1>2. /\ StoredOf(m).payload = m.payload
      /\ StoredOf(m).headers = DeliveredHeaders(ClientMessage(m))
  BY DEF StoredOf
<1> QED
  BY <1>1, <1>2, Zenon DEF Alike

LEMMA SameStep ==
  ASSUME PubTypeOK, SameOnBothTransports, [Next]_pubVars
  PROVE  SameOnBothTransports'
<1>1. ASSUME NEW m \in CallOf, Made(m)
      PROVE  SameOnBothTransports'
  <2>1. answered'[1] = answered'[2] /\ open' = open
    BY <1>1, CallLogs, Zenon
  <2>2. ASSUME open, NEW t \in Topics
        PROVE  SameLogs(t)'
    <3> DEFINE s == server[t]
               o == stored[t]
    <3>1. /\ s \in Seq(ServerMessage) /\ o \in Seq(StoredMessage) /\ Len(s) = Len(o)
          /\ \A i \in 1..Len(s) : Alike(s[i], o[i])
      BY <2>2 DEF PubTypeOK, SameOnBothTransports, Alike
    <3>2. CASE Adds(m, t)
      <4> DEFINE a == ClientMessage(m)
                 b == StoredOf(m)
      <4>1. server'[t] = Append(s, a) /\ stored'[t] = Append(o, b)
        BY <1>1, <3>2, CallAdds, Zenon
      <4>2. a \in ServerMessage /\ b \in StoredMessage /\ Alike(a, b)
        BY <3>2, AddedIs, AddedAlike DEF Adds
      <4> HIDE DEF s, o, a, b
      <4>3. /\ Len(Append(s, a)) = Len(Append(o, b))
            /\ \A i \in 1..Len(Append(s, a)) : Alike(Append(s, a)[i], Append(o, b)[i])
        <5>1. /\ Len(Append(s, a)) = Len(s) + 1 /\ Append(s, a)[Len(s) + 1] = a
              /\ \A i \in 1..Len(s) : Append(s, a)[i] = s[i]
          BY <3>1, <4>2, AppendProperties
        <5>2. /\ Len(Append(o, b)) = Len(o) + 1 /\ Append(o, b)[Len(o) + 1] = b
              /\ \A i \in 1..Len(o) : Append(o, b)[i] = o[i]
          BY <3>1, <4>2, AppendProperties
        <5> QED BY <3>1, <4>2, <5>1, <5>2
      <4> QED BY <4>1, <4>3, Zenon DEF SameLogs
    <3>3. CASE ~Adds(m, t)
      <4>1. server'[t] = s /\ stored'[t] = o
        BY <1>1, <3>3, CallAdds, Zenon
      <4> HIDE DEF s, o
      <4> QED BY <3>1, <4>1, Zenon DEF SameLogs
    <3> QED BY <3>2, <3>3
  <2> QED BY <2>1, <2>2, Zenon DEF SameOnBothTransports, SameLogs, Alike
<1>2. CASE Shutdown
  BY <1>2 DEF Shutdown, SameOnBothTransports
<1>3. CASE UNCHANGED pubVars
  <2>1. answered' = answered /\ open' = open /\ server' = server /\ stored' = stored
    BY <1>3 DEF pubVars
  <2> QED BY <2>1, Zenon DEF SameOnBothTransports
<1> QED
  BY <1>1, <1>2, <1>3, StepIs

\* Both transports answer a call alike, and a subscriber of either reads the same
\* messages with the same headers, placed by the same key (to_pulsar_message,
\* delivered_headers, PulsarMessage::new).
THEOREM SameOnBothTransportsAlways == Spec => []SameOnBothTransports
<1>1. Init => SameOnBothTransports
  <2> SUFFICES ASSUME Init PROVE SameOnBothTransports
    OBVIOUS
  <2>1. answered[1] = answered[2]
    BY DEF Init
  <2>2. \A t \in Topics : server[t] = <<>> /\ stored[t] = <<>>
    BY DEF Init
  <2> QED BY <2>1, <2>2 DEF SameOnBothTransports
<1>2. PubTypeOK /\ SameOnBothTransports /\ [Next]_pubVars => SameOnBothTransports'
  BY SameStep
<1> QED
  BY <1>1, <1>2, PublishingTypeCorrect, PTL DEF Spec

-----------------------------------------------------------------------------
(* The way of a key *)

\* A message of the log has the key and the headers of the call whose payload it has.
From(o, cs) ==
  /\ o.payload \in 1..Len(cs)
  /\ cs[o.payload].payload = o.payload
  /\ KeySlot(o.headers) = KeyGiven(cs[o.payload])
  /\ Without(o.headers, PartitionKey) = Without(cs[o.payload].headers, PartitionKey)

\* A payload is no younger than the call that has it: the call that brought it in
\* is the one it counts.
Counted(cs) == \A j \in 1..Len(cs) : cs[j].payload \in 1..j

Travelled ==
  /\ Counted(calls)
  /\ \A t \in Topics : \A i \in 1..Len(stored[t]) : From(stored[t][i], calls)

\* What came from a call still does when another is made.
LEMMA StillFrom ==
  ASSUME NEW cs \in Seq(CallOf), NEW m \in CallOf, NEW o, From(o, cs)
  PROVE  From(o, Append(cs, m))
<1> DEFINE ds == Append(cs, m)
           p == o.payload
<1>1. Len(ds) = Len(cs) + 1 /\ Len(cs) \in Nat /\ \A j \in 1..Len(cs) : ds[j] = cs[j]
  BY AppendProperties
<1>2. p \in 1..Len(cs)
  BY DEF From
<1> HIDE DEF ds
<1>3. p \in 1..Len(ds) /\ ds[p] = cs[p]
  BY <1>1, <1>2
<1>4. From(o, ds)
  BY <1>3, Zenon DEF From
<1> QED
  BY <1>4 DEF ds

LEMMA TravelStep ==
  ASSUME PubTypeOK, Travelled, [Next]_pubVars
  PROVE  Travelled'
<1>1. ASSUME NEW m \in CallOf, Made(m)
      PROVE  Travelled'
  <2> DEFINE ds == Append(calls, m)
             n == Len(calls)
  <2>1. calls' = ds
    BY <1>1, CallLogs, Zenon
  <2>2. /\ calls \in Seq(CallOf) /\ n \in Nat /\ Len(ds) = n + 1 /\ ds[n + 1] = m
        /\ \A j \in 1..n : ds[j] = calls[j]
    BY AppendProperties DEF PubTypeOK
  <2>3. m.payload = n + 1 \/ \E t \in Topics : \E i \in 1..Len(stored[t]) :
          m.payload = stored[t][i].payload /\ m.headers = stored[t][i].headers /\ m.key = None
    BY <1>1, Zenon DEF Made, Fresh, SentOn
  <2>4. m.payload \in 1..(n + 1)
    <3>1. CASE m.payload = n + 1
      BY <2>2, <3>1
    <3>2. ASSUME NEW t \in Topics, NEW i \in 1..Len(stored[t]),
                 m.payload = stored[t][i].payload
          PROVE  m.payload \in 1..(n + 1)
      <4>1. m.payload \in 1..n
        BY <3>2, Zenon DEF Travelled, From
      <4> QED BY <2>2, <4>1
    <3> QED BY <2>3, <3>1, <3>2
  <2> HIDE DEF ds
  <2>5. Counted(ds)
    <3> SUFFICES ASSUME NEW j \in 1..(n + 1) PROVE ds[j].payload \in 1..j
      BY <2>2, Zenon DEF Counted
    <3>1. CASE j = n + 1
      BY <2>2, <2>4, <3>1
    <3>2. CASE j # n + 1
      <4>1. j \in 1..n
        BY <2>2, <3>2
      <4> HIDE DEF n
      <4> QED BY <2>2, <4>1 DEF Travelled, Counted, n
    <3> QED BY <3>1, <3>2
  <2>6. ASSUME Taken(m) PROVE From(StoredOf(m), ds)
    <3> DEFINE o == StoredOf(m)
    <3>1. /\ o.payload = m.payload /\ KeySlot(o.headers) = KeyGiven(m)
          /\ Without(o.headers, PartitionKey) = Without(m.headers, PartitionKey)
      <4>1. /\ o.payload = m.payload /\ o.headers = DeliveredHeaders(ClientMessage(m))
        BY DEF StoredOf
      <4> QED BY <2>6, <4>1, Converted, Zenon DEF Taken
    <3> HIDE DEF o
    <3>2. ASSUME m.payload = n + 1 PROVE From(o, ds)
      <4>1. o.payload = n + 1 /\ n + 1 \in 1..Len(ds)
        BY <2>2, <3>1, <3>2
      <4>2. ds[o.payload] = m
        BY <2>2, <4>1
      <4> QED BY <3>1, <4>1, <4>2, Zenon DEF From
    <3>3. ASSUME NEW t \in Topics, NEW i \in 1..Len(stored[t]),
                 m.payload = stored[t][i].payload, m.headers = stored[t][i].headers,
                 m.key = None
          PROVE  From(o, ds)
      <4> DEFINE s == stored[t][i]
      <4>1. From(s, calls)
        BY Zenon DEF Travelled
      <4>2. From(s, ds)
        BY <2>2, <4>1, StillFrom, Zenon DEF ds
      <4>3. KeyGiven(m) = KeySlot(s.headers)
        BY <3>3, Zenon DEF KeyGiven
      <4>4. /\ o.payload = s.payload /\ KeySlot(o.headers) = KeySlot(s.headers)
            /\ Without(o.headers, PartitionKey) = Without(s.headers, PartitionKey)
        BY <3>1, <3>3, <4>3, Zenon
      <4> HIDE DEF s
      <4> QED BY <4>2, <4>4, Zenon DEF From
    <3> QED BY <2>3, <3>2, <3>3 DEF o
  <2>7. ASSUME NEW t \in Topics PROVE \A i \in 1..Len(stored'[t]) : From(stored'[t][i], ds)
    <3> DEFINE o == stored[t]
    <3>1. o \in Seq(StoredMessage) /\ \A i \in 1..Len(o) : From(o[i], ds)
      <4>1. o \in Seq(StoredMessage)
        BY DEF PubTypeOK
      <4>2. \A i \in 1..Len(o) : From(o[i], calls)
        BY Zenon DEF Travelled
      <4> QED BY <2>2, <4>1, <4>2, StillFrom, Zenon DEF ds
    <3>2. CASE Adds(m, t)
      <4> DEFINE b == StoredOf(m)
      <4>1. stored'[t] = Append(o, b) /\ b \in StoredMessage /\ From(b, ds)
        BY <1>1, <2>6, <3>2, CallAdds, AddedIs, Zenon DEF Adds
      <4> HIDE DEF o, b
      <4>2. /\ Len(Append(o, b)) = Len(o) + 1 /\ Append(o, b)[Len(o) + 1] = b
            /\ Len(o) \in Nat /\ \A i \in 1..Len(o) : Append(o, b)[i] = o[i]
        BY <3>1, <4>1, AppendProperties
      <4>3. \A i \in 1..Len(Append(o, b)) : From(Append(o, b)[i], ds)
        BY <3>1, <4>1, <4>2
      <4> QED BY <4>1, <4>3, Zenon
    <3>3. CASE ~Adds(m, t)
      BY <1>1, <3>1, <3>3, CallAdds, Zenon
    <3> QED BY <3>2, <3>3
  <2> QED BY <2>1, <2>5, <2>7, Zenon DEF Travelled
<1>2. CASE Shutdown
  <2>1. calls' = calls /\ \A t \in Topics : stored'[t] = <<>>
    BY <1>2 DEF Shutdown
  <2> QED BY <2>1 DEF Travelled
<1>3. CASE UNCHANGED pubVars
  <2>1. calls' = calls /\ stored' = stored
    BY <1>3 DEF pubVars
  <2> QED BY <2>1, Zenon DEF Travelled
<1> QED
  BY <1>1, <1>2, <1>3, StepIs

\* The call a payload first came with is the one it counts.
LEMMA FirstCallIs ==
  ASSUME calls \in Seq(CallOf), Counted(calls), NEW p \in 1..Len(calls), calls[p].payload = p
  PROVE  FirstCall(p) = calls[p]
<1> DEFINE Is(i) == calls[i].payload = p /\ \A j \in 1..(i - 1) : calls[j].payload # p
           i == CHOOSE i \in 1..Len(calls) : Is(i)
<1>1. Is(p)
  BY DEF Counted
<1>2. i \in 1..Len(calls) /\ Is(i)
  <2> HIDE DEF Is
  <2> QED BY <1>1
<1>3. i = p
  BY <1>2 DEF Counted
<1>4. FirstCall(p) = calls[i]
  BY Zenon DEF FirstCall
<1> QED
  BY <1>3, <1>4, Zenon

\* A message keeps the key its first call named or carried, and every other header
\* of it, however often it is sent on (to_pulsar_message, delivered_headers).
THEOREM KeyTravelsAlways == Spec => []KeyTravels
<1>1. Init => Travelled
  <2> SUFFICES ASSUME Init PROVE Travelled
    OBVIOUS
  <2>1. calls = <<>> /\ \A t \in Topics : stored[t] = <<>>
    BY DEF Init
  <2> QED BY <2>1 DEF Travelled, Counted
<1>2. PubTypeOK /\ Travelled /\ [Next]_pubVars => Travelled'
  BY TravelStep
<1>3. PubTypeOK /\ Travelled => KeyTravels
  <2> SUFFICES ASSUME PubTypeOK, Travelled, NEW t \in Topics, NEW i \in 1..Len(stored[t])
               PROVE  LET first == FirstCall(stored[t][i].payload)
                          key == IF first.key # None THEN first.key ELSE KeySlot(first.headers)
                          headers == stored[t][i].headers
                      IN  /\ KeySlot(headers) = key
                          /\ Without(headers, PartitionKey) = Without(first.headers, PartitionKey)
    BY Zenon DEF KeyTravels
  <2> DEFINE o == stored[t][i]
             p == o.payload
  <2>1. From(o, calls) /\ Counted(calls) /\ calls \in Seq(CallOf)
    BY Zenon DEF Travelled, PubTypeOK
  <2>2. p \in 1..Len(calls) /\ calls[p].payload = p
    BY <2>1, Zenon DEF From
  <2>3. FirstCall(p) = calls[p]
    <3> HIDE DEF p
    <3> QED BY <2>1, <2>2, FirstCallIs
  <2> QED BY <2>1, <2>3, Zenon DEF From, KeyGiven
<1> QED
  BY <1>1, <1>2, <1>3, PublishingTypeCorrect, PTL DEF Spec

-----------------------------------------------------------------------------
(* One log of a topic *)

\* Of the calls cs those for the topic of n.
CallsIn(cs, n) ==
  LET f[i \in 0..Len(cs)] ==
        IF i = 0 THEN <<>>
        ELSE IF IsFor(cs[i], n) THEN Append(f[i - 1], cs[i]) ELSE f[i - 1]
  IN  f[Len(cs)]

\* They are taken one after the other.
TakesIn(cs, n, f) ==
  /\ f[0] = <<>>
  /\ \A i \in 1..Len(cs) :
       f[i] = IF IsFor(cs[i], n) THEN Append(f[i - 1], cs[i]) ELSE f[i - 1]
  /\ \A i \in 0..Len(cs) : f[i] \in Seq(CallOf)

LEMMA CallsFold ==
  ASSUME NEW cs \in Seq(CallOf), NEW n
  PROVE  \E f : TakesIn(cs, n, f) /\ CallsIn(cs, n) = f[Len(cs)]
<1> DEFINE N == Len(cs)
           X == Seq(CallOf)
           rec(f) == [i \in 0..N |-> IF i = 0 THEN <<>>
                                     ELSE IF IsFor(cs[i], n) THEN Append(f[i - 1], cs[i])
                                     ELSE f[i - 1]]
           f == CHOOSE f : f = rec(f)
           g == [i \in 1..N |-> [x \in X |-> IF IsFor(cs[i], n) THEN Append(x, cs[i]) ELSE x]]
<1>1. N \in Nat /\ \A i \in 1..N : cs[i] \in CallOf
  OBVIOUS
<1>2. CallsIn(cs, n) = f[N]
  BY DEF CallsIn
<1>3. g \in Steps(N, X)
  <2>1. \A i \in 1..N : \A x \in X : Append(x, cs[i]) \in X
    BY <1>1, AppendProperties
  <2> QED BY <2>1 DEF Steps
<1>4. PICK e : IsFold(N, X, <<>>, g, e)
  <2>1. <<>> \in X
    OBVIOUS
  <2> HIDE DEF g, X, N
  <2> QED BY <1>1, <1>3, <2>1, FoldExists
<1>5. ASSUME NEW i \in 0..N PROVE e[i] = rec(e)[i]
  <2>1. CASE i = 0
    BY <2>1, <1>4 DEF IsFold
  <2>2. CASE i # 0
    <3>1. i \in 1..N /\ i - 1 \in 0..N
      BY <2>2
    <3>2. e[i] = g[i][e[i - 1]] /\ e[i - 1] \in X
      BY <3>1, <1>4, Zenon DEF IsFold
    <3>3. g[i][e[i - 1]] = IF IsFor(cs[i], n) THEN Append(e[i - 1], cs[i]) ELSE e[i - 1]
      BY <3>1, <3>2, Zenon
    <3> QED BY <2>2, <3>1, <3>2, <3>3, Zenon
  <2> QED BY <2>1, <2>2
<1>6. e = rec(e)
  <2>1. e \in [0..N -> X]
    BY <1>4, Zenon DEF IsFold
  <2> HIDE DEF g, X, N
  <2> QED BY <2>1, <1>5
<1>7. f = rec(f)
  <2> HIDE DEF rec
  <2> QED BY <1>6
<1> HIDE DEF f
<1>8. \A i \in 0..N : f[i] = rec(f)[i]
  <2> HIDE DEF rec
  <2> QED BY <1>7
<1>9. f[0] = <<>> /\ \A i \in 1..N :
        f[i] = IF IsFor(cs[i], n) THEN Append(f[i - 1], cs[i]) ELSE f[i - 1]
  <2>1. 0 \in 0..N /\ \A i \in 1..N : i \in 0..N /\ i # 0
    BY <1>1
  <2> QED BY <1>8, <2>1, Zenon
<1> DEFINE P == {i \in 0..N : f[i] \in X}
<1>10. 0 \in P
  <2>1. <<>> \in X
    OBVIOUS
  <2>2. 0 \in 0..N
    BY <1>1
  <2> HIDE DEF X, N
  <2> QED BY <1>9, <2>1, <2>2
<1>11. ASSUME NEW i \in 0..(N - 1), i \in P PROVE i + 1 \in P
  <2>1. i + 1 \in 1..N /\ i + 1 - 1 = i /\ i + 1 \in 0..N
    BY <1>1
  <2>2. f[i + 1] = IF IsFor(cs[i + 1], n) THEN Append(f[i], cs[i + 1]) ELSE f[i]
    BY <1>9, <2>1
  <2>3. Append(f[i], cs[i + 1]) \in X
    BY <1>1, <1>11, <2>1, AppendProperties
  <2> QED BY <1>11, <2>1, <2>2, <2>3, Zenon
<1>12. 0..N \subseteq P
  <2> HIDE DEF P, N, X
  <2> QED BY <1>1, <1>10, <1>11, UpTo
<1>13. TakesIn(cs, n, f)
  <2>1. \A i \in 0..N : f[i] \in X
    BY <1>12, Zenon
  <2> QED BY <1>9, <2>1, Zenon DEF TakesIn
<1> QED
  BY <1>2, <1>13

\* Another call adds itself to those of its topic.
LEMMA CallsGrow ==
  ASSUME NEW cs \in Seq(CallOf), NEW m \in CallOf, NEW n
  PROVE  /\ CallsIn(cs, n) \in Seq(CallOf)
         /\ CallsIn(Append(cs, m), n) = IF IsFor(m, n) THEN Append(CallsIn(cs, n), m)
                                        ELSE CallsIn(cs, n)
<1> DEFINE ds == Append(cs, m)
           N == Len(cs)
<1>1. /\ ds \in Seq(CallOf) /\ N \in Nat /\ Len(ds) = N + 1 /\ ds[N + 1] = m
      /\ \A i \in 1..N : ds[i] = cs[i]
  BY AppendProperties
<1>2. PICK f : TakesIn(cs, n, f) /\ CallsIn(cs, n) = f[Len(cs)]
  BY CallsFold
<1> HIDE DEF ds
<1>3. PICK e : TakesIn(ds, n, e) /\ CallsIn(ds, n) = e[Len(ds)]
  BY <1>1, CallsFold
<1> DEFINE P == {i \in 0..N : e[i] = f[i]}
<1>4. 0 \in P
  BY <1>1, <1>2, <1>3 DEF TakesIn
<1>5. ASSUME NEW i \in 0..(N - 1), i \in P PROVE i + 1 \in P
  <2>1. i + 1 \in 1..N /\ i + 1 \in 1..Len(ds) /\ i + 1 - 1 = i /\ i + 1 \in 0..N
    BY <1>1
  <2>2. /\ f[i + 1] = IF IsFor(cs[i + 1], n) THEN Append(f[i], cs[i + 1]) ELSE f[i]
        /\ e[i + 1] = IF IsFor(ds[i + 1], n) THEN Append(e[i], ds[i + 1]) ELSE e[i]
    BY <1>2, <1>3, <2>1 DEF TakesIn
  <2>3. ds[i + 1] = cs[i + 1] /\ e[i] = f[i]
    BY <1>1, <1>5, <2>1
  <2>4. e[i + 1] = f[i + 1]
    BY <2>2, <2>3
  <2> QED BY <2>1, <2>4
<1>6. 0..N \subseteq P
  <2> HIDE DEF P, N
  <2> QED BY <1>1, <1>4, <1>5, UpTo
<1>7. e[N] = f[N]
  BY <1>1, <1>6
<1>8. N + 1 \in 1..Len(ds) /\ N + 1 - 1 = N
  BY <1>1
<1>9. e[N + 1] = IF IsFor(m, n) THEN Append(f[N], m) ELSE f[N]
  <2>1. e[N + 1] = IF IsFor(ds[N + 1], n) THEN Append(e[N], ds[N + 1]) ELSE e[N]
    <3> HIDE DEF N
    <3> QED BY <1>1, <1>3, <1>8 DEF TakesIn
  <2> QED BY <1>1, <1>7, <2>1, Zenon
<1>10. f[N] \in Seq(CallOf)
  BY <1>1, <1>2 DEF TakesIn
<1> QED
  BY <1>1, <1>2, <1>3, <1>9, <1>10, Zenon DEF ds

\* A log has the payloads of some calls, one by one.
Holds(log, cs) ==
  Len(log) = Len(cs) /\ \A i \in 1..Len(log) : log[i].payload = cs[i].payload

OneLog ==
  open => \A n \in Written :
            Parse(n) # Invalid => Holds(stored[Parse(n)], CallsIn(calls, n))

LEMMA OneLogStep ==
  ASSUME PubTypeOK, OneLog, [Next]_pubVars
  PROVE  OneLog'
<1>1. ASSUME NEW m \in CallOf, Made(m)
      PROVE  OneLog'
  <2>1. calls' = Append(calls, m) /\ open' = open /\ calls \in Seq(CallOf)
    BY <1>1, CallLogs, Zenon DEF PubTypeOK
  <2>2. ASSUME open, NEW n \in Written, Parse(n) # Invalid
        PROVE  Holds(stored'[Parse(n)], CallsIn(Append(calls, m), n))
    <3> DEFINE t == Parse(n)
               o == stored[t]
               c == CallsIn(calls, n)
               b == StoredOf(m)
    <3>1. t \in Topics /\ n \in Spelling /\ m.to \in Spelling
      BY <2>2, PublishingAssumption DEF Topics, CallOf
    <3>2. o \in Seq(StoredMessage) /\ c \in Seq(CallOf) /\ Holds(o, c)
      <4>1. o \in Seq(StoredMessage)
        BY <3>1 DEF PubTypeOK
      <4>2. c \in Seq(CallOf)
        BY <2>1, CallsGrow
      <4> QED BY <2>2, <4>1, <4>2, Zenon DEF OneLog
    <3>3. IsFor(m, n) <=> Adds(m, t)
      <4>1. Meaning(m.to) = Meaning(n) <=> Parse(m.to) = t
        BY <2>2, <3>1, Meant
      <4> QED BY <2>2, <4>1, Zenon DEF IsFor, Adds, Taken
    <3>4. CASE IsFor(m, n)
      <4>1. stored'[t] = Append(o, b) /\ b \in StoredMessage /\ b.payload = m.payload
        <5>1. b.payload = m.payload
          BY DEF StoredOf
        <5> QED BY <1>1, <3>1, <3>3, <3>4, <5>1, CallAdds, AddedIs, Zenon DEF Adds
      <4>2. CallsIn(Append(calls, m), n) = Append(c, m)
        BY <2>1, <3>4, CallsGrow, Zenon
      <4> HIDE DEF o, c, b
      <4>3. Holds(Append(o, b), Append(c, m))
        <5>1. /\ Len(Append(o, b)) = Len(o) + 1 /\ Append(o, b)[Len(o) + 1] = b
              /\ Len(o) \in Nat /\ \A i \in 1..Len(o) : Append(o, b)[i] = o[i]
          BY <3>2, <4>1, AppendProperties
        <5>2. /\ Len(Append(c, m)) = Len(c) + 1 /\ Append(c, m)[Len(c) + 1] = m
              /\ \A i \in 1..Len(c) : Append(c, m)[i] = c[i]
          BY <3>2, AppendProperties
        <5> QED BY <3>2, <4>1, <5>1, <5>2 DEF Holds
      <4> QED BY <4>1, <4>2, <4>3
    <3>5. CASE ~IsFor(m, n)
      <4>1. stored'[t] = o
        BY <1>1, <3>1, <3>3, <3>5, CallAdds, Zenon
      <4>2. CallsIn(Append(calls, m), n) = c
        BY <2>1, <3>5, CallsGrow, Zenon
      <4> QED BY <3>2, <4>1, <4>2, Zenon
    <3> QED BY <3>4, <3>5
  <2> QED BY <2>1, <2>2, Zenon DEF OneLog
<1>2. CASE Shutdown
  BY <1>2 DEF Shutdown, OneLog
<1>3. CASE UNCHANGED pubVars
  <2>1. calls' = calls /\ stored' = stored /\ open' = open
    BY <1>3 DEF pubVars
  <2> QED BY <2>1, Zenon DEF OneLog
<1> QED
  BY <1>1, <1>2, <1>3, StepIs

\* One topic has one log, whichever of its spellings a publish names and whichever a
\* test reads it back by: the log has the accepted calls to any spelling of the
\* topic, each once and in order (publish, published, parse).
THEOREM OneLogPerTopicAlways == Spec => []OneLogPerTopic
<1>1. Init => OneLog
  <2> SUFFICES ASSUME Init, NEW n \in Written, Parse(n) # Invalid
               PROVE  Holds(stored[Parse(n)], CallsIn(calls, n))
    BY Zenon DEF OneLog
  <2>1. calls = <<>> /\ stored[Parse(n)] = <<>>
    BY DEF Init, Topics
  <2>2. Len(calls) = 0 /\ calls \in Seq(CallOf)
    BY <2>1
  <2>3. PICK f : TakesIn(calls, n, f) /\ CallsIn(calls, n) = f[Len(calls)]
    BY <2>2, CallsFold
  <2>4. CallsIn(calls, n) = <<>>
    BY <2>2, <2>3 DEF TakesIn
  <2> QED BY <2>1, <2>4 DEF Holds
<1>2. PubTypeOK /\ OneLog /\ [Next]_pubVars => OneLog'
  BY OneLogStep
<1>3. PubTypeOK /\ OneLog => OneLogPerTopic
  <2> SUFFICES ASSUME PubTypeOK, OneLog, open, NEW n \in Written, Parse(n) # Invalid
               PROVE  [i \in 1..Len(Published(n)) |-> Published(n)[i].payload]
                        = [i \in 1..Len(CallsTo(n)) |-> CallsTo(n)[i].payload]
    BY Zenon DEF OneLogPerTopic
  <2> DEFINE o == Published(n)
             c == CallsTo(n)
  <2>1. o = stored[Parse(n)]
    BY DEF Published, Topics
  <2>2. c = CallsIn(calls, n)
    BY DEF CallsTo, CallsIn
  <2>3. Holds(o, c)
    BY <2>1, <2>2, Zenon DEF OneLog
  <2> HIDE DEF o, c
  <2>4. [i \in 1..Len(o) |-> o[i].payload] = [i \in 1..Len(c) |-> c[i].payload]
    BY <2>3 DEF Holds
  <2> QED BY <2>4 DEF o, c
<1> QED
  BY <1>1, <1>2, <1>3, PublishingTypeCorrect, PTL DEF Spec
=============================================================================
