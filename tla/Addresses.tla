------------------------------- MODULE Addresses -------------------------------
(***************************************************************************)
(* Topic names, topic patterns and the routes made of them (topic.rs,      *)
(* pattern.rs, in_process/route.rs).                                       *)
(*                                                                         *)
(* A name is what stands before its "://" and the parts between its        *)
(* slashes; of a part only matters whether Pulsar takes it, and which two  *)
(* a bare name is completed with.  What a regular expression matches is    *)
(* the regex crate's to say (external).                                    *)
(***************************************************************************)
EXTENDS Integers, Sequences

CONSTANTS
  Parts,     \* what may stand between two slashes
  Accepted,  \* the parts Pulsar takes: not empty, of alphanumerics, "-", "_", "."
  Public,    \* the tenant and
  Default,   \* the namespace of a name that gives neither
  Patterns,  \* the patterns a service may write
  Matches,   \* the full names each pattern's expression matches, Invalid for none
  Invalid    \* the answer to what is no name, no pattern or no route

Domains == {"persistent", "non-persistent"}

NoScheme == "bare"

\* A name as written, with a scheme or none.
Spelling == [scheme : {NoScheme} \cup Domains, parts : Seq(Parts) \ {<<>>}]

\* A topic is known by its full name.
FullNames == [scheme : Domains, parts : {<<a, b, c>> : a, b, c \in Accepted}]

ASSUME AddressAssumption ==
  /\ Accepted \subseteq Parts /\ Public \in Accepted /\ Default \in Accepted
  /\ Matches \in [Patterns -> (SUBSET FullNames) \cup {Invalid}]
  /\ Invalid \notin FullNames

-----------------------------------------------------------------------------
(* Topic names *)

Valid(part) == part \in Accepted

Of(scheme, tenant, namespace, name) ==
  IF Valid(tenant) /\ Valid(namespace) /\ Valid(name)
  THEN [scheme |-> scheme, parts |-> <<tenant, namespace, name>>]
  ELSE Invalid

\* Mutant: a bare name keeps no domain of its own.
ParsePersistent(n) ==
  CASE Len(n.parts) = 1 -> Of("persistent", Public, Default, n.parts[1])
    [] Len(n.parts) = 3 ->
         Of(IF n.scheme = NoScheme THEN "persistent" ELSE n.scheme,
            n.parts[1], n.parts[2], n.parts[3])
    [] OTHER -> Invalid

\* The topic a name means: one part is a bare name, three are a full one, and
\* without a scheme it is persistent.
Parse(n) ==
  LET scheme == IF n.scheme = NoScheme THEN "persistent" ELSE n.scheme
  IN  CASE Len(n.parts) = 1 -> Of(scheme, Public, Default, n.parts[1])
        [] Len(n.parts) = 3 -> Of(scheme, n.parts[1], n.parts[2], n.parts[3])
        [] OTHER -> Invalid

Persistence(t) == t.scheme
Tenant(t) == t.parts[1]
Namespace(t) == t.parts[2]

\* What a topic says about its channel in the generated document.
Channel(t) == [namespace |-> Namespace(t), persistence |-> Persistence(t)]

-----------------------------------------------------------------------------
(* Patterns *)

\* The one namespace a pattern lists: the client's default for an expression alone,
\* else that of its first two parts, which must be literal.
Lookup(p) ==
  IF Matches[p] = Invalid THEN Invalid
  ELSE CASE Len(p.parts) = 1 /\ p.scheme = NoScheme -> <<Public, Default>>
         [] Len(p.parts) >= 3 /\ Valid(p.parts[1]) /\ Valid(p.parts[2]) ->
              <<p.parts[1], p.parts[2]>>
         [] OTHER -> Invalid

\* Whether the client's listing of p's namespace selects topic t.
PatternSelects(p, t) ==
  /\ <<Tenant(t), Namespace(t)>> = Lookup(p)
  /\ t \in Matches[p]

-----------------------------------------------------------------------------
(* Routes: a list of names or a pattern, as a descriptor has them *)

Route == [kind : {"list"}, names : Seq(Spelling)] \cup [kind : {"pattern"}, pattern : Patterns]
List(names) == [kind |-> "list", names |-> names]
Pattern(p) == [kind |-> "pattern", pattern |-> p]

Qualified(r) == [i \in 1..Len(r.names) |-> Parse(r.names[i])]

\* The descriptor is one the server takes.
Routable(r) ==
  IF r.kind = "pattern"
  THEN Lookup(r.pattern) # Invalid
  ELSE r.names # <<>> /\ \A i \in 1..Len(r.names) : Parse(r.names[i]) # Invalid

Selects(r, t) ==
  IF r.kind = "pattern" THEN PatternSelects(r.pattern, t)
                        ELSE \E i \in 1..Len(r.names) : Qualified(r)[i] = t

\* Mutant: names are compared as they are written.
OverlapsWritten(r1, r2) ==
  IF r1.kind = "pattern" \/ r2.kind = "pattern"
  THEN \E t \in FullNames : Selects(r1, t) /\ Selects(r2, t)
  ELSE \E i \in 1..Len(r1.names), j \in 1..Len(r2.names) : r1.names[i] = r2.names[j]

\* Whether two routes are taken to read one topic: two patterns by their text.
Overlaps(r1, r2) ==
  LET list(a, b) == \E i \in 1..Len(a.names) : Selects(b, Qualified(a)[i])
  IN  IF r1.kind = "list" THEN list(r1, r2)
      ELSE IF r2.kind = "list" THEN list(r2, r1) ELSE r1.pattern = r2.pattern

\* Mutant: a list reports a topic by its full name.
NamedFull(r, t) == t

\* The name route r knows topic t by: of a list, as it is written there first.
Named(r, t) ==
  IF r.kind = "list" /\ Selects(r, t)
  THEN r.names[CHOOSE i \in 1..Len(r.names) :
                 /\ Qualified(r)[i] = t
                 /\ \A j \in 1..(i - 1) : Qualified(r)[j] # t]
  ELSE t

\* What the document says of a subscription's channel: nothing unless all its topics
\* agree, nothing for a pattern.
Described(r) ==
  IF r.kind = "pattern" \/ ~Routable(r) THEN {}
  ELSE LET channels == {Channel(Qualified(r)[i]) : i \in 1..Len(r.names)}
       IN  IF \A c, d \in channels : c = d THEN channels ELSE {}
=============================================================================
