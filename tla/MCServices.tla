----------------------------- MODULE MCServices -----------------------------
(* The applications, and services that try the startup, for TLC. *)
EXTENDS ServicesProps, TLC

CONSTANTS s1, s2, s3, s4, k0, k1, m1, m2

FourNames == <<s1, s2, s3, s4>>
OneKey == [k \in Keys |-> IF k = k0 THEN 0 ELSE 1]

On(spelled, name, sharing, topics) ==
  [Mounted("note", spelled, 1, 1, sharing) EXCEPT !.name = name, !.topics = topics]
Matching(name, sharing, pattern, topics) ==
  [On("", name, sharing, topics) EXCEPT !.pattern = pattern]
Bare(spelled, topic) == [On(spelled, None, "Shared", {topic}) EXCEPT !.bare = TRUE]

Trials == {
  \* One name mounted twice, of which the first declares a policy, beside a
  \* pattern of the same subscription.
  <<Capped(Bare("orders", 1), 1, 2), Bare("orders", 1),
    Matching(s1, "Shared", "p", {1, 2})>>,
  \* One topic under two spellings, and a list in a subscription of its own.
  <<On("full", s2, "KeyShared", {1}), On("", s1, "Failover", {1, 2}),
    On("orders", s2, "KeyShared", {1})>>,
  \* An exclusive subscription that is held.
  <<On("orders", s2, "Exclusive", {1}), On("full", s2, "Shared", {1})>>,
  \* Half a declaration; a dead-letter topic and a name that are no topics; a cap
  \* nobody counts.
  <<Capped(Bare("orders", 1), 1, None)>>,
  <<[Capped(On("orders", s1, "Shared", {1}), 1, 2) EXCEPT !.retry.sound = FALSE]>>,
  <<Capped(On("orders", s1, "Failover", {1}), 1, 2)>>,
  <<Bare("orders", 1), [Bare("a/b", 1) EXCEPT !.sound = FALSE]>>}

Applications == {RefundsApp, InventoryApp, ShippingApp, SearchApp, SkippingApp,
                 RedoingApp, LedgerApp, BillingApp, ArchiverApp, FulfilmentApp,
                 BookkeepingApp, OrdersApp, ParcelsApp, TopicsApp}

All == Trials \cup Applications

Opened == UNION {MountsOf(ms) : ms \in All}
Opens == {RegistrationOf(IF m.bare THEN [m EXCEPT !.name = DefaultName] ELSE m) :
            m \in {x \in Opened : Resolves(x.retry)}}
Asks == {[kind |-> "Earliest", arg |-> 0], [kind |-> "Latest", arg |-> 0],
         [kind |-> "MessageId", arg |-> 1], [kind |-> "MessageId", arg |-> 2]}

Some(n, T) == [t \in Topics |-> IF t \in T THEN n ELSE 0]

Publishes ==
  [ms \in All |->
     CASE ms \in Trials    -> Some(1, {1, 2})
       [] ms = ShippingApp -> Some(1, {1, 2})
       [] ms = TopicsApp   -> Some(1, {1, 2, 4})
       [] ms = RefundsApp  -> Some(1, {1})
       [] ms = LedgerApp   -> [Some(2, {1}) EXCEPT ![2] = 1]
       [] OTHER            -> Some(2, {1})]

AtWork ==
  [ms \in All |-> IF ms \in Trials \cup {ShippingApp, TopicsApp} THEN {m1} ELSE {m1, m2}]

Befalls ==
  [ms \in All |->
     CASE ms = TopicsApp   -> {}
       [] ms = ShippingApp -> {"stop"}
       [] ms \in {OrdersApp, BillingApp} -> {"leave"}
       [] ms \in Trials    -> {"leave", "stop"}
       [] ms = RefundsApp  -> {"cancel"}
       [] ms = LedgerApp   -> {"leave"}
       [] OTHER            -> {"cancel", "leave", "stop"}]
=============================================================================
