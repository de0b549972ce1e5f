------------------------------- MODULE Backlog -------------------------------
(***************************************************************************)
(* What the in-process transport promises of a message, apart from which   *)
(* consumer holds it: each subscription owes a log entry a number of       *)
(* deliveries.  An entry is owed once to every subscription that reads its *)
(* topic when it is published; a delivery leaves for good only when it is  *)
(* acknowledged, when it moves to a dead-letter topic, when a seek         *)
(* discards it, or when the broker shuts down.  Attaching, closing, taking *)
(* over, dropping a message, retrying it now or later and a pattern's      *)
(* listing lose nothing and duplicate nothing: they are stuttering steps   *)
(* here.                                                                   *)
(***************************************************************************)
EXTENDS Integers, Functions

CONSTANTS Topics, Names, MaxEntries

VARIABLES open,   \* the broker did not shut down
          tip,    \* the number of entries in each topic's log
          owed,   \* deliveries each subscription owes of each entry
          acked,  \* acknowledgements so far, modulo 2
          moving  \* deliveries a seek discarded and has yet to account for

Entries == Topics \X (1..MaxEntries)

Init ==
  /\ open = TRUE
  /\ tip = [t \in Topics |-> 0]
  /\ owed = [s \in Names |-> [e \in Entries |-> 0]]
  /\ acked = 0
  /\ moving = 0

\* One delivery of entry e fewer for subscription s.
Minus(s, e) == [owed EXCEPT ![s][e] = @ - 1]

\* The next entry of topic t is appended and owed to some subscriptions.
Produce(t, debts) ==
  /\ open
  /\ UNCHANGED <<open, acked, moving>>
  /\ tip' = [tip EXCEPT ![t] = @ + 1]
  /\ \E S \in SUBSET Names :
       owed' = [s \in Names |->
                  IF s \in S THEN [debts[s] EXCEPT ![<<t, tip[t] + 1>>] = 1]
                             ELSE debts[s]]

Publish(t) == tip[t] < MaxEntries /\ Produce(t, owed)

Acknowledge(s, e) ==
  /\ acked' = 1 - acked
  /\ UNCHANGED <<open, tip, moving>>
  /\ owed[s][e] > 0
  /\ owed' = Minus(s, e)

\* A spent delivery moves to topic t.
DeadLetter(s, e, t) ==
  /\ tip[t] < MaxEntries
  /\ Produce(t, Minus(s, e))
  /\ owed[s][e] > 0

\* The cursor of s moves to entry cut[t] of topic t, unless that is 0: the log
\* from there on is owed once more, and what is discarded, of these topics
\* alone, is to be accounted for.
Reposition(s, cut) ==
  LET again(e) == IF cut[e[1]] # 0 /\ e[2] \in cut[e[1]]..tip[e[1]] THEN 1 ELSE 0
      gone == [e \in Entries |-> owed[s][e] + again(e) - owed'[s][e]]
  IN  /\ moving = 0
      /\ UNCHANGED <<open, tip, acked>>
      /\ owed' = [owed EXCEPT ![s] = owed'[s]]
      /\ \A e \in Entries : gone[e] \in IF cut[e[1]] # 0 THEN 0..owed[s][e] ELSE {0}
      /\ moving' = SumFunction(gone)

\* The move is accounted for.
Account ==
  /\ moving > 0
  /\ moving' = 0
  /\ UNCHANGED <<open, tip, owed, acked>>

Shutdown ==
  /\ open /\ moving = 0
  /\ open' = FALSE
  /\ tip' = [t \in Topics |-> 0]
  /\ owed' = [s \in Names |-> [e \in Entries |-> 0]]
  /\ UNCHANGED <<acked, moving>>

Next ==
  \/ \E t \in Topics : Publish(t)
  \/ \E s \in Names, e \in Entries : Acknowledge(s, e)
  \/ \E t \in Topics, s \in Names, e \in Entries : DeadLetter(s, e, t)
  \/ /\ ~UNCHANGED <<owed, moving>>
     /\ \E s \in Names, cut \in [Topics -> 0..(MaxEntries + 1)] : Reposition(s, cut)
  \/ Account \/ Shutdown

Spec == Init /\ [][Next]_<<open, tip, owed, acked, moving>>
=============================================================================
