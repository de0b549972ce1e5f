----------------------------- MODULE DelayedRetry -----------------------------
(***************************************************************************)
(* A delayed retry of a live subscription with an ack timeout, in time     *)
(* (within_ack_timeout and nack_after in message.rs, wait_then_nack in     *)
(* subscriber.rs).                                                         *)
(*                                                                         *)
(* A message and its deliveries, one after the other.  The process holds a *)
(* delayed retry itself, so that to the client the message is unsettled    *)
(* meanwhile, and the client asks for every message again that stays so    *)
(* for the ack timeout, counted from its delivery.                         *)
(***************************************************************************)
EXTENDS Integers

CONSTANTS
  AckTimeout,   \* the subscription's ack timeout
  Delays,       \* what a handler may ask nack_after for
  MaxHandling,  \* how long after its delivery a handler has decided
  MaxAttempts,  \* bound: deliveries of the message
  MaxTime       \* bound: the clock's reading

Attempts == 1..MaxAttempts

\* A delivery: not there yet, with its handler, held for a delayed retry, asked
\* for again, and done with: acknowledged or dropped unsettled.
States == {"none", "handling", "held", "asked", "done"}

VARIABLES
  now,     \* the clock
  last,    \* the deliveries so far
  state,   \* the state of each
  since,   \* when each was delivered
  asked,   \* when its handler asked for the delayed retry
  until,   \* when that is over
  timer,   \* the client's timer of the message runs
  back     \* the server is to deliver the message again

vars == <<now, last, state, since, asked, until, timer, back>>

\* Whether the delay is accepted.
Within(delay) == delay < AckTimeout

\* The server delivers the message (external).
Deliver ==
  /\ back /\ last < MaxAttempts
  /\ last' = last + 1
  /\ state' = [state EXCEPT ![last + 1] = "handling"]
  /\ since' = [since EXCEPT ![last + 1] = now]
  /\ timer' = TRUE
  /\ back' = FALSE
  /\ UNCHANGED <<now, asked, until>>

\* The handler acknowledges the message, which the client then knows settled.
Ack(n) ==
  /\ state[n] = "handling"
  /\ state' = [state EXCEPT ![n] = "done"]
  /\ timer' = FALSE
  /\ back' = FALSE
  /\ UNCHANGED <<now, last, since, asked, until>>

\* The handler asks for a delayed retry: accepted, a task of its own waits.
NackAfter(n, delay) ==
  /\ state[n] = "handling"
  /\ Within(delay)
  /\ state' = [state EXCEPT ![n] = "held"]
  /\ asked' = [asked EXCEPT ![n] = now]
  /\ until' = [until EXCEPT ![n] = now + delay]
  /\ UNCHANGED <<now, last, since, timer, back>>

\* Refused, the message is dropped unsettled.
NackRefused(n, delay) ==
  /\ state[n] = "handling"
  /\ ~Within(delay)
  /\ state' = [state EXCEPT ![n] = "done"]
  /\ UNCHANGED <<now, last, since, asked, until, timer, back>>

\* The wait is over: the negative acknowledgement goes out.  A message nobody
\* acknowledged comes back (external).
Fire(n) ==
  /\ state[n] = "held" /\ until[n] <= now
  /\ state' = [state EXCEPT ![n] = "asked"]
  /\ \/ timer = TRUE /\ back' = TRUE
     \/ timer = FALSE /\ UNCHANGED back
  /\ timer' = FALSE
  /\ UNCHANGED <<now, last, since, asked, until>>

\* The message stayed unsettled for the ack timeout: the client asks for it again
\* (external).
TimeOut ==
  /\ timer
  /\ since[last] + AckTimeout <= now
  /\ timer' = FALSE
  /\ back' = TRUE
  /\ UNCHANGED <<now, last, state, since, asked, until>>

\* Time passes: no handler takes longer than it takes, no wait ends late.
Tick ==
  /\ now < MaxTime
  /\ \A n \in Attempts : /\ state[n] = "handling" => now < since[n] + MaxHandling
                         /\ state[n] = "held" => now < until[n]
  /\ now' = now + 1
  /\ UNCHANGED <<last, state, since, asked, until, timer, back>>

Init ==
  /\ now = 0 /\ last = 0
  /\ state = [n \in Attempts |-> "none"]
  /\ since = [n \in Attempts |-> 0]
  /\ asked = [n \in Attempts |-> 0]
  /\ until = [n \in Attempts |-> 0]
  /\ timer = FALSE
  /\ back = TRUE

Next ==
  \/ Deliver \/ TimeOut \/ Tick
  \/ \E n \in Attempts : \/ Ack(n) \/ Fire(n)
                         \/ \E delay \in Delays : NackAfter(n, delay)
                                               \/ NackRefused(n, delay)

Spec == Init /\ [][Next]_vars

\* A message whose delayed retry was accepted does not come back before the delay
\* is over (within_ack_timeout refuses the delays for which it would).
NotEarly ==
  \A n \in Attempts :
    n < last /\ state[n] \in {"held", "asked"} /\ asked[n] <= since[n + 1]
      => until[n] <= since[n + 1]
=============================================================================
