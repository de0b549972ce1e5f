\* Two seeks, an error, the end of the client, a shutdown and a drop of the subscriber, under the fairness of the tasks.
SPECIFICATION ReleasingSpec
CONSTANTS
  h1 = h1
  h2 = h2
  MaxPulls = 2
  Capacity = 1
  MaxHeld = 2
  Handles = {h1}
  MaxSeeks = 2
  MaxErrors = 1
  MayEnd = TRUE
CHECK_DEADLOCK FALSE
INVARIANTS
  TypeOK
  NothingMislaid
  ClosedWhenSettled
  DiscardedByAMove
PROPERTIES
  NoStaleDelivery
  AnsweredUnlessWedged
  RetryAsked
  Delivered
  DropCloses
