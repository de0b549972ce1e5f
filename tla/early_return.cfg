\* A handler that takes its time before it asks for a delay below the ack timeout.
SPECIFICATION Spec
CONSTANTS
  AckTimeout = 3
  Delays = {1, 2, 3}
  MaxHandling = 2
  MaxAttempts = 2
  MaxTime = 6
CHECK_DEADLOCK FALSE
INVARIANT NotEarly
