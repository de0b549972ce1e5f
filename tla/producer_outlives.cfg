\* A publish that a shutdown overtakes.
SPECIFICATION Spec
CONSTANTS
  b1 = b1
  b2 = b2
  c1 = c1
  c2 = c2
  c3 = c3
  t1 = t1
  t2 = t2
  Brokers = {b1}
  Callers = {c1}
  Topics = {t1}
  MaxPublishes = 1
  MayCancel = FALSE
CHECK_DEADLOCK FALSE
INVARIANTS
  AllClosedAtShutdown
