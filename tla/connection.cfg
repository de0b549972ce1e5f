\* Two clones of a broker connect and shut down under two callers whose publishes may be dropped.
SPECIFICATION FairSpec
CONSTANTS
  b1 = b1
  b2 = b2
  c1 = c1
  c2 = c2
  c3 = c3
  t1 = t1
  t2 = t2
  Brokers = {b1, b2}
  Callers = {c1, c2}
  Topics = {t1, t2}
  MaxPublishes = 2
  MayCancel = TRUE
CHECK_DEADLOCK FALSE
INVARIANTS
  TypeOK
  OneClient
  OneProducerPerTopic
  NoneOutOfReach
PROPERTIES
  ShutdownReturns
  PublishEnds
