\* Two capped subscriptions, one over the other's dead-letter topic, with two settlements at once.
SPECIFICATION Spec
CONSTANTS
  s1 = s1
  s2 = s2
  k0 = k0
  k1 = k1
  m1 = m1
  m2 = m2
  None = None
  Topics = {1, 2, 3}
  Volatile = {}
  Names = {s1, s2}
  Keys = {k0}
  Hash <- OneKey
  Registrations <- Capping
  Positions <- NoSeek
  Times = {1}
  Slots = {m1, m2}
  MaxConsumers = 3
  MaxEntries = 1
  MaxRedeliveries = 2
  MaxUnacked = 1
  TurnLimit = 6
SYMMETRY SlotSymmetry
CHECK_DEADLOCK FALSE
INVARIANTS
  TypeOK
  DeliveriesAreLogged
  OriginIsPublished
  AttemptsWithinCap
  QuietIsDrained
