\* Every operation, on two overlapping consumers of one subscription: seeks that swap what is queued, retries, dead letters, takeovers and the shutdown, against the abstract backlog.
SPECIFICATION CountedSpec
CONSTANTS
  s1 = s1
  s2 = s2
  k0 = k0
  k1 = k1
  m1 = m1
  m2 = m2
  None = None
  Topics = {1, 2}
  Volatile = {2}
  Names = {s1}
  Keys = {k0}
  Hash <- OneKey
  Registrations <- Mingled
  Positions <- Cursors
  Times = {1}
  Slots = {m1}
  MaxConsumers = 2
  MaxEntries = 1
  MaxRedeliveries = 1
  MaxUnacked = 1
  TurnLimit = 2
CHECK_DEADLOCK FALSE
INVARIANTS
  Balanced
PROPERTIES
  KeepsPromise
