\* Pattern consumers open and close, topics appear, deliveries are dropped and retried and the clock ticks, up to two refreshes.
SPECIFICATION ListingSpec
CONSTANTS
  s1 = s1
  k0 = k0
  m1 = m1
  None = None
  Topics = {1, 2}
  Volatile = {}
  Names = {s1}
  Keys = {k0}
  Hash <- OneHash
  Registrations <- Readers
  Positions <- NoSeek
  Times = {1}
  Slots = {m1}
  MaxConsumers = 3
  MaxEntries = 1
  MaxRedeliveries = 1
  MaxUnacked = 1
  TurnLimit = 6
  RefreshEvery = 2
  MaxTime = 4
  MaxEvents = 4
CHECK_DEADLOCK FALSE
INVARIANTS
  ListedOnTime
  NothingStranded
PROPERTIES
  RefinesRouter
  TakeoverByListing
  ParkedWhenUnread
