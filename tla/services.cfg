\* The applications of the guides and examples, and services of up to three registrations that try the startup, under publishes, refusals, cancelled handlers, dropped subscribers and a shutdown.
SPECIFICATION ServiceSpec
CONSTANTS
  s1 = s1
  s2 = s2
  s3 = s3
  s4 = s4
  k0 = k0
  k1 = k1
  m1 = m1
  m2 = m2
  None = None
  Plans <- All
  DefaultName = s1
  NoKey = k0
  NameAt <- FourNames
  OddKey = k1
  Refusals = 1
  Arrivals <- Publishes
  Workers <- AtWork
  Disturbances <- Befalls
  Topics = {1, 2, 3, 4}
  Volatile = {}
  Names = {s1, s2, s3, s4}
  Keys = {k0, k1}
  Hash <- OneKey
  Registrations <- Opens
  Positions <- Asks
  Times = {1}
  Slots = {m1, m2}
  MaxConsumers = 5
  MaxEntries = 6
  MaxRedeliveries = 8
  MaxUnacked = 2
  TurnLimit = 6
CHECK_DEADLOCK FALSE
INVARIANTS
  MountTypeOK
  PolicyAsDeclared
  DoneOnce
  AllDone
PROPERTIES
  AnswerNamesTaker
  MessagesEnd
