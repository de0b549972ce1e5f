\* A failover subscription over two topics and a late-listing exclusive pattern consumer: takeovers and seeks that merge the topics by a wall clock that may step back.
SPECIFICATION Spec
CONSTANTS
  s1 = s1
  s2 = s2
  k0 = k0
  k1 = k1
  m1 = m1
  m2 = m2
  None = None
  Topics = {1, 2}
  Volatile = {}
  Names = {s1}
  Keys = {k0}
  Hash <- OneKey
  Registrations <- Contending
  Positions <- Seeks
  Times = {1, 2}
  Slots = {m1}
  MaxConsumers = 3
  MaxEntries = 2
  MaxRedeliveries = 0
  MaxUnacked = 1
  TurnLimit = 6
SYMMETRY SlotSymmetry
CHECK_DEADLOCK FALSE
INVARIANTS
  FreshInOrder
  ExclusiveAlone
