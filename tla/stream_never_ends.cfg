\* The client gives up while the subscriber reads.
SPECIFICATION FairSpec
CONSTANTS
  h1 = h1
  h2 = h2
  MaxPulls = 1
  Capacity = 1
  MaxHeld = 1
  Handles = {}
  MaxSeeks = 0
  MaxErrors = 0
  MayEnd = TRUE
CHECK_DEADLOCK FALSE
PROPERTIES
  StreamEnds
