\* An error of the client while the only handler awaits its answer.
SPECIFICATION FairSpec
CONSTANTS
  h1 = h1
  h2 = h2
  MaxPulls = 2
  Capacity = 1
  MaxHeld = 1
  Handles = {}
  MaxSeeks = 0
  MaxErrors = 1
  MayEnd = FALSE
CHECK_DEADLOCK FALSE
PROPERTIES
  Answered
