\* Calls by four spellings of three topics and by two names that are none, with and without a key, sent on and read back.
SPECIFICATION Spec
CONSTANTS
  none = none
  invalid = invalid
  binary = binary
  Parts <- AllParts
  Accepted <- ValidParts
  Public = "public"
  Default = "default"
  Patterns <- AllPatterns
  Matches <- Matching
  Invalid = invalid
  Written <- Spelled
  Texts = {"k", "l"}
  Binary = binary
  HeaderNames = {"partition-key", "x"}
  PartitionKey = "partition-key"
  MaxMessageSize = 1
  Bodies <- CallBodies
  Readers <- Routes
  MaxPublishes = 3
  None = none
CHECK_DEADLOCK FALSE
INVARIANTS
  OneLogPerTopic
  SameOnBothTransports
  KeyTravels
  NamesLeadBack
  RoutesMeet
