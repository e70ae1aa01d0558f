CONSTANTS
  Servers = {s1, s2}
  Reads = {"a"}
  KeyCount = 3
  PageSize = 1
  Tokens = {1, 2}
  MaxRetries = 2
  MaxCrashes = 1
SPECIFICATION FairSpec
INVARIANTS
  CopiesIntact
  StraysExplained
  HonestListingComplete
PROPERTIES
  WorkEnds
CHECK_DEADLOCK FALSE
