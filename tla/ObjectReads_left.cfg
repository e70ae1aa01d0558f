CONSTANTS
  Servers = {s1, s2}
  Reads = {"a"}
  KeyCount = 1
  PageSize = 1
  Tokens = {1}
  MaxRetries = 2
  MaxCrashes = 1
SPECIFICATION Spec
INVARIANT TempFilesRemoved
CHECK_DEADLOCK FALSE
