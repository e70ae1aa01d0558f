CONSTANTS
  Servers = {s1, s2}
  Commands = {c1}
  Dirs = {d1, d2}
  Tables <- MCTables
  Version = 1
  Databases <- MCDatabases
  MaxCuts = 1
  None = None
SPECIFICATION FairSpec
INVARIANTS
  StartsSound
  UnknownUntouched
PROPERTIES
  RefusalJustified
  SomeStartSucceeds
