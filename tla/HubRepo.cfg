SPECIFICATION Spec
CONSTANTS
  a = a
  b = b
  dir = dir
  Names = {n1}
  PathCount = 3
  DirOf <- Directories
  Blobs = {a, b}
  Reqs = {r1, r2}
  Changes <- CommitLists
  PageSize = 1
  MaxRepos = 2
  MaxCommits = 3
  None = None
SYMMETRY Symmetric
INVARIANTS
  HistorySound
  SnapshotsSound
  ListingComplete
PROPERTIES
  ReposAtomic
