CONSTANTS
  Oids = {o1, o2, o3}
  Callers = {c1, c2}
  Workers = {w1, w2}
  Capacity = 1
  Word = 16
  None = None
  Writers = {t1, t2}
  Quota = 2
  MinFree = 1
  Disk = 4
  ChunkSizes = {1, 2}
  Residues = {0, 3}
  MaxResidue = 3
  CheckBytes = 1
  LedgerWord = 64
SPECIFICATION WorkSpec
INVARIANTS
  QueueSound
  ShutdownClears
  LedgerSound
PROPERTIES
  AcceptedIsConverted
  ShutdownReturns
  DroppedIsFreed
CHECK_DEADLOCK FALSE
