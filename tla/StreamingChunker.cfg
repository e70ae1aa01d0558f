CONSTANTS
  Byte = {0, 1}
  MinChunk = 3
  MaxChunk = 5
  Window = 2
  Match <- MCMatch
  Files <- MCFiles
  MaxBlock = 7
  MaxLen = 11
SPECIFICATION FairSpec
INVARIANTS
  BuffersInStep
  PieceSizes
PROPERTIES
  ImplementsOneShot
  ConversionEnds
