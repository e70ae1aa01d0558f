CONSTANTS
  Byte = {0, 1}
  MinChunk = 2
  MaxChunk = 6
  Window = 1
  Match <- MCMatch
  MaxGroup = 3
  NaturalCut <- MCNaturalCut
  Word = 64
  HeaderSize = 8
  MaxChunks = 4
  MaxUnpacked = 6
  Lz4Len <- MCLz4Len
  Oids <- MCOids
  MinConversion = 2
  MaxConversion = 40
  DeleteRaw = TRUE
  XorbUploads <- MCXorbUploads
  ShardUploads <- MCShardUploads
  MaxXorbs = 2
  MaxShards = 2
SPECIFICATION StoreSpec
INVARIANTS
  AckedReadable
  IndexReconstructs
  RebuildComplete
  AnswersTrue
  ObjectsBound
