CONSTANTS
  Byte = {0, 1}
  MinChunk = 2
  MaxChunk = 6
  Window = 1
  Match <- MCMatch
  MaxGroup = 3
  NaturalCut <- MCNaturalCut
  Word = 16
  HeaderSize = 1
  MaxChunks = 4
  MaxUnpacked = 6
  Lz4Len <- MCLz4Len
  Oids <- MCWrapOids
  MinConversion = 2
  MaxConversion = 40
  DeleteRaw = TRUE
  XorbUploads = {}
  ShardUploads = {}
  MaxXorbs = 2
  MaxShards = 2
SPECIFICATION StoreSpec
INVARIANT StoredXorbsValid
