CONSTANTS
  o1 = o1  x1 = x1  s1 = s1  s4 = s4
  None = None
  Oids = {o1}
  Xorbs = {x1}
  Shards = {s1, s4}
  Reqs = {r1, r2}
  ConvXorb <- ConvXorbOne
  ConvShard <- ConvShardOne
  ShardFiles <- FilesOne
  ShardXorbs <- XorbsOne
  GoodShards <- GoodOne
  Convertible = {o1}
  DeleteRaw = TRUE
  StrictRebuild = FALSE
SPECIFICATION Spec
INVARIANTS
  AckedDurable
  IndexSound
  AckedReachable
  DownloadServesAcked
PROPERTIES
  DeletesAreSafe
