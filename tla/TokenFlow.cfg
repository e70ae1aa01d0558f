CONSTANTS
  None = None
  Hubs = {h1, h2}
  HubTokens = {t1}
  Scopes = {{"read"}, {"write"}}
  Oids = {o1, o2}
  Reqs = {r1}
  UserTtl = 2
  ProxyTtl = 1
  CasProxyTtl = 1
  CasSigns = TRUE
  MaxLifetime = 2
  Timeout = 1
  MaxTime = 3
  ExpiryTimes = {1}
  MaxIssued = 1
SPECIFICATION Spec
SYMMETRY Symmetric
INVARIANTS
  TokensPortable
  AccessSound
  HandedOutWorks
  AckedUploadStored
CHECK_DEADLOCK FALSE
