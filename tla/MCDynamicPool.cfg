SPECIFICATION Spec
CONSTANTS
  f1 = f1
  Fetchers <- MCFetchers
  InitCount = 1
  GrowCount = 1
  Releases = 2
  MaxFetches = 5
INVARIANTS
  TypeOK
  PoolIsSound
  FrontIsAnObject
  NoObjectIsLost
PROPERTIES
  GrowsOnDemand
CHECK_DEADLOCK FALSE
