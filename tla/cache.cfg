CONSTANTS
  s1 = s1  s2 = s2  s3 = s3  NoServer = NoServer  NoThread = NoThread
  Replicas <- Servers2
  Buyer = {0, 1, 2}
  Reader = {c}
  NumOrders = 4
  NumReads = 4
  RequestType = {1}
  cache_capacity = 2
  MaxCrashes = 1
SPECIFICATION Spec
CONSTRAINT FewOrders
INVARIANTS MapMirrorsList CacheIsMostRecent CacheAtMostTwoBehind
CHECK_DEADLOCK FALSE
