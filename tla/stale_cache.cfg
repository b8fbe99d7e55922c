CONSTANTS
  s1 = s1  s2 = s2  s3 = s3  NoServer = NoServer  NoThread = NoThread
  Replicas <- Servers2
  Buyer = {0}
  Reader = {c}
  NumOrders = 2
  NumReads = 2
  RequestType = {1}
  cache_capacity = 1
  MaxCrashes = 0
SPECIFICATION Spec
INVARIANT CacheFollowsOrders
CHECK_DEADLOCK FALSE
