CONSTANTS
  s1 = s1  s2 = s2  s3 = s3  NoServer = NoServer  NoThread = NoThread
  Replicas <- Servers3
  Buyer = {0, 1}
  Reader = {}
  NumOrders = 1
  NumReads = 0
  RequestType = {1}
  cache_capacity = 1
  MaxCrashes = 2
SPECIFICATION Spec
INVARIANT FindsLiveServer
CHECK_DEADLOCK FALSE
