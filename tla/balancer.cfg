CONSTANTS
  s1 = s1  s2 = s2  s3 = s3  NoServer = NoServer  NoThread = NoThread
  Replicas <- Servers3
  Buyer = {0}
  Reader = {c, d}
  NumOrders = 2
  NumReads = 1
  RequestType = {1}
  cache_capacity = 1
  MaxCrashes = 3
SPECIFICATION FairSpec
INVARIANTS TypeOK FillIsMiss FindsLiveServer
PROPERTY RequestAnswered
CHECK_DEADLOCK FALSE
