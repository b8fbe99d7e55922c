CONSTANTS
  s1 = s1  s2 = s2  s3 = s3  NoServer = NoServer
  Server = {s1, s2, s3}
  Replicas <- Peers3
  Servers <- Servers3
  Customer = {0, 1}
  NumOrders = 2
  Contact = {s1, s2, s3}
  StartUp = {s1, s2, s3}
  LogAnswers = {TRUE}
  Slot = {1, 2}
  MayCrash = {s1, s2, s3}
  MaxCrashes = 1
  MaxStarts = 0
SPECIFICATION ViewSpec
CONSTRAINT LogsTogether
INVARIANT RecordsAsAssumed
CHECK_DEADLOCK FALSE
