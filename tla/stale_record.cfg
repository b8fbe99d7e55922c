CONSTANTS
  s1 = s1  s2 = s2  s3 = s3  NoServer = NoServer
  Server = {s1, s2}
  Replicas <- Peers2
  Servers <- Servers2
  Customer = {0, 1, 2}
  NumOrders = 3
  Contact = {s1, s2}
  StartUp = {s1, s2}
  LogAnswers = {TRUE}
  Slot = {1, 2}
  MayCrash = {s1}
  MaxCrashes = 1
  MaxStarts = 0
SPECIFICATION SystemSpec
INVARIANT AnsweredIsApplied
CHECK_DEADLOCK FALSE
