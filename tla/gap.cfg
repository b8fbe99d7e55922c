CONSTANTS
  s1 = s1  s2 = s2  s3 = s3  NoServer = NoServer
  Server = {s1, s2}
  Replicas <- Peers2
  Customer = {0, 1}
  NumOrders = 2
  Contact = {s1}
  StartUp = {s1}
  LogAnswers = {TRUE}
  Slot = {1, 2}
  MayCrash = {}
  MaxCrashes = 0
  MaxStarts = 1
SPECIFICATION Spec
INVARIANT CommittedIsApplied
CHECK_DEADLOCK FALSE
