CONSTANTS
  s1 = s1  s2 = s2  s3 = s3  NoServer = NoServer
  Server = {s1, s2}
  Replicas <- Peers2
  Customer = {0, 1}
  NumOrders = 1
  Contact = {s1, s2}
  StartUp = {s1, s2}
  LogAnswers = {TRUE}
  Slot = {1, 2}
  MayCrash = {s1, s2}
  MaxCrashes = 2
  MaxStarts = 2
SPECIFICATION Spec
INVARIANTS TypeOK DiskMirrorsMemory AckedOnDisk OrderTracked OneRequestAtATime
CHECK_DEADLOCK FALSE
