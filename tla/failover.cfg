CONSTANTS
  s1 = s1  s2 = s2  s3 = s3  NoServer = NoServer
  Server = {s1, s2}
  Replicas <- Peers2
  Servers <- Servers2
  Customer = {0, 1}
  NumOrders = 2
  Contact = {s1, s2}
  StartUp = {s1, s2}
  LogAnswers = {TRUE}
  Slot = {1, 2}
  MayCrash = {s1, s2}
  MaxCrashes = 2
  MaxStarts = 0
SPECIFICATION FairView
INVARIANTS SystemTypeOK OneProducer TakeoverKeepsAnswers AckedEverywhere RecordsAsAssumed
PROPERTIES OrderServed TakeoverKeepsRecords
CHECK_DEADLOCK FALSE
