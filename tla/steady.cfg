CONSTANTS
  s1 = s1  s2 = s2  s3 = s3  NoServer = NoServer
  Server = {s1, s2, s3}
  Replicas <- Peers3
  Customer = {0, 1}
  NumOrders = 2
  Contact = {s1}
  StartUp = {s1, s2, s3}
  LogAnswers = {TRUE}
  Slot = {1, 2}
  MayCrash = {s1, s3}
  MaxCrashes = 1
  MaxStarts = 0
SPECIFICATION Spec
INVARIANTS LastIndexIsLogEnd CommittedIsApplied ReadsInBounds LogsAgree AckedEverywhere BackupLagsByOne
PROPERTIES RecordNeverGoesBack ImplementsReplicatedLog
CHECK_DEADLOCK FALSE
