CONSTANTS
  p = p  q = q  NoSocket = NoSocket
  Socket <- MCSocket
  Thread <- MCThread
  NumFds = 4
  num_customers = 5
  num_orders = 2
  request_type <- CustomerTypes
  NumReplications = 1
  NumEntries = 2
  Peers <- PeersPQ
  DownPeers = {q}
  Scenarios <- AllScenarios
  Payload = {7}
  Backlog = 2
  MaxOrders = 2
SPECIFICATION FairSpec
INVARIANTS TypeOK EngineerPerConnection ServedAsSent AnswersMatch LiveConnectionOpen OnlyFailedConnectsLeak
PROPERTIES RequestAnswered DescriptorReleased
CHECK_DEADLOCK FALSE
