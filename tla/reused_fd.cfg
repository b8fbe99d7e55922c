CONSTANTS
  p = p  q = q  NoSocket = NoSocket
  Socket <- MCSocket
  Thread <- MCThread
  NumFds = 4
  num_customers = 5
  num_orders = 1
  request_type <- CustomerTypes
  NumReplications = 1
  NumEntries = 2
  Peers <- PeersPQ
  DownPeers = {q}
  Scenarios <- BackupAndCustomer
  Payload = {7}
  Backlog = 2
  MaxOrders = 1
SPECIFICATION Spec
INVARIANT EngineerPerConnection
CHECK_DEADLOCK FALSE
