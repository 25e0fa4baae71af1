SPECIFICATION Spec
CONSTANTS
  server = server
  client = client
  Source = server
  Node <- MCNode
  Peer <- MCPeer
  msg_nbytes = 2
  ReadBytes = 2
  RxDepth = 2
  CQ_N = 7
  Retran = 1
  Sender = {server, client}
  MaxSends = 1
INVARIANT DrainedBeforeAckSend
CHECK_DEADLOCK FALSE
