SPECIFICATION TestSpec
CONSTANTS
  server = server
  client = client
  Node <- MCNode
  Peer <- MCPeer
  msg_nbytes = 2
  ReadBytes = 2
  RxDepth = 3
  CQ_N = 8
  Retran = 2
  Sender <- MCNode
  MaxSends = 12
  NTRIAL = 3
  NLoop = 4
INVARIANTS TimeoutsAreLosses
PROPERTY TestEnds
CHECK_DEADLOCK FALSE
