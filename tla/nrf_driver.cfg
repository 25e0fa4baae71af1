SPECIFICATION FairSpec
CONSTANTS
  server = server
  client = client
  Source = server
  Node <- MCNode
  Peer <- MCPeer
  msg_nbytes = 2
  ReadBytes = 3
  RxDepth = 2
  CQ_N = 6
  Retran = 1
  Sender = {server, client}
  MaxSends = 3
INVARIANTS EveryPacketOnceInOrder InterruptNotLost 
PROPERTIES ImplementsLossyLink DrainedInTheEnd
CHECK_DEADLOCK FALSE
