SPECIFICATION EitherSpec
CONSTANTS
  CQ_N = 4
  UINT = 16
  Elem <- MCElem
  Zero = 0
  Atomic = "producer"
  ConsumerOps <- AllConsumerOps
  MaxN = 2
  MaxSent = 5
INVARIANT PeekNCountStable
CHECK_DEADLOCK FALSE
