SPECIFICATION EitherSpec
CONSTANTS
  CQ_N = 4
  UINT = 16
  Elem <- MCElem
  Zero = 0
  Atomic = "consumer"
  ConsumerOps <- AllConsumerOps
  MaxN = 2
  MaxSent = 5
INVARIANTS OnlyDeadlockPanics NoDataRace NoblkNeverSpins  PeekIsNonDestructive
PROPERTIES ImplementsFifo RefusalIsHonest
CHECK_DEADLOCK FALSE
