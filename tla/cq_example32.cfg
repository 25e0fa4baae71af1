SPECIFICATION ExSpec
CONSTANTS
  CQ_N = 8
  UINT = 64
  Elem <- PassedBytes
  Zero <- Unwritten
  Atomic = "producer"
  ConsumerOps = {"pop_n"}
  MaxN = 2
  MaxSent = 32
  WordBytes = 2
  MaxFail = 1
INVARIANT WordsAreWhole
PROPERTY EveryIntegerArrives
CHECK_DEADLOCK FALSE
