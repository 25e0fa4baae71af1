SPECIFICATION ThreadSpec
CONSTANTS
  MaxTid = 7
  Elem = {1, 2, 3, 4, 5, 6, 7}
  null = null
  n = 30
  Width = 256
  Threads = 5
  Runs = 3
INVARIANTS EveryBlockOnce
PROPERTIES EveryThreadRuns EveryTestEnds
CHECK_DEADLOCK FALSE
