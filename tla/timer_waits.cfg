SPECIFICATION Spec
CONSTANTS
  Width = 8
  MaxGap = 3
  MaxWait = 30
  Calls = {"delay_us", "delay_ncycles", "timeout_usec", "wait_until_cyc", "wait_until_usec", "wait_usec"}
  Request = {0, 1, 4, 7, 9, 16, 21}
INVARIANTS OnTime
PROPERTY EveryWaitEnds
