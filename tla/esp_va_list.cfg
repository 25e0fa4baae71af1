SPECIFICATION EspSpec
CONSTANTS
  MaxLine = 6
  NTRIALS = 2
  MaxBusy = 1
INVARIANT NumbersReachCaller
CHECK_DEADLOCK FALSE
