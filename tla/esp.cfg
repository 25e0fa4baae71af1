SPECIFICATION EspSpec
CONSTANTS
  MaxLine = 6

  NTRIALS = 2
  MaxBusy = 1
INVARIANTS ChunkingInvisible InputAccounted InStepAfterReset ConnectNotLost RoundTrips
PROPERTY ChosenSessionCompletes
CHECK_DEADLOCK FALSE
