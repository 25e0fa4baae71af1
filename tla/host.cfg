SPECIFICATION HostSpec
CONSTANTS
  NVal = 3
  NLoop = 2
  MaxEnv = 2
  ntrial = 2
  Usecs = {1000, 2500, 7999}
  MaxTrials = 3
  Timeouts = {1, 2, 7, 10}
  DemoWidth = 16
  N = 3
  Samplable = {"main", "printk"}
  Gaps = {1, 5}
  MaxInts = 5
  Others = {"other", "another"}
  Written = {1, 2}
  Stream <- MCStream
  MEM_MAX = 2
  max_trace = 4
  Val = {0, 1}
  MaxPeriods = 2
  Changes <- MCChanges
  Redos <- MCRedos
  MaxRuns = 2
  FifoSize = 1
  Commands <- MCCommands
  Answer <- MCAnswer
  Events <- MCEvents
  MaxTyped = 2
  MaxEvents = 1
  OtherPrograms <- MCOtherPrograms
  Parts = {0, 1, 5}
  BssSizes = {0, 3, 5, 6, 12}
  MaxBoots = 3
  OldBytes <- MCGarbage
  Messages <- MCPrints
  Texts <- MCTexts
INVARIANTS AverageHonest DirectoryListed ComputationsExact MemoryReadsBack TrialsSound ReadyMeansConfigured
PROPERTIES AsAnnounced StreamUnderstood ExceptionsInvisible UserRunsAsLinked ShellFaithful LabTestsSound
CHECK_DEADLOCK FALSE
