SPECIFICATION MCSpec
CONSTANTS
  Jobs = {"a1", "a2", "r1", "c1", "c2"}
  Control = {"c1", "c2"}
  Reserved = {"r1"}
  JobBytes <- MCJobBytes
  Options <- MCOptions
  NoJob = NoJob
  Messages = {"m1", "m2", "m3"}
  Bytes <- MCBytes
  MaxMessages = 2
  MaxRetainedBytes = 2
  Receivers = {"try", "timed"}
  Blocking = {"timed"}
  Timed = {"timed"}
  Waits = {"r1", "w1", "w2"}
  Writing = {"w1", "w2"}
  WaitBytes <- MCWaitBytes
  None = None
  w1 = w1
  w2 = w2
SYMMETRY WorkerSymmetry
INVARIANTS
  ExecutorsAreExact
  CompletionIsExact
  RunnerIsExact
  ChannelIsExact
  ValueIsCurrent
  GroupIsOrderly
  TimersAreOrderly
PROPERTIES
  StepsAreKept
  ChannelIsAFifo
CHECK_DEADLOCK FALSE
