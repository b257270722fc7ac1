SPECIFICATION MCSpec
CONSTANTS
  Parts = {"receive"}
  None = None
  Issuers = {"t1", "t2", "t3"}
  Registry <- MCRegistry
  MaxId = 3
  Faults = 1
  Gone = Gone
INVARIANT NoBatchForgotten
CHECK_DEADLOCK FALSE
