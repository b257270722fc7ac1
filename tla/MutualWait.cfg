SPECIFICATION MCSpec
CONSTANTS
  Parts = {"pump"}
  WakeRefusals = 0
  WakeGenerations = 2
  None = None
  w1 = w1
  w2 = w2
  Threads = {"t1", "t2"}
  Conns = {"c1", "c2"}
  Sizes = {1}
  Limit = 1
  ConnLimit = 1
  Operations = 3
  StoreBuffers = {TRUE, FALSE}
INVARIANT RearmNeverBlocks
CHECK_DEADLOCK FALSE
