SPECIFICATION MCSpec
CONSTANTS
  Parts = {"outbound"}
  WakeRefusals = 2
  WakeGenerations = 3
  None = None
  w1 = w1
  w2 = w2
  Threads = {"t1", "t2"}
  Conns = {"c1", "c2"}
  Sizes = {1}
  Limit = 1
  ConnLimit = 1
  Operations = 3
  StoreBuffers = {TRUE, FALSE}
INVARIANT NoWakeForgotten
CHECK_DEADLOCK FALSE
