SPECIFICATION MCSpec
CONSTANTS
  Parts = {"outbound", "replacing", "linux connection", "linux acceptor", "windows connection", "windows acceptor", "pump", "peers", "budget", "frames"}
  WakeRefusals = 1
  WakeGenerations = 2
  None = None
  w1 = w1
  w2 = w2
  Threads = {"t1", "t2"}
  Conns = {"c1", "c2"}
  Sizes = {1}
  Limit = 1
  ConnLimit = 1
  Operations = 3
  StoreBuffers = {TRUE, FALSE}
SYMMETRY WorkerSymmetry
INVARIANTS
  OutboundIsOrderly
  ConnectionsAreOrderly
  
  DatagramsAreOrderly
  BudgetIsExact
  FramingIsExact
CHECK_DEADLOCK FALSE
