SPECIFICATION MCSpec
CONSTANTS
  Parts = {"host", "session", "message", "receive", "pool", "registry", "sharing", "failing", "pausing", "subscribing", "destroying", "stopping"}
  None = None
  Issuers = {"t1", "t2", "t3"}
  Registry <- MCRegistry
  MaxId = 3
  Faults = 1
  Gone = Gone
INVARIANTS
  HostIsSound
  SessionIsOrderly
  ReceiveIsExact
  RegistryIsExact
  CTcpServerIsOrderly
CHECK_DEADLOCK FALSE
