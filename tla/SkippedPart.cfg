SPECIFICATION MCSpec
CONSTANTS
  Parts = {"multipart"}
  FormsSent <- DeceivingForms
  Absent = Absent
  Missing = Missing
  Keys = {"a", "b", "c"}
  KeyBytes <- MCKeyBytes
  MaxKeys = 2
  MaxKeyBytes = 3
  Burst = 3
  Refill = 2
  Costs = {2, 3}
  MaxPerKey = 1
  MaxTotal = 2
  IdleExpiry = 1
  MaxClock = 2
INVARIANT NoPartIsSkipped
CHECK_DEADLOCK FALSE
