SPECIFICATION MCSpec
CONSTANTS
  Parts = {"server", "exchange", "socket", "parser", "multipart", "text", "frame", "routes", "transfer", "limiter", "file", "logger"}
  FormsSent <- MultipartForms
  Absent = Absent
  Missing = Missing
  Keys = {"a", "b", "c"}
  KeyBytes <- MCKeyBytes
  MaxKeys = 2
  MaxKeyBytes = 3
  Burst = 3
  Refill = 2
  Costs = {2, 3}
  MaxPerKey = 1
  MaxTotal = 2
  IdleExpiry = 1
  MaxClock = 2
INVARIANTS
  HttpServerIsOrderly
  ExchangeIsOrderly
  
  ParsersAreExact
  RoutingIsByTheMostSpecific
  TransferIsExact
  LimiterIsExact
  AtomicFileIsAtomic
  LoggerIsExact
CHECK_DEADLOCK FALSE
