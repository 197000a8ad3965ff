SPECIFICATION ServicesSpec
CONSTANTS
  MaxFiles = 2
  MaxSeq = 7
  NvsMayFail = FALSE
  FactoryResets = FALSE
  evloop = evloop
  MaxLines = 3
  QueueDepth = 2
  CardFaults = TRUE
  SlowClose = FALSE
  MaxRules = 1
  Timeout = 2
  MaxAttempt = 2
  BridgeEvents = 3
  Topics = {"a", "b"}
  Buffer = 1
  MaxSent = 2
  MaxListens = 2
  MaxCrashes = 1
  MidPoll = FALSE
  Delay = 2
  RetryAfter = 2
  AlertEvents = 5
INVARIANTS
  NeverTruncates  OnceEach OncePerOutage
PROPERTIES
   BrokerFollows  ReachesTheLast 
CHECK_DEADLOCK FALSE
