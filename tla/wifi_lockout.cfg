SPECIFICATION Spec
CONSTANTS
  http = http
  evloop = evloop
  w1 = w1
  w2 = w2
  EvLoop = evloop
  Callers <- OneCaller
  Workers <- TwoWorkers
  GenMod = 3
  MaxNets = 1
  RetriesPerNet = 1
  Channels <- Steady
  DefaultChannel = 6
  MaxRealign = 1
  MaxEvents = 1
  MaxStreak = 2
  Scans = FALSE
  Resets = FALSE
  Faults = FALSE
  NvsMayFail = FALSE
INVARIANTS NeverLockedOut
