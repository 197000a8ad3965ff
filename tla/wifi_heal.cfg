SPECIFICATION FairSpec
CONSTANTS
  http = http
  evloop = evloop
  w1 = w1
  w2 = w2
  EvLoop = evloop
  Callers <- OneCaller
  Workers <- OneWorker
  GenMod = 2
  MaxNets = 1
  RetriesPerNet = 1
  Channels <- Steady
  DefaultChannel = 6
  MaxRealign = 1
  MaxEvents = 1
  MaxStreak = 2
  Scans = FALSE
  Resets = FALSE
  Faults = TRUE
  NvsMayFail = FALSE
INVARIANTS AlwaysOnKeepsAp
PROPERTIES RecoveryHeals
