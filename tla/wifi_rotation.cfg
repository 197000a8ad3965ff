SPECIFICATION FairSpec
CONSTANTS
  http = http
  evloop = evloop
  w1 = w1
  w2 = w2
  EvLoop = evloop
  Callers <- NoCaller
  Workers <- OneWorker
  GenMod = 2
  MaxNets = 3
  RetriesPerNet = 2
  Channels <- Elsewhere
  DefaultChannel = 6
  MaxRealign = 1
  MaxEvents = 1
  MaxStreak = 2
  Scans = TRUE
  Resets = TRUE
  Faults = FALSE
  NvsMayFail = TRUE
INVARIANTS TypeOK
 
