SPECIFICATION ApSpec
CONSTANTS
  http = http
  evloop = evloop
  w1 = w1
  w2 = w2
  EvLoop = evloop
  Callers <- NoCaller
  Workers <- OneWorker
  GenMod = 2
  MaxNets = 1
  RetriesPerNet = 2
  Channels <- Flapping
  DefaultChannel = 6
  MaxRealign = 3
  MaxEvents = 2
  MaxStreak = 5
  Scans = TRUE
  Resets = TRUE
  Faults = TRUE
  NvsMayFail = FALSE
  Macs = {"m1", "m2", "m3"}
  Guests = {"m1", "m2"}
  Aids = {1, 2}
  MaxJoins = 3
  MaxSaves = 2
  Hosts = 8
  MaxLease = 3
  MaxStations = 2
  LeaseTicks = 2
  DefaultIp = 1
  ApIps = {2}
  MaxStarts = 1
  MaxEntries = 2
  BlobMayFail = FALSE
  MaxHits = 2
  MaxEdits = 3
  FwdPorts = {p1, p2}
  WebPort = p3
  Addrs = {"a1", "a2"}
  MaxRules = 1
  TableSize = 1
  MaxStimuli = 3
  Sites = {1, 2}
  Flows = 2
  Timeout = 1
  MaxChanges = 1
  Rows = 3
  MaxBoots = 4
INVARIANTS OldestGivesWay
CHECK_DEADLOCK FALSE
