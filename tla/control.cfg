SPECIFICATION ControlSpec
CONSTANTS
  Slots = {1, 2}
  Buckets = {1}
  Places = {1}
  Peers = {"a", "b"}
  Passwords = {"x", "y"}
  Timeouts = {0, 1}
  Ttl = 1
  MaxNow = 3
  MaxTokens = 2
  MaxNonces = 1
  MaxFails = 4
  SessionEdits = 1
  Tasks = {"httpd", "console"}
  MaxCalls = 3
  Exits = {1}
  Sizes = {5}
  MaxChanges = 4
  NvsMayFail = TRUE
  Width = 4
  Interfaces <- SomeInterfaces
  RouteTables <- SomeTables
  Cap = 3
  MaxLine = 2
  TailSize = 2
  MaxSeq = 5
  MaxBoots = 1
  Loggers = {"t1", "t2"}
  RtcCap = 2
  MaxBytes = 5
  MaxCrashes = 2
INVARIANTS
  SignInSound ChangeHolds SettingsHold RoutesAgree  SnapshotIsTheEnd
PROPERTIES
  NoRevival ServesTheWindow
CHECK_DEADLOCK FALSE
