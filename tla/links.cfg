SPECIFICATION LinksSpec
CONSTANTS
  http = http
  cli = cli
  evloop = evloop
  relay = relay
  Listener = relay
  Setters <- TwoSetters
  Appliers <- OneApplier
  BindMayFail = TRUE
  Tunnels = {"w1", "w2"}
  UplinkCgnat = FALSE
  Connectors = {"task", "mqtt"}
  MaxInstances = 2
  Exits = {1, 2}
  TunnelEvents = 4
  Tasks = {"t1", "t2"}
  MaxAttempts = 2
  ConsoleEvents = 4
INVARIANTS
  PublishedIsOpen InstanceSound ServedByOne
PROPERTIES
  SwitchFollowed ShimsHold ExitFollowed EventuallyOff
CHECK_DEADLOCK FALSE
