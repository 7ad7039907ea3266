SPECIFICATION FairSpec
CONSTANTS
  Clients = {c1, c2, c3}
  MaxPlugs = 4
  PluggedAtBoot = {TRUE, FALSE}
  CanUnplug = TRUE
  Faults = TRUE
INVARIANTS
  TypeOK
  RunningNeedsDevice
  NoOvercount
  EngineFollowsCount
  CountIsActive
PROPERTIES
  GhostOnlyAtInit
  CallsReturn
CHECK_DEADLOCK FALSE
