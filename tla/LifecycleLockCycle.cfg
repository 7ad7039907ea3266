SPECIFICATION Spec
CONSTANTS
  Clients = {c1, c2}
  MaxPlugs = 2
  PluggedAtBoot = {TRUE}
  CanUnplug = TRUE
  Faults = FALSE
INVARIANT NoLockCycle
CHECK_DEADLOCK FALSE
