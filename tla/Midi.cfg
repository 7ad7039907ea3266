SPECIFICATION FairSpec
CONSTANTS
  Packets <- MCPackets
  MaxPackets = 2
  MaxPlugs = 2
  OutEvents = 2
  RxEvents = 2
  HasPlugIn = {TRUE, FALSE}
INVARIANTS
  TypeOK
  InStep
PROPERTIES
  InputFlows
  Reattaches
CHECK_DEADLOCK FALSE
