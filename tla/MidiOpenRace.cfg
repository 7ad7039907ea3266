SPECIFICATION Spec
CONSTANTS
  Packets <- MCPackets
  MaxPackets = 0
  MaxPlugs = 1
  OutEvents = 2
  RxEvents = 2
  HasPlugIn = {TRUE}
INVARIANT PlugInGetsDevice
CHECK_DEADLOCK FALSE
