SPECIFICATION FairSpec
CONSTANTS
  Readers = {r1}
  Hosts = {3, 5}
  MaxStarts = 2
  MaxStamps = 1
  WEAK = FALSE
INVARIANTS
  TypeOK
PROPERTIES
  StampWhole
  TimelineGoesOn
  CallsReturn
CHECK_DEADLOCK FALSE
