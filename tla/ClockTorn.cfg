SPECIFICATION Spec
CONSTANTS
  Readers = {r1}
  Hosts = {3, 5}
  MaxStarts = 1
  MaxStamps = 1
  WEAK = TRUE
PROPERTY StampWhole
CHECK_DEADLOCK FALSE
