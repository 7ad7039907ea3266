SPECIFICATION FairSpec
CONSTANTS
  NF = 2
  NB = 2
  START_LEAD_FRAMES = 1
  RESYNC_LEAD_FRAMES = 1
  Outcomes = {"data", "silent"}
  MaxFrame = 8
INVARIANTS
  TypeOK
  NoFrameLost
  RingInOrder
  NothingEarly
  QueueDisjoint
  NoLateHarvest
  ReleasedIsQuiet
  QueueFull
PROPERTIES
  RefinesDelivery
  FramesAreTaken
  StopReturns
