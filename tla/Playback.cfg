SPECIFICATION Spec
CONSTANTS
  NF = 1
  NB = 2
  START_LEAD_FRAMES = 1
  RESYNC_LEAD_FRAMES = 1
  outLead = 1
  POSMAP = 3
  nominalPerMs = 1
  Packets = {1}
  ESTIMATE_ERROR = 0
  Faults = {"noResources"}
  Outcomes = {"sent", "counted"}
  Masters = {TRUE, FALSE}
  FEEDBACK_AFTER = 2
  REALIGN_LIMIT = 1
  MaxFrame = 6
INVARIANT TypeOK
INVARIANT SentOnce
INVARIANT NothingSkipped
INVARIANT MapIsPlan
INVARIANT RingNotBehindClock
 
