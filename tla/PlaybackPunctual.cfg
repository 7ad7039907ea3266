SPECIFICATION PunctualSpec
CONSTANTS
  NF = 1
  NB = 5
  START_LEAD_FRAMES = 2
  RESYNC_LEAD_FRAMES = 2
  outLead = 2
  POSMAP = 16
  nominalPerMs = 1
  Packets = {1}
  ESTIMATE_ERROR = 4
  REF_ERROR = 1
  Faults = {}
  CALLBACK_LATENCY = 1
  Outcomes = {"sent"}
  Masters = {FALSE}
  FEEDBACK_AFTER = 2
  REALIGN_LIMIT = 1
  MaxFrame = 11
INVARIANT NoFutureGivenUp

PROPERTY InTime
