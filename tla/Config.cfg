SPECIFICATION FairSpec
CONSTANTS
  Threads = {t1, t2}
  Host = host
  Requests <- MCRequests
  Legacy <- MCLegacy
  MaxRequests = 1
INVARIANTS
  TypeOK
  EngineGeometryLegal
  GainFollows
  NothingForgotten
PROPERTIES
  GeometryTakesEffect
  GainsPersist
