SPECIFICATION MCSpec
CONSTANTS
  t1 = t1
  t2 = t2
  Threads = {t1, t2}
  MaxRuns = 2
  MaxFiles = 3
  MaxEvents = 4
  GenLimit = 4
CHECK_DEADLOCK FALSE
INVARIANTS
  ReactorConsistent
  EventReachesItsFile
  NoEdgeLost
  ReturnMeansRemoved
PROPERTIES
  ReactorServes
