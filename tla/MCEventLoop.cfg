CONSTANTS
  t1 = t1
  t2 = t2
  a = a
  b = b
  r = r
  MaxGuards = 1
  Threads = {t1, t2}
  Tasks = {a, b}
  Reposters = {r}
  WriteMayFail = TRUE
SPECIFICATION FairSpec
INVARIANTS
  QueueConsistent
  WakeTokenUnique
PROPERTIES
  NotifiedPostRuns
  TimerNotStarved
