CONSTANTS
  t1 = t1
  t2 = t2
  a = a
  b = b
  r = r
  MaxGuards = 1
  Threads = {t1}
  Tasks = {a}
  Reposters = {}
  WriteMayFail = FALSE
SPECIFICATION FairSpec
PROPERTY PostedTaskRuns
