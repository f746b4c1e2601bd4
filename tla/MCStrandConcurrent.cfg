SPECIFICATION MCSpec
CONSTANTS
  w1 = w1
  w2 = w2
  c1 = c1
  c2 = c2
  f1 = f1
  f2 = f2
  f3 = f3
  f4 = f4
  NoTask = NoTask
  Workers = {w1, w2}
  Clients = {c1, c2}
  Tasks = {f1, f2, f3}
  MaxDrain = 2
  PoolTasks = {f1}
  MaxGuards = 1
CHECK_DEADLOCK FALSE
INVARIANT NeverConcurrent
SYMMETRY Symmetry
