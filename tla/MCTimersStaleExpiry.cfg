SPECIFICATION MCSpec
CONSTANTS
  o1 = o1
  o2 = o2
  NoOp = NoOp
  Ops = {o1, o2}
  MaxTime = 3
  MaxToken = 3
  TicksPerMs = 2
  IntLimit = 2
  w1 = w1
  w2 = w2
  c1 = c1
  None = None
  Waits = {w1, w2}
  Callers = {c1}
  MaxCalls = 2
  LastTick = 1
CHECK_DEADLOCK FALSE
INVARIANT RegisteredWithExpiry
