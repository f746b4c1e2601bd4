SPECIFICATION MCSpec
CONSTANTS
  r1 = r1
  r2 = r2
  r3 = r3
  Parent = Parent
  Nobody = Nobody
  First = r1
  Timer = r2
  Pair = {r1, r2}
  Runners = {r1, r2, r3}
  e1 = e1
  e2 = e2
  Executors = {e1, e2}
  Unbound = Unbound
  Depth = 3
CHECK_DEADLOCK FALSE
INVARIANTS
  CoroutinesConsistent
  CallResults
  LoserJoined
  ResultDelivered
  StopPasses
PROPERTIES
  CallsReturn
