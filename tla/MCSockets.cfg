SPECIFICATION Spec
CONSTANTS
  o1 = o1
  o2 = o2
  t1 = t1
  t2 = t2
  None = None
  Ops = {o1, o2}
  Threads = {t1, t2}
  Workloads <- MCWorkloads
  MaxRes = 2
  MaxCalls = 3
SYMMETRY Symmetry
CHECK_DEADLOCK FALSE
INVARIANTS
  GuardsConsistent
  NeverTakenAway
  CancelReachesWaits
  OperationsExclude
  CloseResets
