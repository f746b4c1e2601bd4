\* A call that returned, and an endpoint that was refused, take no further step.
CHECK_DEADLOCK FALSE
SPECIFICATION MCSpec
CONSTANTS
  o1 = o1
  o2 = o2
  o3 = o3
  s1 = s1
  s2 = s2
  b1 = b1
  b2 = b2
  NoOp = NoOp
  NoValue = NoValue
  Fds <- MCFds
  Ops <- MCOps
SYMMETRY Symmetry
INVARIANTS
  IInv
  StreamsExact
  ErasedLifetimes
  EndpointsSurvive
PROPERTIES
  ImplementsReactorOp
