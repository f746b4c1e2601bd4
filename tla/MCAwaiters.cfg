SPECIFICATION MCSpec
CONSTANTS
  w1 = w1
  w2 = w2
  Waiters = {w1, w2}
  MaxNotifies = 2
CHECK_DEADLOCK FALSE
INVARIANTS
  AwaitersConsistent
  NotificationsConserved
  AwaitedResult
PROPERTIES
  AwaitsEnd
