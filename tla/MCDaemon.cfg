SPECIFICATION Spec
CONSTANTS
  c1 = c1
  c2 = c2
  Commands = {c1, c2}
  Nobody = Nobody
  MaxStarts = 2
  MaxCrashes = 1
CHECK_DEADLOCK FALSE
INVARIANTS
  OwnerIsReachable
  StopLeavesNoDaemon
PROPERTIES
  LifecycleMovesForward
