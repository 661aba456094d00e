SPECIFICATION FreshSpec
CONSTANTS
  a = a
  Paths = {a}
  MaxBatchEvents = 1
  MaxEvents = 2
  MaxSessions = 1
  MaxStaleTimers = 1
  MaxObservers = 1
CHECK_DEADLOCK FALSE
INVARIANTS
  CurrentIsTrue
