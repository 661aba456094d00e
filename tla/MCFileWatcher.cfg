SPECIFICATION Spec
CONSTANTS
  a = a
  b = b
  Paths = {a, b}
  MaxBatchEvents = 2
  MaxEvents = 4
  MaxSessions = 2
  MaxStaleTimers = 2
  MaxObservers = 2
SYMMETRY Symmetry
INVARIANTS
  TypeOK
  NoEventForgotten
  MarkerReplacesPaths
  NoLostWakeup
  StoppedIsQuiet
PROPERTIES
  DrainSound
  ImplementsLedger
