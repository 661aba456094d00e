SPECIFICATION FairSpec
CONSTANTS
  f = f
  g = g
  a = a
  b = b
  NoFile = NoFile
  Files = {f, g}
  Contents = {a, b}
  Calling = {a}
  LastStore = 2
  StoreOf <- MCStoreOf
  MaxEdits = 2
  MaxStamps = 1
INVARIANTS AnswersMatchRevision NoFalseConflict
PROPERTY ClientIsServed
CHECK_DEADLOCK FALSE
