SPECIFICATION FairLockSpec
CONSTANTS
  p = p
  q = q
  Procs = {p, q}
  NoPid = NoPid
  MaxLocks = 3
  MaxCrashes = 2
CHECK_DEADLOCK FALSE
INVARIANTS
  LockTypeOK
  MutualExclusion
  HolderIsNamed
PROPERTIES
  OrphanIsReclaimed
