SPECIFICATION Spec
CONSTANTS
  r = r
  d = d
  e = e
  g = g
  x = x
  y = y
  Root = r
  Dirs = {r, d, e, g}
  Files = {x, y}
  Parent <- MCParent
  Below <- MCBelow
  DirOf <- MCDirOf
  WholeTree = WholeTree
  NoDir = NoDir
  MaxDirWatches = 3
  QueueCap = 2
  MaxOps = 3
  Recreate = TRUE
CHECK_DEADLOCK FALSE
INVARIANTS
  IndexShowsDisk
