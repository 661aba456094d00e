SPECIFICATION Spec
CONSTANTS
  n1 = n1
  n2 = n2
  n3 = n3
  n4 = n4
  Nodes = {n1, n2, n3, n4}
  Kinds = {"contains", "calls", "extends"}
  Places = {1, 2}
  RowIds = {1, 2}
  Containers = {n1, n2}
  Ops = {"neighbourhood"}
  Roots = {n1}
  Goals = {n1, n4}
  MaxLinks = 3
  Graphs <- MCGraphs
  Limits <- MCLimits
INVARIANT TruncationIsTold
CHECK_DEADLOCK FALSE
