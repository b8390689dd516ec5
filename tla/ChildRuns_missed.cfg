SPECIFICATION Spec
CONSTANTS
  c1 = c1
  c2 = c2
  Run = {1, 2, 3}
  Root = {1}
  Caller = {c1, c2}
  MaxDepth = 2
  MaxChildren = 2
  RootLimit = 2
  Quotas = {1}
  MaxEffects = 1
PROPERTIES
  CancellationReachesDescendants
\* All Runs end, and the bounds may stop them.
CHECK_DEADLOCK FALSE
