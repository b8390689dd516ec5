SPECIFICATION Spec
CONSTANTS
  t1 = t1
  t2 = t2
  p1 = p1
  p2 = p2
  a1 = a1
  a2 = a2
  None = None
  Thread = {t1, t2}
  Process = {p1, p2}
  Action = {a1, a2}
  Answers = {"succeeded", "failed", "environment_lost"}
  MaxSandbox = 2
INVARIANTS
  ActionRunsOnce
  CellsOfASandboxAreConsecutive
  BusySessionHasRunningCell
\* The numbers of sandboxes and of actions are bounded.
CHECK_DEADLOCK FALSE
SYMMETRY Symmetry
