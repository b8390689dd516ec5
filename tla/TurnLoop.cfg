SPECIFICATION Spec
CONSTANTS
  Worker = {w1, w2}
  Answer <- Every
  Usage = {1}
  Limit <- MCLimit
  DefaultOutput = 2
  Ops = 1
  MaxRepairs = 2
  MaxNoProgress = 2
  MaxTurns = 3
  MaxFaults = 1
  MaxEpoch = 3
SYMMETRY Workers
INVARIANTS
  TypeOK
  ClosedTurnIsCharged
  ChargedOnce
  TurnsInOrder
  SuccessLeavesNothingOpen
  LiveRunHasWakeup
\* The Run ends, and a bound may stop it.
CHECK_DEADLOCK FALSE
