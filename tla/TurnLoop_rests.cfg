SPECIFICATION FairSpec
CONSTANTS
  Worker = {w1, w2}
  Answer <- Working
  Usage = {1, 2}
  Limit <- MCLimit
  DefaultOutput = 2
  Ops = 1
  MaxRepairs = 2
  MaxNoProgress = 2
  MaxTurns = 3
  MaxFaults = 1
  MaxEpoch = 6
INVARIANTS
  WithinLimit
PROPERTIES
  EventuallyRests
  ClosedTurnIsObserved
\* The Run ends, and a bound may stop it.
CHECK_DEADLOCK FALSE
