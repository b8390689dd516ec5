SPECIFICATION Spec
CONSTANTS
  w1 = w1
  w2 = w2
  None = None
  Worker = {w1, w2}
  LeaseSeconds = 1
  DelaySeconds = 1
  MaxClock = 4
  MaxEpoch = 3
PROPERTIES
  NoWriteAfterSuccessor
  LockSpec
\* The clock and the number of claims are bounded.
CHECK_DEADLOCK FALSE
