SPECIFICATION MSpec
CONSTANTS
  a1 = a1
  c1 = c1
  c2 = c2
  Action = {a1}
  call = a1
  Question = {}
  Semantics <- Unsafe
  Thread = {c1, c2}
  MaxEpoch = 1
  MaxAttempts = 3
  MaxVersion = 8
  MaxJobs = 3
  MaxRuns = 2
  MaxAsks = 1
  MaxPolls = 3
  MaxDisturbed = 2
INVARIANTS
  LostCallIsNotFailed
\* The Run ends, and a bound may stop it.
CHECK_DEADLOCK FALSE
