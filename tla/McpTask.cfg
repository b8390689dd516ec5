SPECIFICATION FairMSpec
CONSTANTS
  a1 = a1
  c1 = c1
  c2 = c2
  Action = {a1}
  call = a1
  Question = {}
  Semantics <- Unsafe
  Thread = {c1, c2}
  MaxEpoch = 1
  MaxAttempts = 4
  MaxVersion = 12
  MaxJobs = 4
  MaxRuns = 2
  MaxAsks = 1
  MaxPolls = 3
  MaxDisturbed = 1
INVARIANTS
  MTypeOK
  WorkingTaskIsPolled
  CallOutcomeIsTrue

  
  
\* The Run ends, and a bound may stop it.
CHECK_DEADLOCK FALSE
