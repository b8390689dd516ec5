SPECIFICATION Spec
CONSTANTS
  a1 = a1
  a2 = a2
  q1 = q1
  Action = {a1, a2}
  Question = {q1}
  Semantics <- LocalAndRemote
  MaxEpoch = 2
  MaxAttempts = 2
  MaxVersion = 4
  MaxJobs = 3
INVARIANTS
  AttemptMatchesAction
  
  
  QueuedHasWakeup
  WaitingHasUndecidedRequest
\* The Run ends, and a bound may stop it.
CHECK_DEADLOCK FALSE
