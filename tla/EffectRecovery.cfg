SPECIFICATION OneSpec
CONSTANTS
  a1 = a1
  a2 = a2
  c1 = c1
  c2 = c2
  Action = {a1, a2}
  Caller = {c1, c2}
  Question = {}
  Semantics <- UnsafeAndRemote
  MaxEpoch = 0
  MaxAttempts = 3
  MaxVersion = 7
  MaxJobs = 4
SYMMETRY Callers
INVARIANTS
  
  EffectAtMostOnce
  OutcomeIsTrue
  OneDispatcherAtATime
\* The Run ends, and a bound may stop it.
CHECK_DEADLOCK FALSE
