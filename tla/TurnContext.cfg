SPECIFICATION FairCSpec
CONSTANTS
  w1 = w1
  w2 = w2
  t1 = t1
  t2 = t2
  c1 = c1
  j1 = j1
  j2 = j2
  Writer = {t1, t2}
  Client = {c1}
  Limit <- Limits
  MaxAppend = 2
  MaxSeq = 7
  MaxWritten = 4
  MaxDrops = 1
  Worker = {w1, w2}
  Release = {"old", "new"}
  Revision = {"r1", "r2"}
  Scope = {"s1", "s2"}
  Job = {j1, j2}
  MaxTurn = 2
  MaxCheckpoint = 1
  MaxTakeovers = 1
INVARIANTS
  CTypeOK
  FollowerMissesNothing
  SkillsArePinned
  OneContextPerTurn
  
PROPERTIES
  FollowerCatchesUp
\* The Run is blocked, and a bound may stop it.
CHECK_DEADLOCK FALSE
