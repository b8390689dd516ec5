SPECIFICATION Spec
CONSTANTS
  c1 = c1
  c2 = c2
  k1 = k1
  k2 = k2
  x1 = x1
  x2 = x2
  g1 = g1
  f1 = f1
  None = None
  Client = {c1, c2}
  Collector = {g1}
  Key = {k1, k2}
  Path = {f1}
  Content = {x1, x2}
  MaxArtifacts = 3
INVARIANTS
  KeyHasOneResult
  WritesAreChained
  MissingBlobWasRaced
SYMMETRY Symmetry
\* The number of artifacts is bounded.
CHECK_DEADLOCK FALSE
