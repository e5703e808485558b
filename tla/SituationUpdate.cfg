\* One worker: the same (A, version 1) delivered twice, in two batches,
\* with different references (spec invariant 3: same version = reference
\* union).
CONSTANTS
  A = A
  B = B
  r1 = r1
  r2 = r2
  w1 = w1
  Workers = {w1}
  SitOids <- MCSitOids
  Versions = {1, 2}
  RefOids <- MCRefOids
  Batches <- RepeatBatches
  MaxBatches = 2
  MaxIds = 6
SPECIFICATION Spec
CONSTRAINT IdBound
INVARIANT SameVersionUnionsRefs
\* Every batch has been handed out: the collectors are bounded.
CHECK_DEADLOCK FALSE
