CONSTANTS
  MIN_CONCURRENCY = 1
  MAX_CONCURRENCY = 3
  MAX_PERMITS = 20
  Callers = {a, b}
  Owners = {w1, w2}
  QueueLengths <- Lengths
SPECIFICATION Spec
SYMMETRY BothSymmetry
CONSTRAINT PermitBound
INVARIANT TypeOK
