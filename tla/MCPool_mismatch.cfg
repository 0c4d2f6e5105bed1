CONSTANTS
  MIN_CONCURRENCY = 1
  MAX_CONCURRENCY = 3
  MAX_PERMITS = 20
  Callers = {a, b}
  Owners = {}
  QueueLengths <- Lengths
SPECIFICATION Spec
SYMMETRY CallerSymmetry
CONSTRAINT PermitBound
INVARIANT PermitsMatchPoolSize
