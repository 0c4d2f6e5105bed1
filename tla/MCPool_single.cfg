CONSTANTS
  MIN_CONCURRENCY = 1
  MAX_CONCURRENCY = 4
  MAX_PERMITS = 20
  Callers = {dispatcher}
  Owners = {w1, w2, w3, w4, w5}
  QueueLengths <- Lengths
SPECIFICATION Spec
SYMMETRY OwnerSymmetry
INVARIANTS PermitFloor
PROPERTIES SurplusOnlyUnderLoad
