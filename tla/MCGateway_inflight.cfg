CONSTANTS
  Requests = {r1, r2}
  NoJob = NoJob
  QUEUE_CAPACITY = 2
  MIN_CONCURRENCY = 1
  MAX_CONCURRENCY = 2
  MAX_PERMITS = 20
SPECIFICATION Spec
SYMMETRY Symmetry
INVARIANT InFlightReturnsToZero
