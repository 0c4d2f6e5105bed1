CONSTANTS
  Requests = {r1, r2, r3, r4}
  NoJob = NoJob
  QUEUE_CAPACITY = 2
  MIN_CONCURRENCY = 1
  MAX_CONCURRENCY = 2
  MAX_PERMITS = 20
SPECIFICATION Spec
SYMMETRY Symmetry
INVARIANTS
  TypeOK
  EveryJobInOnePlace
  BlockedOnlyByAFullPool
  PoolFollowsBacklog
  MetricsBalance
PROPERTIES
  ImplementsService
  ImplementsCounters
