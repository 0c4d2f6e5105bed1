CONSTANTS
  Requests = {r1, r2}
  Outcomes <- MCOutcomes
  Bounds <- MCBounds
  Latencies <- MCLatencies
  Render = Render
  Free = Free
SPECIFICATION Spec
SYMMETRY Symmetry
INVARIANTS
  TypeOK
  CumulativeBuckets
  ScrapeOffByOverlap
PROPERTIES
  ImplementsCounters
