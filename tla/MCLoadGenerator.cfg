CONSTANTS
  ThreadCounts = {1, 2}
  WarmupThreads = 2
  POPULAR_RANGE = 2
  LARGE_RANGE = 3
  HUGE_RANGE = 1
  MIXED_PREFILL = 1
  MaxRequests = 2
SPECIFICATION FairLoadSpec
INVARIANTS
  ReportAddsUp
  NoUnexplained404
PROPERTIES
  BenchmarkEnds
