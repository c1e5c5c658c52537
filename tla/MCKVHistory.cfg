CONSTANTS
  Threads = {t1, t2}
  PoolSize = 2
  a = a
  b = b
  Keys = {a, b}
  Values = {v1, v2}
  Absent = Absent
  TotalCapacity = 1
  NumShards = 1
  Hash <- MCHash
  Row <- MCFoldedRow
  Methods = {"POST", "GET", "PUT", "DELETE"}
  Faults = {"rejected", "reply_lost", "unwound", "restart"}
  EmptyValue = Empty
  MatchedRows = FALSE
SPECIFICATION KVHistorySpec
SYMMETRY ServerSymmetry
INVARIANTS
  CoherentUnlessSuspect
  SoloReadIsCurrent
  HoldsOnlyForQuery
  NothingInvented
