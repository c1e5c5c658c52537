CONSTANTS
  Threads = {t1, t2}
  PoolSize = 2
  a = a
  b = b
  Keys = {a}
  Values = {v1}
  Absent = Absent
  TotalCapacity = 1
  NumShards = 1
  Hash <- MCHash
  Row <- MCRow
  Methods = {"GET", "DELETE"}
  Faults = {}
  EmptyValue = Empty
  MatchedRows = FALSE
SPECIFICATION KVSpec
INVARIANT DeletedIsNotCached
