CONSTANTS
  Threads = {t1}
  PoolSize = 1
  a = a
  b = b
  Keys = {a}
  Values = {v1, Empty}
  Absent = Absent
  TotalCapacity = 1
  NumShards = 1
  Hash <- MCHash
  Row <- MCRow
  Methods = {"POST"}
  Faults = {}
  EmptyValue = Empty
  MatchedRows = FALSE
SPECIFICATION KVSpec
INVARIANT CreatedIsStored
