CONSTANTS
  Threads = {t1, t2}
  PoolSize = 2
  a = a
  b = b
  Keys = {a}
  Values = {v1}
  Absent = Absent
  TotalCapacity = 1
  NumShards = 1
  Hash <- MCHash
  Row <- MCRow
  Methods = {"POST", "GET", "PUT", "DELETE"}
  Faults = {"rejected", "reply_lost", "unwound", "restart"}
  EmptyValue = Empty
  MatchedRows = FALSE
SPECIFICATION FairKVSpec
PROPERTIES
  EveryRequestAnswered
  SomebodyAnswered
