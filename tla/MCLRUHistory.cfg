CONSTANTS
  Keys = {0, 1, 2, 4}
  Values = {v1, v2}
  Absent = Absent
  TotalCapacity = 5
  NumShards = 2
  Hash <- MCHash
SYMMETRY ValueSymmetry
SPECIFICATION HistorySpec
INVARIANTS
  ShardsWellFormed
  OrderIsRecency
  LostOnlyWhenCrowded
PROPERTY ImplementsLossyMap
