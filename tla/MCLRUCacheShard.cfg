CONSTANTS
  Threads = {t1, t2}
  Keys = {k1, k2, k3}
  Values = {v1, v2}
  Absent = Absent
  Nobody = Nobody
  Capacity = 2
  AllocFails = TRUE
SPECIFICATION Spec
INVARIANTS
  ListAndIndexAgree
  ListWithinCapacity
  GetAnswersPublished
PROPERTY ImplementsAtomicCache
