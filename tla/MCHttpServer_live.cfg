CONSTANTS
  w1 = w1
  w2 = w2
  c1 = c1
  c2 = c2
  Workers = {w1, w2}
  Tasks = {c1, c2}
  NoTask = NoTask
  QueueLimits = {0}
  PayloadMax = 9
  LineMax = 4
  FieldMax = 3
  FieldsMax = 1
  FormMax = 1
  Requests <- MCOneRequest
  MaxRequests <- MCOnce
  KeepAliveMax = 1
SPECIFICATION FairServerSpec
CHECK_DEADLOCK FALSE
PROPERTIES
  ImplementsTaskQueue
  AcceptedIsClosed
  StopReturns
