CONSTANTS
  w1 = w1
  w2 = w2
  c1 = c1
  c2 = c2
  Workers = {w1, w2}
  Tasks = {c1, c2}
  NoTask = NoTask
  QueueLimits = {0, 1}
  PayloadMax = 9
  LineMax = 4
  FieldMax = 3
  FieldsMax = 1
  FormMax = 1
  Requests <- MCRequests
  MaxRequests <- MCTwice
  KeepAliveMax = 2
SPECIFICATION ServerSpec
CHECK_DEADLOCK FALSE
SYMMETRY WorkerSymmetry
INVARIANTS
  HandlersUseLiveState
  ReturnClosesConnections
  AnswersMatchRequests
  ClosingAnswerIsLast
  QueuedJobsHaveTakers
  NobodySleepsThroughShutdown
