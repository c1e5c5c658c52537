CONSTANTS
  s1 = s1
  s2 = s2
  Senders = {s1, s2}
  Nobody = Nobody
  KeepAlives = {TRUE, FALSE}
  MaxSends = 4
  MaxConns = 4
  Addresses = 2
SPECIFICATION ClientSpec
SYMMETRY SenderSymmetry
INVARIANTS
  AnswerIsOwn
  ExecutedAtMostOnce
  SocketInUseStaysOpen
  StoppedMeansClosed
