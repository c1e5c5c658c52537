CONSTANTS
  Threads = {t1, t2, t3, t4}
  PoolSize = 4
SPECIFICATION RotationSpec
SYMMETRY ThreadSymmetry
INVARIANTS
  ConnectionsConserved
  ConnectionsExclusive
  NoLostWakeup
  WaitOnlyWhenShort
PROPERTIES
  DeadConnectionWaitsItsTurn
