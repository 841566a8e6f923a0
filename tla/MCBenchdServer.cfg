SPECIFICATION LockAndServerSpec
CONSTANTS
  Clients = {c1, c2}
  Jobs = {j1, j2}
  NoHolder = NoHolder
  MaxAcquires = 3
  MaxRearms = 1
  Cores = {k1, k2}
  NoSnapshot = NoSnapshot
  MaxThrottle = 1
  Peer = c1
  Hot = {k2}
  ServerAcquires = 2
INVARIANTS
  TimerIsHolders
  QueueIsSound
  ViolationsAreEarned
  ThrottleAccounted
PROPERTIES
  LockGoesRound
  ImplementsJobLock
