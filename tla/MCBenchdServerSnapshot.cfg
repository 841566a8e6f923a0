SPECIFICATION ServerSpec
CONSTANTS
  Clients = {c1, c2}
  Jobs = {j1, j2}
  NoHolder = NoHolder
  MaxAcquires = 3
  MaxRearms = 0
  Cores = {k1}
  NoSnapshot = NoSnapshot
  MaxThrottle = 1
INVARIANT
  SnapshotIsGrants
