SPECIFICATION OrderedSpec
CONSTANTS
  Clients = {c1}
  Jobs = {j1, j2}
  NoHolder = NoHolder
  MaxAcquires = 2
  MaxRearms = 0
  MaxSessions = 2
INVARIANTS
  SessionsAreSound
PROPERTIES
  CapturedIsKilled
