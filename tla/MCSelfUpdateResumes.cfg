SPECIFICATION UpdateSpec
CONSTANTS
  MaxVersion = 2
  MaxRows = 1
  MaxChecks = 1
  MaxCrashes = 0
  MaxRollbacks = 0
  MaxTries = 2
  MaxLooks = 1
  MaxHealth = 1
  OpenStatus <- MCOpenStatus
INVARIANT ResumesAtHealthCheck
CHECK_DEADLOCK FALSE
