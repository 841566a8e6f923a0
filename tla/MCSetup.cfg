SPECIFICATION MCSpec
CONSTANTS
  MaxCore = 3
  Capacities = {1, 2, 4}
  Machines <- MCMachines
  None = None
  MaxFailures = 3
  MaxReconfigures = 1
  MaxArrivals = 3
  Ops = {o1}
  MaxCloses = 4
  MaxVersion = 2
  MaxRows = 2
  MaxChecks = 1
  MaxCrashes = 1
  MaxRollbacks = 1
  MaxTries = 2
  MaxLooks = 2
  MaxHealth = 2
  OpenStatus <- MCOpenStatus
INVARIANTS
  CoresAreRight
  TextIsKept
  SetupIsSound
  GateFollowsLock
  UpdateIsSound
PROPERTIES
  SetupFinishes
  GateReopens
  ServicesComeBack
  RunsProceed
CHECK_DEADLOCK FALSE
