SPECIFICATION RunnerFairSpec
CONSTANTS
  MaxGens = 1
  MaxRuns = 2
  MaxCrashes = 1
  MaxTries = 2
  MaxChecks = 1
INVARIANTS
  RegistrationIsSound
PROPERTIES
  ImplementsRegistration
  TransitEnds
  DeathIsNoticed
CHECK_DEADLOCK FALSE
