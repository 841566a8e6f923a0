SPECIFICATION FairJobsSpec
CONSTANTS
  Runners = {r1, r2}
  Script = script
  NoHolder = NoHolder
  MaxJobs = 3
  MaxCrashes = 1
  MaxDeaths = 1
INVARIANTS
  BenchmarkIsSafe
  StrikesTellTheTruth
PROPERTIES
  HookEnds
CHECK_DEADLOCK FALSE
