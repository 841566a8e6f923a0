SPECIFICATION SchedulerFairSpec
CONSTANTS
  Ops = {o1, o2, o3}
  Tasks = {t1, t2}
  MaxCloses = 3
INVARIANTS
  GateIsConsistent
  LockedIsDrained
  TasksOnSchedule
PROPERTIES
  DrainEnds
  WaiterEnters
