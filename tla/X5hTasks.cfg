SPECIFICATION TasksSpec
CONSTANTS
  ThVars = {v1, v2}
  ThGrow = 1
  BeaconPeriod = 3
  VdevPeriod = 2
  HbPeriod = 2
  WorkTicks = 1
  ImMaxTime = 7
  NameLength = 2
  TableEvery = 2
  TableSlots = 2
  BootTasks = {2, 3}
INVARIANTS ThreadMemory FirstUseIsSafe ConsoleTells ReportTells
PROPERTY EndsAreReached
CHECK_DEADLOCK FALSE
