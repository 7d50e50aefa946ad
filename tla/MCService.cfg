SPECIFICATION SvcSpec
CONSTANTS
  MaxBuild = 2
  MaxChanges = 1
  MaxFaults = 1
  MaxName = 2
  Burst = 1
  None = None
CHECK_DEADLOCK FALSE
INVARIANTS ReportedIsKept 
PROPERTIES RestartTakesEffect ComesUp
