CONSTANTS
  r1 = r1  r2 = r2  j1 = j1  j2 = j2  None = None
  Replica <- MCReplica
  Run <- MCRun
  LastHour = 3
  HoursPerDay = 2
  Offset = 1
  MaxFaults = 0
SPECIFICATION Spec
INVARIANT NewAnomalyIsTold
CHECK_DEADLOCK FALSE
