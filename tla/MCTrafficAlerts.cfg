CONSTANTS
  r1 = r1  r2 = r2  j1 = j1  j2 = j2  None = None
  Replica <- MCReplica
  Run <- MCRun
  LastHour = 2
  HoursPerDay = 2
  Offset = 1
  MaxFaults = 1
SPECIFICATION Spec
INVARIANTS TypeOK OneRunner OncePerProcess AlertIsMade
PROPERTY LockIsReleased
CHECK_DEADLOCK FALSE
