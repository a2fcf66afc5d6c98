CONSTANTS
  s1 = s1  Worker = Worker  None = None
  Time <- MCNow
  Inactivity = 1
  Name <- MCPageview
  Slot <- MCSlot
  BatchSize = 2
  MaxEvents = 3
  MaxEvictions = 1
SPECIFICATION Spec
INVARIANT OneCurrentVersion
CHECK_DEADLOCK FALSE
