CONSTANTS
  s1 = s1  Worker = Worker  None = None
  Time <- MCTime
  Inactivity = 1
  Name <- MCName
  Slot <- MCSlot
  BatchSize = 9
  MaxEvents = 3
  MaxEvictions = 1
  BusyBatchSize = 2
  BusyMaxEvents = 4
SPECIFICATION MCSpec
INVARIANTS TypeOK OneCurrentVersion AccountsForItsEvents CacheIsCurrent SeenOnceInOrder
PROPERTY TableCatchesUp
CHECK_DEADLOCK FALSE
