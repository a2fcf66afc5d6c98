CONSTANTS
  e1 = e1  e2 = e2  e3 = e3  e4 = e4  s1 = s1  s2 = s2
  Event <- MCEvent
  Slot <- MCSlot
  Worker = Worker
  BatchSize = 2
  MaxBuffer = 3
  Retries = 2
SPECIFICATION Spec
INVARIANTS TypeOK BufferBounded StoredAtMostOnce NoSilentLoss ShutdownFlushesAll
PROPERTY KeepsMoving
