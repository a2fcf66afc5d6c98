CONSTANTS
  i1 = i1  i2 = i2  i3 = i3
  Item <- MCItem3
  Nil = Nil
  InitialSize = 1
  MaxSize = 1
  TaskCap = 1
  PoolSize = 1
  MaxBuffer = 2
  MaxLost = 1
SPECIFICATION Spec
INVARIANTS TypeOK ShutdownInOrder DisagreeOnlyByLoss
PROPERTY KeepsMoving
