CONSTANTS
  i1 = i1  i2 = i2  i3 = i3
  Item <- MCItem2
  Nil = Nil
  InitialSize = 1
  MaxSize = 2
  TaskCap = 1
  PoolSize = 2
  MaxBuffer = 1
  MaxLost = 1
SPECIFICATION Spec
INVARIANT AcceptedNotDiscarded
