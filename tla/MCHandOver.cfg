CONSTANTS
  i1 = i1  i2 = i2  i3 = i3  i4 = i4  i5 = i5
  c1 = c1  c2 = c2  c3 = c3  c4 = c4  c5 = c5
  u1 = u1  u2 = u2  u3 = u3  w1 = w1  w2 = w2
  Nil = Nil
  Item <- MCItem
  InitialSize = 1
  MaxSize = 3
  Call <- MCCall
  Worker <- MCWorker
  WorkerOf <- MCWorkerOf
  UserOf <- MCUserOf
  Capacity = 1
  a1 = a1  a2 = a2
  BatchSize = 31
  Adjuster <- MCAdjuster
  q1 = q1  q2 = q2
  Request <- MCRequest
  Single <- MCSingle
  EventsOf <- MCEventsOf
  Scale = 1
  RateLimit = 1
  Quota = 2
  QueueSize = 1
  LastTick = 2
SPECIFICATION MCSpec
INVARIANTS TypesOK FifoOrder NeverBlocksUnderLock RunsInTurn RateLimited CountedIsEntered
PROPERTIES FifoSpec KeepsMoving
