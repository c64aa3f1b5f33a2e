\* Two workers and two producers of two tasks each, with and without a bound
\* on the queue: both sides block, and wake each other.
CONSTANTS
  Workers = {w1, w2}
  Producers = {p1, p2}
  MaxTasks = 2
  MaxQueueSizes = {0, 1, 2}
  NoTask = NoTask
SPECIFICATION FairSpec
INVARIANT QueueConsistent
PROPERTIES ImplementsTaskQueue PoolResponds
CHECK_DEADLOCK FALSE
