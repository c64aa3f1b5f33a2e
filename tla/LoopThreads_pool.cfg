\* No thread, one thread, and three as in EventLoopThreadPool_unittest.cc.
CONSTANTS
  ThreadNums = {0, 1, 3}
  MaxUses = 4
SPECIFICATION LoopsFairSpec
INVARIANTS LoopsConsistent DeadLoopsExplained
PROPERTY ThreadsRespond
CHECK_DEADLOCK FALSE
