\* Two timers, created one after the other at the same address.
CONSTANTS
  Threads = {t1}
  NumAddrs = 1
  MaxTimers = 2
  MaxTime = 1
  Delays = {0}
  MaxClockSets = 0
SPECIFICATION Spec
INVARIANTS IdNamesItsTimer
CHECK_DEADLOCK FALSE
