\* One thread beside the loop thread, two timers that may live at the same of two
\* addresses, one-shot or repeating; the clock is set once at most.
CONSTANTS
  Threads = {t1}
  NumAddrs = 2
  MaxTimers = 2
  MaxTime = 2
  Delays = {0, 2}
  MaxClockSets = 1
SPECIFICATION FairSpec
INVARIANTS TimersConsistent CancelIsFinal NothingLost
PROPERTY TimersFire
CHECK_DEADLOCK FALSE
