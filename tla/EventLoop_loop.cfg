\* Two foreign threads, three functors, one I/O channel; poll is not assumed to
\* time out.
CONSTANTS
  Threads = {t1, t2}
  Functors = {f1, f2, f3}
  Channels = {c1}
  Wakeup = wakeup
SPECIFICATION FairSpec
INVARIANTS TypeOK NoLostWakeup NoLostQuit ExactlyOnceInOrder
PROPERTIES ImplementsTaskQueue LoopResponds
