\* Buffers of two lines, a backlog limit of two buffers, files of one line, so
\* that backlogs, drops, rolls and writes that fail half-way all happen within six
\* lines.
CONSTANTS
  Capacity = 2
  DropLimit = 2
  RollSize = 1
  CheckEveryN = 2
  Period = 2
  MaxSec = 2
  MaxLines = 6
SPECIFICATION FairSpec
INVARIANTS BuffersConsistent LogComplete
PROPERTY LoggerResponds
CHECK_DEADLOCK FALSE
