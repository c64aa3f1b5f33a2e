\* Two descriptors, so that the next socket gets the one just closed; the delay
\* is doubled twice before it reaches its limit.
CONSTANTS
  NumFds = 2
  InitDelay = 1
  MaxDelay = 3
  Retries = {TRUE, FALSE}
SPECIFICATION FairSpec
INVARIANTS AttemptsConsistent StopHolds
PROPERTY Connects
CHECK_DEADLOCK FALSE
