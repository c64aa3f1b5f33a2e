\* Three starts over any leftovers, killed and disconnected anywhere.
CONSTANTS
  Foreign = foreign
  InitialDatabase = TRUE
  InitialForeign = TRUE
  MaxStarts = 3
SPECIFICATION SchemaFairSpec
INVARIANT StartsSound
PROPERTY InitEnds
CHECK_DEADLOCK FALSE
