\* A table that has lost a column.
CONSTANTS
  Foreign = foreign
  InitialDatabase = TRUE
  InitialForeign = FALSE
  MaxStarts = 2
SPECIFICATION SchemaSpec
INVARIANT MissingColumnsAdded
CHECK_DEADLOCK FALSE
