SPECIFICATION Spec
CONSTANTS
  MaxNodes = 4
  MaxInputs = 2
  ChunkOps = 3
  EmptyUpdates = TRUE
CHECK_DEADLOCK FALSE
INVARIANT ElisionProven
