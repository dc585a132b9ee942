SPECIFICATION Spec
CONSTANTS
  MaxNodes = 4
  MaxInputs = 2
  ChunkOps = 3
  EmptyUpdates = FALSE
INVARIANT TypeOK
INVARIANT ScheduleSound
INVARIANT WavesInOrder
INVARIANT ElisionProven
CHECK_DEADLOCK FALSE
