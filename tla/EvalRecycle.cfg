SPECIFICATION Spec
CONSTANTS
  Buffers = {b1, b2}
  Slab = slab
  None = none
  MaxNodes = 3
  MaxInputs = 2
  MaxPending = 2
  MaxFaults = 0
  DropsEarly = TRUE
INVARIANT NoWriteAfterRead
CHECK_DEADLOCK FALSE
