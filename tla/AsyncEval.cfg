SPECIFICATION FairSpec
CONSTANTS
  Buffers = {b1, b2}
  Slab = slab
  None = none
  MaxNodes = 3
  MaxInputs = 2
  MaxPending = 2
  MaxFaults = 1
  DropsEarly = FALSE
INVARIANT TypeOK
INVARIANT HostReadsRight
INVARIANT UpdatesLand
PROPERTY ReadsStable
PROPERTY CallsReturn
CHECK_DEADLOCK FALSE
