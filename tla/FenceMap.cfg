SPECIFICATION FairSpec
CONSTANTS
  Keys = {k1, k2}
  MaxEncoders = 3
  MaxOutputs = 1
INVARIANT TypeOK
INVARIANT WritersFirst
INVARIANT NoDeadWait
INVARIANT MapIsLastWriter
PROPERTY WaitReturns
PROPERTY ImplementsOrder
CHECK_DEADLOCK FALSE
