SPECIFICATION Spec
CONSTANTS
  Buffers = {b1, b2, b3}
  Sizes <- MCSizes
  Caps <- MCCaps
  DefaultCap = 4
  MaxTakes = 5
SYMMETRY Symmetric
INVARIANT TypeOK
INVARIANT SoleOwner
INVARIANT ExactSize
INVARIANT BytesAccounted
PROPERTY EvictsToFit
PROPERTY ImplementsLending
CHECK_DEADLOCK FALSE
