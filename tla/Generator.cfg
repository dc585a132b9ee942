SPECIFICATION Spec
CONSTANTS
  Kinds <- MCKinds
  Window = 5
  Chunk = 2
  Prompts = {1, 3}
  News = {1, 2, 4}
  Depths <- MCDepths
  Huge = 7
  MaxCalls = 2
INVARIANT TypeOK
INVARIANT LookaheadBounded
INVARIANT InStep
PROPERTY RewindQuiet
PROPERTY ImplementsGreedy
PROPERTY NextReturns
CHECK_DEADLOCK FALSE
