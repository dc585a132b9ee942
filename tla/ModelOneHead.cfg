SPECIFICATION Spec
CONSTANTS
  Refused = Refused
  P = 10007
  Fn <- MCFn
  SoftmaxLimit = 4096
  SteelHeadDim = 2
  HeadDims = {2, 4}
  Checkpoints <- MCOneHead
  WordBits = 8
  SupportedBits = {2, 3, 4, 5, 6, 8}
  PlainNames = {"a", "b"}
  PadTo = 6
  Vocab = {0, 1}
  MaxTokens = 3
  MaxChunk = 2
  MaxResets = 1
INVARIANT ForwardsRun
CHECK_DEADLOCK FALSE
