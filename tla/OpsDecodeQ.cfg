SPECIFICATION Spec
CONSTANTS
  Refused = Refused
  GroupSize = 2
  PerByte = 2
  BytesPerWord = 1
  SlackQuantum = 4
  SoftmaxLimit = 3
  SteelHeadDim = 2
  RopeHeads = 2
  Leaves <- MCLeaves
  Shapes <- MCShapes
  HeadDims = {2}
  QWeight <- MCQWeight
  RopeOffset = 5
  CallersOnly = FALSE
  MaxSteps = 2
INVARIANT DecodeReadsDenseQ
CHECK_DEADLOCK FALSE
