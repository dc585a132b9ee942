SPECIFICATION Spec
CONSTANTS
  MaxTokens = 2
  Steps = {1, 2}
  MaxUpdates = 4
  MaxResets = 1
  MaxKept = 1
  MaxJobs = 4
INVARIANT TypeOK
INVARIANT AttentionReadsPrefix
INVARIANT LatestHoldsPrefix
INVARIANT NothingToReplay
PROPERTY PrefixSurvives
CHECK_DEADLOCK FALSE
