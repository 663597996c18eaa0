SPECIFICATION Spec
CONSTANTS
  CorpusSizes <- MCSizes
  MaxAttempts = 2
  Templates <- MCTemplates
  Blocks <- MCBlocks
  LongestBlock = 25
  MaxDraws = 2
  Values <- MCValues
  Plain <- MCPlain
  MaxText = 4
  MaxSegs = 3
INVARIANTS
  GoldFollowsMode PlansPassTheirChecks LongDocumentFits DocumentsHoldTogether
CHECK_DEADLOCK FALSE
