SPECIFICATION FairSpec
CONSTANTS
  Req <- FourRequests
  PromptLen <- FourPrompts
  MaxTokens <- FourMaxTokens
  MaxModelLen = 18
  BlockSize = 2
  NumBlocks = 8
  Watermark = 1
  Lookahead = 0
  TokenBudget = 14
  MaxRunning = 3
  ChunkThreshold = 8
  ChunkedPrefill = TRUE
  AlignedSplit = TRUE
  NoEntry = NoEntry
  MixedCap = 1
  BurstN = 1
  BurstSteps = 1
  BurstCap = 2
  Speculate = TRUE
  Fallbacks = FALSE
  Bails = TRUE
INVARIANTS Bounded QueuesInOrder
CHECK_DEADLOCK FALSE
PROPERTIES EveryRequestFinishes
