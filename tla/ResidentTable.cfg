SPECIFICATION Spec
CONSTANTS
  Req <- TwoRequests
  PromptLen <- TwoPrompts
  MaxTokens <- TwoMaxTokens
  MaxModelLen = 9
  BlockSize = 4
  NumBlocks = 6
  Watermark = 0
  Lookahead = 0
  TokenBudget = 2
  MaxRunning = 2
  ChunkThreshold = 0
  ChunkedPrefill = TRUE
  AlignedSplit = FALSE
  NoEntry = NoEntry
  MixedCap = 0
  BurstN = 2
  BurstSteps = 2
  BurstCap = 2
  Speculate = TRUE
  Fallbacks = TRUE
  Bails = TRUE
INVARIANTS Bounded PromisesInFlight SteadyDecode TableMatches
CHECK_DEADLOCK FALSE
