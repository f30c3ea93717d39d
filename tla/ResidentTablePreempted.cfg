SPECIFICATION Spec
CONSTANTS
  Req <- ThreeRequests
  PromptLen <- ThreePrompts
  MaxTokens <- ThreeMaxTokens
  MaxModelLen = 6
  BlockSize = 2
  NumBlocks = 3
  Watermark = 1
  Lookahead = 0
  TokenBudget = 4
  MaxRunning = 2
  ChunkThreshold = 0
  ChunkedPrefill = TRUE
  AlignedSplit = FALSE
  NoEntry = NoEntry
  MixedCap = 0
  BurstN = 1
  BurstSteps = 1
  BurstCap = 2
  Speculate = TRUE
  Fallbacks = FALSE
  Bails = FALSE
INVARIANTS TableMatches
CHECK_DEADLOCK FALSE
