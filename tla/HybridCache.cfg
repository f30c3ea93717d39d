SPECIFICATION FairSpec
CONSTANTS
  r1 = r1
  r2 = r2
  r3 = r3
  NoKey = NoKey
  Req <- MCReq
  Text <- MCText
  PromptLen <- MCPromptLen
  Keys <- MCKeys
  NumBlocks = 8
  BlockSize = 2
  MaxLen = 8
  TokenBudget = 4
  MaxRunning = 2
  Watermark = 1
  Depth = 2
INVARIANTS Consistent CacheNeverLies OwnMemory TwoStatesAtMost
PROPERTIES EveryRequestEnds
CHECK_DEADLOCK FALSE
