SPECIFICATION FairSpec
CONSTANTS
  r1 = r1
  r2 = r2
  NoKey = NoKey
  Req <- MCReq2
  Keys <- MCKeys
  BlockHash <- MCBlockHash
  PromptLen <- MCPromptLen
  NumBlocks = 4
  MaxLen = 4
  TokenBudget = 3
  LongPrefill = 0
  MaxRunning = 2
  Watermark = 0
  Depth = 2
  MaxExternal = 1
  MaxLater = 0
  MaxAborts = 0
PROPERTIES EveryRequestEnds
