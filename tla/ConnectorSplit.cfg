SPECIFICATION FairSpec
CONSTANTS
  r1 = r1
  r2 = r2
  NoKey = NoKey
  Req <- MCReq2
  Keys <- MCKeys
  BlockHash <- MCBlockHash
  PromptLen <- MCPromptLen
  NumBlocks = 4
  MaxLen = 3
  TokenBudget = 3
  LongPrefill = 0
  MaxRunning = 2
  Watermark = 0
  Depth = 2
  MaxExternal = 2
  MaxLater = 1
  MaxAborts = 1
INVARIANTS Consistent RowsHoldTheirText LoadsAreExclusive LoadsStartAfterTheHit
PROPERTIES ParkingLeavesRoom EveryRequestEnds
