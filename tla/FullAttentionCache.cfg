SPECIFICATION Spec
CONSTANTS
  r1 = r1
  r2 = r2
  NoKey = NoKey
  Req <- MCReq2
  Keys <- MCKeys
  BlockHash <- MCBlockHash
  PromptLen <- MCPromptLen
  Buckets <- MCBuckets
  BucketOf <- MCBucketOf
  NumBlocks = 4
  BlockSize = 2
  MaxLen = 6
  Ahead = 1
  Lookahead = 0
  Watermark = 1
  MaxEvictions = 1
INVARIANTS TypeOK PoolConsistent RefExact TextIsRight AdmissionSound ReuseOrder
PROPERTIES WritesArePrivate
