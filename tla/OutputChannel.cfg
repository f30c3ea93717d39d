SPECIFICATION FairSpec
CONSTANTS
  Setups <- MCSetups
  BufferSize = 1
  MaxBatches = 3
INVARIANTS Accounted DemotionIsFinal
PROPERTIES ImplementsStream EveryBatchArrives
CHECK_DEADLOCK FALSE
