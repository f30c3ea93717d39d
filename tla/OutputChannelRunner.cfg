SPECIFICATION Spec
CONSTANTS
  Setups <- MCRunnerSetup
  BufferSize = 1
  MaxBatches = 3
INVARIANTS WireInOrder
CHECK_DEADLOCK FALSE
