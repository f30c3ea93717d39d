SPECIFICATION FairSpec
CONSTANTS
  Req = {x1, x2}
  Readers = {TRUE, FALSE}
  BufferSize = 2
INVARIANTS Accounted AbortEndsRequest
PROPERTIES EveryAddHandled
CHECK_DEADLOCK FALSE
