CONSTANTS
  Window = 1
  MaxChunk = 1
  Ids = {0}
  MaxStreams = 1
  WireCap = 1
SPECIFICATION Spec
INVARIANT NeverShutsDown
CHECK_DEADLOCK FALSE
