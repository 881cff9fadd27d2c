CONSTANTS
  Window = 1
  MaxChunk = 1
  Ids = {0, 2}
  MaxStreams = 1
  WireCap = 1
SPECIFICATION RunningSpec
INVARIANTS FramesReachTheirStream NoViolation
