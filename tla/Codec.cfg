CONSTANTS
  None = None
  Frames <- SmallFrames
  FrameLimit = 2
  Cap = 3
  ClockRange = 3
  CreditLen = 2
  StampLen = 2
  RawByte = 9
  MaxRaw = 2
  OtherBytes = {0, 1}
  Ended = Ended
  Cut = Cut
  Bad = Bad
SPECIFICATION Spec
INVARIANTS TypeOK HandoverExact RefusesExactly
PROPERTIES ImplementsFrames FramesArrive
CHECK_DEADLOCK FALSE
