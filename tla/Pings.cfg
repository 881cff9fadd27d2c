CONSTANTS
  None = None
  Interval <- Intervals
  Timeout <- Timeouts
  Epoch <- Epochs
  PingBytes = 3
  Updates <- Data
  Delay = 1
  Cap = 1
  ClockRange = 5
  MaxU32 = 3
  MaxAge = 5
SPECIFICATION Spec
INVARIANTS LiveIsNotTakenForDead SampleIsElapsed SamplesMoveForward

CHECK_DEADLOCK FALSE
PROPERTIES DeadIsNoticed SamplesKeepComing
