CONSTANTS
  s1 = s1
  s2 = s2
  Streams = {s1, s2}
  B = 1
  PoolSize = 1
  FrameLimit = 2
  MaxWritten = 2
  Allowances = {1}
  MaxCredit = 1
SYMMETRY Symmetry
SPECIFICATION ClosingSpec
INVARIANT PoolsInSync
