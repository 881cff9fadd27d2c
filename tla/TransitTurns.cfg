CONSTANTS
  s1 = s1
  s2 = s2
  s3 = s3
  Streams = {s1, s2, s3}
  B = 1
  PoolSize = 1
  FrameLimit = 1
  MaxWritten = 2
  Allowances = {0, 1}
  MaxCredit = 1
SYMMETRY Symmetry
SPECIFICATION TrafficSpec
INVARIANTS NoLostTurn MemoryBounded
