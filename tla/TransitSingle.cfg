CONSTANTS
  s1 = s1
  Streams = {s1}
  B = 4
  PoolSize = 1
  FrameLimit = 3
  MaxWritten = 6
  Allowances = {0, 1, 2}
  MaxCredit = 2
SPECIFICATION FairSpec
INVARIANTS NoProtocolError SenderNeverSmaller NoCreditDeadlock NobodyForgotten ReadsInOrder
PROPERTIES WrittenIsRead ClosesDown ImplementsPipes
