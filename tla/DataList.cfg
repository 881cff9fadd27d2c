CONSTANTS
  l1 = l1
  l2 = l2
  a1 = a1
  a2 = a2
  a3 = a3
  Lists = {l1, l2}
  Addresses = {a1, a2, a3}
  Byte = {1, 2}
  Chunks <- SmallChunks
  Uninit = Uninit
  Stub = Stub
  Dangling = Dangling
  None = None
SPECIFICATION Spec
INVARIANTS TypeOK OneOwner WellLinked
PROPERTY ImplementsChunks
