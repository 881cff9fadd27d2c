CONSTANTS
  Lists = {l1, l2}
  Elements = {e1, e2, e3, e4}
  None = None
SPECIFICATION FairSpec
INVARIANT WellLinked
PROPERTIES ImplementsQueues RemovesTheElement DropReleasesAll
CHECK_DEADLOCK FALSE
