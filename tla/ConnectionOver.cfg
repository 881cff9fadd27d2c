CONSTANTS
  Window = 1
  MaxChunk = 1
  Ids = {0}
  MaxStreams = 1
  WireCap = 1
SPECIFICATION FairEndingSpec
PROPERTIES EndsTogether DowngradeFinishes IdsAreFreed
CHECK_DEADLOCK FALSE
