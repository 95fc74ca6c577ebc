SPECIFICATION FairSpec
CONSTANTS
  ChunkSize = 2
  MaxCounter = 2
  MaxPiece = 5
  MaxInput = 8
  AADs = {TRUE, FALSE}
  MaxHeaderLen = 2
  PullSizes <- MCPullSizes
  MaxTampers = 1
INVARIANTS
  NonceOnce
  ChunksInPlace
  MemoryBounded
  IntactOpens
PROPERTIES
  RefinesChannel
  OpenerEnds
CHECK_DEADLOCK FALSE
