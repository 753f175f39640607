SPECIFICATION FairSpec
CONSTANTS
  MaxDives = 3
  Kinds <- MCKinds
  DiveLen = 2
  ChunkSize = 3
  DiskFull = FALSE
INVARIANTS TypeOK BufferFollowsStream DivesInOrder GroupedDivesAreKept SocketIsReleased
PROPERTIES TokenKeepsPromise RunEnds
