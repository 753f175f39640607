SPECIFICATION Spec
CONSTANTS
  MaxDives = 2
  Kinds <- MCGoodKinds
  DiveLen = 2
  ChunkSize = 3
  DiskFull = FALSE
INVARIANT MarkedDivesAreSaved
