SPECIFICATION Spec
CONSTANTS
  N = 4
  K = 2
  Overlap = 2
  R = 2
  Threads = 1
  Chunk = 2
  SkewTenths = 7
  MaxEdges = 7
  Rows <- MCRowsReaching
  Overflow = Overflow
  Dist <- MCDist
  Full = TRUE
  Faults = {"header"}
INVARIANT FaultsThrow
