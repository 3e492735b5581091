SPECIFICATION Spec
CONSTANTS
  N = 5
  K = 3
  Overlap = 2
  R = 2
  Threads = 2
  Chunk = 2
  SkewTenths = 10
  MaxEdges = 7
  Rows <- MCRowsTied
  Overflow = Overflow
  Dist <- MCDist
  Full = TRUE
  Faults = {"write", "body"}
INVARIANTS
  AssignmentSound
  ShardsCover
  SplitBounded
  GivesUpOnlyUncovered
  RowsExact
