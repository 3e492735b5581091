CONSTANTS
  BaseN = 3
  PoolN = 3
  NEpochs = 3
  Absent = Absent
  Torn = Torn
  GtK = 4
  BaseChunk = 2
  Distance <- MCDistance
  Sources <- MCSources
  Ratio = "custom"
  InsTenths = 5
  DelTenths = 4
  OpsDivisor = 1
  GtInterval = 2
  MaxQueries = 1
  RawAbove = 100
  ChunkRows = 2
  MaxStarts = 3
SPECIFICATION FairSpec
INVARIANTS
  TruthReplayable
  CopiesSound
PROPERTIES
  WorkloadStable
  DrawsWorkload
  Ends
