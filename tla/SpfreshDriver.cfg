SPECIFICATION FairSpec
CONSTANTS
  BaseN = 3
  PoolN = 4
  NEpochs = 3
  InsPer = 2
  DelPer = 1
  GtInterval = 2
  MayFail = {"add", "delete"}
  VidGap = 1
  Slack = 0
  Growth = 1
  JobsPerAdd = 1
  TopK = 1
INVARIANTS
  IdsOnce
  MapsAgree
  LeaksDetected
  LiveCounted
  MeasuresActive
PROPERTIES
  LeaksReal
  Replayed
