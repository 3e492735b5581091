SPECIFICATION FairSpec
CONSTANTS
  NEpochs = 2
  Absent = Absent
  None = None
  MaxTime = 2
  BuildSamples = 1
  RunSamples = 2
  MaxWalks = 1
  MaxAttempts = 1
INVARIANT PreStream
