SPECIFICATION Spec
CONSTANTS
  Systems <- MCSystems
  Tagged <- MCTagged
  Order <- MCOrder
  Registered <- MCRegistered
  Measures <- MCMeasures
  Absent = Absent
  None = None
  nan = nan
  Unit = 7
  Sizes = {144, 288}
  Grain = 72
  NEpochs = 3
  Records = 6
  Given <- MCGiven
  MaxCached = 1
  Skew = 1
  Queries = 4
  Inserted = 72
  Floor = 1
INVARIANTS
  FiguresCurrent
  CurvesForward
  OneRun
  ReportsAgree
  FootprintFiled
  MergesTile
