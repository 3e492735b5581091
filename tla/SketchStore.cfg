SPECIFICATION Spec
CONSTANTS
  Ids = {n1, n2, n3, n4}
  Records = {r1, r2}
  Garbage = Garbage
  Absent = Absent
  ChunkSize = 2
  RecordSizes = {8, 16}
SYMMETRY MCSymmetry
INVARIANT SlotsAccounted
PROPERTY ImplementsRecordMap
