SPECIFICATION Spec
CONSTANTS
  Ids = {i1, i2, i3}
  Unencodable = {}
  Sections = {s1}
  Pages = {p1, p2, p3}
  SlotsPerPage = 1
  RecordOf <- MCRecordOf
  Blank = Blank
  Torn = Torn
  Absent = Absent
  Unread = Unread
  NoPage = NoPage
  NoSection = NoSection
  CacheSizes = {0, 1, 2}
  RecyclesSlotZero = FALSE
SYMMETRY MCSymmetry
INVARIANTS
  CacheIndexExact
PROPERTIES
  ImplementsFifoPages
