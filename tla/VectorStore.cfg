SPECIFICATION Spec
CONSTANTS
  Ids = {i1, i2, bad}
  Unencodable = {bad}
  Sections = {s1, s2}
  Pages = {p1, p2}
  SlotsPerPage = 2
  RecordOf <- MCRecordOf
  Blank = Blank
  Torn = Torn
  Absent = Absent
  Unread = Unread
  NoPage = NoPage
  NoSection = NoSection
  CacheSizes = {1}
  RecyclesSlotZero = FALSE
SYMMETRY MCSymmetry
INVARIANTS
  CacheCoherent
  StoredReadable
PROPERTIES
  OthersUntouched
  ImplementsVectorMap
