SPECIFICATION Spec
CONSTANTS
  Ids = {n1, n2, n3, n4}
  Lists = {l1, l2}
  Missing = Missing
  NoId = NoId
  Capacity = 3
  TableSize = 8
  Homes = {0, 6, 7}
SYMMETRY MCSymmetry
INVARIANTS
  TableSound
  ArenaPartitioned
PROPERTY ImplementsLruMap
