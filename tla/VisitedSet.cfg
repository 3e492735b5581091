SPECIFICATION SpecVisited
CONSTANTS
  Epochs = 5
  DenseLimit = 3
  IdLimit = 5
INVARIANTS
  NoFutureEpoch
PROPERTY ImplementsFreshSet
