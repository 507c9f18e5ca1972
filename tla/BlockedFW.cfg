SPECIFICATION Spec
CONSTANTS
  Inputs <- SmallGraphs
  BlockSize = 2
  ThreadNum = 3
  DISINF = 13
  MaxWeight = 2
INVARIANTS
  TypeOK
  NoConflict
  RoundsMatch
  Distances
