SPECIFICATION Spec
CONSTANTS
  Inputs <- SmallGraphs
  B = 2
  INF = 15
  IntMax = 31
INVARIANTS
  TypeOK
  RoundsMatch
  OutputIsDistances
PROPERTIES
  RacesAreBenign
