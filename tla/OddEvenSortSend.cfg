SPECIFICATION Spec
CONSTANTS
  CommSize = 2
  Inputs <- TwoEach
  EagerLimit = 1
INVARIANTS
  SegmentsArrive
