SPECIFICATION Spec
CONSTANTS
  CommSize = 6
  Inputs <- EightForSix
  EagerLimit = 2
INVARIANTS
  SortedOutput
