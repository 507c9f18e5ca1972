SPECIFICATION FairSpec
CONSTANTS
  CommSize = 4
  Inputs <- AllLengths
  EagerLimit = 2
INVARIANTS
  TypeOK
  InLockstep
  AtMostTwoInFlight
  StopTogether
  SortedOutput
PROPERTIES
  Termination
