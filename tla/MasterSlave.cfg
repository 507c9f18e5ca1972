SPECIFICATION FairSpec
CONSTANTS
  CpuNum = 1
  CommSize = 3
  Shapes <- SmallShapes
INVARIANTS
  TypeOK
  AnswersBalance
  OnePlacePerPixel
PROPERTIES
  SharesWork
  Termination
