SPECIFICATION FairSpec
CONSTANTS
  CHUNK_SIZE = 8
  CpuNum = 3
  Areas <- BorderAreas
INVARIANTS
  TypeOK
  NoPixelLost
  Exclusive
  PointerStable
  AlignedStores
  PictureComplete
  JunkOnlyLast
PROPERTIES
  SharesWork
  Termination
