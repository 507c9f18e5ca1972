SPECIFICATION Spec
CONSTANTS
  CHUNK_SIZE = 8
  CpuNum = 1
  Areas <- OddAreas
INVARIANTS
  EveryPixelOwn
