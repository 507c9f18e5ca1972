SPECIFICATION Spec
CONSTANTS
  CpuNum = 1
  CommSize = 2
  Shapes <- ByteShapes
INVARIANTS
  EveryByteReduced
