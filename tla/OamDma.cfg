CONSTANTS
  N = 3
  Ram = Ram
  Io = Io
  Pages = {Ram, Io}
  Bytes = {0, 1}
  ResetByte = 0
  Volatile <- MCVolatile
  Unmapped <- MCUnmapped
  Cycles = {0, 2}
  StoreCycles = {1}
SPECIFICATION Spec
INVARIANTS
  CpuHeldDuringDma
  BufferIsFresh
PROPERTIES
  ImplementsCopy
  DmaEnds
