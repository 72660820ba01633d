CONSTANTS
  N = 2
  Ram = Ram
  Io = Io
  Pages = {Ram, Io}
  Bytes = {0}
  ResetByte = 0
  Volatile <- MCVolatile
  Unmapped = {}
  Cycles = {0, 1, 2}
  StoreCycles = {1}
  LastCycle = 7
  VBlankLine = 2
  LastLine = 4
  InterruptCycles = 2
  MaxCycles = 2
  FrameWrap = 3
SPECIFICATION NesSpec
INVARIANTS
  ParityIsPositional
  BlankOnlyInBlank
  NmiLatency
  NmiNotMerged
  OneWholeFrame
PROPERTIES
  FrameEnds
