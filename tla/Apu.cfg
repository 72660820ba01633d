SPECIFICATION MCSpec
CONSTANTS
  FramePeriod = 2
  SeqWrap = 16
  Top = 2
  Lengths = {3}
  Volumes <- MCVolumes
  Sweeps <- MCSweeps
  PeriodsLow = {1}
  PeriodsHigh = {0}
  Linears <- MCLinears
  Enables <- MCEnables
  MaxWrites = 2
INVARIANTS
  LengthsAsClocked
  EnvelopeAsElapsed
  FrameRhythm
  IrqEveryFourthTick
