SPECIFICATION Spec
CONSTANTS
  Cartridges <- MCCartridges
  DeviceBytes = {0, 1, 127, 128, 255}
  Buttons = {0}
  MaxCycles = 8
  MaxEvents = 2
INVARIANTS
  PadByteAsLatched
PROPERTIES
  ReturnResumes
  ArithmeticExact
  StepLengths
  HandlersUnseen
CHECK_DEADLOCK FALSE
