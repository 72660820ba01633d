SPECIFICATION MCSpec
CONSTANTS
  CtrlBytes = {1, 6}
  ScrollBytes = {5, 250}
  AddrBytes = {4, 35, 63, 96, 254}
  DataBytes = {7}
  Vertical = TRUE
  PrgLen = 16384
  ChrLen = 8192
  HasRam = FALSE
  Initial <- MCInitial
  MaxOps = 7
INVARIANTS
  AddressAsWritten
  ScrollAsAsked
  ReadsFollowThePointer
CHECK_DEADLOCK FALSE
