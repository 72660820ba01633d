\* Two runs of the program with up to two lines to send; one connection may be
\* reset.  The server's threads wait for ever, or have ended, once the program
\* is through: the system stops there.
SPECIFICATION LogSpec
CONSTANTS
  MaxRuns = 2
  MaxLost = 1
  MaxLines = 2
INVARIANTS
  PrintedAsWritten
  ClosesOnlyItsOwn
PROPERTY
  AllIsPrinted
CHECK_DEADLOCK FALSE
