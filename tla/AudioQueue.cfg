CONSTANTS
  MaxSize = 3
  BlockSizes = {2, 4}
  MaxSent = 8
SPECIFICATION Spec
INVARIANTS
  QueueBounded
  BlockHasNoGap
PROPERTIES
  LockReleased
  ImplementsFifo
