SPECIFICATION MCSpec
CONSTANTS
  Count = 2
  Limit = 1
  TileWidth = 3
  TileHeight = 2
  Ys = {0, 2}
  Tiles = {3}
  Attrs <- MCAttrs
  Xs = {1}
  WrittenMasks <- MCMasks
  Opaque <- MCOpaque
  LastVisibleLine = 2
  LastLine = 3
  LeftEnd = 2
  Evaluation = 3
  LastVisible = 5
  Fetch = 6
  LastDot = 7
  MaxWrites = 2
INVARIANTS
  PixelAsEvaluated
  ZeroHitMeansMet
  OverflowAnnounced
  FailsOnlyBySwitch
CHECK_DEADLOCK FALSE
