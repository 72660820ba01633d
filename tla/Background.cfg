\* A picture of three tiles by two lines, in a plane of the real size.  The
\* scrolls are none, one across that wraps, and two down, of which the picture
\* crosses from one table into the next.
SPECIFICATION MCSpec
CONSTANTS
  LAST_VISIBLE_FETCH_CYCLE = 17
  LAST_VISIBLE_CYCLE = 24
  TRANSFER_SCOLLX_CYCLE = 25
  TRANSFER_SCROLLY_CYCLE = 28
  START_NEXT_SCANLINE_FETCHING_CYCLE = 33
  LAST_NEXT_SCANLINE_FETCHING_CYCLE = 48
  LAST_CYCLE = 52
  LAST_VISIBLE_SCANLINE = 1
  LAST_SCANLINE = 2
  Vertical = FALSE
  ScrollXs = {0, 501}
  ScrollYs = {0, 239, 479}
  MaxWrites = 2
INVARIANTS
  FetchIsValid
  PixelAsScrolled
