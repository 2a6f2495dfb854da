CONSTANTS
  p = p
  q = q
  Values = {0, 1, 2}
  Palettes = {p}
  gray = gray
  ramp = ramp
  lost = lost
  frame_skip = 2
  Calls = {"draw", "palette", "switch", "quit", "expose"}
SPECIFICATION FairSpec
INVARIANT TypeOK
INVARIANT DriverThere
PROPERTY PixelsShown
PROPERTY ClosingEnds
CHECK_DEADLOCK FALSE
