CONSTANTS
  a = a
  b = b
  c = c
  d = d
  Node = {ent, ext, a, b, c, d}
  entry = ent
  exit = ext
  Width = 4
  Copies <- Mixed
  Recordings <- Layers
SPECIFICATION FairSpec
INVARIANT WellFormed
INVARIANT FusionComplete
PROPERTY CopiesExact
PROPERTY Returns
CHECK_DEADLOCK FALSE
