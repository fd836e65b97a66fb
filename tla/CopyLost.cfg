CONSTANTS
  a = a
  b = b
  c = c
  d = d
  Node = {ent, ext, a, b, c, d}
  entry = ent
  exit = ext
  Width = 4
  Copies <- Ranges
  Recordings <- Layers
SPECIFICATION Spec
PROPERTY NoCopyLost
CHECK_DEADLOCK FALSE
