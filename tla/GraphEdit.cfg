CONSTANTS
  a = a
  b = b
  c = c
  d = d
  e = e
  Node = {ent, ext, a, b, c, d, e}
  entry = ent
  exit = ext
  Control = {b, c}
  Allocated = {a, b, c, d}
  Recordings <- Spanning
SPECIFICATION EditSpec
INVARIANT EditWellFormed
PROPERTY EditsSchedule
CHECK_DEADLOCK FALSE
