CONSTANTS
  ent = ent
  ext = ext
  a = a
  b = b
  c = c
  d = d
  x = x
  B1 = B1
  B2 = B2
  B3 = B3
  Node = {ent, ext, a, b, c, d, x, B1, B2, B3}
  entry = ent
  exit = ext
  Batch = {B1, B2, B3}
  Control = {x}
  Device = {0, 1}
  Width = 4
  Bits = 4
  Rank <- Place
  Requests <- All
SPECIFICATION Spec
INVARIANT WellFormed
INVARIANT BatchesSound
INVARIANT EdgesReduced
PROPERTY BytesKept
PROPERTY PassesEnd
PROPERTY RewritesSchedule
