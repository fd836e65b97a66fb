CONSTANTS
  a = a
  b = b
  c = c
  h = h
  Node = {ent, ext, a, h, b, c}
  entry = ent
  exit = ext
SPECIFICATION MCSpec
SYMMETRY Interchangeable
INVARIANT TypeOK
INVARIANT WellFormed
INVARIANT StaysCoherent
INVARIANT MatrixExact
PROPERTY OrderKept
PROPERTY EdgesReduced
PROPERTY ComplexityFalls
CHECK_DEADLOCK FALSE
