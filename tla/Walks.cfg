CONSTANTS
  Node = {ent, ext, a, b, c}
  Graph = {top, sub}
  top = top
  entry = ent
  exit = ext
  no_graph = no_graph
  Bits = 2
  MaxWalks = 4
SPECIFICATION WalksSpec
SYMMETRY Interchangeable
INVARIANT WalksTypeOK
INVARIANT TopWalksSeeAll
CHECK_DEADLOCK FALSE
