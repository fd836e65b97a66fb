CONSTANTS
  Node = {ent, ext, a, b, c}
  Graph = {top, sub}
  top = top
  entry = ent
  exit = ext
  no_graph = no_graph
  Bits = 2
  MaxWalks = 1
SPECIFICATION WalksSpec
INVARIANT SubGraphWalksSeeAll
CHECK_DEADLOCK FALSE
