CONSTANTS
  a = a
  b = b
  c = c
  d = d
  B1 = B1
  B2 = B2
  Node = {ent, ext, a, b, c, d, B1, B2}
  entry = ent
  exit = ext
  Batch = {B1, B2}
  Device = {0, 1, 2}
  EdgeSets <- Spanning
  Labels <- SmallLabels
SPECIFICATION FairSpec
INVARIANT TopIsQuotient
INVARIANT OrderNotLost
INVARIANT SubGraphsSound
INVARIANT IslandsMaximal
PROPERTY Returns
CHECK_DEADLOCK FALSE
