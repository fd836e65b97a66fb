CONSTANTS
  entry = entry
  exit = exit
  a = a
  b = b
  c = c
  e = e
  Node = {entry, exit, a, b, c, e}
  Pointer = 2
  MaxPasses = 2
  Value <- MCValue
  Recordings <- MCRecordings
SPECIFICATION Spec
INVARIANTS
  OrderKept
  BindingsKept
  HeapSound
  AbortExplained
PROPERTY
  ChainsMaximal
CHECK_DEADLOCK FALSE
