SPECIFICATION MoeFairSpec
CONSTANTS
  Experts = {e1, e2}
  Ranks = 1
  Rows = 2
  Keys <- MCKeys
  SizeOf <- MCSizeOf
  Bytes <- MCBytes
  SliceKey <- MCSliceKey
  Budget = 3
  CounterMax = 7
  Addrs = {a1, a2}
  Borrows = {b}
  Local = b
  NULL = NULL
PROPERTIES
  LayerReturns
