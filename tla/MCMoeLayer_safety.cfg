SPECIFICATION MoeSpec
CONSTANTS
  Experts = {e1, e2, e3}
  Ranks = 2
  Rows = 2
  Keys <- MCKeys
  SizeOf <- MCSizeOf
  Bytes <- MCBytes
  SliceKey <- MCSliceKey
  Budget = 6
  CounterMax = 20
  Addrs = {a1, a2, a3, a4, a5}
  Borrows = {b}
  Local = b
  NULL = NULL
SYMMETRY Symmetry
INVARIANTS
  ReadersHoldSlice
  NothingPinnedBetween
  NothingOutlivesTheRun
PROPERTIES
  SumsOwnProducts
