SPECIFICATION Spec
CONSTANTS
  even = even
  odd = odd
  padded = padded
  hollow = hollow
  twins = twins
  meta = meta
  Models = {even, odd, padded, hollow, twins, meta}
  Metadata = {meta}
  Tensors = 2
  Name <- MCName
  Given <- MCGiven
  Bytes <- MCBytes
  Offset <- MCOffset
  Align = 2
  MaxSize = 8
  None = None
INVARIANTS
  OpensComplete
  SuccessIsUsable
PROPERTIES
  VerifiesGenuine
  ImplementsModelFile
