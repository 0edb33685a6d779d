SPECIFICATION Spec
CONSTANTS
  U32 = 16
  MaxWorkers = 15
  Logits = {1, 2, 3}
  Lowest = 0
  MaxVocab = 5
  MaxTop = 3
  Chars = {"a", "b"}
  MaxText = 6
  Tokenizers <- MCTokenizers
  Capacity = 5
  MaxSegment = 4
  ThreadCounts = {0, 1, 2, 65}
  SizeMax = 127
  Alignment = 4
  FirstCapacity = 8
  Doublings = 3
  FloatSize = 2
  DoubleSize = 4
  Dims = {1, 3, 5, 17}
  Words = 16
  FileSizes = {7, 15}
  MaxTensors = 3
  Declared = {0, 1, 3, 7}
  QxAlign = 2
  QxHeader = 1
  QxEntry = 1
INVARIANTS
  RowsPartitioned TopIsBest NeverGivesUp TokensSpellText SpecialsTaken
  CutAsRegex RefusedAtOnce BuffersLive ConversionSound
CHECK_DEADLOCK FALSE
