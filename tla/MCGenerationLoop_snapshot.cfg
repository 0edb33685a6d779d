SPECIFICATION Spec
CONSTANTS
  Tokens = {t1, t2}
  Blank = Blank
  Foreign = Foreign
  NoFile = NoFile
  None = None
  StepLimit = 3
  BufferLimit = 4
  Configs <- MCConfigs
  Calls <- ProbeCalls
SYMMETRY Symmetry
INVARIANTS
  ExactContext
  IndicesInBounds
  SnapshotSound
PROPERTIES
  HistoryImmutable
