SPECIFICATION FairSpec
CONSTANTS
  U32 = 8
  NWorkers = 3
  RowCounts = {2, 7}
  Contexts = {c1, c2}
  NULL = NULL
  MaxJobs = 2
INVARIANTS NoLateReader NoLostWakeup DisjointWriters NoUseAfterFree
PROPERTIES ImplementsForkJoin CallsReturn
