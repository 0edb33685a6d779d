SPECIFICATION FairSpec
CONSTANTS
  small1 = small1
  small2 = small2
  big = big
  huge = huge
  Keys = {small1, small2, big, huge}
  SizeOf <- MCSizeOf
  Bytes <- MCBytes
  Budget = 3
  CounterMax = 6
  Addrs = {a1, a2, a3}
  Borrows = {b1, b2}
  NULL = NULL
INVARIANTS
  BorrowsValid
  PinsAreBorrows
  Accounting
  NoLeak
PROPERTIES
  EvictsLeastRecent
  ImplementsLibrary
  AcquireReturns
