SPECIFICATION Spec
CONSTANTS
  Body <- AllRoutines
  SelfClearing <- Handles
  Reads <- AllReads
INVARIANTS
  NothingLeaks
  NothingMisused
