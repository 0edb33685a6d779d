SPECIFICATION Spec
CONSTANTS
  Body <- CausalDeltaLoop
  SelfClearing <- Handles
  Reads <- AllReads
INVARIANTS
  NothingLeaks
