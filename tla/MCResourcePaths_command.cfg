SPECIFICATION Spec
CONSTANTS
  Body <- LeakingCommand
  SelfClearing <- Handles
  Reads <- AllReads
INVARIANTS
  NothingLeaks
