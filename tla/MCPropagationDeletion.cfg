SPECIFICATION Spec
CONSTANTS
  Worlds <- Deletions
  EarlyDelete = FALSE
  Cap = 1
  MaxEvents = 2
INVARIANT DeletionArrives
CHECK_DEADLOCK FALSE
