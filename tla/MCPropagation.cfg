SPECIFICATION FairSpec
CONSTANTS
  Worlds <- Chains
  EarlyDelete = FALSE
  Cap = 1
  MaxEvents = 2
INVARIANT RestIsSettled
PROPERTY Converges
CHECK_DEADLOCK FALSE
