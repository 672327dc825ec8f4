SPECIFICATION MCSpec
CONSTANTS
  Show = {"translation"}
  Inputs <- Framed
  Paths <- AllPaths
  MaxBlocks <- Blocks
  MaxParts <- PartsPerPath
  StartUsages <- Starts
  StopUsages <- Stops
  LateUsages <- Lates
  Announces = {TRUE, FALSE}
INVARIANT EveryDeltaHasItsBlock
CHECK_DEADLOCK FALSE
