SPECIFICATION MCSpec
CONSTANTS
  Show = {"framing"}
  Inputs <- Framed
  Paths <- AllPaths
  MaxBlocks <- Blocks
  MaxParts <- PartsPerPath
  StartUsages <- Starts
  StopUsages <- Stops
  LateUsages <- Lates
  Announces = {TRUE, FALSE}
INVARIANT LineEndsAreHandled
CHECK_DEADLOCK FALSE
