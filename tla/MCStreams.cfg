SPECIFICATION MCSpec
CONSTANTS
  Show = {"translation", "framing", "costs", "chat"}
  Inputs <- Framed
  Paths <- AllPaths
  MaxBlocks <- Blocks
  MaxParts <- PartsPerPath
  StartUsages <- Starts
  StopUsages <- Stops
  LateUsages <- Lates
  Announces = {TRUE, FALSE}
INVARIANTS
  WellFormed
  MessageIsDelivered
  UsageIsTrue
  EventsAreWhole
  MetersAreTrue
  RequestIsTheConversation
  SaidIsHeard
CHECK_DEADLOCK FALSE
