SPECIFICATION MCSpec
CONSTANTS
  Slots = {1, 2}
  Workloads = {"deployment", "daemonset"}
  MaxEvents = 2
  Kinds = {"early", "late"}
  Window = 2
  Lifetimes = {1, 5, 6}
  Second = 2
  Coincidence = FALSE
  Horizon = 10
  MaxFaults = 2
  MaxEdits = 2
  MCPRoutes = {"r1", "r2"}
  Backends = {"b1", "b2"}
  Scenarios <- Plays
  MaxFailures = 1
  Reverts = FALSE
  MaxRouteEdits = 2
INVARIANTS CredentialsKept ResourcesAsAsked PodsServeRoutes
INVARIANT RequestsRunTheirFilters
PROPERTIES EveryRolloutEnds NamesSettle
CHECK_DEADLOCK FALSE
