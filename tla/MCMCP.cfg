\* Every kind of request and of event; the channel may fill.  Heartbeats and
\* events of backends arrive on one of the notification streams as well.  A
\* session meets one reload, two new seeds and a failing call.
CONSTANTS
  Show = {"fanout", "tools", "sessions"}
  Backend = {"b1", "b2"}
  Kinds <- AllKinds
  Cap = 2
  MaxEvents = 2
  Bodies <- AllBodies
  Unnumbered = FALSE
  Listeners = {"s1", "s2"}
  Tools = {"nothing", "few", "many"}
  MaxLoads = 3
  Busy = {"s2"}
  All = All
  NoSource = NoSource
  NoRoute = NoRoute
  Stateless = {"b2"}
  Exact = 8
  MaxReloads = 1
  MaxRestarts = 2
  MaxFaults = 1
SPECIFICATION MCSpec
INVARIANTS FanoutIsWhole ResumePoint ListsWhatChanged SessionsKept ChallengesLead
PROPERTY WaitsEnd
