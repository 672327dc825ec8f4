SPECIFICATION MCSpec
CONSTANTS
  Show = {"quota"}
  NoBytes = NoBytes
  Byte <- MCByte
  Versions <- MCVersions
  Raw <- MCRaw
  Accepted <- MCAccepted
  ChunkSize = 2
  MaxSlots = 3
  MaxRestarts = 1
  Reverts = FALSE
  MaxEdits = 2
  QuotaSpecs <- Exact
  MaxQuotaChanges = 3
INVARIANTS LoadedWhole SkipsOnlyWhatItRuns RequestsRunTheirFilters
INVARIANTS SnapshotIsCurrent ChecksAreLimited ChargesMeetChecks
PROPERTIES Delivers Converges NamesSettle
