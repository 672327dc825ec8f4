SPECIFICATION MCSpec
CONSTANTS
  Show = {"bundle", "quota"}
  NoBytes = NoBytes
  Byte <- MCByte
  Versions <- MCVersions
  Raw <- MCRaw
  Accepted <- MCAccepted
  ChunkSize = 2
  MaxSlots = 3
  MaxRestarts = 1
  QuotaSpecs <- Exact
  MaxQuotaChanges = 3
INVARIANTS LoadedWhole SkipsOnlyWhatItRuns
INVARIANTS SnapshotIsCurrent ChecksAreLimited ChargesMeetChecks
PROPERTIES Delivers Converges
