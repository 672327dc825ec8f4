SPECIFICATION MCSpec
CONSTANTS
  Show = {"quota"}
  NoBytes = NoBytes
  Byte <- MCByte
  Versions <- MCVersions
  Raw <- MCRaw
  Accepted <- MCAccepted
  ChunkSize = 2
  MaxSlots = 3
  MaxRestarts = 1
  QuotaSpecs <- Exact
  MaxQuotaChanges = 1
INVARIANT PolicyReachesEnvoy
