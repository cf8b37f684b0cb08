SPECIFICATION FairEmbedSpec
CONSTANTS
  Absent = Absent
  NoManifest = NoManifest
  Nobody = Nobody
  NoPlan = NoPlan
  Paths = {"p", "q"}
  Contents = {"a"}
  Configs <- MCBothDimensions
  Retired <- MCRetired
  Enabled <- MCEnabled
  Chunks <- MCChunks
  LegacyStorage <- MCLegacyStorage
  Appliers = {x, y}
  MaxInputs = 2
  MaxConcurrency = 2
  Faults = {"crash"}
  MaxGeneration = 2
  MaxRuns = 1
  MaxPaid = 1
INVARIANTS
  NoRepeatPayment
  BoughtAsApproved
PROPERTIES
  LockFreed
