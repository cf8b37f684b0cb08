SPECIFICATION EmbedSpec
CONSTANTS
  Absent = Absent
  NoManifest = NoManifest
  Nobody = Nobody
  NoPlan = NoPlan
  Paths = {"p", "q"}
  Contents = {"a"}
  Configs <- MCOneDimension
  Retired <- MCRetired
  Enabled <- MCEnabled
  Chunks <- MCChunks
  LegacyStorage <- MCLegacyStorage
  Appliers = {x}
  MaxInputs = 2
  MaxConcurrency = 1
  Faults = {}
  MaxGeneration = 2
  MaxRuns = 1
  MaxPaid = 2
INVARIANTS
  GroupBankedFirst
