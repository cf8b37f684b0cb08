SPECIFICATION EmbedSpec
CONSTANTS
  Absent = Absent
  NoManifest = NoManifest
  Nobody = Nobody
  NoPlan = NoPlan
  Paths = {"p", "q"}
  Contents = {"a"}
  Configs <- MCBothDimensions
  Retired <- MCRetired
  Enabled <- MCEnabled
  Chunks <- MCChunks
  LegacyStorage <- MCLegacyStorage
  Appliers = {x}
  MaxInputs = 2
  MaxConcurrency = 1
  Faults = {"crash", "database", "cancel", "transform"}
  MaxGeneration = 2
  MaxRuns = 2
  MaxPaid = 2
INVARIANTS
  PublishedFromBank
  RunRecordTrue
