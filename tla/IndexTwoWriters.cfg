SPECIFICATION IndexSpec
CONSTANTS
  Absent = Absent
  NoManifest = NoManifest
  Unlocked = Unlocked
  Enabled <- MCEnabled
  Chunks <- MCChunks
  LegacyStorage <- MCLegacyStorage
  Paths = {"p", "q"}
  Contents = {"a", "b", "big"}
  Configs <- MCTwoConfigs
  Retired <- MCNoRetired
  Indexers = {x, y}
  Oversize = {"big"}
  Unsafe = {}
  MaxGeneration = 1
  MaxVectors = 0
INVARIANTS
  ManifestNamesFiles
  NoSpuriousRefusal
  IncrementalEqualsRebuild
SYMMETRY IndexerSymmetry
