SPECIFICATION FairIndexSpec
CONSTANTS
  Absent = Absent
  NoManifest = NoManifest
  Unlocked = Unlocked
  Enabled <- MCEnabled
  Chunks <- MCChunks
  LegacyStorage <- MCLegacyStorage
  Paths = {"p", "q"}
  Contents = {"a", "bad"}
  Configs <- MCProfileConfigs
  Retired <- MCRetired
  Indexers = {x}
  Oversize = {}
  Unsafe = {"bad"}
  MaxGeneration = 2
  MaxVectors = 1
INVARIANTS
  VectorLineage
PROPERTIES
  ImplementsCatalog
  PublishesFreshContents
  LegacyVectorsCarried
  LockReleased
