SPECIFICATION ServerSpec
CONSTANTS
  Absent = Absent
  NoManifest = NoManifest
  NoQuery = NoQuery
  NoBuild = NoBuild
  NoLocator = NoLocator
  Paths = {"p", "q"}
  Contents = {"a", "b"}
  Configs <- MCConfigs
  Retired <- MCRetired
  Enabled <- MCEnabled
  Chunks <- MCChunks
  LegacyStorage <- MCLegacyStorage
  TablesFound <- MCTablesFound
  ToolConfigs <- MCToolConfigs
  LongContents <- MCLongContents
  MaxGeneration = 3
  LastGeneration = 2
  MaxTokens = 6
  CandidateK = 3
  ReturnK = 2
  RRFK = 7
  DefaultMode = "hybrid"
  SearchChunks <- MCSearchChunks
  PathEvidence <- MCPathEvidence
  Requests <- MCRequests
  Snapshots <- MCSnapshots
INVARIANTS
  SameSpace
  NoFalseAlarm
  AgreementKept
  LanesKeepTheBest
  BudgetKeptAndUsed
PROPERTIES
  PaidQueryUsed
  CleanStatusIsTrue
