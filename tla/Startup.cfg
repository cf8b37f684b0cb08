SPECIFICATION StartupSpec
CONSTANTS
  Procs = {p1, p2, p3}
  Nobody = Nobody
  Openers = {o1, o2, o3}
  NoFile = NoFile
SYMMETRY Alike
INVARIANTS
  ConfigMeansDatabase
  ClaimIsKept
  FailureLeavesUnremovable
  OneWins
  AlwaysOpens
  SomeoneOpens
  RowsSurvive
CHECK_DEADLOCK FALSE
