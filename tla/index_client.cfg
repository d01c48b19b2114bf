SPECIFICATION PartSpec
CONSTANTS
  a1 = a1
  a2 = a2
  a3 = a3
  Hook = {a1, a2}
  Sig = {"q1", "q2"}
  Table = {"t1"}
  ChainTables <- MCChainTables
  MaxCommits = 1
  MaxReads <- MCMaxReads
  MaxLoops = 2
  MaxAttempt = 1
  Request = {a1, a2, a3}
  Tenant = {t1, t2}
  Colo = {x1, x2}
  Method = {"GET", "PATCH", "PUT", "DELETE"}
  MaxVersions = 3
  Caller = {a1, a2}
  MaxTries = 2
  MaxResends = 1
  MutateCall = {m1, m2, m3}
  StrictMode = FALSE
  IxDoc = {d1}
  IxValue = {1, 2, 3}
  FilterMiss = {3}
  RebuildDef = "full"
  Committer = {a1, a2}
  Scanner = {s1}
  PreimageGets = 2
SYMMETRY PairSymmetry
INVARIANTS
  OnePollPerTable
  ReportedIsShown
  ParkedOnlyOnDeadPoll
  RecoveryBacksOff
  StaleEntryIsExplained
  ClientAnswerIsTrue
  PendingIsTrue
  LiveRowIndexed
  IndexReadExact
  RebuildExact
PROPERTIES
  DataNeverRegresses
CHECK_DEADLOCK FALSE
