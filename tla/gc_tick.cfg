SPECIFICATION MaintenanceSpec
CONSTANTS
  Compactor = {f1}
  Pass = {p1, p2}
  Reader = {}
  Data = {1}
  Opaque = {o1}
  NoKey = NoKey
  MaxMarks = 2
  MaxSweeps = 1
  MaxCandidates = 2
  ClockSkew = {TRUE}
  MaxPos = 1
  MaxGen = 1
  MaxFaults = 1
  Isolate = {p1, p2}
  MaxTail = 4
  GcInterval = 2
  StarveGuard = 2
  RefreshGap = 2
  WarnGap = 3
  FoldFloor = 2
  FoldMax = 1
  MaxTickFaults = 1
  MaxScheduled = 1
  FsCall = {p1, p2, p3}
  FsInst = {i1, i2}
  Linked = {i2}
  NoFile = NoFile
  MaxCrashes = 1
SYMMETRY PairSymmetry
INVARIANTS
  LiveSnapshotExists
  HintLagBounded
  GcNotStarved
  FreshRootAccepted
PROPERTIES
  MarksSurvive
  CasReplacesItsBase
CHECK_DEADLOCK FALSE
