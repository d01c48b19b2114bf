SPECIFICATION IxSpec
CONSTANTS
  IxDoc = {d1}
  IxValue = {1, 2, 3}
  FilterMiss = {3}
  RebuildDef = "cli"
  Committer = {c1, c2}
  Scanner = {s1}
  PreimageGets = 2
INVARIANTS
  HealthyRebuildIsNoOp
CHECK_DEADLOCK FALSE
