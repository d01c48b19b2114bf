SPECIFICATION FairSpec
CHECK_DEADLOCK FALSE
CONSTANTS
  c1 = c1
  c2 = c2
  c3 = c3
  d1 = d1
  d2 = d2
  Session = {c1, c2, c3}
  Doc = {d1}
  DocOf <- OneDoc
  OpOf <- AllUpdates
  MaxSeq = 5
  Window = 1
  MaxDeletes = 2
  Compactor = {}
  Reader = {}
  NoEntry = NoEntry
  ProbeCap = 4
  ProbeBudget = 1
  MinToCompact = 2
  MaxFold = 3
  MaxRows = 2
  MaxInflight = 2
PROPERTIES
  CommitTerminates
