SPECIFICATION Spec
CONSTANTS
  c1 = c1
  c2 = c2
  c3 = c3
  d1 = d1
  d2 = d2
  Session = {c1, c2, c3}
  Doc = {d1}
  DocOf <- OneDoc
  OpOf <- AllUpdates
  MaxSeq = 2
  Window = 1
  MaxDeletes = 2
  Compactor = {f1}
  Reader = {}
  NoEntry = NoEntry
  ProbeCap = 2
  ProbeBudget = 1
  MinToCompact = 2
  MaxFold = 3
  MaxRows = 2
  MaxInflight = 2
SYMMETRY SessionSymmetry
INVARIANTS
  TypeOK
  ManifestOrder
  DenseLog
  AckedIsCommitted
  OneLiveEntryPerCommit
  FailedIsNotLive
PROPERTIES
  ManifestMonotone
