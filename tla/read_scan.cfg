SPECIFICATION Spec
CONSTANTS
  c1 = c1
  c2 = c2
  c3 = c3
  d1 = d1
  d2 = d2
  Session = {c1, c2, c3}
  Doc = {d1, d2}
  DocOf <- OneDoc
  OpOf <- AllUpdates
  MaxSeq = 2
  Window = 0
  MaxDeletes = 2
  Compactor = {f1}
  Reader = {r1}
  NoEntry = NoEntry
  ProbeCap = 1
  ProbeBudget = 2
  MinToCompact = 2
  MaxFold = 2
  MaxRows = 1
  MaxInflight = 0
SYMMETRY SessionSymmetry
INVARIANTS
  ReadIsFreshPrefix
