SPECIFICATION ServerSpec
CONSTANTS
  c1 = c1
  c2 = c2
  c3 = c3
  d1 = d1
  d2 = d2
  Call = {c1, c2, c3}
  Docs = {d1, d2}
  Field = {"f", "g"}
  Value = {1, 2}
  Request <- MCRequest
  MaxLog = 4
  MaxLate = 1
  Retained = 1
  Absent = Absent
  Adapter = {"s3", "gcs", "r2"}
  Attempts = 3
  MaxVersion = 3
INVARIANTS
  FirstInsertWins
  BatchIsExact
  VerdictIsTrue
PROPERTIES
  IsCollection
CHECK_DEADLOCK FALSE
