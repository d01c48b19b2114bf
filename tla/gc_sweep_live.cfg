SPECIFICATION FairSpec
CONSTANTS
  Compactor = {f1}
  Pass = {p1}
  Reader = {r1}
  Data = {1}
  Opaque = {o1, o2}
  NoKey = NoKey
  MaxMarks = 3
  MaxSweeps = 1
  MaxCandidates = 2
  ClockSkew = {FALSE}
  MaxPos = 1
  MaxGen = 1
  MaxFaults = 1
INVARIANTS
  GraceCoversRead
PROPERTIES
  OrphanSwept
