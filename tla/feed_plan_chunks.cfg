SPECIFICATION ReadSpec
CONSTANTS
  Follower = {f1}
  FeedSlots = 2
  FeedWindow = 1
  MaxEvents = 2
  MaxRestores = 1
  MaxAborts = 1
  QField = {"a", "b"}
  DocValue <- MCDocValue
  StrRank <- MCStrRank
  Utf8Rank <- MCUtf8Rank
  Missing = Missing
  Wire <- MCWire
  IndexList <- MCIndexList
  NoFilter = NoFilter
  InFanout = 2
  DocId = {1, 2, 3, 4}
  Body = {1, 3}
  ChunkEnvelope = 1
  TargetBytes = 6
  TargetRows = 3
  MaxChunkBytes = 6
  MaxChunkRows = 3
  BudgetEntries = 3
  BudgetMutation = 6
  BudgetTouched = 2
  BudgetBytes = 9
  BudgetSplits = 1
  BudgetNeighbors = 1
  MaxPending = 2
INVARIANTS
  AcceptedCursorIsComplete
  LiveLogIsExact
  IndexRouteIsComplete
  RefusedMatchesNothing
  ChunksAreFold
PROPERTIES
  FeedDelivers
CHECK_DEADLOCK FALSE
