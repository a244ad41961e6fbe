SPECIFICATION Spec
CONSTANTS
  Terms = {1, 2, 3}
  Items = {1, 2, 3}
  Indexes <- MCIndexes
  Requests <- MCRequests
  BLOCK_SIZE = 1
  I32_MAX = 100
INVARIANTS
  RankingIsExact
PROPERTIES
  Terminates
CHECK_DEADLOCK FALSE
