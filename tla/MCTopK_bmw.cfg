SPECIFICATION Spec
CONSTANTS
  Terms = {1, 2}
  Items = {1, 2, 3, 4}
  Indexes <- MCTwoLists
  Requests <- MCBlockMax
  BLOCK_SIZE = 2
  I32_MAX = 100
INVARIANTS
  ExactTopK
CHECK_DEADLOCK FALSE
