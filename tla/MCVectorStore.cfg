SPECIFICATION Spec
CONSTANTS
  Rows <- MCRows
  Versions = {1}
  Vals = {v1, v2}
  v1 = v1
  v2 = v2
  Threads = {t1, t2}
  Deployments <- MCDeployments
  Threshold = 2
  Limit = 1
  MaxCalls = 3
  MaxBatch = 2
  MaxOpens = 2
  None = None
SYMMETRY Symmetry
INVARIANTS IndexesMatchTable ErasedIsGone
CHECK_DEADLOCK FALSE
