SPECIFICATION Spec
CONSTANTS
  Drawers = {d1, d2, d3}
  Lineages = {l1, l2}
  l1 = l1
  l2 = l2
  Rooms = {"r1", "r2"}
  Wings = {"w1", "w2"}
  WingOf <- MCWingOf
  f1 = f1
  Flags = {f1}
  Frames <- MCFrames
  Chains <- MCChains
  Admits <- MCAdmits
  Deployments <- MCDeployments
  Whole = "estate"
  None = None
SYMMETRY Symmetry
INVARIANTS PrunedRecallIsComplete LineageIsSound RecordsAreTrue
CHECK_DEADLOCK FALSE
