SPECIFICATION Spec
CONSTANTS
  p1 = p1
  p2 = p2
  e1 = e1
  e2 = e2
  x1 = x1
  i1 = i1
  Jobs = {e1, e2, x1, i1}
  StreamOf <- MCStreamOf
  Undecodable = {x1}
  Procs = {p1, p2}
  Deployments <- MCDeployments
  MaxMounts = 2
  MaxCrashes = 1
  Nobody = Nobody
  Dead = Dead
INVARIANTS
  TypeOK
  DoneIsIngested
PROPERTIES
  ImplementsLedger
  AwaitPublishes
  RecoverableSettles
CHECK_DEADLOCK FALSE
