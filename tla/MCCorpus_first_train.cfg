SPECIFICATION Spec
CONSTANTS
  s1 = s1
  s2 = s2
  c1 = c1
  c2 = c2
  c3 = c3
  Sources <- MCSources
  Chunks <- MCTwoChunks
  SourceOf <- MCTwoOf
  Models = {m1}
  Trainable = {m1}
  Threads = {t1, t2}
  Ops = {"ingest"}
  Overlap = FALSE
  Faults = {}
  MaxGen = 6
  MaxFolds = 3
INVARIANTS
  IngestedIsRecalled
