SPECIFICATION Spec
CONSTANTS
  s1 = s1
  s2 = s2
  c1 = c1
  c2 = c2
  c3 = c3
  Sources <- MCOneSource
  Chunks <- MCOneChunks
  SourceOf <- MCOneOf
  Models = {m1, m2}
  Trainable = {m1}
  Threads = {t1}
  Ops = {"ingest", "batch", "import", "remove", "expunge", "reindex"}
  Overlap = FALSE
  Faults = {"fail", "crash"}
  MaxGen = 4
  MaxFolds = 2
INVARIANTS
  RemovedNotRecalled
  IngestedIsRecalled
  TypeOK
  TombstoneMeansGone
  ExpungedIsErased
