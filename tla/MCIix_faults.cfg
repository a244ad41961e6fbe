SPECIFICATION Spec
CONSTANTS
  c1 = c1
  c2 = c2
  c3 = c3
  a = a
  b = b
  Items <- MCItems
  Terms <- MCTerms
  TokensOf <- MCTokensOf
  Threads = {t1, t2}
  Params = {p1}
  Calls = {"batch", "import", "top_k"}
  Faults = {"statement", "commit", "rollback", "read", "crash"}
  NoIndex = NoIndex
INVARIANTS
  WholeDocuments
  AckedWritesHold
