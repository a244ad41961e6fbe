SPECIFICATION Spec
CONSTANTS
  c1 = c1
  c2 = c2
  c3 = c3
  a = a
  b = b
  Items <- MCItems
  Terms <- MCTerms
  TokensOf <- MCTokensOf
  Threads = {t1, t2}
  Params = {p1, p2}
  Calls = {"index", "remove", "clear_all", "batch", "top_k"}
  Faults = {}
  NoIndex = NoIndex
INVARIANTS
  TypeOK
  CacheFresh
