--------------------------- MODULE MCVectorStore ---------------------------
(* Bounded instances of VectorStore. *)
EXTENDS VectorStore

CONSTANTS v1, v2

\* Two vectors of one item under one model, which delete_all_vectors takes together,
\* and one of another model, which replace_model_vectors leaves alone.
Row(i, x, m) == [item |-> i, idx |-> x, model |-> m]
MCRows    == {Row("i", 0, "m"), Row("i", 1, "m"), Row("j", 0, "n")}
TwoModels == {Row("i", 0, "m"), Row("j", 0, "n")}
OneModel  == {Row("i", 0, "m"), Row("i", 1, "m")}

Sidecar(rows, may) == [sidecar |-> TRUE, rows |-> rows, may |-> may]
Memory(rows, may)  == [sidecar |-> FALSE, rows |-> rows, may |-> may]

Symmetry == Permutations(Threads) \cup Permutations(Vals)

MCDeployments ==
  {Sidecar(OneModel, {"window", "rewrite", "restart"}),
   Sidecar(TwoModels, {"single", "rewrite", "reindex", "upserts", "sidecars", "restart"}),
   Sidecar(OneModel, {"window", "crash"}),
   Memory(TwoModels, {"window", "rewrite", "reindex", "midwindow", "crash", "early", "upserts"}),
   Memory(OneModel, {"single", "rewrite", "reindex", "crash", "early"})}

\* The theorems are about deployments like these.
ASSUME DeploymentsAreSafe == \A d \in MCDeployments : Safe(d)

\* One liberty each that the code does not bear.
EarlyDelete  == {Sidecar(OneModel, {"rewrite", "restart", "early"})}
CrashRewrite == {Sidecar(OneModel, {"rewrite", "crash"})}
MixedWindow  == {Memory(OneModel, {"window", "single", "mixed", "rewrite"})}
MidWindow    == {Sidecar(OneModel, {"window", "rewrite", "reindex", "midwindow"})}
FailedWindow == {Sidecar(OneModel, {"window", "rewrite", "sidecars"})}
FailedCompaction == {Sidecar(OneModel, {"rewrite", "sidecars", "compactions"})}
SharedRow    == {Memory(OneModel, {"window", "rewrite", "shared"})}
RepeatedKey  == {Memory(OneModel, {"repeats"})}
NewVersion   == {Memory(OneModel, {"rewrite", "versions"})}
=============================================================================
