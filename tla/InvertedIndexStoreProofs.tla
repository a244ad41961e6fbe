---------------------- MODULE InvertedIndexStoreProofs ----------------------
(***************************************************************************)
(* Theorems about InvertedIndexStore, for every set of items, threads and  *)
(* parameters.                                                             *)
(***************************************************************************)
EXTENDS InvertedIndexStore, TLAPS

(***************************************************************************)
(* The SQL effects map tables to tables.                                   *)
(***************************************************************************)

\* The statements of delete_from_db, index and merge_shard, complete or cut
\* short, leave well-formed tables.
LEMMA EffectsTyped ==
  ASSUME NEW tables \in Tables, NEW i \in Items
  PROVE  /\ Deleted(tables, i) \in Tables
         /\ Indexed(tables, i) \in Tables
         /\ DeleteCutShort(tables, i) \subseteq Tables
         /\ IndexCutShort(tables, i) \subseteq Tables
  BY TokensAssumption
  DEF Tables, Deleted, Indexed, DeleteCutShort, IndexCutShort

\* Merging a shard, and clearing the store, leave well-formed tables.
LEMMA BulkEffectsTyped ==
  ASSUME NEW tables \in Tables, NEW shard \in SUBSET Items
  PROVE  /\ Empty \in Tables
         /\ Merged(tables, shard) \in Tables
         /\ [tf |-> Empty.tf, len |-> tables.len] \in Tables
  BY TokensAssumption DEF Tables, Empty, Merged

\* The values the record of acknowledged calls may take.
Acks == [Items -> {"indexed", "absent", "pending", "unsettled"}]

\* The bookkeeping of acknowledged calls stays in its range.
LEMMA AckedTyped ==
  ASSUME TypeOK
  PROVE  \A S : Settled(S) \in Acks /\ Unsettled(S) \in Acks
  BY DEF TypeOK, Settled, Unsettled, Outcome, Acks

\* Executing statements inside or outside a transaction keeps both views typed.
LEMMA ExecuteTyped ==
  ASSUME TypeOK, NEW tables \in Tables, Execute(tables)
  PROVE  work' \in Tables /\ durable' \in Tables
  BY DEF TypeOK, Execute

(***************************************************************************)
(* Type correctness.                                                       *)
(***************************************************************************)

\* Every step of the store keeps its variables in their types.
LEMMA NextTyped ==
  ASSUME TypeOK, [Next]_vars
  PROVE  TypeOK'
<1> USE DEF TypeOK
<1>1. ASSUME NEW t \in Threads, NEW i \in Items, Index(t, i) PROVE TypeOK'
  <2>1. \E tables \in Tables : Execute(tables)
    BY <1>1, EffectsTyped DEF Index
  <2>2. work' \in Tables /\ durable' \in Tables
    BY <2>1, ExecuteTyped
  <2>3. QED
    BY <1>1, <2>2 DEF Index, Outcome
<1>2. ASSUME NEW t \in Threads, NEW i \in Items, Remove(t, i) PROVE TypeOK'
  <2>1. \E tables \in Tables : Execute(tables)
    BY <1>2, EffectsTyped DEF Remove
  <2>2. work' \in Tables /\ durable' \in Tables
    BY <2>1, ExecuteTyped
  <2>3. QED
    BY <1>2, <2>2 DEF Remove
<1>3. ASSUME NEW t \in Threads, ClearAll(t) PROVE TypeOK'
  <2>1. Empty \in Tables /\ [tf |-> Empty.tf, len |-> work.len] \in Tables
    BY BulkEffectsTyped
  <2>2. \E tables \in Tables : Execute(tables)
    BY <1>3, <2>1 DEF ClearAll
  <2>3. work' \in Tables /\ durable' \in Tables
    BY <2>2, ExecuteTyped
  <2>4. QED
    BY <1>3, <2>3 DEF ClearAll
<1>4. ASSUME NEW t \in Threads, NEW i \in Items, BatchIndex(t, i) PROVE TypeOK'
  <2>1. work' \in Tables /\ durable' \in Tables
    BY <1>4, EffectsTyped, ExecuteTyped DEF BatchIndex
  <2>2. QED
    BY <1>4, <2>1 DEF BatchIndex
<1>5. ASSUME NEW t \in Threads, NEW p \in Params, TopK(t, p) PROVE TypeOK'
  <2>2. LoadCutShort(work) \subseteq Tables
    BY DEF LoadCutShort, Tables
  <2>3. cached' \in Indexes \cup {NoIndex}
    BY <1>5, <2>2 DEF TopK, Indexes
  <2>4. QED
    BY <1>5, <2>3 DEF TopK
<1>6. ASSUME NEW t \in Threads, NEW S \in NonEmpty, BeginBatch(t, S) PROVE TypeOK'
  BY <1>6 DEF BeginBatch, NonEmpty
<1>7. ASSUME NEW t \in Threads, NEW S \in NonEmpty, BeginImport(t, S) PROVE TypeOK'
  BY <1>7 DEF BeginImport, NonEmpty
<1>8. ASSUME NEW t \in Threads, NEW S \in NonEmpty, MergeShard(t, S) PROVE TypeOK'
  <2>1. S \in SUBSET Items
    BY DEF NonEmpty
  <2>2. work' \in Tables /\ durable' \in Tables
    BY <1>8, <2>1, BulkEffectsTyped, ExecuteTyped DEF MergeShard
  <2>3. QED
    BY <1>8, <2>1, <2>2 DEF MergeShard
<1>9. ASSUME NEW t \in Threads, CommitBatch(t) \/ CommitBatchFails(t) PROVE TypeOK'
  <2>1. acked' \in Acks
    BY <1>9, AckedTyped DEF CommitBatch, CommitBatchFails
  <2>2. txn' \in BOOLEAN /\ work' \in Tables
    BY <1>9, Zenon DEF CommitBatch, CommitBatchFails
  <2>3. QED
    BY <1>9, <2>1, <2>2 DEF CommitBatch, CommitBatchFails, Idle, Acks
<1>10. ASSUME NEW t \in Threads,
              RollbackBatch(t) \/ MergeShardFails(t) \/ FoldPostings(t)
       PROVE  TypeOK'
  <2>1. acked' \in Acks
    BY <1>10, AckedTyped DEF RollbackBatch, MergeShardFails, FoldPostings
  <2>2. txn' \in BOOLEAN
    BY <1>10, Zenon DEF RollbackBatch, MergeShardFails, FoldPostings
  <2>3. QED
    BY <1>10, <2>1, <2>2 DEF RollbackBatch, MergeShardFails, FoldPostings, Idle, Acks
<1>11. CASE CrashAndOpen
  <2>1. acked' \in Acks
    BY <1>11, AckedTyped DEF CrashAndOpen
  <2>2. QED
    BY <1>11, <2>1 DEF CrashAndOpen, Idle, Acks
<1>12. CASE UNCHANGED vars
  BY <1>12 DEF vars
<1>14. ASSUME NEW t \in Threads, NEW i \in Items, BatchIndexFails(t, i) PROVE TypeOK'
  <2>1. \E tables \in Tables : Execute(tables)
    BY <1>14, EffectsTyped DEF BatchIndexFails
  <2>2. work' \in Tables /\ durable' \in Tables
    BY <2>1, ExecuteTyped
  <2>3. QED
    BY <1>14, <2>2 DEF BatchIndexFails
<1>13. QED
  BY <1>1, <1>2, <1>3, <1>4, <1>5, <1>6, <1>7, <1>8, <1>9, <1>10, <1>11, <1>12, <1>14 DEF Next

\* A store opened on empty tables is well-typed.
LEMMA InitTyped == Init => TypeOK
<1>1. Empty \in Tables
  BY DEF Empty, Tables
<1>2. Idle \in [op: {"idle", "batch", "rollback", "import"}, todo: SUBSET Items, done: SUBSET Items]
  BY DEF Idle
<1>3. Init => txn \in BOOLEAN
  BY Zenon DEF Init
<1>4. Init => acked \in Acks
  BY DEF Init, Acks
<1>5. QED
  BY <1>1, <1>2, <1>3, <1>4 DEF Init, TypeOK, Acks

\* The postings store is type-correct for all items, threads, calls and faults.
THEOREM TypeCorrect == Spec => []TypeOK
<1>1. Init => TypeOK
  BY InitTyped
<1>2. TypeOK /\ [Next]_vars => TypeOK'
  BY NextTyped
<1>3. QED
  BY <1>1, <1>2, PTL DEF Spec

(***************************************************************************)
(* Freshness of the cached index.  Without statement and commit failures   *)
(* nothing is ever rolled back, without failing reads nothing is cached    *)
(* half-read, and without imports no write leaves the cache behind: every  *)
(* other write clears it under the same mutex.  README, section 6, shows   *)
(* what happens without these premises.                                    *)
(***************************************************************************)

\* No thread is inside an import, or has a batch to roll back.
NoImports == \A t \in Threads : call[t].op \notin {"import", "rollback"}

\* A query is always answered from an index of the tables as they are, when
\* callers index, remove, clear, batch and query, and the process may crash.
THEOREM CacheIsFresh ==
  ASSUME "statement" \notin Faults, "commit" \notin Faults, "read" \notin Faults,
         "import" \notin Calls
  PROVE  Spec => []CacheFresh
<1> DEFINE Inv == TypeOK /\ NoImports /\ CacheFresh
<1>1. Init => Inv
  <2>1. Init => TypeOK
    BY InitTyped
  <2>2. QED
    BY <2>1 DEF Init, NoImports, CacheFresh, Idle
<1>2. Inv /\ [Next]_vars => Inv'
  <2> SUFFICES ASSUME Inv, [Next]_vars PROVE NoImports' /\ CacheFresh'
    BY NextTyped
  <2> USE DEF NoImports, CacheFresh
  <2>1. ASSUME NEW t \in Threads, NEW i \in Items, Index(t, i) \/ Remove(t, i)
        PROVE  NoImports' /\ CacheFresh'
    BY <2>1 DEF Index, Remove
  <2>2. ASSUME NEW t \in Threads, NEW i \in Items, BatchIndex(t, i)
        PROVE  NoImports' /\ CacheFresh'
    BY <2>2 DEF BatchIndex, TypeOK
  <2>3. ASSUME NEW t \in Threads, NEW p \in Params, TopK(t, p)
        PROVE  NoImports' /\ CacheFresh'
    BY <2>3 DEF TopK
  <2>4. ASSUME NEW t \in Threads, NEW S \in NonEmpty, BeginBatch(t, S)
        PROVE  NoImports' /\ CacheFresh'
    BY <2>4 DEF BeginBatch, TypeOK
  <2>5. ASSUME NEW t \in Threads, ClearAll(t) \/ CommitBatch(t)
        PROVE  NoImports' /\ CacheFresh'
    BY <2>5 DEF ClearAll, CommitBatch, TypeOK, Idle
  <2>6. CASE CrashAndOpen
    BY <2>6 DEF CrashAndOpen, Idle
  <2>7. CASE UNCHANGED vars
    BY <2>7 DEF vars
  <2>8. QED
    BY <2>1, <2>2, <2>3, <2>4, <2>5, <2>6, <2>7
    DEF Next, BeginImport, MergeShard, MergeShardFails, FoldPostings,
        CommitBatchFails, BatchIndexFails, RollbackBatch
<1>3. Inv => CacheFresh
  OBVIOUS
<1>4. QED
  BY <1>1, <1>2, <1>3, PTL DEF Spec

(***************************************************************************)
(* Acknowledged writes hold.  AckedWritesHold alone is not inductive: a    *)
(* batch or an import that returns Ok reports on items it wrote earlier,   *)
(* so the items still `pending' must already hold their outcome, and a     *)
(* shard can only complete a document that has no foreign terms.           *)
(***************************************************************************)

\* What the tables hold of an item, by what was last done to it.
ItemHolds(i) ==
  /\ work.tf[i] \subseteq TokensOf[i]
  /\ i \in work.len => TokensOf[i] # {}
  /\ acked[i] \in {"pending", "indexed"} =>
       work.tf[i] = TokensOf[i] /\ (TokensOf[i] # {} => i \in work.len)
  /\ acked[i] = "indexed" => TokensOf[i] # {}
  /\ acked[i] = "absent" => work.tf[i] = {} /\ i \notin work.len

AllItemsHold == \A i \in Items : ItemHolds(i)

\* No thread has a batch to roll back.
NoRollback == \A t \in Threads : call[t].op # "rollback"

\* While no statement fails no batch is rolled back.
LEMMA NothingToRollBack ==
  ASSUME "statement" \notin Faults, TypeOK, NoRollback, [Next]_vars
  PROVE  NoRollback'
<1> USE DEF NoRollback, TypeOK
<1>1. ASSUME NEW t \in Threads, NEW i \in Items, Index(t, i) \/ Remove(t, i) \/ BatchIndex(t, i)
      PROVE  NoRollback'
  BY <1>1 DEF Index, Remove, BatchIndex
<1>2. ASSUME NEW t \in Threads,
             \/ \E p \in Params : TopK(t, p)
             \/ \E S \in NonEmpty : BeginBatch(t, S) \/ BeginImport(t, S) \/ MergeShard(t, S)
      PROVE  NoRollback'
  <2>1. CASE \E S \in NonEmpty : MergeShard(t, S)
    BY <2>1 DEF MergeShard
  <2>2. CASE ~\E S \in NonEmpty : MergeShard(t, S)
    BY <1>2, <2>2 DEF TopK, BeginBatch, BeginImport
  <2>3. QED
    BY <2>1, <2>2
<1>3. ASSUME NEW t \in Threads,
             \/ ClearAll(t) \/ CommitBatch(t) \/ CommitBatchFails(t)
             \/ MergeShardFails(t) \/ FoldPostings(t)
      PROVE  NoRollback'
  BY <1>3 DEF ClearAll, CommitBatch, CommitBatchFails, MergeShardFails, FoldPostings, Idle
<1>4. CASE CrashAndOpen \/ UNCHANGED vars
  BY <1>4 DEF CrashAndOpen, Idle, vars
<1>5. QED
  BY <1>1, <1>2, <1>3, <1>4 DEF Next, BatchIndexFails, RollbackBatch

\* With no fault, what a call reported about an item is what the store holds,
\* whatever index, remove, clear, batch and import calls other threads run.
THEOREM AcknowledgedWritesHold ==
  ASSUME Faults = {}
  PROVE  Spec => []AckedWritesHold
<1> DEFINE Inv == TypeOK /\ NoRollback /\ AllItemsHold
<1>1. Init => Inv
  <2>1. Init => TypeOK /\ NoRollback
    BY InitTyped DEF Init, Idle, NoRollback
  <2>2. Init => AllItemsHold
    BY TokensAssumption DEF Init, AllItemsHold, ItemHolds, Empty
  <2>3. QED
    BY <2>1, <2>2
<1>2. Inv /\ [Next]_vars => Inv'
  <2> SUFFICES ASSUME Inv, [Next]_vars PROVE AllItemsHold'
    BY NextTyped, NothingToRollBack
  <2> USE TokensAssumption DEF AllItemsHold, ItemHolds
  <2>1. ASSUME NEW t \in Threads, NEW i \in Items, Index(t, i)
        PROVE  AllItemsHold'
    BY <2>1 DEF Index, Execute, Indexed, Deleted, Outcome, TypeOK, Tables
  <2>2. ASSUME NEW t \in Threads, NEW i \in Items, Remove(t, i)
        PROVE  AllItemsHold'
    BY <2>2 DEF Remove, Execute, Deleted, TypeOK, Tables
  <2>3. ASSUME NEW t \in Threads, NEW i \in Items, BatchIndex(t, i)
        PROVE  AllItemsHold'
    BY <2>3 DEF BatchIndex, Execute, Indexed, Deleted, TypeOK, Tables
  <2>4. ASSUME NEW t \in Threads, ClearAll(t)
        PROVE  AllItemsHold'
    BY <2>4 DEF ClearAll, Execute, Empty
  <2>5. ASSUME NEW t \in Threads, NEW S \in NonEmpty, MergeShard(t, S)
        PROVE  AllItemsHold'
    BY <2>5 DEF MergeShard, Execute, Merged, TypeOK, Tables, NonEmpty
  <2>6. ASSUME NEW t \in Threads, CommitBatch(t)
        PROVE  AllItemsHold'
    BY <2>6 DEF CommitBatch, Settled, Outcome, TypeOK
  <2>7. ASSUME NEW t \in Threads, FoldPostings(t)
        PROVE  AllItemsHold'
    BY <2>7 DEF FoldPostings, Settled, Outcome, TypeOK
  <2>8. ASSUME NEW t \in Threads, MergeShardFails(t)
        PROVE  AllItemsHold'
    BY <2>8 DEF MergeShardFails, Unsettled, TypeOK
  <2>9. ASSUME NEW t \in Threads,
               \/ \E p \in Params : TopK(t, p)
               \/ \E S \in NonEmpty : BeginBatch(t, S) \/ BeginImport(t, S)
        PROVE  AllItemsHold'
    BY <2>9 DEF TopK, BeginBatch, BeginImport
  <2>10. CASE UNCHANGED vars
    BY <2>10 DEF vars
  <2>11. QED
    BY <2>1, <2>2, <2>3, <2>4, <2>5, <2>6, <2>7, <2>8, <2>9, <2>10
    DEF Next, CommitBatchFails, BatchIndexFails, RollbackBatch, CrashAndOpen, NoRollback
<1>3. Inv => AckedWritesHold
  BY DEF AckedWritesHold, AllItemsHold, ItemHolds
<1>4. QED
  BY <1>1, <1>2, <1>3, PTL DEF Spec

(***************************************************************************)
(* Batches.  One thread at most is in a batch or rolls one back, and it    *)
(* stands in the transaction it has begun.                                 *)
(***************************************************************************)

InBatch(t) == call[t].op \in {"batch", "rollback"}

OneBatch ==
  \A t \in Threads : InBatch(t) => txn /\ \A u \in Threads : InBatch(u) => t = u

\* A thread goes on by itself: the others are where they were.
LEMMA OthersStay ==
  ASSUME TypeOK, OneBatch, NEW t \in Threads, NEW next,
         call' = [call EXCEPT ![t] = next],
         \/ next.op \notin {"batch", "rollback"} /\ (InBatch(t) \/ txn' = txn)
         \/ next.op \in {"batch", "rollback"} /\ txn' /\ (~txn \/ InBatch(t))
  PROVE  OneBatch'
<1>1. \A u \in Threads : call'[u] = IF u = t THEN next ELSE call[u]
  BY DEF TypeOK
<1>2. QED
  BY <1>1 DEF OneBatch, InBatch

\* Every step keeps the batches apart.
LEMMA StepsKeepOneBatch ==
  ASSUME TypeOK, OneBatch, [Next]_vars
  PROVE  OneBatch'
<1>1. ASSUME call' = call, txn' = txn PROVE OneBatch'
  BY <1>1 DEF OneBatch, InBatch
<1>2. ASSUME NEW t \in Threads, NEW i \in Items, BatchIndex(t, i) \/ BatchIndexFails(t, i)
      PROVE  OneBatch'
  <2>1. txn' = txn /\ InBatch(t) /\ txn
    BY <1>2 DEF BatchIndex, BatchIndexFails, InBatch, OneBatch
  <2>2. PICK next : /\ call' = [call EXCEPT ![t] = next]
                    /\ next.op \in {"batch", "rollback"}
    <3>1. CASE BatchIndex(t, i)
      <4> DEFINE next == [call[t] EXCEPT !.todo = @ \ {i}, !.done = @ \cup {i}]
      <4>1. call' = [call EXCEPT ![t] = next] /\ next.op = "batch"
        BY <3>1 DEF BatchIndex, TypeOK
      <4>2. QED
        BY <4>1
    <3>2. CASE BatchIndexFails(t, i)
      <4> DEFINE next == [call[t] EXCEPT !.op = "rollback"]
      <4>1. call' = [call EXCEPT ![t] = next] /\ next.op = "rollback"
        BY <3>2 DEF BatchIndexFails, TypeOK
      <4>2. QED
        BY <4>1
    <3>3. QED
      BY <1>2, <3>1, <3>2
  <2>3. QED
    BY <2>1, <2>2, OthersStay
<1>3. ASSUME NEW t \in Threads, NEW S \in NonEmpty,
             BeginBatch(t, S) \/ BeginImport(t, S) \/ MergeShard(t, S)
      PROVE  OneBatch'
  <2>1. CASE BeginBatch(t, S)
    BY <2>1, OthersStay DEF BeginBatch
  <2>2. CASE BeginImport(t, S)
    BY <2>2, OthersStay DEF BeginImport
  <2>3. CASE MergeShard(t, S)
    <3> DEFINE next == [call[t] EXCEPT !.todo = @ \ S, !.done = @ \cup S]
    <3>1. call' = [call EXCEPT ![t] = next] /\ next.op = "import" /\ txn' = txn
      BY <2>3 DEF MergeShard, TypeOK
    <3>2. QED
      BY <3>1, OthersStay
  <2>4. QED
    BY <1>3, <2>1, <2>2, <2>3
<1>4. ASSUME NEW t \in Threads,
             \/ CommitBatch(t) \/ CommitBatchFails(t) \/ RollbackBatch(t)
             \/ MergeShardFails(t) \/ FoldPostings(t)
      PROVE  OneBatch'
  <2>1. call' = [call EXCEPT ![t] = Idle] /\ Idle.op = "idle"
    BY <1>4 DEF CommitBatch, CommitBatchFails, RollbackBatch, MergeShardFails, FoldPostings, Idle
  <2>2. InBatch(t) \/ txn' = txn
    BY <1>4 DEF CommitBatch, CommitBatchFails, RollbackBatch, MergeShardFails, FoldPostings, InBatch
  <2>3. QED
    BY <2>1, <2>2, OthersStay
<1>5. CASE CrashAndOpen
  BY <1>5 DEF CrashAndOpen, OneBatch, InBatch, Idle
<1>6. ASSUME NEW t \in Threads,
             \/ ClearAll(t) \/ \E p \in Params : TopK(t, p)
             \/ \E i \in Items : Index(t, i) \/ Remove(t, i)
      PROVE  OneBatch'
  BY <1>1, <1>6 DEF ClearAll, TopK, Index, Remove
<1>7. QED
  BY <1>1, <1>2, <1>3, <1>4, <1>5, <1>6 DEF Next, vars

(***************************************************************************)
(* Whole documents.  A single-method call that fails half-way, outside a   *)
(* transaction, leaves half a document (README, section 6); a batch or an  *)
(* import rolls back.  So either no statement fails, or callers only       *)
(* batch, import and query, which is how corpus.rs ingests.  Between a     *)
(* batch's failing index and its ROLLBACK, and after a ROLLBACK that fails *)
(* itself, half a document stands in the open transaction, which no batch  *)
(* can commit any more.                                                    *)
(***************************************************************************)

\* Either no statement fails, or none does outside a batch or an import.
AllOrNothing ==
  "statement" \notin Faults \/ Calls \cap {"index", "remove", "clear_all"} = {}

\* A document is in the tables with its length, or not at all.
WholeAt(tables, i) ==
  /\ tables.tf[i] \in {{}, TokensOf[i]}
  /\ i \in tables.len <=> tables.tf[i] # {}
Whole(tables) == \A i \in Items : WholeAt(tables, i)

\* A failed index call has been, or should have been, rolled back.
CutShort == "statement" \in Faults /\ txn /\ \A t \in Threads : call[t].op # "batch"
WorkWhole ==
  \A i \in Items : WholeAt(work, i) \/ (CutShort /\ acked[i] = "unsettled")

\* The statements of delete_from_db, index, clear_all and merge_shard, run to
\* their end, keep every document whole.
LEMMA EffectsWhole ==
  ASSUME NEW tables \in Tables, Whole(tables)
  PROVE  /\ Whole(Empty)
         /\ \A i \in Items : Whole(Deleted(tables, i)) /\ Whole(Indexed(tables, i))
         /\ \A S \in SUBSET Items : Whole(Merged(tables, S))
  BY TokensAssumption DEF Whole, WholeAt, Tables, Empty, Deleted, Indexed, Merged

\* An index call that fails cuts its own document short only.
LEMMA OthersStayWhole ==
  ASSUME NEW tables \in Tables, Whole(tables), NEW i \in Items,
         NEW after \in IndexCutShort(tables, i)
  PROVE  /\ \A j \in Items \ {i} : WholeAt(after, j) /\ after.tf[j] = tables.tf[j]
         /\ \A j \in Items \ {i} : j \in after.len <=> j \in tables.len
BY DEF Whole, WholeAt, Tables, IndexCutShort, DeleteCutShort

\* No step cuts a document short in the durable tables, nor, unless it is left
\* to a rollback, in the connection's.  A rollback and a restart bring back the
\* durable tables and a commit makes the working ones durable: each must be
\* whole for the other to stay so.
LEMMA StepsKeepWhole ==
  ASSUME AllOrNothing, TypeOK, OneBatch, WorkWhole, Whole(durable), [Next]_vars
  PROVE  WorkWhole' /\ Whole(durable)'
<1> DEFINE Both == WorkWhole /\ Whole(durable)
<1> SUFFICES Both'
  OBVIOUS
<1>1. ASSUME NEW tables, Whole(tables), Execute(tables) PROVE Both'
  <2>1. work' = tables /\ (durable' = tables \/ durable' = durable)
    BY <1>1 DEF Execute
  <2>2. QED
    BY <1>1, <2>1 DEF Whole, WorkWhole
<1>2. work \in Tables /\ durable \in Tables
  BY DEF TypeOK
<1>3. ASSUME ~CutShort PROVE Whole(work)
  BY <1>3 DEF Whole, WorkWhole
<1>4. ASSUME NEW t \in Threads, NEW i \in Items,
             Index(t, i) \/ Remove(t, i) \/ BatchIndex(t, i)
      PROVE  Both'
  <2>1. \E tables \in {Indexed(work, i), Deleted(work, i)} : Execute(tables)
    BY <1>4 DEF Index, Remove, BatchIndex, AllOrNothing
  <2>2. ~CutShort
    BY <1>4 DEF Index, Remove, BatchIndex, AllOrNothing, CutShort
  <2>3. QED
    BY <1>1, <1>2, <1>3, <2>1, <2>2, EffectsWhole
<1>5. ASSUME NEW t \in Threads, ClearAll(t) PROVE Both'
  <2>1. Execute(Empty)
    BY <1>5 DEF ClearAll, AllOrNothing
  <2>2. Whole(Empty)
    BY DEF Whole, WholeAt, Empty
  <2>3. QED
    BY <1>1, <2>1, <2>2
<1>6. ASSUME NEW t \in Threads, NEW S \in NonEmpty, MergeShard(t, S) PROVE Both'
  <2>1. Execute(Merged(work, S)) /\ S \in SUBSET Items /\ ~CutShort
    BY <1>6 DEF MergeShard, NonEmpty, CutShort
  <2>2. QED
    BY <1>1, <1>2, <1>3, <2>1, EffectsWhole
<1>7. ASSUME NEW t \in Threads, NEW i \in Items, BatchIndexFails(t, i) PROVE Both'
  <2>1. /\ txn /\ txn' = txn /\ durable' = durable /\ "statement" \in Faults
        /\ acked' = [acked EXCEPT ![i] = "unsettled"]
        /\ work' \in IndexCutShort(work, i)
        /\ \A u \in Threads : call[u].op = "batch" => u = t
        /\ call' = [call EXCEPT ![t].op = "rollback"] /\ call[t].op = "batch"
    BY <1>7 DEF BatchIndexFails, Execute, OneBatch, InBatch
  <2>2. Whole(work)
    BY <1>3, <2>1 DEF CutShort
  <2>3. CutShort'
    BY <2>1 DEF CutShort, TypeOK
  <2>4. \A j \in Items : j # i => WholeAt(work', j)
    BY <1>2, <2>1, <2>2, OthersStayWhole
  <2>5. acked'[i] = "unsettled"
    BY <2>1 DEF TypeOK
  <2>6. WorkWhole'
    BY <2>3, <2>4, <2>5 DEF WorkWhole, WholeAt
  <2>7. QED
    BY <2>1, <2>6 DEF Whole, WholeAt
<1>8. ASSUME NEW t \in Threads, CommitBatch(t) \/ CommitBatchFails(t)
      PROVE  Both'
  <2>1. ~CutShort /\ work' \in {work, durable} /\ durable' \in {work, durable}
    BY <1>8 DEF CommitBatch, CommitBatchFails, CutShort
  <2>2. Whole(work') /\ Whole(durable')
    BY <1>3, <2>1
  <2>3. QED
    BY <2>2 DEF Whole, WholeAt, WorkWhole
<1>9. ASSUME UNCHANGED <<work, durable, txn>>,
             \A i \in Items : acked[i] = "unsettled" => acked'[i] = "unsettled",
             txn => \A t \in Threads : call'[t].op = "batch" => call[t].op = "batch"
      PROVE  Both'
  BY <1>9 DEF Whole, WholeAt, WorkWhole, CutShort
<1>10. ASSUME NEW t \in Threads, RollbackBatch(t) PROVE Both'
  <2>1. /\ durable' = durable
        /\ work' = durable \/ (work' = work /\ txn' = txn)
    BY <1>10 DEF RollbackBatch
  <2>2. /\ \A i \in Items : acked[i] = "unsettled" => acked'[i] = "unsettled"
        /\ \A u \in Threads : call'[u].op = "batch" => call[u].op = "batch"
    BY <1>10 DEF RollbackBatch, Unsettled, TypeOK, Idle
  <2>3. CASE work' = durable
    BY <2>1, <2>3 DEF Whole, WholeAt, WorkWhole
  <2>4. QED
    BY <1>9, <2>1, <2>2, <2>3
<1>11. ASSUME NEW t \in Threads,
              \/ \E p \in Params : TopK(t, p)
              \/ \E S \in NonEmpty : BeginBatch(t, S) \/ BeginImport(t, S)
              \/ MergeShardFails(t) \/ FoldPostings(t)
       PROVE  Both'
  <2>1. CASE \E S \in NonEmpty : BeginBatch(t, S)
    <3>1. Whole(work) /\ UNCHANGED <<work, durable>>
      BY <1>3, <2>1 DEF BeginBatch, CutShort
    <3>2. QED
      BY <3>1 DEF Whole, WholeAt, WorkWhole
  <2>2. CASE ~\E S \in NonEmpty : BeginBatch(t, S)
    <3>1. /\ UNCHANGED <<work, durable, txn>>
          /\ \A i \in Items : acked[i] = "unsettled" => acked'[i] = "unsettled"
      BY <1>11, <2>2 DEF TopK, BeginImport, MergeShardFails, FoldPostings, Settled, Unsettled
    <3>2. \A u \in Threads : call'[u].op = "batch" => call[u].op = "batch"
      BY <1>11, <2>2 DEF TopK, BeginImport, MergeShardFails, FoldPostings, TypeOK, Idle
    <3>3. QED
      BY <1>9, <3>1, <3>2
  <2>3. QED
    BY <2>1, <2>2
<1>12. CASE CrashAndOpen
  BY <1>12 DEF CrashAndOpen, Whole, WholeAt, WorkWhole
<1>13. CASE UNCHANGED vars
  BY <1>9, <1>13 DEF vars
<1>14. QED
  BY <1>4, <1>5, <1>6, <1>7, <1>8, <1>10, <1>11, <1>12, <1>13 DEF Next

\* A restarted process finds every document whole or absent, whichever commits
\* and rollbacks fail and wherever the process dies.
THEOREM DocumentsAreWhole ==
  ASSUME AllOrNothing
  PROVE  Spec => []WholeDocuments
<1> DEFINE Inv == TypeOK /\ OneBatch /\ WorkWhole /\ Whole(durable)
<1>1. Init => Inv
  BY InitTyped DEF Init, OneBatch, InBatch, Idle, Whole, WholeAt, WorkWhole, Empty
<1>2. Inv /\ [Next]_vars => Inv'
  BY NextTyped, StepsKeepOneBatch, StepsKeepWhole
<1>3. Inv => WholeDocuments
  BY DEF Whole, WholeAt, WholeDocuments
<1>4. QED
  BY <1>1, <1>2, <1>3, PTL DEF Spec

(***************************************************************************)
(* Acknowledged writes under every fault.  When callers only batch, import *)
(* and query, an item reported indexed is durable, so a rollback, a failed *)
(* commit or a restart cannot lose it.  An item still pending is durable   *)
(* or belongs to the one open batch, which un-settles it when it fails.    *)
(***************************************************************************)

\* The durable tables hold of an item what an Ok was, or may yet be, based on.
DurableHolds(i) ==
  /\ acked[i] # "unsettled" \/ ~CutShort => durable.tf[i] \subseteq work.tf[i]
  /\ acked[i] = "indexed" => durable.tf[i] = TokensOf[i] /\ TokensOf[i] # {}
  /\ acked[i] = "absent"  => work.tf[i] = {}
  /\ acked[i] = "pending" =>
       /\ work.tf[i] = TokensOf[i]
       /\ \/ durable.tf[i] = TokensOf[i]
          \/ \E t \in Threads : InBatch(t) /\ i \in call[t].done

\* What an import has merged is durable.
ImportsHold ==
  \A t \in Threads : call[t].op = "import" =>
    \A i \in call[t].done : durable.tf[i] = TokensOf[i]

\* An item reported indexed is searchable and one never indexed is not,
\* whichever statements, commits and rollbacks fail and wherever the process dies.
THEOREM AcknowledgedWritesSurvive ==
  ASSUME Calls \cap {"index", "remove", "clear_all"} = {}
  PROVE  Spec => []AckedWritesHold
<1> DEFINE Dur == \A i \in Items : DurableHolds(i)
           Inv == TypeOK /\ OneBatch /\ WorkWhole /\ Whole(durable) /\ Dur /\ ImportsHold
<1>1. Init => Inv
  <2>1. Init => TypeOK /\ OneBatch /\ WorkWhole /\ Whole(durable)
    BY InitTyped DEF Init, OneBatch, InBatch, Idle, Whole, WholeAt, WorkWhole, Empty
  <2>2. QED
    BY <2>1 DEF Init, DurableHolds, ImportsHold, Empty, Idle
<1>2. Inv /\ [Next]_vars => Inv'
  <2> SUFFICES ASSUME Inv, [Next]_vars PROVE Dur' /\ ImportsHold'
    BY NextTyped, StepsKeepOneBatch, StepsKeepWhole DEF AllOrNothing
  <2> USE TokensAssumption DEF DurableHolds, ImportsHold
  <2>12. ASSUME ~CutShort
         PROVE  Whole(work)
    BY <2>12 DEF Whole, WorkWhole
  <2>13. ASSUME NEW t \in Threads, NEW i \in Items, call[t].op = "batch", txn',
                durable' = durable, \A j \in Items \ {i} : work'.tf[j] = work.tf[j],
                \/ acked'[i] = "unsettled" /\ CutShort'
                \/ acked'[i] = "pending" /\ i \in call'[t].done /\ work'.tf[i] = TokensOf[i],
                \A j \in Items \ {i} : acked'[j] = acked[j],
                call'[t].op \in {"batch", "rollback"}, call[t].done \subseteq call'[t].done,
                \A u \in Threads \ {t} : call'[u] = call[u]
         PROVE  Dur' /\ ImportsHold'
    <3>1. InBatch(t)' /\ \A u \in Threads : InBatch(u) => InBatch(u)' /\ call[u].done \subseteq call'[u].done
      BY <2>13 DEF InBatch
    <3>8. ~CutShort
      BY <2>13 DEF CutShort
    <3>2. ASSUME NEW j \in Items, j # i PROVE DurableHolds(j)'
      BY <2>13, <3>1, <3>2, <3>8
    <3>3. durable.tf[i] \subseteq TokensOf[i]
      BY DEF Whole, WholeAt
    <3>4. DurableHolds(i)'
      BY <2>13, <3>1, <3>3
    <3>5. Dur'
      BY <3>2, <3>4
    <3>6. ImportsHold'
      BY <2>13
    <3>7. QED
      BY <3>5, <3>6
  <2>1. ASSUME NEW t \in Threads, NEW i \in Items, BatchIndex(t, i)
        PROVE  Dur' /\ ImportsHold'
    <3>1. /\ call[t].op = "batch" /\ txn'
          /\ work' = Indexed(work, i) /\ durable' = durable
      BY <2>1 DEF BatchIndex, Execute, OneBatch, InBatch
    <3>2. work'.tf[i] = TokensOf[i] /\ \A j \in Items \ {i} : work'.tf[j] = work.tf[j]
      BY <3>1 DEF Indexed, Deleted, TypeOK, Tables
    <3>3. acked'[i] = "pending" /\ \A j \in Items \ {i} : acked'[j] = acked[j]
      BY <2>1 DEF BatchIndex, TypeOK
    <3>4. /\ call'[t].op = "batch" /\ call'[t].done = call[t].done \cup {i}
          /\ \A u \in Threads \ {t} : call'[u] = call[u]
      BY <2>1, <3>1 DEF BatchIndex, TypeOK
    <3>5. QED
      BY <2>13, <3>1, <3>2, <3>3, <3>4
  <2>14. ASSUME NEW t \in Threads, NEW i \in Items, BatchIndexFails(t, i)
         PROVE  Dur' /\ ImportsHold'
    <3>1. /\ call[t].op = "batch" /\ txn'
          /\ work' \in IndexCutShort(work, i) /\ durable' = durable
      BY <2>14 DEF BatchIndexFails, Execute, OneBatch, InBatch
    <3>2. \A j \in Items \ {i} : work'.tf[j] = work.tf[j]
      BY <3>1 DEF IndexCutShort, DeleteCutShort, TypeOK, Tables
    <3>3. acked'[i] = "unsettled" /\ \A j \in Items \ {i} : acked'[j] = acked[j]
      BY <2>14 DEF BatchIndexFails, TypeOK
    <3>4. /\ call'[t].op = "rollback" /\ call'[t].done = call[t].done
          /\ \A u \in Threads \ {t} : call'[u] = call[u] /\ ~InBatch(u)
      BY <2>14, <3>1 DEF BatchIndexFails, TypeOK, OneBatch, InBatch
    <3>6. CutShort'
      BY <2>14, <3>1, <3>4 DEF BatchIndexFails, CutShort, InBatch
    <3>5. QED
      BY <2>13, <3>1, <3>2, <3>3, <3>4, <3>6
  <2>2. ASSUME NEW t \in Threads, NEW S \in NonEmpty, BeginBatch(t, S)
        PROVE  Dur' /\ ImportsHold'
    BY <2>2 DEF BeginBatch, TypeOK, OneBatch, InBatch, CutShort
  <2>3. ASSUME NEW t \in Threads, NEW S \in NonEmpty, BeginImport(t, S)
        PROVE  Dur' /\ ImportsHold'
    BY <2>3 DEF BeginImport, TypeOK, InBatch, CutShort
  <2>4. ASSUME NEW t \in Threads, NEW S \in NonEmpty, MergeShard(t, S)
        PROVE  Dur' /\ ImportsHold'
    <3>1. /\ work' = Merged(work, S) /\ durable' = work'
          /\ S \in SUBSET Items
          /\ ~txn /\ Whole(work) /\ ~CutShort
      BY <2>4, <2>12 DEF MergeShard, Execute, NonEmpty, CutShort
    <3>2. \A i \in Items : work'.tf[i] = IF i \in S THEN TokensOf[i] ELSE work.tf[i]
      BY <3>1 DEF Merged, TypeOK, Tables, Whole, WholeAt
    <3>3. \A u \in Threads :
            /\ call'[u].op = call[u].op /\ ~InBatch(u)
            /\ call'[u].done = IF u = t THEN call[t].done \cup S ELSE call[u].done
      BY <2>4, <3>1 DEF MergeShard, TypeOK, OneBatch
    <3>4. \A i \in Items : acked'[i] = IF i \in S THEN "pending" ELSE acked[i]
      BY <2>4 DEF MergeShard
    <3>5. Dur'
      <4>1. ASSUME NEW i \in Items PROVE DurableHolds(i)'
        <5>1. CASE i \in S
          BY <3>1, <3>2, <3>4, <5>1 DEF TypeOK, Tables
        <5>2. CASE i \notin S
          <6>1. acked[i] = "pending" => work.tf[i] = TokensOf[i]
            OBVIOUS
          <6>2. acked[i] = "indexed" => work.tf[i] = TokensOf[i] /\ TokensOf[i] # {}
            BY <3>1 DEF Whole, WholeAt
          <6>3. /\ acked'[i] = acked[i]
                /\ work'.tf[i] = work.tf[i]
                /\ durable'.tf[i] = work.tf[i]
            BY <3>1, <3>2, <3>4, <5>2
          <6>4. QED
            BY <6>1, <6>2, <6>3
        <5>3. QED
          BY <5>1, <5>2
      <4>2. QED
        BY <4>1
    <3>6. ImportsHold'
      <4>1. ASSUME NEW u \in Threads, call[u].op = "import", NEW i \in call'[u].done
            PROVE  durable'.tf[i] = TokensOf[i]
        <5>1. i \in Items
          BY <3>1, <3>3, <4>1 DEF TypeOK
        <5>2. CASE i \in S
          BY <3>1, <3>2, <5>1, <5>2
        <5>3. CASE i \notin S
          <6>1. durable.tf[i] = TokensOf[i]
            BY <3>3, <4>1, <5>3
          <6>4. durable.tf[i] \subseteq work.tf[i]
            BY <3>1, <5>1
          <6>2. work.tf[i] = TokensOf[i]
            BY <3>1, <5>1, <6>1, <6>4 DEF Whole, WholeAt
          <6>3. QED
            BY <3>1, <3>2, <5>1, <5>3, <6>2
        <5>4. QED
          BY <5>2, <5>3
      <4>2. QED
        BY <3>3, <4>1
    <3>7. QED
      BY <3>5, <3>6
  <2>5. ASSUME NEW t \in Threads, CommitBatch(t)
        PROVE  Dur' /\ ImportsHold'
    <3>1. Whole(work) /\ work' = work /\ durable' = work /\ ~CutShort
      BY <2>5, <2>12 DEF CommitBatch, CutShort
    <3>2. \A i \in Items :
            \/ acked'[i] = acked[i] /\ ~(i \in call[t].done /\ acked[i] = "pending")
            \/ acked[i] = "pending" /\ acked'[i] = Outcome(i)
      BY <2>5 DEF CommitBatch, Settled
    <3>3. /\ \A u \in Threads : InBatch(u) => u = t
          /\ \A u \in Threads : u # t => call'[u] = call[u]
          /\ call'[t].op = "idle"
      BY <2>5 DEF CommitBatch, OneBatch, InBatch, TypeOK, Idle
    <3>4. ASSUME NEW i \in Items PROVE DurableHolds(i)'
      <4>1. CASE acked'[i] = acked[i]
        BY <3>1, <3>2, <3>3, <4>1 DEF Whole, WholeAt, Outcome
      <4>2. CASE acked[i] = "pending" /\ acked'[i] = Outcome(i)
        BY <3>1, <4>2 DEF Outcome
      <4>3. QED
        BY <3>2, <4>1, <4>2
    <3>5. ASSUME NEW i \in Items, durable.tf[i] = TokensOf[i] PROVE durable'.tf[i] = TokensOf[i]
      BY <3>1, <3>5 DEF Whole, WholeAt
    <3>6. ImportsHold'
      BY <3>3, <3>5 DEF TypeOK
    <3>7. QED
      BY <3>4, <3>6
  <2>6. ASSUME NEW t \in Threads, CommitBatchFails(t) \/ RollbackBatch(t)
        PROVE  Dur' /\ ImportsHold'
    <3>1. /\ work' = durable \/ (work' = work /\ txn' = txn)
          /\ durable' = durable /\ InBatch(t)
      BY <2>6 DEF CommitBatchFails, RollbackBatch, InBatch
    <3>2. \A u \in Threads :
            /\ u = t => call'[u].op = "idle"
            /\ u # t => call'[u] = call[u] /\ ~InBatch(u)
      BY <2>6, <3>1 DEF CommitBatchFails, RollbackBatch, TypeOK, Idle, OneBatch
    <3>3. \A i \in Items :
            acked'[i] = IF i \in call[t].done /\ acked[i] = "pending"
                        THEN "unsettled" ELSE acked[i]
      BY <2>6 DEF CommitBatchFails, RollbackBatch, Unsettled
    <3>4. \A i \in Items : acked'[i] = "pending" => durable.tf[i] = TokensOf[i]
      BY <3>2, <3>3
    <3>8. work' = durable \/ (CutShort => CutShort')
      BY <3>1, <3>2 DEF CutShort, InBatch
    <3>5. ASSUME NEW i \in Items PROVE DurableHolds(i)'
      BY <3>1, <3>3, <3>4, <3>8
    <3>6. ImportsHold'
      BY <3>1, <3>2
    <3>7. QED
      BY <3>5, <3>6
  <2>7. ASSUME NEW t \in Threads, MergeShardFails(t) \/ FoldPostings(t)
        PROVE  Dur' /\ ImportsHold'
    <3>1. /\ UNCHANGED <<work, durable, txn>>
          /\ call[t].op = "import"
      BY <2>7 DEF MergeShardFails, FoldPostings
    <3>2. \A u \in Threads : IF u = t THEN call'[u].op = "idle" ELSE call'[u] = call[u]
      BY <2>7 DEF MergeShardFails, FoldPostings, TypeOK, Idle
    <3>3. \A i \in Items :
            \/ acked'[i] = acked[i]
            \/ acked'[i] = "unsettled" /\ acked[i] = "pending"
            \/ acked'[i] = "indexed" /\ acked[i] = "pending" /\ i \in call[t].done /\ TokensOf[i] # {}
      BY <2>7 DEF MergeShardFails, FoldPostings, Settled, Unsettled, Outcome, TypeOK
    <3>4. /\ \A u \in Threads : InBatch(u) => InBatch(u)' /\ call'[u] = call[u]
          /\ CutShort => CutShort'
      BY <3>1, <3>2 DEF InBatch, CutShort
    <3>5. ASSUME NEW i \in Items PROVE DurableHolds(i)'
      BY <3>1, <3>3, <3>4
    <3>6. ImportsHold'
      BY <3>1, <3>2
    <3>7. QED
      BY <3>5, <3>6
  <2>8. CASE CrashAndOpen
    BY <2>8 DEF CrashAndOpen, Unsettled, TypeOK, Tables, Idle
  <2>9. ASSUME NEW t \in Threads, NEW p \in Params, TopK(t, p)
        PROVE  Dur' /\ ImportsHold'
    BY <2>9 DEF TopK, InBatch, CutShort
  <2>10. CASE UNCHANGED vars
    BY <2>10 DEF vars, InBatch, CutShort
  <2>11. QED
    BY <2>1, <2>2, <2>3, <2>4, <2>5, <2>6, <2>7, <2>8, <2>9, <2>10, <2>14
    DEF Next, Index, Remove, ClearAll
<1>3. Inv => AckedWritesHold
  BY TokensAssumption DEF AckedWritesHold, DurableHolds, WorkWhole, WholeAt, TypeOK, Tables
<1>4. QED
  BY <1>1, <1>2, <1>3, PTL DEF Spec
=============================================================================
