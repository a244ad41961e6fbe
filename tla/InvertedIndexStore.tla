------------------------- MODULE InvertedIndexStore -------------------------
(***************************************************************************)
(* The BM25 postings sidecar of CorpusKit (engine/inverted_index_store.rs) *)
(* and the ways corpus.rs drives it.                                       *)
(*                                                                         *)
(* One SQLite connection holds two tables, iix_termfreqs and iix_doclens.  *)
(* Every public method takes the store's mutex, so a method is one step;   *)
(* but begin_batch, index, commit_batch and rollback_batch are SEPARATE    *)
(* methods, so calls of other threads fall inside an open batch and run on *)
(* the same connection, in the batch's transaction.  `cached' is the BM25  *)
(* index that top_k built last; the durable tables are the truth.          *)
(*                                                                         *)
(* A chunk is immutable and its id is derived from its content, so the     *)
(* tokens of an item are a constant of the item.  A term's frequency and a *)
(* document's length are functions of the tokens: a table row is recorded  *)
(* by its presence.                                                        *)
(***************************************************************************)
EXTENDS Naturals, FiniteSets, TLC

CONSTANTS
  Items,      \* chunk ids
  Terms,      \* keyword tokens
  TokensOf,   \* TokensOf[i]: the set of terms of item i, possibly empty
  Threads,    \* callers of the store
  Params,     \* BM25 parameter values a query may ask for
  Calls,      \* the methods callers use, a subset of AllCalls
  Faults,     \* what may go wrong, a subset of AllFaults
  NoIndex     \* cached = None

AllCalls  == {"index", "remove", "clear_all", "batch", "import", "top_k"}
AllFaults == {"statement", "commit", "rollback", "read", "crash"}

ASSUME TokensAssumption == TokensOf \in [Items -> SUBSET Terms]
ASSUME ModeAssumption   == Calls \subseteq AllCalls /\ Faults \subseteq AllFaults

VARIABLES
  work,      \* the tables as the store's connection sees them
  durable,   \* the tables as a connection opened after a crash would see them
  txn,       \* a transaction is open on the connection
  cached,    \* the cached BM25 index: the tables it was built from, or NoIndex
  call,      \* call[t]: the multi-method call thread t is in
  acked      \* acked[i]: what the last call that returned Ok did to item i

vars == <<work, durable, txn, cached, call, acked>>

Tables == [tf: [Items -> SUBSET Terms], len: SUBSET Items]
Indexes == [params: Params, image: Tables]
Idle   == [op |-> "idle", todo |-> {}, done |-> {}]

TypeOK ==
  /\ work \in Tables
  /\ durable \in Tables
  /\ txn \in BOOLEAN
  /\ cached \in Indexes \cup {NoIndex}
  /\ call \in [Threads -> [op: {"idle", "batch", "rollback", "import"},
                           todo: SUBSET Items, done: SUBSET Items]]
  /\ acked \in [Items -> {"indexed", "absent", "pending", "unsettled"}]

Empty == [tf |-> [i \in Items |-> {}], len |-> {}]

Init ==
  /\ work = Empty
  /\ durable = Empty
  /\ txn = FALSE
  /\ cached = NoIndex
  /\ call = [t \in Threads |-> Idle]
  /\ acked = [i \in Items |-> "absent"]

(***************************************************************************)
(* The effect of the SQL statements.                                       *)
(***************************************************************************)

\* delete_from_db: the item's rows are gone from both tables.
Deleted(tables, i) ==
  [tf |-> [tables.tf EXCEPT ![i] = {}], len |-> tables.len \ {i}]

\* index: delete, then insert the tokens' rows; an empty document stays deleted.
Indexed(tables, i) ==
  IF TokensOf[i] = {} THEN Deleted(tables, i)
  ELSE [tf |-> [tables.tf EXCEPT ![i] = TokensOf[i]], len |-> tables.len \cup {i}]

\* Mutant: the shard's iix_doclens rows are not copied.
MergedWithoutLengths(tables, shard) ==
  [tables EXCEPT !.tf = [i \in Items |-> IF i \in shard THEN @[i] \cup TokensOf[i] ELSE @[i]]]

\* merge_shard: INSERT OR REPLACE of the shard's rows, nothing is deleted first.
\* A document without tokens never enters a shard.
Merged(tables, shard) ==
  [tf  |-> [i \in Items |-> IF i \in shard THEN tables.tf[i] \cup TokensOf[i]
                                           ELSE tables.tf[i]],
   len |-> tables.len \cup {i \in shard : TokensOf[i] # {}}]

\* The tables a sequence of single statements leaves when one of them fails:
\* the DELETE of iix_termfreqs ran, or both DELETEs ran and some of the INSERTs
\* (their order is the iteration order of a HashMap).
DeleteCutShort(tables, i) ==
  {tables, [tf |-> [tables.tf EXCEPT ![i] = {}], len |-> tables.len]}

IndexCutShort(tables, i) ==
  DeleteCutShort(tables, i)
    \cup {[tf |-> [tables.tf EXCEPT ![i] = some], len |-> tables.len \ {i}] :
            some \in SUBSET TokensOf[i]}

\* What load_state has loaded when one of its two reads fails: some rows of
\* iix_termfreqs, or all of them and some of iix_doclens.
LoadCutShort(tables) ==
  {[tf |-> some, len |-> {}] : some \in {f \in [Items -> SUBSET Terms] :
                                           \A i \in Items : f[i] \subseteq tables.tf[i]}}
    \cup {[tf |-> tables.tf, len |-> some] : some \in SUBSET tables.len}

\* The outcome a successful index call reports, and the bookkeeping of `acked'
\* when a batch or an import returns Ok, or an error.
Outcome(i) == IF TokensOf[i] = {} THEN "absent" ELSE "indexed"
Settled(S) ==
  [i \in Items |-> IF i \in S /\ acked[i] = "pending" THEN Outcome(i) ELSE acked[i]]
Unsettled(S) ==
  [i \in Items |-> IF i \in S /\ acked[i] = "pending" THEN "unsettled" ELSE acked[i]]

\* A statement outside a transaction commits by itself.
Execute(tables) ==
  /\ work' = tables
  /\ durable' = IF txn THEN durable ELSE tables

(***************************************************************************)
(* Single-method calls, from any thread that is not inside a longer call.  *)
(***************************************************************************)

\* Mutant: only the early return for a document without tokens clears the cache.
IndexKeepsCache(t, i) ==
  /\ "index" \in Calls
  /\ call[t].op = "idle"
  /\ Execute(Indexed(work, i))
  /\ cached' = IF TokensOf[i] = {} THEN NoIndex ELSE cached
  /\ acked' = [acked EXCEPT ![i] = Outcome(i)]
  /\ UNCHANGED <<txn, call>>

Index(t, i) ==
  /\ "index" \in Calls
  /\ call[t].op = "idle"
  /\ \/ /\ Execute(Indexed(work, i))
        /\ cached' = NoIndex
        /\ acked' = [acked EXCEPT ![i] = Outcome(i)]
     \/ /\ "statement" \in Faults     \* `?' returns before cached = None
        /\ \E tables \in IndexCutShort(work, i) : Execute(tables)
        /\ acked' = [acked EXCEPT ![i] = "unsettled"]
        /\ UNCHANGED cached
  /\ UNCHANGED <<txn, call>>

Remove(t, i) ==
  /\ "remove" \in Calls
  /\ call[t].op = "idle"
  /\ \/ /\ Execute(Deleted(work, i))
        /\ cached' = NoIndex
        /\ acked' = [acked EXCEPT ![i] = "absent"]
     \/ /\ "statement" \in Faults
        /\ \E tables \in DeleteCutShort(work, i) : Execute(tables)
        /\ acked' = [acked EXCEPT ![i] = "unsettled"]
        /\ UNCHANGED cached
  /\ UNCHANGED <<txn, call>>

ClearAll(t) ==
  /\ "clear_all" \in Calls
  /\ call[t].op = "idle"
  /\ \/ /\ Execute(Empty)
        /\ cached' = NoIndex
        /\ acked' = [i \in Items |-> "absent"]
     \/ /\ "statement" \in Faults
        /\ \E tables \in {work, [tf |-> Empty.tf, len |-> work.len]} : Execute(tables)
        /\ acked' = [i \in Items |-> "unsettled"]
        /\ UNCHANGED cached
  /\ UNCHANGED <<txn, call>>

\* Mutant: the cached index is not tagged with the parameters it was built for.
TopKUntagged(t, p) ==
  /\ "top_k" \in Calls
  /\ call[t].op = "idle"
  /\ cached' = [image |-> work]
  /\ UNCHANGED <<work, durable, txn, call, acked>>

\* top_k: the cache is rebuilt from the connection's view when it is empty or
\* was built for other parameters, and the query is answered from it.  An error
\* of the load is dropped: what was read by then becomes the cached index.
TopK(t, p) ==
  /\ "top_k" \in Calls
  /\ call[t].op = "idle"
  /\ IF cached # NoIndex /\ cached.params = p THEN UNCHANGED cached
     ELSE \/ cached' = [params |-> p, image |-> work]
          \/ /\ "read" \in Faults
             /\ \E image \in LoadCutShort(work) : cached' = [params |-> p, image |-> image]
  /\ UNCHANGED <<work, durable, txn, call, acked>>

(***************************************************************************)
(* Window 2 of ingest_batch and of ingest_batch_import_serial: begin_batch, *)
(* one index per chunk, then commit_batch, or rollback_batch on an error.   *)
(***************************************************************************)

\* BEGIN IMMEDIATE fails inside a transaction; the caller returns the error.
BeginBatch(t, batch) ==
  /\ "batch" \in Calls
  /\ call[t].op = "idle"
  /\ ~txn
  /\ txn' = TRUE
  /\ call' = [call EXCEPT ![t] = [op |-> "batch", todo |-> batch, done |-> {}]]
  /\ UNCHANGED <<work, durable, cached, acked>>

BatchIndex(t, i) ==
  /\ call[t].op = "batch"
  /\ i \in call[t].todo
  /\ Execute(Indexed(work, i))
  /\ cached' = NoIndex
  /\ acked' = [acked EXCEPT ![i] = "pending"]
  /\ call' = [call EXCEPT ![t].todo = @ \ {i}, ![t].done = @ \cup {i}]
  /\ UNCHANGED txn

CommitBatch(t) ==
  /\ call[t].op = "batch"
  /\ call[t].todo = {}
  /\ txn' = FALSE
  /\ durable' = work
  /\ acked' = Settled(call[t].done)
  /\ call' = [call EXCEPT ![t] = Idle]
  /\ UNCHANGED <<work, cached>>

\* COMMIT fails: `?' returns the error and nobody calls rollback_batch, so unless
\* SQLite rolled the transaction back by itself it stays open.
CommitBatchFails(t) ==
  /\ "commit" \in Faults
  /\ call[t].op = "batch"
  /\ call[t].todo = {}
  /\ \/ UNCHANGED <<work, txn>>
     \/ work' = durable /\ txn' = FALSE
  /\ acked' = Unsettled(call[t].done)
  /\ call' = [call EXCEPT ![t] = Idle]
  /\ UNCHANGED <<durable, cached>>

\* An index call of the batch fails, and returns before it clears `cached'.
BatchIndexFails(t, i) ==
  /\ "statement" \in Faults
  /\ call[t].op = "batch"
  /\ i \in call[t].todo
  /\ \E tables \in IndexCutShort(work, i) : Execute(tables)
  /\ acked' = [acked EXCEPT ![i] = "unsettled"]
  /\ call' = [call EXCEPT ![t].op = "rollback"]
  /\ UNCHANGED <<txn, cached>>

\* rollback_batch: leaves `cached' alone, and drops an error of its ROLLBACK,
\* with the transaction still open.
RollbackBatch(t) ==
  /\ call[t].op = "rollback"
  /\ \/ txn' = FALSE /\ work' = durable
     \/ "rollback" \in Faults /\ UNCHANGED <<txn, work>>
  /\ call' = [call EXCEPT ![t] = Idle]
  /\ acked' = Unsettled(call[t].done)
  /\ UNCHANGED <<durable, cached>>

(***************************************************************************)
(* Phase S of ingest_batch_import_sharded: one merge_shard per shard file, *)
(* then fold_postings, which clears the cache.  The shards partition the   *)
(* imported items; any non-empty part may be the next shard.               *)
(***************************************************************************)

BeginImport(t, items) ==
  /\ "import" \in Calls
  /\ call[t].op = "idle"
  /\ call' = [call EXCEPT ![t] = [op |-> "import", todo |-> items, done |-> {}]]
  /\ UNCHANGED <<work, durable, txn, cached, acked>>

\* ATTACH outside a transaction, then one transaction of its own.
MergeShard(t, shard) ==
  /\ call[t].op = "import"
  /\ shard \subseteq call[t].todo
  /\ ~txn
  /\ Execute(Merged(work, shard))
  /\ call' = [call EXCEPT ![t].todo = @ \ shard, ![t].done = @ \cup shard]
  /\ acked' = [i \in Items |-> IF i \in shard THEN "pending" ELSE acked[i]]
  /\ UNCHANGED <<txn, cached>>

\* ATTACH cannot run in a transaction, and a merge can fail and roll back: the
\* import returns the error without reaching fold_postings.
MergeShardFails(t) ==
  /\ call[t].op = "import"
  /\ call[t].todo # {}
  /\ txn \/ "statement" \in Faults
  /\ call' = [call EXCEPT ![t] = Idle]
  /\ acked' = Unsettled(call[t].done)
  /\ UNCHANGED <<work, durable, txn, cached>>

FoldPostings(t) ==
  /\ call[t].op = "import"
  /\ call[t].todo = {}
  /\ cached' = NoIndex
  /\ acked' = Settled({i \in call[t].done : TokensOf[i] # {}})
  /\ call' = [call EXCEPT ![t] = Idle]
  /\ UNCHANGED <<work, durable, txn>>

\* The process dies and the store is opened again (open): nothing of an
\* uncommitted transaction survives, and the cache is empty.
CrashAndOpen ==
  /\ "crash" \in Faults
  /\ work' = durable
  /\ txn' = FALSE
  /\ cached' = NoIndex
  /\ call' = [t \in Threads |-> Idle]
  /\ acked' = Unsettled(Items)
  /\ UNCHANGED durable

NonEmpty == (SUBSET Items) \ {{}}

Next ==
  \/ \E t \in Threads :
       \/ \E i \in Items : Index(t, i) \/ Remove(t, i) \/ BatchIndex(t, i) \/ BatchIndexFails(t, i)
       \/ \E p \in Params : TopK(t, p)
       \/ \E S \in NonEmpty : BeginBatch(t, S) \/ BeginImport(t, S) \/ MergeShard(t, S)
       \/ ClearAll(t)
       \/ CommitBatch(t)
       \/ CommitBatchFails(t)
       \/ RollbackBatch(t)
       \/ MergeShardFails(t)
       \/ FoldPostings(t)
  \/ CrashAndOpen

Spec == Init /\ [][Next]_vars

(***************************************************************************)
(* Properties                                                              *)
(***************************************************************************)

\* The cached BM25 index was built from the tables as they are now: a query is
\* never answered from an index that some write has outdated.  (The comment on
\* StoreState.cached: "Cleared by every write so the next query reloads from
\* SQLite and rebuilds.")
CacheFresh == cached # NoIndex => cached.image = work

\* An item's postings are all there, with its length, or not at all, in the
\* tables a restarted process would read.  (The comment on index: "Re-indexing
\* an existing item replaces all its term frequencies atomically.")
WholeDocuments ==
  \A i \in Items :
    /\ durable.tf[i] \in {{}, TokensOf[i]}
    /\ i \in durable.len <=> durable.tf[i] # {}

\* What a caller was told happened to an item is what the store holds: an item
\* whose indexing returned Ok is searchable and one whose removal returned Ok
\* is gone, whatever batches and imports of other threads ran meanwhile, unless
\* some later call on the item is still running or failed.
AckedWritesHold ==
  \A i \in Items :
    /\ acked[i] = "indexed" => work.tf[i] = TokensOf[i] /\ i \in work.len
    /\ acked[i] = "absent"  => work.tf[i] = {} /\ i \notin work.len

\* A transaction is open only inside a batch, so that the next begin_batch can
\* start one and single calls commit by themselves.  (The comment on
\* begin_batch: "Caller MUST pair with commit_batch (success) or rollback_batch
\* (error).")
TransactionsAreClosed == txn => \E t \in Threads : call[t].op \in {"batch", "rollback"}

\* A stale cache outlives the call that caused it only if that call failed:
\* with no failure, the cache is stale only while an import stands between its
\* first merge_shard and its fold_postings.
StaleOnlyInMerge ==
  cached # NoIndex /\ cached.image # work
    => \E t \in Threads : call[t].op = "import" /\ call[t].done # {}
=============================================================================
