# Verification of moot-memory

TLA+ modules for the core of `moot-memory` (crates `corpus-kit`, `vectorkit`,
`locus-kit`), the TLC runs that check them on small instances, and TLAPS proofs of
what holds for every instance. The modules follow the Rust code under
`src/packages/kits/*/rust/src`; `PROJECT.json` maps each definition to its lines.

```
tlc -workers 2 -config MCEstate.cfg MCEstate      # model-check one configuration
tlapm IngestQueueProofs.tla                       # check the proofs of one module
```

## 1. The system

The repository holds three packages that one application opens together over one
estate (a SQLite database with sidecar files).

| Part | State it keeps | Operations | Module |
|---|---|---|---|
| Postings store (`engine/inverted_index_store.rs`) | two SQLite tables, an open-transaction flag, a cached BM25 index | index, remove, clear, batch, shard merge, query | `InvertedIndexStore` |
| Corpus (`corpus.rs`, `bundle_store.rs`, `removed_source_store.rs`, `basis_store.rs`, `corpus_provider_counts_store.rs`) | chunk rows, tombstones, postings, vectors, bases, counts; in memory the chunk-to-source map, the serving providers, the counts accumulators | ingest, batch, import, remove, expunge, reindex, destroy, open | `Corpus` |
| Ingest queue (`corpus_ingest_queue.rs`) | job rows in `queue.sqlite` shared by processes, lease files, worker threads, the deferred-index window | mount, enqueue, await, drop, drain | `IngestQueue`, `JobLedger` |
| Keyword ranking (`engine/inverted_index.rs`, `engine/bm25_weighting.rs`) | per query: cursors, a bounded heap, a threshold | top_k by WAND or Block-Max WAND | `TopK` |
| Vector store (`vector_store.rs`, `engine/resident_store.rs`, `brute_force.rs`) | `vectors` table, two resident indexes, `.vec` sidecar, deferred window, live count | add, delete, re-embed, window, flush, destroy, first use, open | `VectorStore` |
| Estate drawers (`estate_verbs.rs`, `drawer_store_inmemory.rs`, `container_fingerprint_store.rs`, `merkle_rollup.rs`) | drawer rows, audit log, erasure ledger, supersedes tunnels, container fingerprints, Merkle roots | capture, mutate, correct, reanchor, withdraw, expunge, rollup, sweep, open, pruned recall | `Estate` |
| Node tree (`node_store.rs`) | root, wings, rooms | create on demand, tombstone, Merkle update, listings, batch capture into wings | `NodeStore` |
| Tunnels (`tunnel*.rs`, `drawer_store_inmemory.rs`) | tunnel rows | add, retire, review, reparent, outline walks | `Tunnels` |
| Other nouns | sources and learned references, associations, proposals, facts, diaries | learn, associate, propose, assert and withdraw facts, write diaries | `Relations` |
| Recall traces | trace rows | insert, mark used (one, many), prune | `RecallTraces` |
| Rows and schema (`schema.rs`, `*_values`, `*_from_row`, the corpus and vector tables) | none: encodings | encode, decode, date text, manifest defaults | `Rows` |
| Bitmap vocabularies (`*_operational.rs`, `adjectives.rs`, `provenance.rs`) | none: layouts | read and write a field, compose, forbidden combinations | `Bitmaps` |
| Filters and recall (`filter.rs`, `bitmap_evaluator.rs`, `recall_stream.rs`, `Estate::recall`) | a frame's chain | defaults, tiers, pruning, degraded stages, hydration, paging | `Filters` |
| Search engines (`engine/mih.rs`, `brute_force.rs`, `float_brute_force.rs`, `max_sim.rs`, sidecar codec) | slots, bands | build, add, remove, search; table scans | `VectorSearch` |
| Fusion (`engine/fusion.rs`, `hybrid_recall.rs`, the source lanes of `corpus.rs`) | none | fuse lanes, hydrate, rank sources | `Fusion` |
| Chunks (`chunker.rs`, `chunk.rs`, `bundle_store.rs`) | chunk rows, Merkle roots | chunk, insert, read, scrub, roll up | `Chunks` |
| Drawer reads (`drawer_store.rs`, `drawer_fingerprint.rs`, `bundle_materializer.rs`, `node_bundle_store.rs`) | stored fingerprints, room bundles | scans, sweeps, windows, bit series, bundles | `DrawerReads` |

How they interact. The application captures a drawer in the estate and enqueues its
text; a worker of the ingest queue hands batches to `Corpus::ingest_batch`, which writes
chunk rows, postings (`InvertedIndexStore`, inside a batch transaction) and vectors
(`VectorStore`, inside a deferred window that `await_ingest_drain` or the worker
publishes). Withdrawing or expunging a drawer makes the application call
`Corpus::remove` or `Corpus::expunge`. No lock spans these parts: each store has a
mutex of its own, and only estate calls are serialised (`drawer_store_inmemory.rs:33`).

What is hard in it:

* interleaving of store calls of operations on different threads (Corpus), calls of other
  threads inside an open batch on one connection (InvertedIndexStore), a table write
  before and its mirror after the mutex (VectorStore);
* several processes on one job table, leases that lapse, rows left in `cur` by the dead;
* derived copies that must follow a truth: the cached index, the two resident indexes and
  the sidecar, container fingerprints, Merkle roots;
* erasure that takes many writes and no transaction: remove and expunge in Corpus, lineage
  expunge in the estate, with crashes and ignored failures in between;
* something that must eventually happen: an enqueued job gets its terminal reply;
* pruning that must lose nothing: the top-k loops skip postings by upper bounds, recall
  skips rooms by fingerprints, multi-index hashing stops at a radius;
* verbs that are several storage statements with no transaction: check-then-insert of
  nodes and catalogue entries, read-modify-write of a tunnel's bitmap, a reparenting that
  tombstones and then adds;
* two implementations of one promise: storage-pushed scans beside the trait's defaults,
  two backends that hand a value back under different types, three tiers that judge one
  filter.

The hazards in `PROJECT.json` list these at their lines.

## 2. Modules

`deploy` / `Deployments`. `IngestQueue`, `VectorStore` and `Estate` take a set of
deployments, one of which is chosen initially and never changes: it says what callers do
and what may go wrong (the "liberties"). One run so checks several usage patterns, and
where the code bears a property only under a discipline of its callers, the discipline is
a liberty the passing run leaves out and a configuration of its own adds (section 6).

### InvertedIndexStore

`work` is what the one connection sees, `durable` what a restarted process would see;
they differ only while `txn`. A public method is one step (it holds the mutex); a batch is
`BeginBatch`, `BatchIndex`..., `CommitBatch` or `RollbackBatch`, so calls of other threads
fall into its transaction. `Index`, `Remove`, `ClearAll` and `TopK` are the single calls,
`BeginImport`, `MergeShard`, `FoldPostings` the bulk import. Faults: a statement fails
(after its predecessors took effect, `IndexCutShort`), a COMMIT fails, the ROLLBACK of a
batch fails and nobody is told, the load behind a query stops half-way and the query answers
from what it got (`LoadCutShort`), the process dies. A batch whose index call failed rolls
back in a step of its own, after calls of other threads.
`acked` records what the last finished call told its caller.

### Corpus

One variable per store and per piece of memory; `call[t]` is where thread `t` is in its
operation. Each store call is one step, in the code's order (for example remove:
postings, vectors, in-memory map, tombstone). A vector is known by what it was computed
from: the chunk row's text (expunge blanks it) and the label of the basis. Training, the
snapshot `reindex` works from, first-basis bootstrap, re-embedding, counts, and the
partially done versions of multi-row calls are there; embedding mathematics is not.
`active_chunks` is two store calls, hence two steps: the tombstones are read, then the chunk
rows, and what is removed or ingested in between is seen by one of them only.

### IngestQueue, JobLedger

`thread[<<p, kind>>]` for the encode worker, the import worker and the await pump of each
process; `host[p]` for the calling thread. A pass is claim, decode, ingest batch, reply,
with the per-job fallback when the batch fails. `lease` is a file per stream;
`LeaseLapses` is its expiry when the owner is dead, `LeaseOutlived` (fault "slow") its
expiry under a live owner inside a long batch. `queuekit` and the corpus are external
here and modelled from their use. `JobLedger` is the abstract promise: a job is open, then
has one final outcome, and is done only after its text was ingested. `ImplementsLedger`
states that the pipeline implements it under `Outcome`.

### TopK

One query of the postings index, one step per turn of the loop: `Score`, `SeekToPivot`,
`SkipBlock` (Block-Max only) and `Return`. A cursor is the set of postings it has not
passed, the cursors' sort the order `Before`, the heap array the set of its entries with
the weakest as root. Item ids are numbers in string order, so the target with U+0001
appended is the id plus one. BM25's arithmetic ends when the index is built: an index is
any assignment of non-negative quantised impacts. `ExhaustiveScan` is the reference the
code keeps for its tests.

### VectorStore

`table` is durable; `store` is the state under the mutex (`bf`, `mih` the two indexes,
`arr`/`file` the array store and its sidecar, `pending`, `active`, `dirty`, `live` the
deferred window, `count`, `lane`, `built`). Locked sections are functions from one store
record to the next. A sidecar write that fails is `SidecarFails`: the write of a batch
(`AppendFails`), that of the compaction after it, when the batch is in the array store and
its file already (`CompactionFails`), either of them at one key of a delete, or a rebuild's.
The float lane has no resident state a write must follow: searches scan the table.

### Estate

One call at a time (the coordinator's mutex), split at every write no transaction covers.
The audit gate's automaton is in `substrate-lib`: `Admits` is a parameter that
`EstateAssumption` constrains by the legal and illegal transitions the repository's tests
pin (`Pinned`, `Barred`). A row is its state, marks (canonical, secret, public,
confirmed), feature flags, room, lineage and whether text is stored; `audit[d]` is the
latest event and whether an expunge was closed; a Merkle root is the set of drawers it
commits to. Liberties separate failures the code reports (`fails`) from those it ignores
(`ignored`: ledger insert, sibling's event, rollup; `kept`: a sibling's erasing update).
The states pending, decayed and expired are unreachable through the estate's verbs
(captures are active; nothing in the repository calls decay or expire).

### StorageCalls, NodeStore, Tunnels, Relations, RecallTraces, Nouns

The nouns beside the drawer. `StorageCalls` is the frame they share: a verb is a sequence
of storage statements, `call[c]` says which statement caller `c` executes next with what it
has read so far, each statement is one step, and any statement may fail (`Fail`), which
ends the verb and keeps what it wrote. `Coordinated` is the host's mutex around the estate:
one verb at a time.

* `NodeStore`: `create_node` is `FindNode` then `InsertNode`; `capture_batch` resolves each
  frame's wing and room once and files its drawer; `list_wings`, `list_rooms`,
  `drawers_in_wing` and `drawers_in_wing_room` walk names back to drawers. `filed` is a
  ghost: where each acknowledged drawer was filed, and whether its nodes were open.
* `Tunnels`: `add_tunnel` with its one-parent check, `reparent_drawer` in three statements,
  `retire_tunnel`, `unretire_tunnel`, `respond_to_tunnel` as read and write-back,
  `capture_tunnel` with the sensitivity of its endpoints, outline walks.
* `Relations`: `learn` (look up or add the source, then the reference, which has a handle of
  its own beside its source's), `associate`
  (names, anchors, natural-key duplicate), `propose`, facts, diaries.
* `RecallTraces`: inserts, `mark_recall_traces_used` row by row, `mark_recall_trace_used`,
  pruning; time is a counter to `MaxTime`.
* `Nouns` composes them. No verb writes two nouns' tables, so a behaviour keeps to one
  noun (`scene`), which TLC explores side by side.

### Rows, Bitmaps, Filters, VectorSearch, Fusion, Chunks, DrawerReads, Laws, SearchLaws

Code that computes from its arguments or from one table: operators named as in the source.
`Laws` picks an input of one part, the next step puts it back, and its invariants compare
what the code computes with a definition written from what callers rely on. `SearchLaws`
adds the inputs of the filters and the search engines, and the run checks both. They are two
modules because filters nest and the radius loop recurses: `Filters` and `VectorSearch` need
RECURSIVE operators, and nothing that reaches one can be proved about.

* `Rows`: tables and columns, entity to row and back. A stored value keeps its tag, because
  each decoder matches on it and SQLite hands back other tags than the in-memory backend
  (`ReadBack`, external). Dates are days and milliseconds; the two writers of ISO text and
  the two readers are there with their calendar loops. `++` overlays one row on another.
* `Bitmaps`: a word is the set of its one bits; an axis is a place, a width, its legal
  values and how an unknown one reads.
* `Filters`: a filter is its case and argument; `evaluate` is the three tiers,
  `pruned_candidates` and `scanned_candidates` the two ways recall finds candidates, with
  the stage that fails as an input.
* `VectorSearch`: a binary vector is a set of bits out of `Width`; the bands, masks, radius
  loop, budget fallback and bounded heap of `mih.rs` are there, as is the brute-force scan
  by partitions. Float vectors carry their distance in `Fraction`ths of a reported unit
  (cosine arithmetic is external); the index reports it truncated (`float_to_raw`), the scan
  of the table rounded (`RoundedToRaw`), both within the width `MAX_RAW` stands for. The
  sidecar is the sequence of its sections, which a crash may cut.
* `Fusion`: reciprocal-rank terms are fractions over `RankScale`; lanes with weights,
  candidates and hydration, hits by source.
* `Chunks`: a text is a sequence of characters already split in sentences; the chunk store
  inserts row by row and then writes each source's Merkle root; any of these writes may fail.
* `DrawerReads`: each scan twice, as the trait's default and as storage answers it; a
  fingerprint is the record of what is hashed.

## 3. Runs

Passing runs. Deadlock is checked except where noted.

| Run | Shows | States |
|---|---|---|
| `iix_shared` | no failures, two threads: a query is never answered from an outdated index, or one built for other parameters | 4.6 k |
| `iix_faults` | batches and imports with failing statements, commits, rollbacks and reads and crashes: durable tables hold whole documents, and what returned Ok is there | 2.08 M |
| `corpus_seq` | any sequence of the seven operations by one caller: like compared with like, counts, destroy | 130 k |
| `corpus_faults` | a failing store call or crash anywhere, with retries: acknowledged facts survive reopening, tombstones never stand for something findable | 233 k |
| `corpus_conc` | two threads on different sources while the first basis is trained | 174 k |
| `queue_drain` | workers, pumps, standby, remounts, crashes, failing calls: done after ingest, ledger refinement, await publishes, open jobs settle | 99 k |
| `topk_exact` | every index of three lists over three items, seven kinds of query: WAND is exact, Block-Max WAND is for one list or two of one block, nothing is reported twice or too high, queries end | 72 k |
| `vectors_coherent` | five deployments: indexes, staged window, sidecar and count agree with the table, deleted vectors are gone | 251 k |
| `estate_rows` | six deployments: rows, audit, ledger, tunnels, fingerprints and roots agree through crashes and failures | 667 k |
| `nouns` | every noun's verbs, with any storage statement failing: one active node per name and every filed drawer listed under its names (`TreeIsSound`), at most one parent (`OneParent`), a review decides a tunnel once (`ReviewedOnce`), a source is catalogued once and a reference has the handle it was learned under and its source's anchor, duplicates are refused (`RelationsHold`), used traces stay used and a completed marking leaves none out (`TracesSettle`) | 415 k |
| `laws` | the pure parts against reference definitions, ten laws (below) | 157 k |

The invariants of `topk_exact`, `vectors_coherent` and `estate_rows` are conjunctions of
the named parts section 6 refers to: `RankingIsExact` of `WandIsExact`, `PassedCannotWin`,
`ReportedIsReal`; `IndexesMatchTable` of `ResidentMatchesTable`, `StagedMatchesTable`,
`OneSlotPerRow`, `CountIsExact`; `LineageIsSound` of `OneLivingHead`, `SupersededHasHeir`;
`RecordsAreTrue` of `LedgerIsTrue`, `UnauditedIsSwept`, `RetractedNotAttested`.

The laws of `laws`:

* `RowsSurviveStorage`: the row written for any entity is one its table accepts, read back
  from either backend it decodes to the entity, and the two writers of a date produce one
  text in which both readers find that moment.
* `ReopenKeepsManifest`: opening, cut short anywhere, then reopened, fills in what is
  missing and keeps what stood there.
* `FieldsKeepApart`: writing a legal value to an axis of any noun reads back as that value
  and leaves every other axis alone; composed words hold what they were composed from.
* `TiersMeanTheirFilter`: the tiers together accept exactly the drawers the filter, read as
  a formula, describes, with the cautious defaults where it is silent (compounds that mix
  tiers are excepted, section 6).
* `RecallIsComplete`: recall returns what its frame asks for, in order, paged without loss,
  from pruned containers as from a scan, or names the stage that failed.
* `SearchIsExact`: MIH, with or without budget, and brute force return the exact k nearest
  after any adds and removes; a cut sidecar is refused.
* `TableScansAreExact`: the float scan and the float index return the k nearest (or
  farthest) rows by their exact distance, ties by key, also where the distances they report
  agree; a report is within half a ten-thousandth in the scan, within one in the index, and
  never contradicts the order. Paged listings equal the sort of the whole table.
* `RankingIsFair`: a chunk better in one lane and no worse in the other is not ranked
  below, whatever the case its id is written in; a source ranks by its best chunk.
* `StoredTextIsWhole`: chunks name their stretch of the text and cover it, and after an
  insert that fails midway over rows of an older version, a repeated insert and a reopening
  give the rows and roots of a store that never failed.
* `DrawerReadsAgree`: bounded, projected and descending scans equal the trait's defaults,
  a sweep visits each drawer once, windows and bit series see the same captures,
  fingerprints are recomputed by every write that changes what they hash, and bundles add
  up.

`queue_drain`, `topk_exact`, `vectors_coherent`, `estate_rows` and `nouns` say
CHECK_DEADLOCK FALSE: a host at its mount bound, an answered query, a store, an estate and a
noun at their call bounds may stop.

Violation run, a disagreement between code and a comment:

* `topk_block_max`: Block-Max WAND moves one cursor past the end of a block that cannot win
  by the cursors up to the pivot, although a later cursor stands on the same item or on one
  inside the skipped stretch; that item loses the passed list's contribution. The module
  comment (`inverted_index.rs:12`) promises the exhaustive scan's result. The run uses blocks
  of two; the code's 128 needs longer lists or more terms, and every keyword query uses this
  loop. `topk_exact` shows it exact for two lists of one block. With five it is not: lists
  `{2,5}`, `{2}`, `{3,5}`, `{5}` of impact 1 and `{1}` of impact 2, best one wanted. Item 1
  sets the threshold to 2; at pivot 3 the second list is past its end, the blocks add up to
  2, and the first list is moved past 5, whose true score of 3 is then out of reach.

### Bounds

* Postings: three items, two sharing a term and one without keywords, two threads, two
  parameter values: a batch, a foreign call inside it and a query of another parameter.
* Corpus: a two-chunk and a one-chunk source, one trainable and one fixed slot, `MaxGen`
  labels of bases (a label nobody holds is reused, so the bound only limits how many are
  held at once), `MaxFolds` bounds double counting under repeated failures.
* Queue: at most two jobs and two processes, two mounts, one crash. Two mounts tell first
  from later acquisitions of a lease; one crash is enough to strand a row.
* Top-k: three lists of up to three items with two impacts, a zero impact among the third
  list's, `k` up to 2 and blocks of one posting: ties, full and part-filled heaps, cursors
  on one item and apart, several turns of skipping. `I32_MAX` is above every bound.
* Vectors: three calls of two records, two rows, two opens, `Threshold` 2 and `Limit` 1,
  so that both the switch of index and the early flush of a window happen.
* Estate: up to three drawers, two lineages, two rooms in two wings, four to six calls;
  three drawers give a head, a predecessor and a sibling in another room. Symmetry is over
  drawers, and over threads and payloads in the vector store: no definition names one.

* Nouns: one caller (the mutex), five calls on the tree and four on each other noun; two
  wing names of which one normalises, a batch that names one room twice and one that spans
  wings, two drawers (a parent cycle needs two), three sources sharing ids and handles, two
  handles for references (`Handles`), times 0 to 2. Four calls suffice for add, retire,
  review and add again; five for create, file, tombstone, create again and list.
* Laws: vectors of four bits in two or four bands, searches with `k` to 3 over three records
  of two models after adds, replacements and removals; chains of up to two filters, with
  negations and nested compounds, over drawers of every state; estates of at most three
  drawers in two wings; texts of up to five sentences around the target and overlap lengths,
  failing at the second or the fourth write, which is a row of one text and a root of
  another; float distances in tenths of a unit (`Fraction`) with reports to 2 (`MAX_RAW`),
  so that truncation, rounding and saturation differ; pages of two rows of up to four and
  stream pages of one and two, so that each is exceeded (the scan bound of recall, three, is
  met but not exceeded: past it recall promises less); days around leap years and century
  turns to 2101.

### Fairness

`TopK` assumes that a running query takes its next step. Otherwise only `IngestQueue` states
fairness: weak fairness of each worker's steps (its thread
loops, sleeping between passes), of the await pump's steps, of the return of a host call
under way, and of the lapse of a dead owner's lease (its time to live passes). Nothing is
assumed of the host: it need not enqueue, await, mount or drop, and no process need
restart. `RecoverableSettles` therefore says: settled, or nobody has the queue mounted.

## 4. Proofs

35 theorems and 622 lemmas, checked by TLAPS (SMT, Zenon, LS4): 25 934 obligations. Each
holds for every value of the constants that satisfies the named ASSUMEs, and under the
hypotheses its statement names; where a hypothesis excludes a usage, the configuration of
section 6 that shows why is given.

### InvertedIndexStoreProofs

* `TypeCorrect`, with every fault.
* `CacheIsFresh`: no failing statement, commit or read and no imports (the first rows of
  section 6), any threads, crashes allowed. Inductive with `TypeOK` and "no thread
  is inside an import or has a batch to roll back".
* `AcknowledgedWritesHold`: no faults, imports included. Inductive with `TypeOK`; the
  argument is per item, each action touching the items of its call.
* `DocumentsAreWhole`: any failing commits, rollbacks and reads and crashes, and failing
  statements if all writes are batched (`AllOrNothing`; section 6 has the other case). Both
  views, `work` and `durable`, hold whole documents; a failed statement inside a transaction
  is undone with it.
* `AcknowledgedWritesSurvive`: every fault, for callers that write in batches and imports.
  The invariant follows the durable view per item, and says of the calls under way that
  only one batch is open, that it has the transaction, and that what an import merged is
  durable (`CallsHold`).

### CorpusProofs

* `TypeCorrect`: all operations, faults and overlaps.
* `RemovedStaysRemoved`, `IngestedStaysRecalled`, `ExpungedStaysErased`,
  `TombstonesMeanGone`: the four promises to a caller, under `NoSnapshots` (no overlapping
  calls on one source, no reindex or destroy, single ingests only with untrainable slots,
  since those are the operations that write vectors of sources other than their own;
  `MCCorpus_reindex_*`, `MCCorpus_first_train`, `MCCorpus_destroy`), for any threads,
  failures and crashes. None is inductive: a thread half-way through a removal has told
  nobody yet, and one half-way through an ingest writes lanes of a source in use. `IInv`
  adds that sources of running calls are unsettled and disjoint (`Owned`), that whatever is
  searchable has a chunk row (`Stored`), and per thread that its step belongs to its
  operation (`InScope`), that rows precede lanes (`StoredFirst`) and that lanes already
  passed by a removal are empty (`Cleared`). `PInv` adds, for the other three, what an
  ingest has completed so far per slot and chunk (`OnTrack`), and what a settled chunk was
  promised (`Promised`). Four lemmas (a
  call begins, continues, ends, fails) carry both; each action is one case.
* `ChunksAreCountedOnce`: calls on different sources, no failures, any threads, any
  operations. The invariant relates the durable counts, the accumulators in memory and the
  chunks each running call has yet to fold (`CountsExactly`, `Storing`). With a failing
  batch it is false (section 6).
* `VectorsAreOfTheServingBasis`: one caller, no failures or crashes, any operations and
  slots. Per slot the vectors are of the stored basis or there are none; a call holds the
  slots it is training, has trained and has yet to re-embed, and only a reindex may have a
  slot whose vectors are of the basis before. Section 6 has the second caller and the
  failure.
* `DestroyLeavesNothing`: one caller, any failures and crashes: what each wipe left stays
  empty until the last.

### IngestQueueProofs

* `TypeCorrect`, `DoneOnlyAfterIngest`, `PipelineImplementsLedger`, for every deployment,
  any processes, jobs, faults and crashes. `IInv` adds `Good(d)` for each drainer: its
  batch was submitted; a resting drainer holds no batch; after a successful ingest its
  batch is ingested; a done verdict is about an ingested job; and rows of its session are
  in its batch or undecodable. That last part is why a late reply, after the row was
  reclaimed and claimed by another, cannot settle an uningested job. The refinement shows
  that initial states map to initial states and each step to a ledger step or a stutter.
* `AwaitKeepsItsPromise`: every deployment. `AwaitInv` adds that drainers claim rows of their
  own stream, that only processes which open the estate drain, that the jobs an await owes
  are submitted encode jobs and settled once the latch was seen, and that in the only process
  what was ingested is resident or staged. That settled jobs stay settled is taken from the
  ledger refinement.

### EstateProofs

For any drawers, lineages, rooms, wings, chains, deployments, and any gate that admits and
bars what `EstateAssumption` says. `Shape` is the common layer: types, what the step of the
call under way relies on (`CallShape`), and that a drawer without an audit event has left no
trace (`Traces`). On it rest

* `TypeCorrect`;
* `PruningIsSafe`: every acknowledged drawer's flags are in its room's and its wing's
  fingerprint, the capture under way having done the room before the wing; it speaks of
  deployments without moves, as the property does (`Moved`);
* `RecordsStayTrue`: `LedgerInv` (no text in the ledger, none in the sibling about to be
  recorded), `AuditInv` (a row agrees with its latest event or is buried with an open
  expunge), `RootsInv` (a root commits to drawers of its node, and what is gone is still to
  be rolled up by the call under way). Hypotheses `NoAcceptedSibling` (section 6)
  and `GateIsKnown`;
* `LineagesStaySound`: two living drawers of a lineage are the pair the running capture is
  about to separate (`HeadsInv`), and the tunnel precedes the supersession (`HeirsInv`).
  Hypotheses `GateIsKnown` and `HeadsInOrder` (`ReviveWithdrawn`, `ContestedHead`).

`GateIsKnown` completes what the tests pin of the automaton in `substrate-lib`: it
tombstones every state but accepted, contests only the living, and a withdrawn row is
neither rejected nor superseded. TLC evaluates it for the gate the runs use
(`GateAssumption`).

### NounProofs

Under `Coordinated` (the host's mutex), for any callers, calls, rows and failing statements:
`TreeStaysSound`, `OutlineIsATree`, `ReviewsStand`, `RelationsStaySound`, `MarkingsSettle`.
Each noun has an invariant of its tables (`TreeKept`, ...) and of the one verb under way
(`TreeCall`, ...): what its earlier statements read is still so. Without the mutex the first
four fail (section 6). The code's walks and sorted listings are recursive functions here;
that a walk of an outline ends, and that a sorted listing holds each element once, is proved
by induction on their length.

### VectorStoreProofs

`ResidentIsTheTable` and `DeletedStaysGone`, for any rows, payloads, threads, calls, opens
and thresholds, in every deployment that is `Safe`. `Safe` (in `VectorStore`) is what the
code bears, and it is tight: each liberty it excludes has its counterexample in section 6
(`SharedRow`, `RepeatedKey`, `NewVersion`, `MixedWindow`; with a sidecar `EarlyDelete`,
`MidWindow`, `FailedWindow`, `FailedCompaction`, `CrashRewrite`). A sidecar write may fail
outside a window, the compaction's too, as long as the batch before it brought no row that is
new to the indexes. TLC evaluates `DeploymentsAreSafe` for the
passing run's deployments. `IInv` is

* `StoreInv`: one slot per row in both arrays and the sidecar, the second index mirrors the
  first, the flags of a deferred window, the sidecar against the array store, the count;
* `TableInv`: the content the next publish builds from agrees with the table on the rows no
  call is changing (`SteadyOf`): a table write precedes its mirror, so the others may differ;
* `ThreadInv`: what each call still has to mirror (`Adding`), what it has emptied
  (`Clearing`), what it relies on in the store since its check (`Relies`);
* `GoneInv`: a deleted row is in neither the table, the arrays nor the deferred buffer.

Locked sections are functions of the store, so each has a lemma that it keeps these parts,
and each action is one of five kinds of step (`StoreStep`, `TableStep`, `StartStep`,
`LockedStep`, `ReopenedStep`).

### TopKProofs

`LoopsAreExact`: `RankingIsExact` for any index, query, k and block size, under `Unclamped`:
no term's upper bound meets the 32-bit clamp (`inverted_index.rs:241`), since a clamped bound
no longer bounds anything. TLC evaluates it for the run's impacts (`BoundsAssumption`).

`IInv` says that the heap's items are behind every cursor (`Onward`, so that a later item
loses ties), that the threshold is the least score of a full heap and 0 before (`Brim`),
that reported scores are real, and, where the loops are exact, that the heap holds true
scores and whatever a cursor passed is beaten by a full heap (`Exact`). The step that
carries it is the pivot's (`PrunedScore`): an item below the pivot that nobody passed lies
on the lists of cursors before the pivot only; its score is at most the sum of their bounds,
and that is at most the threshold. For Block-Max WAND a skip is safe with one list because
it passes postings of one block (`OneListSkips`), and with two lists of one block because it
can happen only when the other list has ended before the pivot (`TwoListsSkip`); beyond that
the run `topk_block_max` has the counterexample. At the end everything left out is beaten,
which makes the heap the scan's k best (`HeapIsScan`).

The module begins with what it needs of numbers: least and greatest elements, induction,
finite images, and the sum of a function over a finite set: that the library's recursive
definition of the fold has a solution, that a sum splits at any element, and that it grows
with its terms and its set.

### LawsProofs

`Laws` has one input at a time and no other state, so `InputsHold` (an input under
examination is one of the sets the constants give) is the whole invariant, and each theorem
is about what the code computes from any such input:

* `TimesSurviveStorage`: the two writers of ISO text agree on every millisecond from 1970 to
  9999, and both readers give the moment back. One writer is a closed form
  (`civil_from_days`), the other counts years and months in loops, and `days_from_civil`
  inverts the first. The closed form is taken apart into the day of the 400-year era, of the
  year and of the month, each with an interval lemma (`year_of_era` is the year whose days
  hold the given one, `month_of_year` likewise), since no prover finds nested divisions by
  itself. The loops have invariants: after n turns the year loop stands at a year whose
  first day is not after the day looked for, and the distance is what is left over; where it
  stops, year and day of year are those of the closed form.
* `RowsSurvive`: one lemma for each of the fifteen kinds (`DrawerSurvives`, ...) says that
  every value written fits its column, that every column left out may be, that key and
  indices are columns, and that each backend hands back a row the decoder turns into the
  entity. They rest on what a merge of rows holds (`++`: the right one where it has a value,
  else the left), on what each backend gives for a value of each type (`ReadBack`) and on
  one lemma for each field decoder. Optional fields are the delicate ones: an absent one is a
  NULL, or no value at all, and must come back absent.
* `ReopeningKeepsManifest`: the defaults are written key by key; after n of them the first n
  keys are set, and a key that stood there is as it was. So reopening completes any prefix.
* `FieldsStayApart`: a field is a stretch of bits; what is written to one is read back by
  induction over its width, and the fields of a layout do not overlap, layout by layout.
* `RankingStaysFair`: the listing of a finite set in a strict total order holds each element
  once, in order (`Enumeration`, by induction over how many elements come before one), and
  what is picked from a sequence keeps its order (`PickedIs`). Within a lane the score falls
  with the place, because the ranks divide the scale, so the sum over two lanes orders any
  two chunks of which one is ranked higher in one lane and not lower in the other; a hit
  that is no UUID takes a place but is no item, and one id in two casings is one item. For
  the lanes by source: rows come with falling scores, so the first row of a source is its
  best, and a source whose rows were all cut has none better than what was kept.
* `FingerprintsStayTrue`: the columns a write sets and the patch its fingerprint is computed
  with are the same on the seven fields a fingerprint reads (`PatchIsWritten`), so a write
  keeps the stored fingerprint that of the row (`WriteFollows`), and so do any number of
  them; a wipe touches none of the seven. The week of a capture is that of its day
  (`WeekOfDay`), a division of seconds by a week's against one of days by seven.

The assumptions are those on the inputs, as weak as the types of the code: an entity has the
fields of its kind, ids parse, enums hold a named case, times kept as text are moments of a
year of four digits (CorpusKit's of whole seconds), a vector is of the binary kind (the
decoder makes a `StoredVector` of no other, `vector_store.rs:2369`); the manifest's keys are
ones the code knows; a field's value is one of its enum; lanes hold ids as text, and
`RankScale` is a multiple of every denominator `RRF_K` + rank a lane can have, so that
reciprocal ranks are whole numbers of one unit (`FusionInputsAssumption`); the rows of a
slot come with falling scores, as the engines return them (`SourceInputsAssumption`); a
drawer has the fields a fingerprint reads, and a bitmap write names one of the three bitmap
columns (`MutationInputsAssumption`).

### Assumptions and what stays with TLC

Assumptions are the named ASSUMEs of the modules: types of the constants, `NodesAssumption`
(rooms, wings and the estate are different nodes), `NoneAssumption` (no row is the absent
one), `NamesAssumption`, `TunnelsAssumption` and `SubjectsAssumption` (what the callers of
the nouns name), and those of `Laws` on its inputs. TLC evaluates them in every run.

One assumption is about another repository: a COMMIT of chunk rows that fails
(`corpus.rs:1692`) is taken to have rolled back in `persistence-kit`, since its caller does
not roll back (`WindowFails`). `InvertedIndexStore`, which commits on a connection of its
own, has the other outcome, and section 6 what it leads to.

Only model-checked:

* liveness (`RecoverableSettles`, `Terminates`): fairness and ENABLED are outside these
  provers;
* `StoredTextIsWhole` and, but for `FingerprintsFollow`, `DrawerReadsAgree`: they compare
  what folds over chunks and rows leave behind, and listings sorted by an order in which
  rows may tie. `SortSeq` is TLC's own operator, which has no definition in the prover's
  library, and a fold takes an operator, which no installed prover instantiates. (`Fusion`
  lists sets in total orders by a definition of its own, `Sorted`, and sums over two lanes,
  which is why it is in reach);
* `TiersMeanTheirFilter`, `RecallIsComplete`, `SearchIsExact`, `TableScansAreExact`: `Filters`,
  `VectorSearch` and `SearchLaws` have RECURSIVE operators, without which nested filters and
  the radius loop would not read like the code.

Induction itself is within reach, although the library's induction theorems take an operator
the provers cannot instantiate: a least counterexample of a set of numbers (`WFMin`) serves
instead (`LeastNumber`, `Induction`). The loops of `Rows`, `Bitmaps` and `Chunks` are
therefore recursive functions, and the merge of rows is the module's own `++`: TLC's `@@`
has no definition in the prover's library.

## 5. Not modelled

* Embedding providers (random indexing, PPMI, LSA, NMF, FDC, text), the basis codec,
  SimHash projections, cosine and BM25 arithmetic: numerical; the modules take their results
  as given.
* The tokenizer's character classes and the sentence splitter's text rules.
* The SQLite and Postgres drawer stores, which delegate call by call to the core modelled
  here, and dataset handles (drawers whose payload is text to the estate).
* The snapshot registry's verbs, telemetry, error wording, audit export; the in-memory BM25
  index no other code calls; the Swift packages.
* `substrate-lib`, `persistence-kit`, `queuekit`, `intellectus-lib` are other repositories
  and appear where they are used.

`PROJECT.json` gives the reason for each. Within modelled parts: two host threads of one
process on the queue; the postings transaction spanning VectorStore calls; the
application's `on_encoded` callback.

## 6. Divergences outside the run list

Each configuration below violates the property named; all were met while modelling. They
show where the code relies on its callers, or on a failure not happening. Where the first
column names constants, take the configuration (`MCIix_shared.cfg`, `MCIix_faults.cfg`,
`MCEstate.cfg`, `MCVectorStore.cfg`, `MCCorpus_first_train.cfg`, `MCNouns.cfg`) with those
values and the property as its one invariant.

| Configuration | Property | What happens |
|---|---|---|
| `iix_shared, Threads = {t1, t2}, Calls = {"batch", "top_k"}, Faults = {"statement"}` | CacheFresh | `rollback_batch` keeps an index cached from rows it rolls back (`inverted_index_store.rs:230`) |
| `iix_shared, Threads = {t1}, Calls = {"index"}, Faults = {"statement", "crash"}` | WholeDocuments | outside a batch `index` is several autocommitted statements, not "atomically" (`:160`) |
| `iix_shared, Threads = {t1, t2, t3}, Calls = {"batch", "import", "top_k"}, Faults = {}` | StaleOnlyInMerge | an import that fails after a merge never clears the cache (`:255`) |
| `iix_shared, Faults = {"read"}` | CacheFresh | a load that fails half-way is not reported: the query answers from what was loaded, and keeps it cached (`:367`) |
| `iix_faults, Faults = {"commit"}` | TransactionsAreClosed | a failing COMMIT is not rolled back (`corpus.rs:1716`) |
| `iix_faults, Faults = {"statement", "rollback"}` | TransactionsAreClosed | a failing ROLLBACK is not reported, and the transaction stays open (`inverted_index_store.rs:232`) |
| `MCCorpus_expunge_reingest` | IngestedVectorsHaveText | ingest after expunge keeps the blanked chunk rows, and a reindex embeds "" |
| `MCCorpus_reindex_remove` | RemovedNotRecalled | `reindex` reads the tombstones once, then trains and replaces all vectors of a model: a `remove` that returned in between is undone, against the comment at `corpus.rs:1971` that a removed source "must NOT be re-embedded back into recall" |
| `MCCorpus_reindex_ingest` | IngestedIsRecalled | an ingest during reindex loses its vectors (`corpus.rs:2041`) |
| `MCCorpus_first_train` | IngestedIsRecalled | two first ingests train at once, one replaces the other's vectors (`:1055`) |
| `first_train, Ops = {"batch"}` | VectorsMatchBasis | two first batches train different bases (`:1766`) |
| `MCCorpus_destroy` | RemovedNotRecalled | destroy clears tombstones under a running ingest (`:2958`) |
| `first_train, Ops = {"batch", "remove"}, Overlap = TRUE` | TombstoneMeansGone | ingest and remove of one source at once (`:2970`) |
| `first_train, one thread, Ops = {"batch", "reindex"}, Faults = {"crash"}` | VectorsMatchBasis | a failure between basis swap and re-embedding (`:2010`) |
| `first_train, one thread, Ops = {"batch"}, Faults = {"fail"}` | CountedOnce | a failing batch folds its chunks again on retry (`:1684`) |
| `MCIngestQueue_stranded` | EnqueuedSettles | a process dies inside its await pump, which claims without the lease, while another holds the lease and has reclaimed already; the row stays `cur` (compare the comment at `corpus_ingest_queue.rs:875`) |
| `Deployments <- EarlyDelete, MaxCalls = 4` | ErasedIsGone | a delete before the first use of the index touches only the table; after an add the sidecar's live count agrees again and the vector comes back (`vector_store.rs:1711`, compare `:1668`) |
| `Deployments <- CrashRewrite` | ResidentMatchesTable | a crash after a replacing write leaves a sidecar of equal count, which is trusted |
| `Deployments <- MixedWindow` | ResidentMatchesTable | a single add inside a memory-only window is overwritten by an older staged record |
| `Deployments <- MidWindow, MaxCalls = 4` | OneSlotPerRow | a re-embed inside a window leaves its live-key set outdated |
| `Deployments <- FailedWindow, MaxCalls = 4` | OneSlotPerRow | a failing sidecar write loses the live-key set (`vector_store.rs:854`) |
| `Deployments <- FailedCompaction, MaxCalls = 4` | OneSlotPerRow, ResidentMatchesTable | a batch is appended and the compaction after it fails: the indexes do not hold the batch, and its retry leaves two slots for a row (`resident_store.rs:301`, `vector_store.rs:911`) |
| `Deployments <- SharedRow` | ErasedIsGone | a delete between another thread's upsert and its mirror |
| `Deployments <- RepeatedKey` | OneSlotPerRow | one batch names a key twice (compare the comment at `:739`) |
| `Deployments <- NewVersion, Versions = {1, 2}` | ErasedIsGone | a row added under two model versions, one slot survives its delete (`:2272`) |
| `Deployments <- AcceptedSibling` | LedgerIsTrue | expunge leaves an accepted sibling's text and names it in the erasure ledger (`drawer_store_inmemory.rs:2143`), where `LocusKit/docs/DETAILS.md:564` says the text is zeroed "no matter what" |
| `Deployments <- ReviveWithdrawn` | OneLivingHead | a withdrawn drawer is revived beside a living one; the check exists only for superseded ones (`estate_verbs.rs:2280`) |
| `Deployments <- ContestedHead` | OneLivingHead | a capture into a contested lineage fails at the state flip, with row and tunnel written (`drawer_store_inmemory.rs:549`) |
| `Deployments <- Moved` | MissesNothing | reanchor does not OR the row into its new room: pruned recall misses it until the next open (compare `container_fingerprint_store.rs:184`) |
| `Deployments <- Moved` | NothingGoneIsAttested | reanchor does not rehash the old room; after an expunge that room still attests the text |
| `Deployments <- KeptSibling` | LedgerHoldsNoText | a sibling's erasing update fails unnoticed and is recorded as erased |
| `Deployments <- SplitExpunge` | OrphansAreCutShort | `seal_audit = false` never seals siblings: every split expunge of a lineage leaves sweep orphans without a crash |
| `Callers = {c1, c2}, Coordinated = FALSE` | TreeIsSound, OneParent, RelationsHold, ReviewedOnce | without the host's mutex every check-then-insert and read-modify-write of the nouns interleaves; the comment at `node_store.rs:130` takes the mutex for granted (TracesSettle holds) |

Seen in the queue and not given a configuration: `CorpusKit/docs/DETAILS.md:681` says the
lease keeps two drainers apart, but a worker's first acquisition also resets rows its own
process's pump holds (both then ingest the batch, harmlessly, as `ImplementsLedger`
shows); await in one of two processes returns Ok without the other's vectors in the local
index; an await that errors, times out or is stopped leaves the deferred window
unpublished; an enqueue racing a drop returns Ok without a row.
In `TopK`, an item whose impacts are all quantised to zero is found by the exhaustive scan
and may be missed by both loops (they start with threshold 0); `hybrid_recall.rs` takes
scores to be positive. The properties speak of positive scores.
`find_active_predecessor`'s comment says raw state below 16, its code 3: an accepted head
is not superseded by a capture.

Seen in the other parts, and left out of what their properties claim:

* Filters. The negation of a structural or content filter matches nothing, and an `Any` that
  mixes bitmap and structural filters reduces to the structural ones. `filter.rs:203` says
  an empty chain is a typed error; no code refuses one. The generated column
  `g_provenance_confirmation` (`schema.rs:248`) reads bits 4 to 6, where the layout
  (`provenance.rs`) has confirmation at bits 18 to 23.
* Node tree. `create_node` accepts a tombstoned parent; a root tombstoned and made again
  leaves wings of one name under two roots.
* Tunnels. A tunnel's sensitivity is taken from its endpoints when it is made: an endpoint
  reclassified later leaves it outdated, and parent and supersedes tunnels are always made
  with sensitivity 0. Nothing refuses an outline cycle; walks stop at depth 256.
* Relations. `associate` returns an id that was not stored when the association is a
  duplicate.
* Search. The farthest lane scores a source by its smallest chunk similarity, and the comment
  (`corpus.rs:2628`) gives as reason that a source counts as unlike the query "only if even
  its closest chunk is far": a source with one near and one far chunk is reported first.
  The fourfold over-fetch of chunks (`corpus.rs:2567`) does not guarantee `limit`
  sources; hybrid recall cuts the fused list before it hydrates, so a stale id takes a place.
  The float index truncates a distance to a whole ten-thousandth and the table scan rounds it,
  so the two report distances up to one apart (0.29289 is 2928 and 2929). The comment at
  `vector_store.rs:1424` says `find_farthest_float` ranks through the float index; it scans the
  table. Distances that are not numbers are left out.
* Chunks. The last chunk of a text may be nothing but the overlap of the one before.
  CorpusKit's decoders accept ISO text for a raw timestamp, LocusKit's and VectorKit's an
  integer: the kits assume different raw forms. A scrub leaves content hash and root as they
  were (documented); an insert that fails leaves the roots behind until the next insert or
  open.
* Drawer reads. A row that does not decode counts against a storage-pushed limit and is then
  skipped, so those scans return fewer rows than the defaults, and `active_drawers_after`
  fails where the default skips. `fingerprints_captured_in` reads such a row's fingerprint,
  `fingerprint_bit_series` fails on it. The comments at `drawer_store.rs:1565` speak of
  epoch seconds; the values are milliseconds.

## 7. Plan

1. Composition of Estate and Corpus: what a withdrawn or expunged drawer means for recall,
   with the split expunge and its orphan sweep.
2. The heap arrays of `TopK` and `mih.rs` as refinements of their sets.
3. Theorems about the other listings (`DrawerReadsAgree`, `StoredTextIsWhole`), once their
   sorts and folds are definitions of this project, as in `Fusion` and `NodeStore`; then the
   search engines, with their loops as recursive functions.
