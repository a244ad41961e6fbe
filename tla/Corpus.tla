------------------------------- MODULE Corpus -------------------------------
(***************************************************************************)
(* CorpusKit's Corpus (corpus.rs): the recall index over a set of sources. *)
(*                                                                         *)
(* A Corpus owns several stores, each with a lock of its own, and no lock  *)
(* of the whole: the chunk table (bundle_store), the tombstones            *)
(* (removed_source_store), the BM25 postings (inverted_index), the vectors *)
(* (vector_store), the trained bases (basis_store), the maintained counts  *)
(* (counts_store), and in memory the chunk-to-source map, the serving      *)
(* provider of every slot and the counts accumulators.  An operation is a  *)
(* sequence of store calls; one call is one step here, and the calls of    *)
(* operations of different threads interleave.                             *)
(*                                                                         *)
(* A chunk is immutable: its id stands for its text and its source, and a   *)
(* source has one text (a drawer's verbatim content never changes).  A     *)
(* vector is recorded by what it was computed from: the text of the chunk  *)
(* row (which expunge replaces by "") and the basis of the provider.       *)
(* Bases are told apart by a label; a new one gets a label nobody holds.   *)
(***************************************************************************)
EXTENDS Naturals, FiniteSets

CONSTANTS
  Sources,     \* source (drawer) ids
  Chunks,      \* chunk ids
  SourceOf,    \* SourceOf[c]: the source whose text chunk c is part of
  Models,      \* the provider slots, by model id
  Trainable,   \* the slots with a fresh_basis_blob: RI, PPMI, LSA, NMF
  Threads,     \* callers
  Ops,         \* the operations callers use, a subset of AllOps
  Overlap,     \* whether calls on one source may overlap
  Faults,      \* what may go wrong, a subset of {"fail", "crash"}
  MaxGen,      \* labels of bases: 0 is the untrained provider
  MaxFolds     \* bound on the times a failing batch folds a chunk

AllOps == {"ingest", "batch", "import", "remove", "expunge", "reindex", "destroy"}
Gens   == 0 .. MaxGen

ASSUME CorpusAssumption ==
  /\ SourceOf \in [Chunks -> Sources]
  /\ \A s \in Sources : \E c \in Chunks : SourceOf[c] = s  \* a blank text is skipped
  /\ Trainable \subseteq Models
  /\ Ops \subseteq AllOps
  /\ Overlap \in BOOLEAN
  /\ Faults \subseteq {"fail", "crash"}
  /\ MaxGen \in Nat
  /\ MaxFolds \in Nat

VARIABLES
  rows,      \* durable: the chunk table
  removed,   \* durable: the tombstones
  postings,  \* durable: chunks in the BM25 index
  vectors,   \* durable: vectors[m][c]
  basis,     \* durable: label of the persisted basis of a slot, 0 if none
  countsDb,  \* durable: how often each chunk was counted, at the last persist
  csm,       \* memory: chunks in chunk_source_map
  handle,    \* memory: label of the basis of the serving provider
  counts,    \* memory: how often each chunk was folded into the accumulators
  call,      \* call[t]: where thread t is
  acked      \* what the last call on a source that returned Ok did

durables == <<rows, removed, postings, vectors, basis, countsDb>>
memory   == <<csm, handle, counts>>
vars     == <<durables, memory, call, acked>>

RowStates == {"absent", "text", "scrubbed"}
Vectors   == [from: {"none", "text", "scrubbed"}, gen: Gens]
NoVector  == [from |-> "none", gen |-> 0]
Steps ==
  {"idle", "clear", "insert", "index", "note", "slots", "tombstones", "load", "train",
   "fit", "upsert", "reembed", "replace", "embed", "add", "persist", "shard", "window", "boot",
   "scrub", "unindex", "unvector", "forget", "mark", "wipe_postings", "wipe_vectors",
   "wipe_basis", "wipe_counts", "wipe_tombstones"}
Calls ==
  [op: AllOps \cup {"idle"},
   step: Steps,
   srcs: SUBSET Sources,      \* the sources the call is about
   todo: SUBSET Sources,      \* sources of the batch still to be written
   chunks: SUBSET Chunks,     \* chunks still to be indexed, or removed
   cur: SUBSET Chunks,        \* the chunk being removed; chunks newly inserted, or to add
   slots: SUBSET Models,      \* slots still to be looked at
   fold: SUBSET Models,       \* slots whose frozen basis the new chunks fold into
   train: SUBSET Models,      \* slots to train
   again: SUBSET Models,      \* slots to re-embed
   slot: SUBSET Models,       \* the slot whose basis or vectors are to be written
   gone: SUBSET Sources,      \* the tombstones active_chunks() has read
   snap: [Chunks -> RowStates],   \* active_chunks() as read; absent: not in it
   loaded: BOOLEAN,               \* snap has been read
   gens: [Models -> Gens]]        \* the basis each slot embedded the chunks with

Acks == {"never", "ingested", "imported", "removed", "expunged", "unsettled"}

NoChunks == [c \in Chunks |-> "absent"]
Idle ==
  [op |-> "idle", step |-> "idle", srcs |-> {}, todo |-> {}, chunks |-> {}, cur |-> {},
   slots |-> {}, fold |-> {}, train |-> {}, again |-> {}, slot |-> {},
   gone |-> {}, snap |-> NoChunks, loaded |-> FALSE, gens |-> [m \in Models |-> 0]]

TypeOK ==
  /\ rows \in [Chunks -> RowStates]
  /\ removed \in SUBSET Sources
  /\ postings \in SUBSET Chunks
  /\ vectors \in [Models -> [Chunks -> Vectors]]
  /\ basis \in [Models -> Gens]
  /\ countsDb \in [Chunks -> Nat]
  /\ csm \in SUBSET Chunks
  /\ handle \in [Models -> Gens]
  /\ counts \in [Chunks -> Nat]
  /\ call \in [Threads -> Calls]
  /\ acked \in [Sources -> Acks]

Init ==
  /\ rows = NoChunks
  /\ removed = {}
  /\ postings = {}
  /\ vectors = [m \in Models |-> [c \in Chunks |-> NoVector]]
  /\ basis = [m \in Models |-> 0]
  /\ countsDb = [c \in Chunks |-> 0]
  /\ csm = {}
  /\ handle = [m \in Models |-> 0]
  /\ counts = [c \in Chunks |-> 0]
  /\ call = [t \in Threads |-> Idle]
  /\ acked = [s \in Sources |-> "never"]

(***************************************************************************)
(* Helpers                                                                 *)
(***************************************************************************)

ChunksOf(S) == {c \in Chunks : SourceOf[c] \in S}

\* Mutant: the tombstones are not consulted.
AllStored(gone) == rows

\* The stored chunks of the sources that are not gone.
Without(gone) == [c \in Chunks |-> IF SourceOf[c] \in gone THEN "absent" ELSE rows[c]]

\* BundleStore::insert: new ids get their text, a duplicate key is a no-op.
Inserted(C) == [c \in Chunks |-> IF c \in C /\ rows[c] = "absent" THEN "text" ELSE rows[c]]

\* Mutant: duplicates are reported as inserted.
NewOrNot(C) == C

\* The chunks insert returns: the new ones.
NewIn(C) == {c \in C : rows[c] = "absent"}

\* fold_chunks_into_counts
Folded(C) == [c \in Chunks |-> IF c \in C THEN counts[c] + 1 ELSE counts[c]]

\* A label for a newly trained basis of slot m: one that no provider, persisted
\* basis, stored vector or embedding in flight carries.
LiveGens(m) ==
  {0, basis[m], handle[m]} \cup {vectors[m][c].gen : c \in Chunks}
    \cup {call[t].gens[m] : t \in Threads}
FreshGens(m) == Gens \ LiveGens(m)

\* Slots that need their first basis.
Untrained == {m \in Trainable : basis[m] = 0}

At(t, op, step) == call[t].op = op /\ call[t].step = step
Busy(s) == \E t \in Threads : s \in call[t].srcs

\* Thread t goes on with the call record r.
Goto(t, r) == call' = [call EXCEPT ![t] = r]

Begin(t, op, S, first) ==
  /\ op \in Ops
  /\ call[t].op = "idle"
  /\ Overlap \/ \A s \in S : ~Busy(s)
  /\ acked' = [s \in Sources |-> IF s \in S THEN "unsettled" ELSE acked[s]]
  /\ Goto(t, first)

Finish(t, result) ==
  /\ acked' = [s \in Sources |-> IF s \in call[t].srcs THEN result ELSE acked[s]]
  /\ Goto(t, Idle)

(***************************************************************************)
(* ingest: one source, autocommitted calls.                                *)
(***************************************************************************)

BeginIngest(t, s) ==
  /\ Begin(t, "ingest", {s},
           [Idle EXCEPT !.op = "ingest", !.step = "clear", !.srcs = {s},
                             !.chunks = ChunksOf({s}), !.slots = Models])
  /\ UNCHANGED <<durables, memory>>

\* Mutant: a re-ingested source keeps its tombstone.
KeepRemoved(t) ==
  /\ At(t, "ingest", "clear")
  /\ Goto(t, [call[t] EXCEPT !.step = "insert"])
  /\ UNCHANGED <<durables, memory, acked>>

ClearRemoved(t) ==
  /\ At(t, "ingest", "clear")
  /\ removed' = removed \ call[t].srcs
  /\ Goto(t, [call[t] EXCEPT !.step = "insert"])
  /\ UNCHANGED <<rows, postings, vectors, basis, countsDb, memory, acked>>

Insert(t) ==
  /\ At(t, "ingest", "insert")
  /\ rows' = Inserted(call[t].chunks)
  /\ Goto(t, [call[t] EXCEPT !.step = "index", !.cur = NewIn(call[t].chunks)])
  /\ UNCHANGED <<removed, postings, vectors, basis, countsDb, memory, acked>>

IndexChunk(t, c) ==
  /\ At(t, "ingest", "index")
  /\ c \in call[t].chunks
  /\ postings' = postings \cup {c}
  /\ Goto(t, [call[t] EXCEPT !.chunks = @ \ {c},
                             !.step = IF call[t].chunks = {c} THEN "note" ELSE "index"])
  /\ UNCHANGED <<rows, removed, vectors, basis, countsDb, memory, acked>>

\* chunk_source_map and the accumulators: memory only, nothing can fail.
NoteChunks(t) ==
  /\ At(t, "ingest", "note")
  /\ csm' = csm \cup ChunksOf(call[t].srcs)
  /\ counts' = Folded(call[t].cur)
  /\ Goto(t, [call[t] EXCEPT !.step = "slots", !.cur = {}])
  /\ UNCHANGED <<durables, handle, acked>>

\* A trainable slot without a persisted basis is trained on the active chunks
\* (read at the call's first such slot) and re-embedded; any other slot folds the
\* chunks in.
LookAtSlot(t, m) ==
  /\ At(t, "ingest", "slots")
  /\ m \in call[t].slots
  /\ \/ /\ m \in Untrained
        /\ Goto(t, [call[t] EXCEPT !.slots = @ \ {m}, !.slot = {m}, !.again = {m},
                                   !.step = IF call[t].loaded THEN "fit" ELSE "tombstones"])
     \/ /\ m \notin Untrained
        /\ Goto(t, [call[t] EXCEPT !.slots = @ \ {m}, !.fold = @ \cup {m}])
  /\ UNCHANGED <<durables, memory, acked>>

SlotsDone(t) ==
  /\ At(t, "ingest", "slots")
  /\ call[t].slots = {}
  /\ Goto(t, [call[t] EXCEPT !.step = IF call[t].fold = {} THEN "persist" ELSE "embed"])
  /\ UNCHANGED <<durables, memory, acked>>

(***************************************************************************)
(* Training, re-embedding, folding in: shared by ingest, batch and reindex. *)
(***************************************************************************)

\* Where a call goes when its slots are trained, and re-embedded.
AfterTrain(t)   == IF call[t].op = "batch" THEN "embed" ELSE "reembed"
AfterReembed(t) == IF call[t].op = "ingest" THEN "slots" ELSE "persist"

\* active_chunks: the removed sources are read, and then every stored chunk, of
\* which those of the removed sources are left out.
ReadTombstones(t) ==
  /\ call[t].step = "tombstones"
  /\ Goto(t, [call[t] EXCEPT !.gone = removed, !.step = "load"])
  /\ UNCHANGED <<durables, memory, acked>>

\* ingest trains the slot it looked at, a batch trains if any chunk is active, and
\* reindex if any slot is trainable.
NothingToTrain(t) ==
  \/ call[t].op = "batch" /\ Without(call[t].gone) = NoChunks
  \/ call[t].op = "reindex" /\ Trainable = {}
AfterLoad(t) ==
  IF call[t].op = "ingest" THEN "fit"
  ELSE IF NothingToTrain(t) THEN AfterTrain(t) ELSE "train"

LoadActive(t) ==
  /\ call[t].step = "load"
  /\ Goto(t, [call[t] EXCEPT !.snap = Without(call[t].gone), !.loaded = TRUE,
                             !.step = AfterLoad(t)])
  /\ UNCHANGED <<durables, memory, acked>>

\* ingest_batch looks again whether the slot has a basis by now.
Already(t, m) == call[t].op = "batch" /\ basis[m] # 0

ChooseSlot(t, m) ==
  /\ call[t].step = "train"
  /\ m \in call[t].train
  /\ Goto(t, [call[t] EXCEPT !.train = @ \ {m},
                             !.slot = IF Already(t, m) THEN {} ELSE {m},
                             !.step = IF ~Already(t, m) THEN "fit"
                                      ELSE IF call[t].train = {m} THEN AfterTrain(t)
                                      ELSE "train"])
  /\ UNCHANGED <<durables, memory, acked>>

\* train_and_persist_basis: the trained provider serves first ...
Train(t, m) ==
  /\ call[t].step = "fit"
  /\ m \in call[t].slot
  /\ FreshGens(m) # {}
  /\ \E g \in {CHOOSE g \in FreshGens(m) : TRUE} :
       /\ handle' = [handle EXCEPT ![m] = g]
       /\ Goto(t, [call[t] EXCEPT !.step = "upsert",
                             !.gens = [call[t].gens EXCEPT ![m] = g]])
  /\ UNCHANGED <<durables, csm, counts, acked>>

\* ... and then its basis is persisted.
UpsertBasis(t, m) ==
  /\ call[t].step = "upsert"
  /\ m \in call[t].slot
  /\ basis' = [basis EXCEPT ![m] = call[t].gens[m]]
  /\ Goto(t, [call[t] EXCEPT !.slot = {},
                             !.step = IF call[t].train = {} THEN AfterTrain(t) ELSE "train"])
  /\ UNCHANGED <<rows, removed, postings, vectors, countsDb, memory, acked>>

\* reembed_chunks embeds the snapshot under the slot's lock ...
Reembed(t, m) ==
  /\ call[t].step = "reembed"
  /\ m \in call[t].again
  /\ Goto(t, [call[t] EXCEPT !.again = @ \ {m}, !.slot = {m}, !.step = "replace",
                             !.gens = [call[t].gens EXCEPT ![m] = handle[m]]])
  /\ UNCHANGED <<durables, memory, acked>>

\* Mutant: chunks that have a vector already keep it.
Missing(t, m) ==
  [c \in Chunks |-> IF call[t].snap[c] = "absent" THEN NoVector
                    ELSE IF vectors[m][c] # NoVector THEN vectors[m][c]
                    ELSE [from |-> call[t].snap[c], gen |-> call[t].gens[m]]]

Reembedded(t, m) ==
  [c \in Chunks |-> IF call[t].snap[c] = "absent" THEN NoVector
                    ELSE [from |-> call[t].snap[c], gen |-> call[t].gens[m]]]

\* ... and with the lock released replace_model_vectors clears the whole model
\* and adds the new vectors, in one transaction.
ReplaceVectors(t, m) ==
  /\ call[t].step = "replace"
  /\ m \in call[t].slot
  /\ vectors' = [vectors EXCEPT ![m] = Reembedded(t, m)]
  /\ Goto(t, [call[t] EXCEPT !.slot = {},
                             !.step = IF call[t].again = {} THEN AfterReembed(t) ELSE "reembed"])
  /\ UNCHANGED <<rows, removed, postings, basis, countsDb, memory, acked>>

\* embed_pair over the call's chunks under the slots' locks ...
Embed(t) ==
  /\ call[t].step = "embed"
  /\ Goto(t, [call[t] EXCEPT !.step = "add", !.cur = ChunksOf(call[t].srcs),
                             !.gens = [m \in Models |-> IF m \in call[t].fold
                                                        THEN handle[m] ELSE 0]])
  /\ UNCHANGED <<durables, memory, acked>>

\* Mutant: the rows replace the model's vectors instead of being added to them.
OnlyPayloads(t, C, M) ==
  [m \in Models |-> [c \in Chunks |->
     IF m \notin M THEN vectors[m][c]
     ELSE IF c \in C THEN [from |-> "text", gen |-> call[t].gens[m]] ELSE NoVector]]

\* ... and add_payloads, an upsert, with the locks released.
WithPayloads(t, C, M) ==
  [m \in Models |-> [c \in Chunks |->
     IF m \in M /\ c \in C THEN [from |-> "text", gen |-> call[t].gens[m]]
                           ELSE vectors[m][c]]]

\* ingest makes one call, ingest_batch one transaction per COMMIT_CHUNK_ROWS rows.
AddPayloads(t, part) ==
  /\ call[t].step = "add"
  /\ part \subseteq call[t].cur
  /\ call[t].op = "ingest" => part = call[t].cur
  /\ vectors' = WithPayloads(t, part, call[t].fold)
  /\ Goto(t, [call[t] EXCEPT !.cur = @ \ part,
                             !.step = IF call[t].cur = part THEN "persist" ELSE "add"])
  /\ UNCHANGED <<rows, removed, postings, basis, countsDb, memory, acked>>

\* persist_maintained_counts, the last call of ingest, ingest_batch and reindex.
\* A reindex makes the imported sources it has seen searchable in every lane.
Persist(t) ==
  /\ call[t].step = "persist"
  /\ countsDb' = counts
  /\ \/ call[t].op \in {"ingest", "batch"} /\ Finish(t, "ingested")
     \/ /\ call[t].op = "reindex"
        /\ acked' = [s \in Sources |->
             IF acked[s] = "imported" /\ \A c \in ChunksOf({s}) : call[t].snap[c] # "absent"
             THEN "ingested" ELSE acked[s]]
        /\ Goto(t, Idle)
  /\ UNCHANGED <<rows, removed, postings, vectors, basis, memory>>

(***************************************************************************)
(* ingest_batch, and ingest_batch_import without its embedding half.       *)
(***************************************************************************)

BeginBatch(t, S) ==
  /\ Begin(t, "batch", S,
           [Idle EXCEPT !.op = "batch", !.step = "window", !.srcs = S, !.todo = S,
                             !.chunks = ChunksOf(S), !.fold = Models])
  /\ UNCHANGED <<durables, memory>>

BeginImport(t, S) ==
  /\ Begin(t, "import", S,
           [Idle EXCEPT !.op = "import", !.step = "shard", !.srcs = S, !.todo = S,
                             !.chunks = ChunksOf(S)])
  /\ UNCHANGED <<durables, memory>>

\* Phase P: workers chunk the items and write their postings to shard files,
\* which nobody else reads.
WriteShards(t) ==
  /\ At(t, "import", "shard")
  /\ Goto(t, [call[t] EXCEPT !.step = "window"])
  /\ UNCHANGED <<durables, memory, acked>>

\* Window 1: one transaction per COMMIT_CHUNK_ITEMS items.
Window(t, part) ==
  /\ call[t].step = "window"
  /\ part \subseteq call[t].todo
  /\ removed' = removed \ part
  /\ rows' = Inserted(ChunksOf(part))
  /\ csm' = csm \cup ChunksOf(part)
  /\ counts' = Folded(NewIn(ChunksOf(part)))
  /\ Goto(t, [call[t] EXCEPT !.todo = @ \ part,
                             !.step = IF call[t].todo = part THEN "index" ELSE "window"])
  /\ UNCHANGED <<postings, vectors, basis, countsDb, handle, acked>>

\* An item or the COMMIT fails.  The rows are rolled back, on a failing COMMIT by
\* the row store itself, whose caller does not; the map and the accumulators,
\* which are memory, keep what the items before the failing one did to them.
WindowFails(t, part) ==
  /\ "fail" \in Faults
  /\ call[t].step = "window"
  /\ part \subseteq call[t].todo
  /\ \A c \in ChunksOf(part) : counts[c] + 1 < MaxFolds
  /\ csm' = csm \cup ChunksOf(part)
  /\ counts' = Folded(NewIn(ChunksOf(part)))
  /\ Goto(t, Idle)
  /\ UNCHANGED <<durables, handle, acked>>

\* Window 2 of a batch: transactions on the postings' connection.
IndexBatch(t, part) ==
  /\ At(t, "batch", "index")
  /\ part \subseteq call[t].chunks
  /\ postings' = postings \cup part
  /\ Goto(t, [call[t] EXCEPT !.chunks = @ \ part,
                             !.step = IF call[t].chunks = part THEN "boot" ELSE "index"])
  /\ UNCHANGED <<rows, removed, vectors, basis, countsDb, memory, acked>>

\* An import merges one shard after the other, and returns after the last.
MergeShard(t, part) ==
  /\ At(t, "import", "index")
  /\ part \subseteq call[t].chunks
  /\ postings' = postings \cup part
  /\ \/ part = call[t].chunks /\ Finish(t, "imported")
     \/ /\ part # call[t].chunks
        /\ Goto(t, [call[t] EXCEPT !.chunks = @ \ part])
        /\ UNCHANGED acked
  /\ UNCHANGED <<rows, removed, vectors, basis, countsDb, memory>>

\* Phase 1b: train the slots if one has no basis.
Bootstrap(t) ==
  /\ At(t, "batch", "boot")
  /\ \/ /\ Untrained = {}
        /\ Goto(t, [call[t] EXCEPT !.step = "embed"])
     \/ /\ Untrained # {}
        /\ Goto(t, [call[t] EXCEPT !.step = "tombstones", !.train = Trainable])
  /\ UNCHANGED <<durables, memory, acked>>

(***************************************************************************)
(* remove and expunge                                                      *)
(***************************************************************************)

\* chunks_for_source: what is stored of the source when the call begins.
BeginRemove(t, s) ==
  /\ LET stored == {c \in ChunksOf({s}) : rows[c] # "absent"} IN
       Begin(t, "remove", {s},
             [Idle EXCEPT !.op = "remove", !.srcs = {s}, !.chunks = stored,
                          !.step = IF stored = {} THEN "forget" ELSE "unindex"])
  /\ UNCHANGED <<durables, memory>>

BeginExpunge(t, s) ==
  /\ Begin(t, "expunge", {s},
           [Idle EXCEPT !.op = "expunge", !.step = "scrub", !.srcs = {s}])
  /\ UNCHANGED <<durables, memory>>

\* Mutant: only the chunks of an active source are scrubbed.
ScrubActiveText(t) ==
  /\ At(t, "expunge", "scrub")
  /\ LET stored == {c \in ChunksOf(call[t].srcs) : rows[c] # "absent"} IN
       /\ rows' = [c \in Chunks |-> IF c \in stored /\ SourceOf[c] \notin removed
                                     THEN "scrubbed" ELSE rows[c]]
       /\ Goto(t, [call[t] EXCEPT !.chunks = stored,
                             !.step = IF stored = {} THEN "forget" ELSE "unindex"])
  /\ UNCHANGED <<removed, postings, vectors, basis, countsDb, memory, acked>>

\* scrub_text, then remove reads the source's chunks.
ScrubText(t) ==
  /\ At(t, "expunge", "scrub")
  /\ LET stored == {c \in ChunksOf(call[t].srcs) : rows[c] # "absent"} IN
       /\ rows' = [c \in Chunks |-> IF c \in stored THEN "scrubbed" ELSE rows[c]]
       /\ Goto(t, [call[t] EXCEPT !.chunks = stored,
                             !.step = IF stored = {} THEN "forget" ELSE "unindex"])
  /\ UNCHANGED <<removed, postings, vectors, basis, countsDb, memory, acked>>

Unindex(t, c) ==
  /\ call[t].step = "unindex"
  /\ c \in call[t].chunks
  /\ postings' = postings \ {c}
  /\ Goto(t, [call[t] EXCEPT !.cur = {c}, !.step = "unvector"])
  /\ UNCHANGED <<rows, removed, vectors, basis, countsDb, memory, acked>>

WithoutVectors(c, M) ==
  [m \in Models |-> IF m \in M THEN [vectors[m] EXCEPT ![c] = NoVector] ELSE vectors[m]]

\* delete_all_vectors under every held model id.
Unvector(t, c) ==
  /\ call[t].step = "unvector"
  /\ c \in call[t].cur
  /\ vectors' = WithoutVectors(c, Models)
  /\ Goto(t, [call[t] EXCEPT !.cur = {}, !.chunks = @ \ {c},
                             !.step = IF call[t].chunks = {c} THEN "forget" ELSE "unindex"])
  /\ UNCHANGED <<rows, removed, postings, basis, countsDb, memory, acked>>

Forget(t) ==
  /\ call[t].step = "forget"
  /\ csm' = csm \ ChunksOf(call[t].srcs)
  /\ Goto(t, [call[t] EXCEPT !.step = "mark"])
  /\ UNCHANGED <<durables, handle, counts, acked>>

\* The tombstone comes last.
MarkRemoved(t) ==
  /\ call[t].step = "mark"
  /\ removed' = removed \cup call[t].srcs
  /\ Finish(t, IF call[t].op = "expunge" THEN "expunged" ELSE "removed")
  /\ UNCHANGED <<rows, postings, vectors, basis, countsDb, memory>>

(***************************************************************************)
(* reindex and destroy_recall_index                                        *)
(***************************************************************************)

\* The active chunks are read; then training and re-embedding.
BeginReindex(t) ==
  /\ Begin(t, "reindex", {},
           [Idle EXCEPT !.op = "reindex", !.step = "tombstones",
                             !.train = Trainable, !.again = Models])
  /\ UNCHANGED <<durables, memory>>

BeginDestroy(t) ==
  /\ Begin(t, "destroy", {}, [Idle EXCEPT !.op = "destroy", !.step = "wipe_postings"])
  /\ UNCHANGED <<durables, memory>>

WipePostings(t) ==
  /\ At(t, "destroy", "wipe_postings")
  /\ postings' = {}
  /\ csm' = {}
  /\ acked' = [s \in Sources |-> IF acked[s] \in {"removed", "expunged"}
                                 THEN acked[s] ELSE "unsettled"]
  /\ Goto(t, [call[t] EXCEPT !.step = "wipe_vectors"])
  /\ UNCHANGED <<rows, removed, vectors, basis, countsDb, handle, counts>>

\* Mutant: the vectors of slots without a basis are left.
WipeTrainedVectors(t) ==
  /\ At(t, "destroy", "wipe_vectors")
  /\ vectors' = [m \in Models |-> [c \in Chunks |-> IF basis[m] = 0 THEN vectors[m][c]
                                                               ELSE NoVector]]
  /\ Goto(t, [call[t] EXCEPT !.step = "wipe_basis"])
  /\ UNCHANGED <<rows, removed, postings, basis, countsDb, memory, acked>>

WipeVectors(t) ==
  /\ At(t, "destroy", "wipe_vectors")
  /\ vectors' = [m \in Models |-> [c \in Chunks |-> NoVector]]
  /\ Goto(t, [call[t] EXCEPT !.step = "wipe_basis"])
  /\ UNCHANGED <<rows, removed, postings, basis, countsDb, memory, acked>>

WipeBasis(t) ==
  /\ At(t, "destroy", "wipe_basis")
  /\ basis' = [m \in Models |-> 0]
  /\ Goto(t, [call[t] EXCEPT !.step = "wipe_counts"])
  /\ UNCHANGED <<rows, removed, postings, vectors, countsDb, memory, acked>>

WipeCounts(t) ==
  /\ At(t, "destroy", "wipe_counts")
  /\ countsDb' = [c \in Chunks |-> 0]
  /\ Goto(t, [call[t] EXCEPT !.step = "wipe_tombstones"])
  /\ UNCHANGED <<rows, removed, postings, vectors, basis, memory, acked>>

WipeTombstones(t) ==
  /\ At(t, "destroy", "wipe_tombstones")
  /\ removed' = {}
  /\ Goto(t, Idle)
  /\ UNCHANGED <<rows, postings, vectors, basis, countsDb, memory, acked>>

(***************************************************************************)
(* Failures                                                                *)
(***************************************************************************)

\* The store call a thread is about to make fails: the operation returns the
\* error and nothing it did before is undone.
CallFails(t) ==
  /\ "fail" \in Faults
  /\ call[t].step \notin {"idle", "note", "forget"}
  /\ Goto(t, Idle)
  /\ UNCHANGED <<durables, memory, acked>>

\* Calls that write several rows may fail after some of them: insert,
\* add_payloads, delete_all_vectors.
InsertCutShort(t, part) ==
  /\ "fail" \in Faults
  /\ At(t, "ingest", "insert")
  /\ part \subseteq call[t].chunks
  /\ rows' = Inserted(part)
  /\ Goto(t, Idle)
  /\ UNCHANGED <<removed, postings, vectors, basis, countsDb, memory, acked>>

AddCutShort(t, part, M) ==
  /\ "fail" \in Faults
  /\ call[t].step = "add"
  /\ part \subseteq call[t].cur
  /\ M \subseteq call[t].fold
  /\ vectors' = WithPayloads(t, part, M)
  /\ Goto(t, Idle)
  /\ UNCHANGED <<rows, removed, postings, basis, countsDb, memory, acked>>

UnvectorCutShort(t, c, M) ==
  /\ "fail" \in Faults
  /\ call[t].step = "unvector"
  /\ c \in call[t].cur
  /\ vectors' = WithoutVectors(c, M)
  /\ Goto(t, Idle)
  /\ UNCHANGED <<rows, removed, postings, basis, countsDb, memory, acked>>

\* Mutant: the source map starts empty.
OpenWithoutMap ==
  /\ "crash" \in Faults
  /\ csm' = {}
  /\ handle' = basis
  /\ counts' = countsDb
  /\ call' = [t \in Threads |-> Idle]
  /\ UNCHANGED <<durables, acked>>

\* Mutant: only trainable slots are built.
OpenTrainable ==
  /\ "crash" \in Faults
  /\ csm' = {c \in Chunks : rows[c] # "absent"}
  /\ handle' = [m \in Trainable |-> basis[m]]
  /\ counts' = countsDb
  /\ call' = [t \in Threads |-> Idle]
  /\ UNCHANGED <<durables, acked>>

\* The process dies and open_many runs again: the source map is loaded from
\* every stored chunk, providers and accumulators from their persisted state.
CrashAndOpen ==
  /\ "crash" \in Faults
  /\ csm' = {c \in Chunks : rows[c] # "absent"}
  /\ handle' = basis
  /\ counts' = countsDb
  /\ call' = [t \in Threads |-> Idle]
  /\ UNCHANGED <<durables, acked>>

NonEmpty(S) == (SUBSET S) \ {{}}

IngestStep(t) ==
  \/ \E s \in Sources : BeginIngest(t, s)
  \/ ClearRemoved(t) \/ Insert(t) \/ NoteChunks(t) \/ SlotsDone(t)
  \/ \E c \in Chunks : IndexChunk(t, c)
  \/ \E m \in Models : LookAtSlot(t, m)

EmbedStep(t) ==
  \/ ReadTombstones(t) \/ LoadActive(t)
  \/ \E m \in Models : \/ ChooseSlot(t, m) \/ Train(t, m) \/ UpsertBasis(t, m)
                       \/ Reembed(t, m) \/ ReplaceVectors(t, m)
  \/ \E C \in NonEmpty(Chunks) : AddPayloads(t, C)
  \/ Embed(t) \/ Persist(t)

BatchStep(t) ==
  \/ \E S \in NonEmpty(Sources) : BeginBatch(t, S) \/ BeginImport(t, S) \/ Window(t, S)
  \/ \E C \in NonEmpty(Chunks) : IndexBatch(t, C) \/ MergeShard(t, C)
  \/ WriteShards(t) \/ Bootstrap(t)

RemoveStep(t) ==
  \/ \E s \in Sources : BeginRemove(t, s) \/ BeginExpunge(t, s)
  \/ \E c \in Chunks : Unindex(t, c) \/ Unvector(t, c)
  \/ ScrubText(t) \/ Forget(t) \/ MarkRemoved(t)

WholeStep(t) ==
  \/ BeginReindex(t) \/ BeginDestroy(t)
  \/ WipePostings(t) \/ WipeVectors(t) \/ WipeBasis(t) \/ WipeCounts(t) \/ WipeTombstones(t)

FailStep(t) ==
  \/ CallFails(t)
  \/ \E S \in NonEmpty(Sources) : WindowFails(t, S)
  \/ \E C \in NonEmpty(Chunks) : InsertCutShort(t, C)
  \/ \E C \in NonEmpty(Chunks), M \in NonEmpty(Models) : AddCutShort(t, C, M)
  \/ \E c \in Chunks, M \in NonEmpty(Models) : UnvectorCutShort(t, c, M)

Next ==
  \/ \E t \in Threads : \/ IngestStep(t) \/ EmbedStep(t) \/ BatchStep(t)
                        \/ RemoveStep(t) \/ WholeStep(t) \/ FailStep(t)
  \/ CrashAndOpen

Spec == Init /\ [][Next]_vars

(***************************************************************************)
(* Properties                                                              *)
(***************************************************************************)

Quiet == \A t \in Threads : call[t].op = "idle"

InPostings(s) == \E c \in ChunksOf({s}) : c \in postings
InVectors(s)  == \E c \in ChunksOf({s}), m \in Models : vectors[m][c].from # "none"

\* A source whose removal returned Ok is in no lane of recall, and stays out
\* until it is ingested again.  (The comments in remove: "the source will no
\* longer appear in recall results", and a "subsequent reindex / BM25-rebuild /
\* first-ingest train [...] does NOT re-embed it back into recall".)
RemovedNotRecalled ==
  \A s \in Sources :
    acked[s] \in {"removed", "expunged"} => ~InPostings(s) /\ ~InVectors(s)

\* A tombstone means the source is in no lane of recall whenever no operation
\* is running: what active_chunks leaves out is not searchable either.
TombstoneMeansGone ==
  Quiet => \A s \in removed : ~InPostings(s) /\ ~InVectors(s)

\* A source whose ingest returned Ok is found by every lane: its chunks have
\* postings that resolve to the source, and a vector under every held model.
IngestedIsRecalled ==
  \A s \in Sources :
    acked[s] = "ingested" => \A c \in ChunksOf({s}) :
      /\ c \in postings /\ c \in csm
      /\ \A m \in Models : vectors[m][c].from # "none"

\* The vectors of an ingested source were computed from its text, whatever was
\* expunged before.  (The comment in ingest: "its vectors + BM25 postings are
\* restored by this ingest".)
IngestedVectorsHaveText ==
  \A s \in Sources :
    acked[s] = "ingested" => \A c \in ChunksOf({s}), m \in Models :
      vectors[m][c].from \in {"none", "text"}

\* Of an expunged source no text is left in the chunk table, and no vector
\* computed from its text.
ExpungedIsErased ==
  \A s \in Sources :
    acked[s] = "expunged" => \A c \in ChunksOf({s}) :
      /\ rows[c] # "text"
      /\ \A m \in Models : vectors[m][c].from # "text"

\* When destroy_recall_index returns Ok nothing can be recalled.  (Its comment:
\* "After this call the corpus has no recall capability: BM25 scores zero for all
\* queries and the vector lane returns no results.")
DestroyEmptiesRecall ==
  [][(\E t \in Threads : WipeTombstones(t)) =>
       postings' = {} /\ \A m \in Models, c \in Chunks : vectors'[m][c] = NoVector]_vars

\* Whenever no operation is running, all vectors of a slot were computed with
\* the basis its serving provider has: queries are compared like with like.
VectorsMatchBasis ==
  Quiet => \A m \in Models, c \in Chunks :
    vectors[m][c].from # "none" => vectors[m][c].gen = handle[m]

\* Every chunk is counted at most once in the maintained counts, and exactly
\* once when its source was ingested.  (The comment in ingest: "derived per-chunk
\* state does not double-count on re-ingest".)
CountedOnce ==
  /\ \A c \in Chunks : counts[c] <= 1
  /\ \A s \in Sources : acked[s] = "ingested" => \A c \in ChunksOf({s}) : counts[c] = 1
=============================================================================
