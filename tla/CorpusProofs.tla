---------------------------- MODULE CorpusProofs ----------------------------
(***************************************************************************)
(* Theorems about Corpus, for any sources, chunks, slots and threads.      *)
(***************************************************************************)
EXTENDS Corpus, TLAPS

(***************************************************************************)
(* Type correctness                                                        *)
(***************************************************************************)

\* A thread that goes on with a well-formed call record leaves all of them
\* well formed.
LEMMA GotoType ==
  ASSUME call \in [Threads -> Calls], NEW t \in Threads, NEW r \in Calls, Goto(t, r)
  PROVE  call' \in [Threads -> Calls]
  BY DEF Goto

\* The record of a thread outside any call is well formed.
LEMMA IdleType == Idle \in Calls /\ NoChunks \in [Chunks -> RowStates]
  BY CorpusAssumption DEF Idle, Calls, Steps, NoChunks, RowStates, Gens, AllOps

\* active_chunks returns a table of chunk rows.
LEMMA ActiveType == TypeOK => \A gone : Without(gone) \in [Chunks -> RowStates]
  BY DEF TypeOK, Without, RowStates

\* The chunks of any sources are chunks.
LEMMA ChunksOfType == \A S : ChunksOf(S) \in SUBSET Chunks
  BY DEF ChunksOf

\* BundleStore::insert leaves a table of chunk rows.
LEMMA RowsType == TypeOK => \A C : Inserted(C) \in [Chunks -> RowStates]
  BY DEF TypeOK, Inserted, RowStates

\* fold_chunks_into_counts leaves natural counts.
LEMMA FoldedType == TypeOK => \A C : Folded(C) \in [Chunks -> Nat]
  BY DEF TypeOK, Folded

\* The beginning of a call keeps records and outcomes well formed.
LEMMA BeginType ==
  ASSUME TypeOK, NEW t \in Threads, NEW op, NEW S, NEW first \in Calls,
         Begin(t, op, S, first)
  PROVE  call' \in [Threads -> Calls] /\ acked' \in [Sources -> Acks]
  <1>1. call' \in [Threads -> Calls]
    BY GotoType DEF Begin, TypeOK
  <1>2. acked' \in [Sources -> Acks]
    BY DEF Begin, TypeOK, Acks
  <1> QED BY <1>1, <1>2

\* So does its end.
LEMMA FinishType ==
  ASSUME TypeOK, NEW t \in Threads, NEW result \in Acks, Finish(t, result)
  PROVE  call' \in [Threads -> Calls] /\ acked' \in [Sources -> Acks]
  <1>1. call' \in [Threads -> Calls]
    BY GotoType, IdleType DEF Finish, TypeOK
  <1>2. acked' \in [Sources -> Acks]
    BY DEF Finish, TypeOK, Acks
  <1> QED BY <1>1, <1>2

\* A missing vector is well formed.
LEMMA NoVectorType == NoVector \in Vectors
  BY CorpusAssumption DEF NoVector, Vectors, Gens

\* The three ways vectors change.
LEMMA WithPayloadsType ==
  ASSUME TypeOK, NEW t \in Threads, NEW C, NEW M
  PROVE  WithPayloads(t, C, M) \in [Models -> [Chunks -> Vectors]]
  <1>1. call[t].gens \in [Models -> Gens]
    BY DEF TypeOK, Calls
  <1>2. \A m \in Models : [from |-> "text", gen |-> call[t].gens[m]] \in Vectors
    BY <1>1 DEF Vectors
  <1> QED BY <1>2 DEF TypeOK, WithPayloads

\* delete_all_vectors, for any slots.
LEMMA WithoutVectorsType ==
  ASSUME TypeOK, NEW c, NEW M
  PROVE  WithoutVectors(c, M) \in [Models -> [Chunks -> Vectors]]
  BY NoVectorType DEF TypeOK, WithoutVectors

\* replace_model_vectors, from any snapshot.
LEMMA ReembeddedType ==
  ASSUME TypeOK, NEW t \in Threads, NEW m \in Models
  PROVE  Reembedded(t, m) \in [Chunks -> Vectors]
  <1>1. call[t].gens \in [Models -> Gens] /\ call[t].snap \in [Chunks -> RowStates]
    BY DEF TypeOK, Calls
  <1>2. \A c \in Chunks : call[t].snap[c] # "absent" =>
          [from |-> call[t].snap[c], gen |-> call[t].gens[m]] \in Vectors
    BY <1>1 DEF Vectors, RowStates
  <1> QED BY <1>2, NoVectorType DEF Reembedded

\* The calls ingest makes keep the stores well formed.
LEMMA IngestStepType ==
  ASSUME TypeOK, NEW t \in Threads, IngestStep(t)
  PROVE  TypeOK'
  <1>c. call[t] \in Calls /\ call \in [Threads -> Calls]
    BY DEF TypeOK
  <1>1. ASSUME NEW s \in Sources, BeginIngest(t, s) PROVE TypeOK'
    <2>1. [Idle EXCEPT !.op = "ingest", !.step = "clear", !.srcs = {s},
                       !.chunks = ChunksOf({s}), !.slots = Models] \in Calls
      BY IdleType, ChunksOfType DEF Calls, Steps, AllOps
    <2>2. call' \in [Threads -> Calls] /\ acked' \in [Sources -> Acks]
      BY <1>1, <2>1, BeginType DEF BeginIngest
    <2> QED BY <1>1, <2>2 DEF BeginIngest, TypeOK, durables, memory
  <1>2. CASE ClearRemoved(t)
    <2>1. [call[t] EXCEPT !.step = "insert"] \in Calls
      BY <1>c DEF Calls, Steps
    <2>2. call' \in [Threads -> Calls]
      BY <1>2, <1>c, <2>1, GotoType DEF ClearRemoved
    <2> QED BY <1>2, <2>2 DEF ClearRemoved, TypeOK, memory
  <1>3. CASE Insert(t)
    <2>0. NewIn(call[t].chunks) \in SUBSET Chunks
      BY <1>c DEF NewIn, Calls
    <2>1. [call[t] EXCEPT !.step = "index", !.cur = NewIn(call[t].chunks)] \in Calls
      BY <1>c, <2>0 DEF Calls, Steps
    <2>2. call' \in [Threads -> Calls]
      BY <1>3, <1>c, <2>1, GotoType DEF Insert
    <2> QED BY <1>3, <2>2, RowsType DEF Insert, TypeOK, memory
  <1>4. ASSUME NEW c \in Chunks, IndexChunk(t, c) PROVE TypeOK'
    <2>1. [call[t] EXCEPT !.chunks = @ \ {c},
                          !.step = IF call[t].chunks = {c} THEN "note" ELSE "index"] \in Calls
      BY <1>c DEF Calls, Steps
    <2>2. call' \in [Threads -> Calls]
      BY <1>4, <1>c, <2>1, GotoType DEF IndexChunk
    <2> QED BY <1>4, <2>2 DEF IndexChunk, TypeOK, memory
  <1>5. CASE NoteChunks(t)
    <2>1. [call[t] EXCEPT !.step = "slots", !.cur = {}] \in Calls
      BY <1>c DEF Calls, Steps
    <2>2. call' \in [Threads -> Calls]
      BY <1>5, <1>c, <2>1, GotoType DEF NoteChunks
    <2> QED BY <1>5, <2>2, FoldedType, ChunksOfType DEF NoteChunks, TypeOK, durables
  <1>6. ASSUME NEW m \in Models, LookAtSlot(t, m) PROVE TypeOK'
    <2>1. [call[t] EXCEPT !.slots = @ \ {m}, !.slot = {m}, !.again = {m},
             !.step = IF call[t].loaded THEN "fit" ELSE "tombstones"] \in Calls
      BY <1>c DEF Calls, Steps
    <2>2. [call[t] EXCEPT !.slots = @ \ {m}, !.fold = @ \cup {m}] \in Calls
      BY <1>c DEF Calls
    <2>3. call' \in [Threads -> Calls]
      BY <1>6, <1>c, <2>1, <2>2, GotoType DEF LookAtSlot
    <2> QED BY <1>6, <2>3 DEF LookAtSlot, TypeOK, durables, memory
  <1>7. CASE SlotsDone(t)
    <2>1. [call[t] EXCEPT !.step = IF call[t].fold = {} THEN "persist" ELSE "embed"] \in Calls
      BY <1>c DEF Calls, Steps
    <2>2. call' \in [Threads -> Calls]
      BY <1>7, <1>c, <2>1, GotoType DEF SlotsDone
    <2> QED BY <1>7, <2>2 DEF SlotsDone, TypeOK, durables, memory
  <1> QED BY <1>1, <1>2, <1>3, <1>4, <1>5, <1>6, <1>7 DEF IngestStep

\* So do training, re-embedding, folding in and persisting the counts,
LEMMA EmbedStepType ==
  ASSUME TypeOK, NEW t \in Threads, EmbedStep(t)
  PROVE  TypeOK'
  <1>c. call[t] \in Calls /\ call \in [Threads -> Calls]
    BY DEF TypeOK
  <1>a. AfterTrain(t) \in Steps /\ AfterReembed(t) \in Steps
    BY DEF AfterTrain, AfterReembed, Steps
  <1>1. ASSUME NEW m \in Models, ChooseSlot(t, m) PROVE TypeOK'
    <2>0. (IF ~Already(t, m) THEN "fit" ELSE IF call[t].train = {m} THEN AfterTrain(t)
           ELSE "train") \in Steps
      BY <1>a DEF Steps
    <2>1. [call[t] EXCEPT !.train = @ \ {m},
                          !.slot = IF Already(t, m) THEN {} ELSE {m},
                          !.step = IF ~Already(t, m) THEN "fit"
                                   ELSE IF call[t].train = {m} THEN AfterTrain(t)
                                   ELSE "train"] \in Calls
      BY <1>c, <2>0 DEF Calls
    <2>2. call' \in [Threads -> Calls]
      BY <1>1, <1>c, <2>1, GotoType DEF ChooseSlot
    <2> QED BY <1>1, <2>2 DEF ChooseSlot, TypeOK, durables, memory
  <1>2. ASSUME NEW m \in Models, Train(t, m) PROVE TypeOK'
    <2>1. (CHOOSE g \in FreshGens(m) : TRUE) \in Gens
      BY <1>2 DEF Train, FreshGens
    <2>2. PICK g \in Gens : /\ handle' = [handle EXCEPT ![m] = g]
                            /\ Goto(t, [call[t] EXCEPT !.step = "upsert",
                                          !.gens = [call[t].gens EXCEPT ![m] = g]])
      BY <1>2, <2>1 DEF Train
    <2>3. [call[t].gens EXCEPT ![m] = g] \in [Models -> Gens]
      BY <1>c DEF Calls
    <2>4. [call[t] EXCEPT !.step = "upsert",
                          !.gens = [call[t].gens EXCEPT ![m] = g]] \in Calls
      BY <1>c, <2>3 DEF Calls, Steps
    <2>5. call' \in [Threads -> Calls]
      BY <1>c, <2>2, <2>4, GotoType
    <2> QED BY <1>2, <2>2, <2>5 DEF Train, TypeOK, durables
  <1>3. ASSUME NEW m \in Models, UpsertBasis(t, m) PROVE TypeOK'
    <2>0. (IF call[t].train = {} THEN AfterTrain(t) ELSE "train") \in Steps
      BY <1>a DEF Steps
    <2>1. [call[t] EXCEPT !.slot = {},
             !.step = IF call[t].train = {} THEN AfterTrain(t) ELSE "train"] \in Calls
      BY <1>c, <2>0 DEF Calls
    <2>2. call' \in [Threads -> Calls]
      BY <1>3, <1>c, <2>1, GotoType DEF UpsertBasis
    <2>3. call[t].gens[m] \in Gens
      BY <1>c DEF Calls
    <2> QED BY <1>3, <2>2, <2>3 DEF UpsertBasis, TypeOK, memory
  <1>4. ASSUME NEW m \in Models, Reembed(t, m) PROVE TypeOK'
    <2>0. [call[t].gens EXCEPT ![m] = handle[m]] \in [Models -> Gens]
      BY <1>c DEF Calls, TypeOK
    <2>1. [call[t] EXCEPT !.again = @ \ {m}, !.slot = {m}, !.step = "replace",
                          !.gens = [call[t].gens EXCEPT ![m] = handle[m]]] \in Calls
      BY <1>c, <2>0 DEF Calls, Steps
    <2>2. call' \in [Threads -> Calls]
      BY <1>4, <1>c, <2>1, GotoType DEF Reembed
    <2> QED BY <1>4, <2>2 DEF Reembed, TypeOK, durables, memory
  <1>5. ASSUME NEW m \in Models, ReplaceVectors(t, m) PROVE TypeOK'
    <2>0. (IF call[t].again = {} THEN AfterReembed(t) ELSE "reembed") \in Steps
      BY <1>a DEF Steps
    <2>1. [call[t] EXCEPT !.slot = {},
             !.step = IF call[t].again = {} THEN AfterReembed(t) ELSE "reembed"] \in Calls
      BY <1>c, <2>0 DEF Calls
    <2>2. call' \in [Threads -> Calls]
      BY <1>5, <1>c, <2>1, GotoType DEF ReplaceVectors
    <2>3. vectors' \in [Models -> [Chunks -> Vectors]]
      BY <1>5, ReembeddedType DEF ReplaceVectors, TypeOK
    <2> QED BY <1>5, <2>2, <2>3 DEF ReplaceVectors, TypeOK, memory
  <1>6. CASE Embed(t)
    <2>0. [m \in Models |-> IF m \in call[t].fold THEN handle[m] ELSE 0] \in [Models -> Gens]
      BY CorpusAssumption DEF TypeOK, Gens
    <2>1. [call[t] EXCEPT !.step = "add", !.cur = ChunksOf(call[t].srcs),
             !.gens = [m \in Models |-> IF m \in call[t].fold THEN handle[m] ELSE 0]] \in Calls
      BY <1>c, <2>0, ChunksOfType DEF Calls, Steps
    <2>2. call' \in [Threads -> Calls]
      BY <1>6, <1>c, <2>1, GotoType DEF Embed
    <2> QED BY <1>6, <2>2 DEF Embed, TypeOK, durables, memory
  <1>7. ASSUME NEW C \in NonEmpty(Chunks), AddPayloads(t, C) PROVE TypeOK'
    <2>1. [call[t] EXCEPT !.cur = @ \ C,
             !.step = IF call[t].cur = C THEN "persist" ELSE "add"] \in Calls
      BY <1>c DEF Calls, Steps
    <2>2. call' \in [Threads -> Calls]
      BY <1>7, <1>c, <2>1, GotoType DEF AddPayloads
    <2> QED BY <1>7, <2>2, WithPayloadsType DEF AddPayloads, TypeOK, memory
  <1>8. CASE Persist(t)
    <2>1. CASE Finish(t, "ingested")
      BY <1>8, <2>1, FinishType DEF Persist, TypeOK, memory, Acks
    <2>2. CASE ~Finish(t, "ingested")
      <3>1. call' \in [Threads -> Calls]
        BY <1>8, <1>c, <2>2, GotoType, IdleType DEF Persist
      <3>2. acked' \in [Sources -> Acks]
        BY <1>8, <2>2 DEF Persist, TypeOK, Acks
      <3> QED BY <1>8, <3>1, <3>2 DEF Persist, TypeOK, memory
    <2> QED BY <2>1, <2>2
  <1>9. CASE ReadTombstones(t)
    <2>1. [call[t] EXCEPT !.gone = removed, !.step = "load"] \in Calls
      BY <1>c DEF Calls, Steps, TypeOK
    <2>2. call' \in [Threads -> Calls]
      BY <1>9, <1>c, <2>1, GotoType DEF ReadTombstones
    <2> QED BY <1>9, <2>2 DEF ReadTombstones, TypeOK, durables, memory
  <1>10. CASE LoadActive(t)
    <2>0. AfterLoad(t) \in Steps
      BY <1>a DEF AfterLoad, Steps
    <2>1. [call[t] EXCEPT !.snap = Without(call[t].gone), !.loaded = TRUE,
                          !.step = AfterLoad(t)] \in Calls
      BY <1>c, <2>0, ActiveType DEF Calls
    <2>2. call' \in [Threads -> Calls]
      BY <1>10, <1>c, <2>1, GotoType DEF LoadActive
    <2> QED BY <1>10, <2>2 DEF LoadActive, TypeOK, durables, memory
  <1> QED BY <1>1, <1>2, <1>3, <1>4, <1>5, <1>6, <1>7, <1>8, <1>9, <1>10 DEF EmbedStep

\* the windows and merges of batches and imports,
LEMMA BatchStepType ==
  ASSUME TypeOK, NEW t \in Threads, BatchStep(t)
  PROVE  TypeOK'
  <1>c. call[t] \in Calls /\ call \in [Threads -> Calls]
    BY DEF TypeOK
  <1>1. ASSUME NEW S \in NonEmpty(Sources), BeginBatch(t, S) PROVE TypeOK'
    <2>1. [Idle EXCEPT !.op = "batch", !.step = "window", !.srcs = S, !.todo = S,
                       !.chunks = ChunksOf(S), !.fold = Models] \in Calls
      BY IdleType, ChunksOfType DEF Calls, Steps, AllOps, NonEmpty
    <2>2. call' \in [Threads -> Calls] /\ acked' \in [Sources -> Acks]
      BY <1>1, <2>1, BeginType DEF BeginBatch
    <2> QED BY <1>1, <2>2 DEF BeginBatch, TypeOK, durables, memory
  <1>2. ASSUME NEW S \in NonEmpty(Sources), BeginImport(t, S) PROVE TypeOK'
    <2>1. [Idle EXCEPT !.op = "import", !.step = "shard", !.srcs = S, !.todo = S,
                       !.chunks = ChunksOf(S)] \in Calls
      BY IdleType, ChunksOfType DEF Calls, Steps, AllOps, NonEmpty
    <2>2. call' \in [Threads -> Calls] /\ acked' \in [Sources -> Acks]
      BY <1>2, <2>1, BeginType DEF BeginImport
    <2> QED BY <1>2, <2>2 DEF BeginImport, TypeOK, durables, memory
  <1>3. ASSUME NEW S \in NonEmpty(Sources), Window(t, S) PROVE TypeOK'
    <2>1. [call[t] EXCEPT !.todo = @ \ S,
             !.step = IF call[t].todo = S THEN "index" ELSE "window"] \in Calls
      BY <1>c DEF Calls, Steps
    <2>2. call' \in [Threads -> Calls]
      BY <1>3, <1>c, <2>1, GotoType DEF Window
    <2> QED BY <1>3, <2>2, RowsType, FoldedType, ChunksOfType DEF Window, TypeOK
  <1>4. ASSUME NEW C \in NonEmpty(Chunks), IndexBatch(t, C) PROVE TypeOK'
    <2>1. [call[t] EXCEPT !.chunks = @ \ C,
             !.step = IF call[t].chunks = C THEN "boot" ELSE "index"] \in Calls
      BY <1>c DEF Calls, Steps
    <2>2. call' \in [Threads -> Calls]
      BY <1>4, <1>c, <2>1, GotoType DEF IndexBatch
    <2> QED BY <1>4, <2>2 DEF IndexBatch, TypeOK, memory, NonEmpty
  <1>5. ASSUME NEW C \in NonEmpty(Chunks), MergeShard(t, C) PROVE TypeOK'
    <2>1. CASE Finish(t, "imported")
      BY <1>5, <2>1, FinishType DEF MergeShard, TypeOK, memory, NonEmpty, Acks
    <2>2. CASE ~Finish(t, "imported")
      <3>1. [call[t] EXCEPT !.chunks = @ \ C] \in Calls
        BY <1>c DEF Calls
      <3>2. call' \in [Threads -> Calls]
        BY <1>5, <1>c, <2>2, <3>1, GotoType DEF MergeShard
      <3> QED BY <1>5, <2>2, <3>2 DEF MergeShard, TypeOK, memory, NonEmpty
    <2> QED BY <2>1, <2>2
  <1>6. CASE WriteShards(t)
    <2>1. [call[t] EXCEPT !.step = "window"] \in Calls
      BY <1>c DEF Calls, Steps
    <2>2. call' \in [Threads -> Calls]
      BY <1>6, <1>c, <2>1, GotoType DEF WriteShards
    <2> QED BY <1>6, <2>2 DEF WriteShards, TypeOK, durables, memory
  <1>7. CASE Bootstrap(t)
    <2>1. [call[t] EXCEPT !.step = "embed"] \in Calls
      BY <1>c DEF Calls, Steps
    <2>2. [call[t] EXCEPT !.step = "tombstones", !.train = Trainable] \in Calls
      BY <1>c, CorpusAssumption DEF Calls, Steps
    <2>3. call' \in [Threads -> Calls]
      BY <1>7, <1>c, <2>1, <2>2, GotoType DEF Bootstrap
    <2> QED BY <1>7, <2>3 DEF Bootstrap, TypeOK, durables, memory
  <1> QED BY <1>1, <1>2, <1>3, <1>4, <1>5, <1>6, <1>7 DEF BatchStep

\* remove and expunge,
LEMMA RemoveStepType ==
  ASSUME TypeOK, NEW t \in Threads, RemoveStep(t)
  PROVE  TypeOK'
  <1>c. call[t] \in Calls /\ call \in [Threads -> Calls]
    BY DEF TypeOK
  <1>1. ASSUME NEW s \in Sources, BeginRemove(t, s) PROVE TypeOK'
    <2> DEFINE stored == {c \in ChunksOf({s}) : rows[c] # "absent"}
    <2>0. stored \in SUBSET Chunks
      BY ChunksOfType
    <2> HIDE DEF stored
    <2>1. [Idle EXCEPT !.op = "remove", !.srcs = {s}, !.chunks = stored,
             !.step = IF stored = {} THEN "forget" ELSE "unindex"] \in Calls
      BY <2>0, IdleType DEF Calls, Steps, AllOps
    <2>2. call' \in [Threads -> Calls] /\ acked' \in [Sources -> Acks]
      BY <1>1, <2>1, BeginType DEF BeginRemove, stored
    <2> QED BY <1>1, <2>2 DEF BeginRemove, TypeOK, durables, memory
  <1>2. ASSUME NEW s \in Sources, BeginExpunge(t, s) PROVE TypeOK'
    <2>1. [Idle EXCEPT !.op = "expunge", !.step = "scrub", !.srcs = {s}] \in Calls
      BY IdleType DEF Calls, Steps, AllOps
    <2>2. call' \in [Threads -> Calls] /\ acked' \in [Sources -> Acks]
      BY <1>2, <2>1, BeginType DEF BeginExpunge
    <2> QED BY <1>2, <2>2 DEF BeginExpunge, TypeOK, durables, memory
  <1>3. CASE ScrubText(t)
    <2> DEFINE stored == {c \in ChunksOf(call[t].srcs) : rows[c] # "absent"}
    <2>0. stored \in SUBSET Chunks
      BY ChunksOfType
    <2> HIDE DEF stored
    <2>1. [call[t] EXCEPT !.chunks = stored,
             !.step = IF stored = {} THEN "forget" ELSE "unindex"] \in Calls
      BY <1>c, <2>0 DEF Calls, Steps
    <2>2. call' \in [Threads -> Calls]
      BY <1>3, <1>c, <2>1, GotoType DEF ScrubText, stored
    <2>3. rows' \in [Chunks -> RowStates]
      BY <1>3 DEF ScrubText, TypeOK, RowStates
    <2> QED BY <1>3, <2>2, <2>3 DEF ScrubText, TypeOK, memory
  <1>4. ASSUME NEW c \in Chunks, Unindex(t, c) PROVE TypeOK'
    <2>1. [call[t] EXCEPT !.cur = {c}, !.step = "unvector"] \in Calls
      BY <1>c DEF Calls, Steps
    <2>2. call' \in [Threads -> Calls]
      BY <1>4, <1>c, <2>1, GotoType DEF Unindex
    <2> QED BY <1>4, <2>2 DEF Unindex, TypeOK, memory
  <1>5. ASSUME NEW c \in Chunks, Unvector(t, c) PROVE TypeOK'
    <2>1. [call[t] EXCEPT !.cur = {}, !.chunks = @ \ {c},
             !.step = IF call[t].chunks = {c} THEN "forget" ELSE "unindex"] \in Calls
      BY <1>c DEF Calls, Steps
    <2>2. call' \in [Threads -> Calls]
      BY <1>5, <1>c, <2>1, GotoType DEF Unvector
    <2> QED BY <1>5, <2>2, WithoutVectorsType DEF Unvector, TypeOK, memory
  <1>6. CASE Forget(t)
    <2>1. [call[t] EXCEPT !.step = "mark"] \in Calls
      BY <1>c DEF Calls, Steps
    <2>2. call' \in [Threads -> Calls]
      BY <1>6, <1>c, <2>1, GotoType DEF Forget
    <2> QED BY <1>6, <2>2 DEF Forget, TypeOK, durables
  <1>7. CASE MarkRemoved(t)
    <2>1. call' \in [Threads -> Calls] /\ acked' \in [Sources -> Acks]
      BY <1>7, FinishType DEF MarkRemoved, Acks
    <2>2. call[t].srcs \in SUBSET Sources
      BY <1>c DEF Calls
    <2> QED BY <1>7, <2>1, <2>2 DEF MarkRemoved, TypeOK, memory
  <1> QED BY <1>1, <1>2, <1>3, <1>4, <1>5, <1>6, <1>7 DEF RemoveStep

\* reindex and destroy_recall_index,
LEMMA WholeStepType ==
  ASSUME TypeOK, NEW t \in Threads, WholeStep(t)
  PROVE  TypeOK'
  <1>c. call[t] \in Calls /\ call \in [Threads -> Calls]
    BY DEF TypeOK
  <1>g. \A st \in Steps : [call[t] EXCEPT !.step = st] \in Calls
    BY <1>c DEF Calls
  <1>1. CASE BeginReindex(t)
    <2>1. [Idle EXCEPT !.op = "reindex", !.step = "tombstones",
             !.train = Trainable, !.again = Models] \in Calls
      BY IdleType, CorpusAssumption DEF Calls, Steps, AllOps
    <2>2. call' \in [Threads -> Calls] /\ acked' \in [Sources -> Acks]
      BY <1>1, <2>1, BeginType DEF BeginReindex
    <2> QED BY <1>1, <2>2 DEF BeginReindex, TypeOK, durables, memory
  <1>2. CASE BeginDestroy(t)
    <2>1. [Idle EXCEPT !.op = "destroy", !.step = "wipe_postings"] \in Calls
      BY IdleType DEF Calls, Steps, AllOps
    <2>2. call' \in [Threads -> Calls] /\ acked' \in [Sources -> Acks]
      BY <1>2, <2>1, BeginType DEF BeginDestroy
    <2> QED BY <1>2, <2>2 DEF BeginDestroy, TypeOK, durables, memory
  <1>3. CASE WipePostings(t)
    <2>1. call' \in [Threads -> Calls]
      BY <1>3, <1>c, <1>g, GotoType DEF WipePostings, Steps
    <2>2. acked' \in [Sources -> Acks]
      BY <1>3 DEF WipePostings, TypeOK, Acks
    <2> QED BY <1>3, <2>1, <2>2 DEF WipePostings, TypeOK
  <1>4. CASE WipeVectors(t)
    <2>1. call' \in [Threads -> Calls]
      BY <1>4, <1>c, <1>g, GotoType DEF WipeVectors, Steps
    <2> QED BY <1>4, <2>1, NoVectorType DEF WipeVectors, TypeOK, memory
  <1>5. CASE WipeBasis(t)
    <2>1. call' \in [Threads -> Calls]
      BY <1>5, <1>c, <1>g, GotoType DEF WipeBasis, Steps
    <2> QED BY <1>5, <2>1, CorpusAssumption DEF WipeBasis, TypeOK, memory, Gens
  <1>6. CASE WipeCounts(t)
    <2>1. call' \in [Threads -> Calls]
      BY <1>6, <1>c, <1>g, GotoType DEF WipeCounts, Steps
    <2> QED BY <1>6, <2>1 DEF WipeCounts, TypeOK, memory
  <1>7. CASE WipeTombstones(t)
    <2>1. call' \in [Threads -> Calls]
      BY <1>7, <1>c, IdleType, GotoType DEF WipeTombstones
    <2> QED BY <1>7, <2>1 DEF WipeTombstones, TypeOK, memory
  <1> QED BY <1>1, <1>2, <1>3, <1>4, <1>5, <1>6, <1>7 DEF WholeStep

\* and calls that fail.
LEMMA FailStepType ==
  ASSUME TypeOK, NEW t \in Threads, FailStep(t)
  PROVE  TypeOK'
  <1>c. call \in [Threads -> Calls]
    BY DEF TypeOK
  <1>i. Goto(t, Idle) => call' \in [Threads -> Calls]
    BY <1>c, IdleType, GotoType
  <1>1. CASE CallFails(t)
    BY <1>1, <1>i DEF CallFails, TypeOK, durables, memory
  <1>2. ASSUME NEW S \in NonEmpty(Sources), WindowFails(t, S) PROVE TypeOK'
    BY <1>2, <1>i, FoldedType, ChunksOfType DEF WindowFails, TypeOK, durables
  <1>3. ASSUME NEW C \in NonEmpty(Chunks), InsertCutShort(t, C) PROVE TypeOK'
    BY <1>3, <1>i, RowsType DEF InsertCutShort, TypeOK, memory
  <1>4. ASSUME NEW C \in NonEmpty(Chunks), NEW M \in NonEmpty(Models), AddCutShort(t, C, M)
        PROVE  TypeOK'
    BY <1>4, <1>i, WithPayloadsType DEF AddCutShort, TypeOK, memory
  <1>5. ASSUME NEW c \in Chunks, NEW M \in NonEmpty(Models), UnvectorCutShort(t, c, M)
        PROVE  TypeOK'
    BY <1>5, <1>i, WithoutVectorsType DEF UnvectorCutShort, TypeOK, memory
  <1> QED BY <1>1, <1>2, <1>3, <1>4, <1>5 DEF FailStep

\* A new corpus is well formed.
LEMMA InitType == Init => TypeOK
  <1> SUFFICES ASSUME Init PROVE TypeOK
    OBVIOUS
  <1>1. vectors \in [Models -> [Chunks -> Vectors]]
    BY NoVectorType DEF Init
  <1>2. call \in [Threads -> Calls] /\ rows \in [Chunks -> RowStates]
    BY IdleType DEF Init
  <1>3. basis \in [Models -> Gens] /\ handle \in [Models -> Gens]
    BY CorpusAssumption DEF Init, Gens
  <1> QED BY <1>1, <1>2, <1>3 DEF Init, TypeOK, Acks

\* Every step keeps the corpus well formed.
LEMMA NextType == TypeOK /\ [Next]_vars => TypeOK'
  <1> SUFFICES ASSUME TypeOK, [Next]_vars PROVE TypeOK'
    OBVIOUS
  <1>1. CASE CrashAndOpen
    <2>1. call' \in [Threads -> Calls]
      BY <1>1, IdleType DEF CrashAndOpen
    <2> QED BY <1>1, <2>1 DEF CrashAndOpen, TypeOK, durables
  <1>2. CASE UNCHANGED vars
    BY <1>2 DEF vars, durables, memory, TypeOK
  <1> QED
    BY <1>1, <1>2, IngestStepType, EmbedStepType, BatchStepType, RemoveStepType,
       WholeStepType, FailStepType DEF Next

\* Every step of the corpus, complete, failing or cut short by a crash, keeps the
\* stores and the call records well formed, for any instance.
THEOREM TypeCorrect == Spec => []TypeOK
  BY InitType, NextType, PTL DEF Spec

(***************************************************************************)
(* Removed sources stay out of recall.                                     *)
(*                                                                         *)
(* The claim needs what the code's callers must then guarantee: calls on   *)
(* one source do not overlap, and nothing replaces the vectors of a whole  *)
(* model from a snapshot (reindex, the first-ingest train) or forgets the  *)
(* tombstones (destroy_recall_index).  Threads, failures and crashes are   *)
(* arbitrary.                                                              *)
(***************************************************************************)

NoSnapshots ==
  /\ ~Overlap
  /\ "reindex" \notin Ops /\ "destroy" \notin Ops
  /\ "ingest" \in Ops => Trainable = {}

\* The steps an operation goes through, under NoSnapshots.
StepsOf(op) ==
  CASE op = "idle"    -> {"idle"}
    [] op = "ingest"  -> {"clear", "insert", "index", "note", "slots", "embed", "add",
                          "persist"}
    [] op = "batch"   -> {"window", "index", "boot", "tombstones", "load", "train", "fit",
                          "upsert", "embed", "add", "persist"}
    [] op = "import"  -> {"shard", "window", "index"}
    [] op = "remove"  -> {"unindex", "unvector", "forget", "mark"}
    [] op = "expunge" -> {"scrub", "unindex", "unvector", "forget", "mark"}
    [] OTHER          -> {}

Gone(c) == c \notin postings /\ \A m \in Models : vectors[m][c].from = "none"

\* Calls in flight own their sources: no other call has them, and no outcome
\* is on record for them.
Owned ==
  \A t \in Threads :
    /\ \A s \in call[t].srcs : acked[s] = "unsettled"
    /\ \A u \in Threads \ {t} : call[t].srcs \cap call[u].srcs = {}

\* A call follows its operation and works on chunks of its sources.
InScope(t) ==
  /\ call[t].step \in StepsOf(call[t].op)
  /\ call[t].op = "ingest" => Trainable = {}
  /\ call[t].chunks \subseteq ChunksOf(call[t].srcs)
  /\ call[t].cur \subseteq ChunksOf(call[t].srcs)
  /\ call[t].todo \subseteq call[t].srcs
  /\ call[t].step \in {"clear", "insert"} => call[t].chunks = ChunksOf(call[t].srcs)
  /\ call[t].step = "shard" => call[t].todo = call[t].srcs

\* What is indexed or embedded is stored ...
Stored == \A c \in Chunks : rows[c] = "absent" => Gone(c)

\* ... and a call indexes and embeds after it has stored.
StoredFirst(t) ==
  \A c \in ChunksOf(call[t].srcs) :
    \/ call[t].step \in {"clear", "insert", "shard"}
    \/ call[t].op \in {"remove", "expunge"}
    \/ call[t].step = "window" /\ SourceOf[c] \in call[t].todo
    \/ rows[c] # "absent"

\* remove has cleared every chunk it is not yet to clear.
Cleared(t) ==
  call[t].step \in {"unindex", "unvector", "forget", "mark"} =>
    /\ \A c \in ChunksOf(call[t].srcs) \ call[t].chunks : Gone(c)
    /\ call[t].step = "unvector" => call[t].cur \cap postings = {}
    /\ call[t].step \in {"forget", "mark"} => call[t].chunks = {}

IInv ==
  /\ TypeOK /\ Owned /\ Stored /\ RemovedNotRecalled
  /\ \A t \in Threads : InScope(t) /\ StoredFirst(t) /\ Cleared(t)

\* The recall property in terms of chunks.
LEMMA RecalledChunks ==
  TypeOK => (RemovedNotRecalled <=>
    \A c \in Chunks : acked[SourceOf[c]] \in {"removed", "expunged"} => Gone(c))
  <1> SUFFICES ASSUME TypeOK
               PROVE  RemovedNotRecalled <=>
                 \A c \in Chunks : acked[SourceOf[c]] \in {"removed", "expunged"} => Gone(c)
    OBVIOUS
  <1>1. \A s : ChunksOf({s}) = {c \in Chunks : SourceOf[c] = s}
    BY DEF ChunksOf
  <1>2. \A c \in Chunks : SourceOf[c] \in Sources
    BY CorpusAssumption
  <1>3. \A s : ~InPostings(s) /\ ~InVectors(s) <=> \A c \in ChunksOf({s}) : Gone(c)
    BY DEF InPostings, InVectors, Gone
  <1>4. ASSUME RemovedNotRecalled, NEW c \in Chunks,
               acked[SourceOf[c]] \in {"removed", "expunged"}
        PROVE  Gone(c)
    BY <1>1, <1>2, <1>3, <1>4 DEF RemovedNotRecalled
  <1>5. ASSUME \A c \in Chunks : acked[SourceOf[c]] \in {"removed", "expunged"} => Gone(c)
        PROVE  RemovedNotRecalled
    BY <1>1, <1>3, <1>5 DEF RemovedNotRecalled
  <1> QED BY <1>4, <1>5

\* A step of one thread that only touches chunks of the sources it owns, and
\* leaves its own call in order, keeps the invariant.
LEMMA StepOfOne ==
  ASSUME IInv, TypeOK', NEW t \in Threads,
         \A u \in Threads \ {t} : call'[u] = call[u],
         \A u \in Threads \ {t} : call'[t].srcs \cap call[u].srcs = {},
         \A c \in Chunks : rows[c] # "absent" => rows'[c] # "absent",
         \A c \in Chunks \ ChunksOf(call[t].srcs) :
           (c \notin postings => c \notin postings') /\ (Gone(c) => Gone(c)'),
         \A c \in ChunksOf(call[t].srcs) : rows'[c] = "absent" => Gone(c)',
         \A s \in call'[t].srcs : acked'[s] = "unsettled",
         \A s \in Sources \ call'[t].srcs :
           IF s \in call[t].srcs
           THEN acked'[s] \in {"removed", "expunged"} => \A c \in ChunksOf({s}) : Gone(c)'
           ELSE acked'[s] = acked[s],
         InScope(t)', StoredFirst(t)', Cleared(t)'
  PROVE  IInv'
  <1>1. \A u \in Threads : call[u].srcs \subseteq Sources /\ call'[u].srcs \subseteq Sources
    BY DEF IInv, TypeOK, Calls
  <1>2. \A S, c : c \in ChunksOf(S) <=> c \in Chunks /\ SourceOf[c] \in S
    BY DEF ChunksOf
  <1>3. \A u \in Threads \ {t} : \A s \in call[u].srcs : s \notin call[t].srcs /\ s \notin call'[t].srcs
    BY DEF IInv, Owned
  <1>4. Owned'
    <2>1. \A u \in Threads : \A s \in call'[u].srcs : acked'[s] = "unsettled"
      BY <1>1, <1>3 DEF IInv, Owned
    <2>2. \A u, v \in Threads : u # v => call'[u].srcs \cap call'[v].srcs = {}
      BY DEF IInv, Owned
    <2> QED BY <2>1, <2>2 DEF Owned
  <1>5. Stored'
    BY <1>2 DEF IInv, Stored
  <1>6. RemovedNotRecalled'
    <2>1. ASSUME NEW c \in Chunks, acked'[SourceOf[c]] \in {"removed", "expunged"}
          PROVE  Gone(c)'
      <3>1. SourceOf[c] \in Sources \ call'[t].srcs
        BY <2>1, CorpusAssumption
      <3>2. CASE SourceOf[c] \in call[t].srcs
        BY <2>1, <3>1, <3>2, <1>2
      <3>3. CASE SourceOf[c] \notin call[t].srcs
        <4>1. acked[SourceOf[c]] \in {"removed", "expunged"}
          BY <2>1, <3>1, <3>3
        <4>2. Gone(c)
          BY <4>1, RecalledChunks DEF IInv
        <4> QED BY <3>3, <4>2, <1>2
      <3> QED BY <3>2, <3>3
    <2>2. (TypeOK => (RemovedNotRecalled <=>
             \A c \in Chunks : acked[SourceOf[c]] \in {"removed", "expunged"} => Gone(c)))'
      BY RecalledChunks, PTL
    <2> QED BY <2>1, <2>2
  <1>7. ASSUME NEW u \in Threads \ {t}
        PROVE  InScope(u)' /\ StoredFirst(u)' /\ Cleared(u)'
    <2>1. call'[u] = call[u]
      OBVIOUS
    <2>2. InScope(u) /\ StoredFirst(u) /\ Cleared(u)
      BY DEF IInv
    <2>3. \A c \in ChunksOf(call[u].srcs) : c \in Chunks \ ChunksOf(call[t].srcs)
      BY <1>2, <1>3
    <2>4. InScope(u)'
      BY <2>1, <2>2 DEF InScope
    <2>5. StoredFirst(u)'
      BY <2>1, <2>2, <2>3 DEF StoredFirst
    <2>6. Cleared(u)'
      <3>1. call[u].cur \subseteq ChunksOf(call[u].srcs)
        BY <2>2 DEF InScope
      <3> QED BY <2>1, <2>2, <2>3, <3>1 DEF Cleared
    <2> QED BY <2>4, <2>5, <2>6
  <1> QED BY <1>4, <1>5, <1>6, <1>7 DEF IInv

\* A thread goes on with its call.
LEMMA Continues ==
  ASSUME IInv, TypeOK', NEW t \in Threads, NEW r, Goto(t, r), r.srcs = call[t].srcs,
         acked' = acked,
         \A c \in Chunks : rows[c] # "absent" => rows'[c] # "absent",
         \A c \in Chunks \ ChunksOf(call[t].srcs) :
           (c \notin postings => c \notin postings') /\ (Gone(c) => Gone(c)'),
         \A c \in ChunksOf(call[t].srcs) : rows'[c] = "absent" => Gone(c)',
         InScope(t)', StoredFirst(t)', Cleared(t)'
  PROVE  IInv'
  <1>1. call'[t] = r /\ \A u \in Threads \ {t} : call'[u] = call[u]
    BY DEF Goto, IInv, TypeOK
  <1>2. \A s \in call[t].srcs : acked[s] = "unsettled"
    BY DEF IInv, Owned
  <1>3. \A u \in Threads \ {t} : call'[t].srcs \cap call[u].srcs = {}
    BY <1>1 DEF IInv, Owned
  <1> QED BY <1>1, <1>2, <1>3, StepOfOne

\* A thread's call ends, with an outcome or an error.
LEMMA Ends ==
  ASSUME IInv, TypeOK', NEW t \in Threads, Goto(t, Idle),
         \A s \in Sources \ call[t].srcs : acked'[s] = acked[s],
         \A s \in call[t].srcs :
           acked'[s] \in {"removed", "expunged"} => \A c \in ChunksOf({s}) : Gone(c)',
         \A c \in Chunks : rows[c] # "absent" => rows'[c] # "absent",
         \A c \in Chunks \ ChunksOf(call[t].srcs) :
           (c \notin postings => c \notin postings') /\ (Gone(c) => Gone(c)'),
         \A c \in ChunksOf(call[t].srcs) : rows'[c] = "absent" => Gone(c)'
  PROVE  IInv'
  <1>1. call'[t] = Idle /\ \A u \in Threads \ {t} : call'[u] = call[u]
    BY DEF Goto, IInv, TypeOK
  <1>2. Idle.srcs = {} /\ Idle.chunks = {} /\ Idle.cur = {} /\ Idle.todo = {}
        /\ Idle.op = "idle" /\ Idle.step = "idle"
    BY DEF Idle
  <1>3. InScope(t)' /\ StoredFirst(t)' /\ Cleared(t)'
    BY <1>1, <1>2 DEF InScope, StepsOf, StoredFirst, Cleared, ChunksOf
  <1>4. \A u \in Threads \ {t} : call'[t].srcs \cap call[u].srcs = {}
    BY <1>1, <1>2
  <1> QED BY <1>1, <1>2, <1>3, <1>4, StepOfOne

\* A call that fails or is cut short: nothing is settled.
LEMMA Fails ==
  ASSUME IInv, TypeOK', NEW t \in Threads, Goto(t, Idle), acked' = acked,
         \A c \in Chunks : rows[c] # "absent" => rows'[c] # "absent",
         \A c \in Chunks \ ChunksOf(call[t].srcs) :
           (c \notin postings => c \notin postings') /\ (Gone(c) => Gone(c)'),
         \A c \in ChunksOf(call[t].srcs) : rows'[c] = "absent" => Gone(c)'
  PROVE  IInv'
  <1>1. \A s \in call[t].srcs : acked'[s] = "unsettled"
    BY DEF IInv, Owned
  <1> QED BY <1>1, Ends

\* A thread begins a call on sources no other call has.
LEMMA Begins ==
  ASSUME IInv, TypeOK', NoSnapshots, NEW t \in Threads, NEW op, NEW S \in SUBSET Sources,
         NEW first, Begin(t, op, S, first), first.srcs = S,
         rows' = rows, postings' = postings, vectors' = vectors,
         InScope(t)', StoredFirst(t)', Cleared(t)'
  PROVE  IInv'
  <1>1. call'[t] = first /\ \A u \in Threads \ {t} : call'[u] = call[u]
    BY DEF Begin, Goto, IInv, TypeOK
  <1>2. \A u \in Threads : S \cap call[u].srcs = {}
    BY DEF Begin, NoSnapshots, Busy
  <1>3. \A c : Gone(c)' <=> Gone(c)
    BY DEF Gone
  <1>4. \A s \in Sources : acked'[s] = IF s \in S THEN "unsettled" ELSE acked[s]
    BY DEF Begin
  <1>5. \A s \in call[t].srcs : acked[s] = "unsettled"
    BY DEF IInv, Owned
  <1>6. \A c \in ChunksOf(call[t].srcs) : rows'[c] = "absent" => Gone(c)'
    BY <1>3 DEF IInv, Stored, ChunksOf
  <1>7. \A s \in call'[t].srcs : acked'[s] = "unsettled"
    BY <1>1, <1>4
  <1>8. \A s \in Sources \ call'[t].srcs :
          IF s \in call[t].srcs
          THEN acked'[s] \in {"removed", "expunged"} => \A c \in ChunksOf({s}) : Gone(c)'
          ELSE acked'[s] = acked[s]
    BY <1>1, <1>4, <1>5
  <1> QED BY <1>1, <1>2, <1>3, <1>6, <1>7, <1>8, StepOfOne

\* A thread goes on and leaves rows, postings and vectors alone.
LEMMA ContinuesQuietly ==
  ASSUME IInv, TypeOK', NEW t \in Threads, NEW r, Goto(t, r), r.srcs = call[t].srcs,
         acked' = acked, rows' = rows, postings' = postings, vectors' = vectors,
         InScope(t)', StoredFirst(t)', Cleared(t)'
  PROVE  IInv'
  <1>1. \A c : Gone(c)' <=> Gone(c)
    BY DEF Gone
  <1>2. \A c \in ChunksOf(call[t].srcs) : rows'[c] = "absent" => Gone(c)'
    BY <1>1 DEF IInv, Stored, ChunksOf
  <1> QED BY <1>1, <1>2, Continues

\* What a call at a step of its operation implies for the call.
LEMMA StepGivesOp ==
  ASSUME NEW t \in Threads, InScope(t)
  PROVE  /\ call[t].step \in {"unindex", "unvector", "forget", "mark"}
              => call[t].op \in {"remove", "expunge"}
         /\ call[t].step \in {"tombstones", "load", "train", "fit", "upsert"}
              => call[t].op = "batch"
         /\ call[t].step \in {"embed", "add", "persist"} => call[t].op \in {"ingest", "batch"}
         /\ call[t].step = "window" => call[t].op \in {"batch", "import"}
         /\ call[t].step \notin {"reembed", "replace"}
         /\ call[t].op \notin {"reindex", "destroy"}
  BY DEF InScope, StepsOf

\* The calls ingest makes keep the invariant: it indexes what it has stored,
\* for sources it owns.
LEMMA IngestStepKeeps ==
  ASSUME NoSnapshots, IInv, TypeOK', NEW t \in Threads, IngestStep(t)
  PROVE  IInv'
  <1>c. /\ call[t] \in Calls /\ call \in [Threads -> Calls]
        /\ InScope(t) /\ StoredFirst(t) /\ Cleared(t)
    BY DEF IInv, TypeOK
  <1>n. \A r : Goto(t, r) => call'[t] = r
    BY <1>c DEF Goto
  <1>1. ASSUME NEW s \in Sources, BeginIngest(t, s) PROVE IInv'
    <2> DEFINE r == [Idle EXCEPT !.op = "ingest", !.step = "clear", !.srcs = {s},
                                 !.chunks = ChunksOf({s}), !.slots = Models]
    <2>1. /\ r.op = "ingest" /\ r.step = "clear" /\ r.srcs = {s} /\ r.chunks = ChunksOf({s})
          /\ r.cur = {} /\ r.todo = {}
      BY DEF Idle
    <2>2. Begin(t, "ingest", {s}, r) /\ rows' = rows /\ postings' = postings /\ vectors' = vectors
      BY <1>1 DEF BeginIngest, durables
    <2> HIDE DEF r
    <2>3. call'[t] = r /\ "ingest" \in Ops
      BY <2>2, <1>n DEF Begin
    <2>4. InScope(t)' /\ StoredFirst(t)' /\ Cleared(t)'
      BY <2>1, <2>3 DEF NoSnapshots, InScope, StepsOf, StoredFirst, Cleared
    <2> QED BY <2>1, <2>2, <2>4, Begins
  <1>2. CASE ClearRemoved(t)
    <2> DEFINE r == [call[t] EXCEPT !.step = "insert"]
    <2>1. /\ r.op = "ingest" /\ r.step = "insert" /\ r.srcs = call[t].srcs
          /\ r.chunks = call[t].chunks /\ r.cur = call[t].cur /\ r.todo = call[t].todo
      BY <1>2, <1>c DEF ClearRemoved, At, Calls
    <2>2. Goto(t, r) /\ rows' = rows /\ postings' = postings /\ vectors' = vectors /\ acked' = acked
      BY <1>2 DEF ClearRemoved
    <2> HIDE DEF r
    <2>3. InScope(t)' /\ StoredFirst(t)' /\ Cleared(t)'
      BY <1>2, <1>c, <1>n, <2>1, <2>2
      DEF ClearRemoved, At, InScope, StepsOf, StoredFirst, Cleared
    <2> QED BY <2>1, <2>2, <2>3, ContinuesQuietly
  <1>3. CASE Insert(t)
    <2> DEFINE r == [call[t] EXCEPT !.step = "index", !.cur = NewIn(call[t].chunks)]
    <2>1. /\ r.op = "ingest" /\ r.step = "index" /\ r.srcs = call[t].srcs
          /\ r.chunks = call[t].chunks /\ r.cur = NewIn(call[t].chunks)
          /\ r.todo = call[t].todo
      BY <1>3, <1>c DEF Insert, At, Calls
    <2>2. Goto(t, r) /\ postings' = postings /\ vectors' = vectors /\ acked' = acked
      BY <1>3 DEF Insert
    <2> HIDE DEF r
    <2>3. call[t].chunks = ChunksOf(call[t].srcs)
      BY <1>3, <1>c DEF Insert, At, InScope
    <2>4. \A c \in Chunks : rows'[c] = IF c \in call[t].chunks /\ rows[c] = "absent"
                                       THEN "text" ELSE rows[c]
      BY <1>3 DEF Insert, Inserted
    <2>5. InScope(t)'
      BY <1>3, <1>c, <1>n, <2>1, <2>2, <2>3 DEF Insert, At, InScope, StepsOf, NewIn
    <2>6. StoredFirst(t)' /\ Cleared(t)'
      BY <1>n, <2>1, <2>2, <2>3, <2>4 DEF StoredFirst, Cleared, ChunksOf
    <2>7. \A c : Gone(c)' <=> Gone(c)
      BY <2>2 DEF Gone
    <2>8. \A c \in ChunksOf(call[t].srcs) : rows'[c] # "absent"
      BY <2>3, <2>4 DEF ChunksOf
    <2> QED BY <2>1, <2>2, <2>4, <2>5, <2>6, <2>7, <2>8, Continues
  <1>4. ASSUME NEW c \in Chunks, IndexChunk(t, c) PROVE IInv'
    <2> DEFINE r == [call[t] EXCEPT !.chunks = @ \ {c},
                       !.step = IF call[t].chunks = {c} THEN "note" ELSE "index"]
    <2>1. /\ r.op = "ingest" /\ r.step \in {"note", "index"} /\ r.srcs = call[t].srcs
          /\ r.chunks = call[t].chunks \ {c} /\ r.cur = call[t].cur /\ r.todo = call[t].todo
      BY <1>4, <1>c DEF IndexChunk, At, Calls
    <2>2. Goto(t, r) /\ rows' = rows /\ postings' = postings \cup {c} /\ vectors' = vectors
          /\ acked' = acked
      BY <1>4 DEF IndexChunk
    <2> HIDE DEF r
    <2>3. InScope(t)' /\ StoredFirst(t)' /\ Cleared(t)'
      BY <1>4, <1>c, <1>n, <2>1, <2>2
      DEF IndexChunk, At, InScope, StepsOf, StoredFirst, Cleared
    <2>4. c \in ChunksOf(call[t].srcs)
      BY <1>4, <1>c DEF IndexChunk, InScope
    <2>5. \A d \in Chunks \ ChunksOf(call[t].srcs) :
            (d \notin postings => d \notin postings') /\ (Gone(d) => Gone(d)')
      BY <2>2, <2>4 DEF Gone
    <2>6. \A d \in ChunksOf(call[t].srcs) : rows'[d] # "absent"
      BY <1>4, <1>c, <2>2 DEF IndexChunk, At, StoredFirst
    <2> QED BY <2>1, <2>2, <2>3, <2>5, <2>6, Continues
  <1>5. CASE NoteChunks(t)
    <2> DEFINE r == [call[t] EXCEPT !.step = "slots", !.cur = {}]
    <2>1. /\ r.op = "ingest" /\ r.step = "slots" /\ r.srcs = call[t].srcs
          /\ r.chunks = call[t].chunks /\ r.cur = {} /\ r.todo = call[t].todo
      BY <1>5, <1>c DEF NoteChunks, At, Calls
    <2>2. Goto(t, r) /\ rows' = rows /\ postings' = postings /\ vectors' = vectors /\ acked' = acked
      BY <1>5 DEF NoteChunks, durables
    <2> HIDE DEF r
    <2>3. InScope(t)' /\ StoredFirst(t)' /\ Cleared(t)'
      BY <1>5, <1>c, <1>n, <2>1, <2>2
      DEF NoteChunks, At, InScope, StepsOf, StoredFirst, Cleared
    <2> QED BY <2>1, <2>2, <2>3, ContinuesQuietly
  <1>6. ASSUME NEW m \in Models, LookAtSlot(t, m) PROVE IInv'
    <2> DEFINE r == [call[t] EXCEPT !.slots = @ \ {m}, !.fold = @ \cup {m}]
    <2>0. m \notin Untrained
      BY <1>6, <1>c DEF LookAtSlot, At, InScope, Untrained
    <2>1. /\ r.op = "ingest" /\ r.step = "slots" /\ r.srcs = call[t].srcs
          /\ r.chunks = call[t].chunks /\ r.cur = call[t].cur /\ r.todo = call[t].todo
      BY <1>6, <1>c DEF LookAtSlot, At, Calls
    <2>2. Goto(t, r) /\ rows' = rows /\ postings' = postings /\ vectors' = vectors /\ acked' = acked
      BY <1>6, <2>0 DEF LookAtSlot, durables
    <2> HIDE DEF r
    <2>3. InScope(t)' /\ StoredFirst(t)' /\ Cleared(t)'
      BY <1>6, <1>c, <1>n, <2>1, <2>2
      DEF LookAtSlot, At, InScope, StepsOf, StoredFirst, Cleared
    <2> QED BY <2>1, <2>2, <2>3, ContinuesQuietly
  <1>7. CASE SlotsDone(t)
    <2> DEFINE r == [call[t] EXCEPT !.step = IF call[t].fold = {} THEN "persist" ELSE "embed"]
    <2>1. /\ r.op = "ingest" /\ r.step \in {"persist", "embed"} /\ r.srcs = call[t].srcs
          /\ r.chunks = call[t].chunks /\ r.cur = call[t].cur /\ r.todo = call[t].todo
      BY <1>7, <1>c DEF SlotsDone, At, Calls
    <2>2. Goto(t, r) /\ rows' = rows /\ postings' = postings /\ vectors' = vectors /\ acked' = acked
      BY <1>7 DEF SlotsDone, durables
    <2> HIDE DEF r
    <2>3. InScope(t)' /\ StoredFirst(t)' /\ Cleared(t)'
      BY <1>7, <1>c, <1>n, <2>1, <2>2
      DEF SlotsDone, At, InScope, StepsOf, StoredFirst, Cleared
    <2> QED BY <2>1, <2>2, <2>3, ContinuesQuietly
  <1> QED BY <1>1, <1>2, <1>3, <1>4, <1>5, <1>6, <1>7 DEF IngestStep

\* Training and folding in keep it; re-embedding a snapshot does not happen.
LEMMA EmbedStepKeeps ==
  ASSUME NoSnapshots, IInv, TypeOK', NEW t \in Threads, EmbedStep(t)
  PROVE  IInv'
  <1>c. /\ call[t] \in Calls /\ call \in [Threads -> Calls]
        /\ InScope(t) /\ StoredFirst(t) /\ Cleared(t)
    BY DEF IInv, TypeOK
  <1>n. \A r : Goto(t, r) => call'[t] = r
    BY <1>c DEF Goto
  <1>o. /\ call[t].step \in {"tombstones", "load", "train", "fit", "upsert"}
             => call[t].op = "batch"
        /\ call[t].step \in {"embed", "add", "persist"} => call[t].op \in {"ingest", "batch"}
        /\ call[t].step \notin {"reembed", "replace"}
        /\ call[t].op # "reindex"
    BY <1>c, StepGivesOp
  <1>1. ASSUME NEW m \in Models, ChooseSlot(t, m) PROVE IInv'
    <2> DEFINE r == [call[t] EXCEPT !.train = @ \ {m},
                       !.slot = IF Already(t, m) THEN {} ELSE {m},
                       !.step = IF ~Already(t, m) THEN "fit"
                                ELSE IF call[t].train = {m} THEN AfterTrain(t) ELSE "train"]
    <2>1. /\ r.op = "batch" /\ r.step \in {"fit", "train", "embed"}
          /\ r.srcs = call[t].srcs /\ r.chunks = call[t].chunks
          /\ r.cur = call[t].cur /\ r.todo = call[t].todo
      BY <1>1, <1>c, <1>o DEF ChooseSlot, AfterTrain, At, Calls
    <2>2. Goto(t, r) /\ rows' = rows /\ postings' = postings /\ vectors' = vectors /\ acked' = acked
      BY <1>1 DEF ChooseSlot, AfterTrain, durables
    <2> HIDE DEF r
    <2>3. InScope(t)' /\ StoredFirst(t)' /\ Cleared(t)'
      BY <1>1, <1>c, <1>n, <2>1, <2>2, <1>o
      DEF ChooseSlot, AfterTrain, At, InScope, StepsOf, StoredFirst, Cleared
    <2> QED BY <2>1, <2>2, <2>3, ContinuesQuietly
  <1>2. ASSUME NEW m \in Models, Train(t, m) PROVE IInv'
    <2>0. PICK g : Goto(t, [call[t] EXCEPT !.step = "upsert",
                              !.gens = [call[t].gens EXCEPT ![m] = g]])
      BY <1>2 DEF Train
    <2> DEFINE r == [call[t] EXCEPT !.step = "upsert",
                       !.gens = [call[t].gens EXCEPT ![m] = g]]
    <2>1. /\ r.op = "batch" /\ r.step = "upsert"
          /\ r.srcs = call[t].srcs /\ r.chunks = call[t].chunks
          /\ r.cur = call[t].cur /\ r.todo = call[t].todo
      BY <1>2, <1>c, <1>o DEF Train, Calls
    <2>2. Goto(t, r) /\ rows' = rows /\ postings' = postings /\ vectors' = vectors /\ acked' = acked
      BY <1>2, <2>0 DEF Train, durables
    <2> HIDE DEF r
    <2>3. InScope(t)' /\ StoredFirst(t)' /\ Cleared(t)'
      BY <1>2, <1>c, <1>n, <1>o, <2>1, <2>2
      DEF Train, InScope, StepsOf, StoredFirst, Cleared
    <2> QED BY <2>1, <2>2, <2>3, ContinuesQuietly
  <1>3. ASSUME NEW m \in Models, UpsertBasis(t, m) PROVE IInv'
    <2> DEFINE r == [call[t] EXCEPT !.slot = {},
                       !.step = IF call[t].train = {} THEN AfterTrain(t) ELSE "train"]
    <2>1. /\ r.op = "batch" /\ r.step \in {"train", "embed"}
          /\ r.srcs = call[t].srcs /\ r.chunks = call[t].chunks
          /\ r.cur = call[t].cur /\ r.todo = call[t].todo
      BY <1>3, <1>c, <1>o DEF UpsertBasis, AfterTrain, At, Calls
    <2>2. Goto(t, r) /\ rows' = rows /\ postings' = postings /\ vectors' = vectors /\ acked' = acked
      BY <1>3 DEF UpsertBasis, AfterTrain, durables
    <2> HIDE DEF r
    <2>3. InScope(t)' /\ StoredFirst(t)' /\ Cleared(t)'
      BY <1>3, <1>c, <1>n, <2>1, <2>2, <1>o
      DEF UpsertBasis, AfterTrain, At, InScope, StepsOf, StoredFirst, Cleared
    <2> QED BY <2>1, <2>2, <2>3, ContinuesQuietly
  <1>4. ASSUME NEW m \in Models, Reembed(t, m) \/ ReplaceVectors(t, m) PROVE IInv'
    BY <1>4, <1>o DEF Reembed, ReplaceVectors
  <1>5. CASE Embed(t)
    <2> DEFINE r == [call[t] EXCEPT !.step = "add", !.cur = ChunksOf(call[t].srcs),
                       !.gens = [m \in Models |-> IF m \in call[t].fold THEN handle[m] ELSE 0]]
    <2>1. /\ r.op = call[t].op /\ r.step = "add" /\ r.srcs = call[t].srcs
          /\ r.chunks = call[t].chunks /\ r.cur = ChunksOf(call[t].srcs) /\ r.todo = call[t].todo
      BY <1>5, <1>c, <1>o DEF Embed, At, Calls
    <2>2. Goto(t, r) /\ rows' = rows /\ postings' = postings /\ vectors' = vectors /\ acked' = acked
      BY <1>5 DEF Embed, durables
    <2> HIDE DEF r
    <2>3. InScope(t)' /\ StoredFirst(t)' /\ Cleared(t)'
      BY <1>5, <1>c, <1>n, <2>1, <2>2, <1>o
      DEF Embed, At, InScope, StepsOf, StoredFirst, Cleared
    <2> QED BY <2>1, <2>2, <2>3, ContinuesQuietly
  <1>6. ASSUME NEW C \in NonEmpty(Chunks), AddPayloads(t, C) PROVE IInv'
    <2> DEFINE r == [call[t] EXCEPT !.cur = @ \ C,
                       !.step = IF call[t].cur = C THEN "persist" ELSE "add"]
    <2>1. /\ r.op = call[t].op /\ r.step \in {"add", "persist"} /\ r.srcs = call[t].srcs
          /\ r.chunks = call[t].chunks /\ r.cur = call[t].cur \ C /\ r.todo = call[t].todo
      BY <1>6, <1>c DEF AddPayloads, Calls
    <2>2. Goto(t, r) /\ rows' = rows /\ postings' = postings /\ acked' = acked
      BY <1>6 DEF AddPayloads
    <2> HIDE DEF r
    <2>3. InScope(t)' /\ StoredFirst(t)' /\ Cleared(t)'
      BY <1>6, <1>c, <1>n, <1>o, <2>1, <2>2
      DEF AddPayloads, InScope, StepsOf, StoredFirst, Cleared
    <2>4. C \subseteq ChunksOf(call[t].srcs)
      BY <1>6, <1>c DEF AddPayloads, InScope
    <2>5. \A m \in Models : \A d \in Chunks \ C : vectors'[m][d] = vectors[m][d]
      BY <1>6 DEF AddPayloads, WithPayloads
    <2>6. \A d \in Chunks \ ChunksOf(call[t].srcs) :
            (d \notin postings => d \notin postings') /\ (Gone(d) => Gone(d)')
      BY <2>2, <2>4, <2>5 DEF Gone
    <2>7. \A d \in ChunksOf(call[t].srcs) : rows'[d] # "absent"
      BY <1>6, <1>c, <1>o, <2>2 DEF AddPayloads, StoredFirst
    <2> QED BY <2>1, <2>2, <2>3, <2>6, <2>7, Continues
  <1>7. CASE Persist(t)
    <2>1. Finish(t, "ingested") /\ rows' = rows /\ postings' = postings /\ vectors' = vectors
      BY <1>7, <1>o DEF Persist
    <2>2. /\ Goto(t, Idle)
          /\ \A s \in Sources : acked'[s] = IF s \in call[t].srcs THEN "ingested" ELSE acked[s]
      BY <2>1 DEF Finish
    <2>3. call[t].srcs \subseteq Sources
      BY <1>c DEF Calls
    <2>4. \A c : Gone(c)' <=> Gone(c)
      BY <2>1 DEF Gone
    <2>5. \A c \in ChunksOf(call[t].srcs) : rows'[c] = "absent" => Gone(c)'
      BY <2>1, <2>4 DEF IInv, Stored, ChunksOf
    <2> QED BY <2>1, <2>2, <2>3, <2>4, <2>5, Ends
  <1>8. CASE ReadTombstones(t)
    <2> DEFINE r == [call[t] EXCEPT !.gone = removed, !.step = "load"]
    <2>1. /\ r.op = "batch" /\ r.step = "load"
          /\ r.srcs = call[t].srcs /\ r.chunks = call[t].chunks
          /\ r.cur = call[t].cur /\ r.todo = call[t].todo
      BY <1>8, <1>c, <1>o DEF ReadTombstones, Calls
    <2>2. Goto(t, r) /\ rows' = rows /\ postings' = postings /\ vectors' = vectors /\ acked' = acked
      BY <1>8 DEF ReadTombstones, durables
    <2> HIDE DEF r
    <2>3. InScope(t)' /\ StoredFirst(t)' /\ Cleared(t)'
      BY <1>8, <1>c, <1>n, <2>1, <2>2, <1>o
      DEF ReadTombstones, InScope, StepsOf, StoredFirst, Cleared
    <2> QED BY <2>1, <2>2, <2>3, ContinuesQuietly
  <1>9. CASE LoadActive(t)
    <2> DEFINE r == [call[t] EXCEPT !.snap = Without(call[t].gone), !.loaded = TRUE,
                                    !.step = AfterLoad(t)]
    <2>1. /\ r.op = "batch" /\ r.step \in {"train", "embed"}
          /\ r.srcs = call[t].srcs /\ r.chunks = call[t].chunks
          /\ r.cur = call[t].cur /\ r.todo = call[t].todo
      BY <1>9, <1>c, <1>o DEF LoadActive, AfterLoad, AfterTrain, Calls
    <2>2. Goto(t, r) /\ rows' = rows /\ postings' = postings /\ vectors' = vectors /\ acked' = acked
      BY <1>9 DEF LoadActive, durables
    <2> HIDE DEF r
    <2>3. InScope(t)' /\ StoredFirst(t)' /\ Cleared(t)'
      BY <1>9, <1>c, <1>n, <2>1, <2>2, <1>o
      DEF LoadActive, InScope, StepsOf, StoredFirst, Cleared
    <2> QED BY <2>1, <2>2, <2>3, ContinuesQuietly
  <1> QED BY <1>1, <1>2, <1>3, <1>4, <1>5, <1>6, <1>7, <1>8, <1>9 DEF EmbedStep

\* Batches and imports keep it.
LEMMA BatchStepKeeps ==
  ASSUME NoSnapshots, IInv, TypeOK', NEW t \in Threads, BatchStep(t)
  PROVE  IInv'
  <1>c. /\ call[t] \in Calls /\ call \in [Threads -> Calls]
        /\ InScope(t) /\ StoredFirst(t) /\ Cleared(t)
    BY DEF IInv, TypeOK
  <1>n. \A r : Goto(t, r) => call'[t] = r
    BY <1>c DEF Goto
  <1>o. call[t].step = "window" => call[t].op \in {"batch", "import"}
    BY <1>c, StepGivesOp
  <1>1. ASSUME NEW S \in NonEmpty(Sources), BeginBatch(t, S) PROVE IInv'
    <2> DEFINE r == [Idle EXCEPT !.op = "batch", !.step = "window", !.srcs = S, !.todo = S,
                                 !.chunks = ChunksOf(S), !.fold = Models]
    <2>1. /\ r.op = "batch" /\ r.step = "window" /\ r.srcs = S /\ r.chunks = ChunksOf(S)
          /\ r.cur = {} /\ r.todo = S
      BY DEF Idle
    <2>2. Begin(t, "batch", S, r) /\ rows' = rows /\ postings' = postings /\ vectors' = vectors
      BY <1>1 DEF BeginBatch, durables
    <2> HIDE DEF r
    <2>3. call'[t] = r
      BY <2>2, <1>n DEF Begin
    <2>4. InScope(t)' /\ StoredFirst(t)' /\ Cleared(t)'
      BY <2>1, <2>3 DEF InScope, StepsOf, StoredFirst, Cleared, ChunksOf
    <2> QED BY <2>1, <2>2, <2>4, Begins DEF NonEmpty
  <1>2. ASSUME NEW S \in NonEmpty(Sources), BeginImport(t, S) PROVE IInv'
    <2> DEFINE r == [Idle EXCEPT !.op = "import", !.step = "shard", !.srcs = S, !.todo = S,
                                 !.chunks = ChunksOf(S)]
    <2>1. /\ r.op = "import" /\ r.step = "shard" /\ r.srcs = S /\ r.chunks = ChunksOf(S)
          /\ r.cur = {} /\ r.todo = S
      BY DEF Idle
    <2>2. Begin(t, "import", S, r) /\ rows' = rows /\ postings' = postings /\ vectors' = vectors
      BY <1>2 DEF BeginImport, durables
    <2> HIDE DEF r
    <2>3. call'[t] = r
      BY <2>2, <1>n DEF Begin
    <2>4. InScope(t)' /\ StoredFirst(t)' /\ Cleared(t)'
      BY <2>1, <2>3 DEF InScope, StepsOf, StoredFirst, Cleared, ChunksOf
    <2> QED BY <2>1, <2>2, <2>4, Begins DEF NonEmpty
  <1>3. ASSUME NEW S \in NonEmpty(Sources), Window(t, S) PROVE IInv'
    <2> DEFINE r == [call[t] EXCEPT !.todo = @ \ S,
                       !.step = IF call[t].todo = S THEN "index" ELSE "window"]
    <2>1. /\ r.op = call[t].op /\ r.step = (IF call[t].todo = S THEN "index" ELSE "window")
          /\ r.srcs = call[t].srcs /\ r.chunks = call[t].chunks /\ r.cur = call[t].cur
          /\ r.todo = call[t].todo \ S
      BY <1>3, <1>c DEF Window, Calls
    <2>2. Goto(t, r) /\ postings' = postings /\ vectors' = vectors /\ acked' = acked
      BY <1>3 DEF Window
    <2> HIDE DEF r
    <2>3. \A c \in Chunks : rows'[c] = IF SourceOf[c] \in S /\ rows[c] = "absent"
                                       THEN "text" ELSE rows[c]
      BY <1>3 DEF Window, Inserted, ChunksOf
    <2>4. InScope(t)'
      BY <1>3, <1>c, <1>n, <1>o, <2>1, <2>2 DEF Window, InScope, StepsOf
    <2>5. StoredFirst(t)' /\ Cleared(t)'
      <3>1. call'[t] = r /\ r.step \in {"index", "window"}
        BY <1>n, <2>1, <2>2
      <3>2. \A c \in ChunksOf(call[t].srcs) :
              rows'[c] # "absent" \/ (r.step = "window" /\ SourceOf[c] \in r.todo)
        BY <1>3, <1>c, <1>o, <2>1, <2>3 DEF Window, StoredFirst, ChunksOf
      <3> QED BY <2>1, <3>1, <3>2 DEF StoredFirst, Cleared
    <2>6. \A c : Gone(c)' <=> Gone(c)
      BY <2>2 DEF Gone
    <2>7. \A c \in ChunksOf(call[t].srcs) : rows'[c] = "absent" => Gone(c)'
      BY <2>3, <2>6 DEF IInv, Stored, ChunksOf
    <2> QED BY <2>1, <2>2, <2>3, <2>4, <2>5, <2>6, <2>7, Continues
  <1>4. ASSUME NEW C \in NonEmpty(Chunks), IndexBatch(t, C) PROVE IInv'
    <2> DEFINE r == [call[t] EXCEPT !.chunks = @ \ C,
                       !.step = IF call[t].chunks = C THEN "boot" ELSE "index"]
    <2>1. /\ r.op = "batch" /\ r.step \in {"index", "boot"} /\ r.srcs = call[t].srcs
          /\ r.chunks = call[t].chunks \ C /\ r.cur = call[t].cur /\ r.todo = call[t].todo
      BY <1>4, <1>c DEF IndexBatch, At, Calls
    <2>2. Goto(t, r) /\ rows' = rows /\ postings' = postings \cup C /\ vectors' = vectors
          /\ acked' = acked
      BY <1>4 DEF IndexBatch
    <2> HIDE DEF r
    <2>3. InScope(t)' /\ StoredFirst(t)' /\ Cleared(t)'
      BY <1>4, <1>c, <1>n, <2>1, <2>2
      DEF IndexBatch, At, InScope, StepsOf, StoredFirst, Cleared
    <2>4. C \subseteq ChunksOf(call[t].srcs)
      BY <1>4, <1>c DEF IndexBatch, InScope
    <2>5. \A d \in Chunks \ ChunksOf(call[t].srcs) :
            (d \notin postings => d \notin postings') /\ (Gone(d) => Gone(d)')
      BY <2>2, <2>4 DEF Gone
    <2>6. \A d \in ChunksOf(call[t].srcs) : rows'[d] # "absent"
      BY <1>4, <1>c, <2>2 DEF IndexBatch, At, StoredFirst
    <2> QED BY <2>1, <2>2, <2>3, <2>5, <2>6, Continues
  <1>5. ASSUME NEW C \in NonEmpty(Chunks), MergeShard(t, C), C # call[t].chunks PROVE IInv'
    <2> DEFINE r == [call[t] EXCEPT !.chunks = @ \ C]
    <2>1. /\ r.op = "import" /\ r.step \in {"index"} /\ r.srcs = call[t].srcs
          /\ r.chunks = call[t].chunks \ C /\ r.cur = call[t].cur /\ r.todo = call[t].todo
      BY <1>5, <1>c DEF MergeShard, At, Calls
    <2>2. Goto(t, r) /\ rows' = rows /\ postings' = postings \cup C /\ vectors' = vectors
          /\ acked' = acked
      BY <1>5 DEF MergeShard
    <2> HIDE DEF r
    <2>3. InScope(t)' /\ StoredFirst(t)' /\ Cleared(t)'
      BY <1>5, <1>c, <1>n, <2>1, <2>2
      DEF MergeShard, At, InScope, StepsOf, StoredFirst, Cleared
    <2>4. C \subseteq ChunksOf(call[t].srcs)
      BY <1>5, <1>c DEF MergeShard, InScope
    <2>5. \A d \in Chunks \ ChunksOf(call[t].srcs) :
            (d \notin postings => d \notin postings') /\ (Gone(d) => Gone(d)')
      BY <2>2, <2>4 DEF Gone
    <2>6. \A d \in ChunksOf(call[t].srcs) : rows'[d] # "absent"
      BY <1>5, <1>c, <2>2 DEF MergeShard, At, StoredFirst
    <2> QED BY <2>1, <2>2, <2>3, <2>5, <2>6, Continues
  <1>6. ASSUME NEW C \in NonEmpty(Chunks), MergeShard(t, C), C = call[t].chunks PROVE IInv'
    <2>1. Finish(t, "imported") /\ rows' = rows /\ postings' = postings \cup C
          /\ vectors' = vectors
      BY <1>6 DEF MergeShard
    <2>2. /\ Goto(t, Idle)
          /\ \A s \in Sources : acked'[s] = IF s \in call[t].srcs THEN "imported" ELSE acked[s]
      BY <2>1 DEF Finish
    <2>3. call[t].srcs \subseteq Sources
      BY <1>c DEF Calls
    <2>4. C \subseteq ChunksOf(call[t].srcs)
      BY <1>6, <1>c DEF InScope
    <2>5. \A d \in Chunks \ ChunksOf(call[t].srcs) :
            (d \notin postings => d \notin postings') /\ (Gone(d) => Gone(d)')
      BY <2>1, <2>4 DEF Gone
    <2>6. \A d \in ChunksOf(call[t].srcs) : rows'[d] # "absent"
      BY <1>6, <1>c, <2>1 DEF MergeShard, At, StoredFirst
    <2> QED BY <2>1, <2>2, <2>3, <2>5, <2>6, Ends
  <1>7. CASE WriteShards(t)
    <2> DEFINE r == [call[t] EXCEPT !.step = "window"]
    <2>1. /\ r.op = "import" /\ r.step = "window" /\ r.srcs = call[t].srcs
          /\ r.chunks = call[t].chunks /\ r.cur = call[t].cur /\ r.todo = call[t].todo
      BY <1>7, <1>c DEF WriteShards, At, Calls
    <2>2. Goto(t, r) /\ rows' = rows /\ postings' = postings /\ vectors' = vectors /\ acked' = acked
      BY <1>7 DEF WriteShards, durables
    <2> HIDE DEF r
    <2>3. InScope(t)' /\ StoredFirst(t)' /\ Cleared(t)'
      BY <1>7, <1>c, <1>n, <2>1, <2>2
      DEF WriteShards, At, InScope, StepsOf, StoredFirst, Cleared, ChunksOf
    <2> QED BY <2>1, <2>2, <2>3, ContinuesQuietly
  <1>8. CASE Bootstrap(t)
    <2>1. PICK r : /\ Goto(t, r) /\ r.op = "batch" /\ r.step \in {"embed", "tombstones"}
                   /\ r.srcs = call[t].srcs /\ r.chunks = call[t].chunks
                   /\ r.cur = call[t].cur /\ r.todo = call[t].todo
      <3>1. LET r == [call[t] EXCEPT !.step = "embed"]
            IN  /\ r.op = "batch" /\ r.step = "embed" /\ r.srcs = call[t].srcs
                /\ r.chunks = call[t].chunks /\ r.cur = call[t].cur /\ r.todo = call[t].todo
        BY <1>8, <1>c DEF Bootstrap, At, Calls
      <3>2. LET r == [call[t] EXCEPT !.step = "tombstones", !.train = Trainable]
            IN  /\ r.op = "batch" /\ r.step = "tombstones" /\ r.srcs = call[t].srcs
                /\ r.chunks = call[t].chunks /\ r.cur = call[t].cur /\ r.todo = call[t].todo
        BY <1>8, <1>c DEF Bootstrap, At, Calls
      <3> QED BY <1>8, <3>1, <3>2 DEF Bootstrap
    <2>2. rows' = rows /\ postings' = postings /\ vectors' = vectors /\ acked' = acked
      BY <1>8 DEF Bootstrap, durables
    <2>3. InScope(t)' /\ StoredFirst(t)' /\ Cleared(t)'
      BY <1>8, <1>c, <1>n, <2>1, <2>2
      DEF Bootstrap, At, InScope, StepsOf, StoredFirst, Cleared
    <2> QED BY <2>1, <2>2, <2>3, ContinuesQuietly
  <1> QED BY <1>1, <1>2, <1>3, <1>4, <1>5, <1>6, <1>7, <1>8 DEF BatchStep

\* remove and expunge keep it: chunk by chunk what they have passed is gone.
LEMMA RemoveStepKeeps ==
  ASSUME NoSnapshots, IInv, TypeOK', NEW t \in Threads, RemoveStep(t)
  PROVE  IInv'
  <1>c. /\ call[t] \in Calls /\ call \in [Threads -> Calls]
        /\ InScope(t) /\ StoredFirst(t) /\ Cleared(t)
    BY DEF IInv, TypeOK
  <1>n. \A r : Goto(t, r) => call'[t] = r
    BY <1>c DEF Goto
  <1>o. call[t].step \in {"unindex", "unvector", "forget", "mark"}
          => call[t].op \in {"remove", "expunge"}
    BY <1>c, StepGivesOp
  <1>s. \A c \in Chunks : rows[c] = "absent" => Gone(c)
    BY DEF IInv, Stored
  <1>1. ASSUME NEW s \in Sources, BeginRemove(t, s) PROVE IInv'
    <2> DEFINE stored == {c \in ChunksOf({s}) : rows[c] # "absent"}
               r == [Idle EXCEPT !.op = "remove", !.srcs = {s}, !.chunks = stored,
                                 !.step = IF stored = {} THEN "forget" ELSE "unindex"]
    <2>0. \A c \in ChunksOf({s}) \ stored : Gone(c)
      BY <1>s DEF ChunksOf
    <2>1. stored \subseteq ChunksOf({s})
      OBVIOUS
    <2>2. Begin(t, "remove", {s}, r) /\ rows' = rows /\ postings' = postings /\ vectors' = vectors
      BY <1>1 DEF BeginRemove, durables
    <2> HIDE DEF stored
    <2>3. /\ r.op = "remove" /\ r.srcs = {s} /\ r.chunks = stored /\ r.cur = {} /\ r.todo = {}
          /\ r.step = (IF stored = {} THEN "forget" ELSE "unindex")
      BY DEF Idle
    <2> HIDE DEF r
    <2>4. call'[t] = r
      BY <2>2, <1>n DEF Begin
    <2>5. \A c : Gone(c)' <=> Gone(c)
      BY <2>2 DEF Gone
    <2>6. InScope(t)' /\ StoredFirst(t)'
      BY <2>1, <2>3, <2>4 DEF InScope, StepsOf, StoredFirst
    <2>7. Cleared(t)'
      BY <2>0, <2>3, <2>4, <2>5 DEF Cleared
    <2> QED BY <2>2, <2>3, <2>6, <2>7, Begins
  <1>2. ASSUME NEW s \in Sources, BeginExpunge(t, s) PROVE IInv'
    <2> DEFINE r == [Idle EXCEPT !.op = "expunge", !.step = "scrub", !.srcs = {s}]
    <2>1. /\ r.op = "expunge" /\ r.step = "scrub" /\ r.srcs = {s} /\ r.chunks = {}
          /\ r.cur = {} /\ r.todo = {}
      BY DEF Idle
    <2>2. Begin(t, "expunge", {s}, r) /\ rows' = rows /\ postings' = postings /\ vectors' = vectors
      BY <1>2 DEF BeginExpunge, durables
    <2> HIDE DEF r
    <2>3. call'[t] = r
      BY <2>2, <1>n DEF Begin
    <2>4. InScope(t)' /\ StoredFirst(t)' /\ Cleared(t)'
      BY <2>1, <2>3 DEF InScope, StepsOf, StoredFirst, Cleared
    <2> QED BY <2>1, <2>2, <2>4, Begins
  <1>3. CASE ScrubText(t)
    <2> DEFINE stored == {c \in ChunksOf(call[t].srcs) : rows[c] # "absent"}
               r == [call[t] EXCEPT !.chunks = stored,
                                    !.step = IF stored = {} THEN "forget" ELSE "unindex"]
    <2>0. \A c \in ChunksOf(call[t].srcs) \ stored : Gone(c)
      BY <1>s DEF ChunksOf
    <2>1. stored \subseteq ChunksOf(call[t].srcs)
      OBVIOUS
    <2>2. Goto(t, r) /\ postings' = postings /\ vectors' = vectors /\ acked' = acked
      BY <1>3 DEF ScrubText
    <2>3. \A c \in Chunks : rows'[c] = "absent" <=> rows[c] = "absent"
      BY <1>3 DEF ScrubText
    <2> HIDE DEF stored
    <2>4. /\ r.op = "expunge" /\ r.srcs = call[t].srcs /\ r.chunks = stored
          /\ r.cur = call[t].cur /\ r.todo = call[t].todo
          /\ r.step = (IF stored = {} THEN "forget" ELSE "unindex")
      BY <1>3, <1>c DEF ScrubText, At, Calls
    <2> HIDE DEF r
    <2>5. \A c : Gone(c)' <=> Gone(c)
      BY <2>2 DEF Gone
    <2>6. InScope(t)' /\ StoredFirst(t)'
      BY <1>c, <1>n, <2>1, <2>2, <2>4 DEF InScope, StepsOf, StoredFirst
    <2>7. Cleared(t)'
      BY <1>n, <2>0, <2>2, <2>4, <2>5 DEF Cleared
    <2>8. \A c \in ChunksOf(call[t].srcs) : rows'[c] = "absent" => Gone(c)'
      BY <1>s, <2>3, <2>5 DEF ChunksOf
    <2> QED BY <2>2, <2>3, <2>4, <2>5, <2>6, <2>7, <2>8, Continues
  <1>4. ASSUME NEW c \in Chunks, Unindex(t, c) PROVE IInv'
    <2> DEFINE r == [call[t] EXCEPT !.cur = {c}, !.step = "unvector"]
    <2>1. /\ r.op = call[t].op /\ r.step = "unvector" /\ r.srcs = call[t].srcs
          /\ r.chunks = call[t].chunks /\ r.cur = {c} /\ r.todo = call[t].todo
      BY <1>4, <1>c DEF Unindex, Calls
    <2>2. Goto(t, r) /\ rows' = rows /\ postings' = postings \ {c} /\ vectors' = vectors
          /\ acked' = acked
      BY <1>4 DEF Unindex
    <2> HIDE DEF r
    <2>3. \A d : Gone(d) => Gone(d)'
      BY <2>2 DEF Gone
    <2>4. InScope(t)' /\ StoredFirst(t)' /\ Cleared(t)'
      BY <1>4, <1>c, <1>n, <1>o, <2>1, <2>2, <2>3
      DEF Unindex, InScope, StepsOf, StoredFirst, Cleared
    <2>5. \A d \in ChunksOf(call[t].srcs) : rows'[d] = "absent" => Gone(d)'
      BY <1>s, <2>2, <2>3 DEF ChunksOf
    <2> QED BY <2>1, <2>2, <2>3, <2>4, <2>5, Continues
  <1>5. ASSUME NEW c \in Chunks, Unvector(t, c) PROVE IInv'
    <2> DEFINE r == [call[t] EXCEPT !.cur = {}, !.chunks = @ \ {c},
                       !.step = IF call[t].chunks = {c} THEN "forget" ELSE "unindex"]
    <2>1. /\ r.op = call[t].op /\ r.srcs = call[t].srcs /\ r.chunks = call[t].chunks \ {c}
          /\ r.cur = {} /\ r.todo = call[t].todo
          /\ r.step = (IF call[t].chunks = {c} THEN "forget" ELSE "unindex")
      BY <1>5, <1>c DEF Unvector, Calls
    <2>2. Goto(t, r) /\ rows' = rows /\ postings' = postings /\ acked' = acked
      BY <1>5 DEF Unvector
    <2> HIDE DEF r
    <2>3. \A m \in Models : \A d \in Chunks :
            vectors'[m][d].from = IF d = c THEN "none" ELSE vectors[m][d].from
      BY <1>5 DEF Unvector, WithoutVectors, NoVector, IInv, TypeOK
    <2>4. \A d \in Chunks : Gone(d) => Gone(d)'
      BY <2>2, <2>3 DEF Gone
    <2>5. Gone(c)'
      BY <1>5, <1>c, <2>2, <2>3 DEF Gone, Unvector, Cleared
    <2>6. InScope(t)' /\ StoredFirst(t)'
      BY <1>5, <1>c, <1>n, <1>o, <2>1, <2>2 DEF Unvector, InScope, StepsOf, StoredFirst
    <2>7. Cleared(t)'
      <3>1. \A d \in ChunksOf(call[t].srcs) \ (call[t].chunks \ {c}) : Gone(d)'
        BY <1>5, <1>c, <2>4, <2>5 DEF Unvector, Cleared, ChunksOf
      <3> QED BY <1>n, <2>1, <2>2, <3>1 DEF Cleared
    <2>8. \A d \in ChunksOf(call[t].srcs) : rows'[d] = "absent" => Gone(d)'
      BY <1>s, <2>2, <2>4 DEF ChunksOf
    <2> QED BY <2>1, <2>2, <2>4, <2>6, <2>7, <2>8, Continues
  <1>6. CASE Forget(t)
    <2> DEFINE r == [call[t] EXCEPT !.step = "mark"]
    <2>1. /\ r.op = call[t].op /\ r.step = "mark" /\ r.srcs = call[t].srcs
          /\ r.chunks = call[t].chunks /\ r.cur = call[t].cur /\ r.todo = call[t].todo
      BY <1>6, <1>c DEF Forget, Calls
    <2>2. Goto(t, r) /\ rows' = rows /\ postings' = postings /\ vectors' = vectors /\ acked' = acked
      BY <1>6 DEF Forget, durables
    <2> HIDE DEF r
    <2>3. \A d : Gone(d)' <=> Gone(d)
      BY <2>2 DEF Gone
    <2>4. InScope(t)' /\ StoredFirst(t)'
      BY <1>6, <1>c, <1>n, <1>o, <2>1, <2>2 DEF Forget, InScope, StepsOf, StoredFirst
    <2>5. Cleared(t)'
      BY <1>6, <1>c, <1>n, <2>1, <2>2, <2>3 DEF Forget, Cleared
    <2> QED BY <2>1, <2>2, <2>4, <2>5, ContinuesQuietly
  <1>7. CASE MarkRemoved(t)
    <2>1. rows' = rows /\ postings' = postings /\ vectors' = vectors
      BY <1>7 DEF MarkRemoved
    <2>2. Goto(t, Idle) /\ \A s \in Sources \ call[t].srcs : acked'[s] = acked[s]
      BY <1>7 DEF MarkRemoved, Finish
    <2>3. \A d : Gone(d)' <=> Gone(d)
      BY <2>1 DEF Gone
    <2>4. \A d \in ChunksOf(call[t].srcs) : Gone(d)
      BY <1>7, <1>c DEF MarkRemoved, Cleared
    <2>5. \A s \in call[t].srcs : \A d \in ChunksOf({s}) : Gone(d)'
      BY <2>3, <2>4 DEF ChunksOf
    <2>6. \A d \in ChunksOf(call[t].srcs) : rows'[d] = "absent" => Gone(d)'
      BY <2>3, <2>4
    <2> QED BY <2>1, <2>2, <2>3, <2>5, <2>6, Ends
  <1> QED BY <1>1, <1>2, <1>3, <1>4, <1>5, <1>6, <1>7 DEF RemoveStep

\* Calls that fail, or are cut short, keep it.
LEMMA FailStepKeeps ==
  ASSUME NoSnapshots, IInv, TypeOK', NEW t \in Threads, FailStep(t)
  PROVE  IInv'
  <1>c. /\ call[t] \in Calls /\ InScope(t) /\ StoredFirst(t)
    BY DEF IInv, TypeOK
  <1>s. \A c \in Chunks : rows[c] = "absent" => Gone(c)
    BY DEF IInv, Stored
  <1>1. CASE CallFails(t) \/ \E S \in NonEmpty(Sources) : WindowFails(t, S)
    <2>1. Goto(t, Idle) /\ rows' = rows /\ postings' = postings /\ vectors' = vectors
          /\ acked' = acked
      BY <1>1 DEF CallFails, WindowFails, durables
    <2>2. \A d : Gone(d)' <=> Gone(d)
      BY <2>1 DEF Gone
    <2>3. \A d \in ChunksOf(call[t].srcs) : rows'[d] = "absent" => Gone(d)'
      BY <1>s, <2>1, <2>2 DEF ChunksOf
    <2> QED BY <2>1, <2>2, <2>3, Fails
  <1>2. ASSUME NEW C \in NonEmpty(Chunks), InsertCutShort(t, C) PROVE IInv'
    <2>1. Goto(t, Idle) /\ postings' = postings /\ vectors' = vectors /\ acked' = acked
      BY <1>2 DEF InsertCutShort
    <2>2. \A c \in Chunks : rows'[c] = IF c \in C /\ rows[c] = "absent"
                                       THEN "text" ELSE rows[c]
      BY <1>2 DEF InsertCutShort, Inserted
    <2>3. \A d : Gone(d)' <=> Gone(d)
      BY <2>1 DEF Gone
    <2>4. \A d \in ChunksOf(call[t].srcs) : rows'[d] = "absent" => Gone(d)'
      BY <1>s, <2>2, <2>3 DEF ChunksOf
    <2> QED BY <2>1, <2>2, <2>3, <2>4, Fails
  <1>3. ASSUME NEW C \in NonEmpty(Chunks), NEW M \in NonEmpty(Models), AddCutShort(t, C, M)
        PROVE  IInv'
    <2>1. Goto(t, Idle) /\ rows' = rows /\ postings' = postings /\ acked' = acked
      BY <1>3 DEF AddCutShort
    <2>2. C \subseteq ChunksOf(call[t].srcs)
      BY <1>3, <1>c DEF AddCutShort, InScope
    <2>3. \A m \in Models : \A d \in Chunks \ C : vectors'[m][d] = vectors[m][d]
      BY <1>3 DEF AddCutShort, WithPayloads
    <2>4. \A d \in Chunks \ ChunksOf(call[t].srcs) :
            (d \notin postings => d \notin postings') /\ (Gone(d) => Gone(d)')
      BY <2>1, <2>2, <2>3 DEF Gone
    <2>5. \A d \in ChunksOf(call[t].srcs) : rows'[d] # "absent"
      BY <1>3, <1>c, <2>1, StepGivesOp DEF AddCutShort, StoredFirst
    <2> QED BY <2>1, <2>4, <2>5, Fails
  <1>4. ASSUME NEW c \in Chunks, NEW M \in NonEmpty(Models), UnvectorCutShort(t, c, M)
        PROVE  IInv'
    <2>1. Goto(t, Idle) /\ rows' = rows /\ postings' = postings /\ acked' = acked
      BY <1>4 DEF UnvectorCutShort
    <2>2. \A m \in Models : \A d \in Chunks :
            vectors'[m][d].from \in {"none", vectors[m][d].from}
      BY <1>4 DEF UnvectorCutShort, WithoutVectors, NoVector, IInv, TypeOK
    <2>3. \A d \in Chunks : Gone(d) => Gone(d)'
      BY <2>1, <2>2 DEF Gone
    <2>4. \A d \in ChunksOf(call[t].srcs) : rows'[d] = "absent" => Gone(d)'
      BY <1>s, <2>1, <2>3 DEF ChunksOf
    <2> QED BY <2>1, <2>3, <2>4, Fails
  <1> QED BY <1>1, <1>2, <1>3, <1>4 DEF FailStep

\* A crash and the next open keep it: it is about durable state and calls in
\* flight.
LEMMA CrashKeeps ==
  ASSUME IInv, TypeOK', CrashAndOpen
  PROVE  IInv'
  <1>1. /\ rows' = rows /\ postings' = postings /\ vectors' = vectors /\ acked' = acked
        /\ \A t \in Threads : call'[t] = Idle
    BY DEF CrashAndOpen, durables
  <1>2. Idle.srcs = {} /\ Idle.chunks = {} /\ Idle.cur = {} /\ Idle.todo = {}
        /\ Idle.op = "idle" /\ Idle.step = "idle"
    BY DEF Idle
  <1>3. \A t \in Threads : InScope(t)' /\ StoredFirst(t)' /\ Cleared(t)'
    BY <1>1, <1>2 DEF InScope, StepsOf, StoredFirst, Cleared, ChunksOf
  <1>4. Owned'
    BY <1>1, <1>2 DEF Owned
  <1>5. Stored' /\ RemovedNotRecalled'
    BY <1>1 DEF IInv, Stored, Gone, RemovedNotRecalled, InPostings, InVectors
  <1> QED BY <1>3, <1>4, <1>5 DEF IInv

\* reindex and destroy_recall_index are not among the operations.
LEMMA WholeStepIsOut ==
  ASSUME NoSnapshots, IInv, NEW t \in Threads, WholeStep(t)
  PROVE  FALSE
  <1>1. call[t].op \notin {"reindex", "destroy"}
    BY StepGivesOp DEF IInv
  <1> QED
    BY <1>1 DEF NoSnapshots, WholeStep, BeginReindex, BeginDestroy, Begin, WipePostings,
                WipeVectors, WipeBasis, WipeCounts, WipeTombstones, At

\* A new corpus satisfies the invariant.
LEMMA InitIInv == Init => IInv
  <1> SUFFICES ASSUME Init PROVE IInv
    OBVIOUS
  <1>1. TypeOK
    BY InitType
  <1>2. Idle.srcs = {} /\ Idle.chunks = {} /\ Idle.cur = {} /\ Idle.todo = {}
        /\ Idle.op = "idle" /\ Idle.step = "idle"
    BY DEF Idle
  <1>3. \A t \in Threads : InScope(t) /\ StoredFirst(t) /\ Cleared(t)
    BY <1>2 DEF Init, InScope, StepsOf, StoredFirst, Cleared, ChunksOf
  <1>4. Owned
    BY <1>2 DEF Init, Owned
  <1>5. Stored
    BY DEF Init, Stored, Gone, NoVector
  <1>6. RemovedNotRecalled
    BY DEF Init, RemovedNotRecalled
  <1> QED BY <1>1, <1>3, <1>4, <1>5, <1>6 DEF IInv

\* Every step keeps the invariant.
LEMMA NextIInv == ASSUME NoSnapshots PROVE IInv /\ [Next]_vars => IInv'
  <1> SUFFICES ASSUME IInv, [Next]_vars PROVE IInv'
    OBVIOUS
  <1>1. TypeOK'
    BY NextType DEF IInv
  <1>2. CASE UNCHANGED vars
    <2>1. UNCHANGED <<rows, postings, vectors, call, acked>>
      BY <1>2 DEF vars, durables
    <2>2. \A t \in Threads : InScope(t)' /\ StoredFirst(t)' /\ Cleared(t)'
      BY <2>1 DEF IInv, InScope, StoredFirst, Cleared, Gone
    <2>3. Owned' /\ Stored' /\ RemovedNotRecalled'
      BY <2>1 DEF IInv, Owned, Stored, Gone, RemovedNotRecalled, InPostings, InVectors
    <2> QED BY <1>1, <2>2, <2>3 DEF IInv
  <1> QED
    BY <1>1, <1>2, IngestStepKeeps, EmbedStepKeeps, BatchStepKeeps, RemoveStepKeeps,
       FailStepKeeps, CrashKeeps, WholeStepIsOut DEF Next

\* A source whose remove or expunge returned Ok is in neither lane of recall,
\* whatever other threads ingest, import, remove and expunge meanwhile, and
\* whatever calls fail and whenever the process dies, as long as calls on one
\* source do not overlap and no reindex, first-ingest train or
\* destroy_recall_index runs (the violation runs show each of these is needed).
THEOREM RemovedStaysRemoved ==
  ASSUME NoSnapshots
  PROVE  Spec => []RemovedNotRecalled
  <1>1. IInv => RemovedNotRecalled
    BY DEF IInv
  <1> QED BY <1>1, InitIInv, NextIInv, PTL DEF Spec

(***************************************************************************)
(* What a call promised.  On top of IInv, a second invariant follows each  *)
(* call chunk by chunk: what it has un-tombstoned, indexed, mapped,        *)
(* embedded or scrubbed so far, so that its outcome is true when it        *)
(* returns, and stays true because no other call touches its chunks.       *)
(***************************************************************************)

\* Every lane finds the chunk.
Recalled(c) ==
  c \in postings /\ c \in csm /\ \A m \in Models : vectors[m][c].from # "none"

\* What is on record about the source of a chunk is true of the chunk.
Promised(c) ==
  /\ acked[SourceOf[c]] = "ingested" => Recalled(c)
  /\ acked[SourceOf[c]] = "expunged" => rows[c] # "text"
  /\ SourceOf[c] \in removed => Gone(c)

\* The steps after a call has indexed, and mapped, all its chunks.
AfterNote  == {"slots", "boot", "tombstones", "load", "train", "fit", "upsert", "embed", "add", "persist"}
AfterIndex == AfterNote \cup {"note"}

\* How far a call has come with a chunk of its sources.
Reached(t, c) ==
  /\ call[t].step = "window" => SourceOf[c] \in call[t].todo \/ SourceOf[c] \notin removed
  /\ call[t].step \in AfterIndex \cup {"insert", "index"} => SourceOf[c] \notin removed
  /\ call[t].step = "index" => c \in call[t].chunks \/ c \in postings
  /\ call[t].step \in AfterIndex => c \in postings
  /\ call[t].op = "batch" /\ call[t].step = "window"
       => SourceOf[c] \in call[t].todo \/ c \in csm
  /\ call[t].op = "batch" /\ call[t].step = "index" => c \in csm
  /\ call[t].step \in AfterNote => c \in csm
  /\ call[t].step = "add" => c \in call[t].cur \/ \A m \in Models : vectors[m][c].from # "none"
  /\ call[t].step = "persist" => \A m \in Models : vectors[m][c].from # "none"
  /\ call[t].op = "expunge" /\ call[t].step # "scrub" => rows[c] # "text"

\* The chunks and slots a call still has to deal with.
Planned(t) ==
  /\ call[t].step \in {"shard", "window"} => call[t].chunks = ChunksOf(call[t].srcs)
  /\ call[t].op = "batch" => call[t].fold = Models
  /\ call[t].op = "ingest" /\ call[t].step \in {"clear", "insert", "index", "note", "slots"}
       => call[t].fold \cup call[t].slots = Models
  /\ call[t].step \in {"embed", "add"} => call[t].fold = Models

OnTrack(t) == Planned(t) /\ \A c \in ChunksOf(call[t].srcs) : Reached(t, c)

PInv == (\A c \in Chunks : Promised(c)) /\ (\A t \in Threads : OnTrack(t))

\* A step leaves all that is stored and kept in memory about a chunk.
Kept(c) ==
  /\ rows'[c] = rows[c]
  /\ c \in postings' <=> c \in postings
  /\ c \in csm' <=> c \in csm
  /\ \A m \in Models : vectors'[m][c] = vectors[m][c]
  /\ SourceOf[c] \in removed' <=> SourceOf[c] \in removed

\* A step of one thread that leaves the chunks of other sources alone, and its
\* own call on track, keeps every promise.
LEMMA PromisesOfOne ==
  ASSUME IInv, IInv', PInv, NEW t \in Threads,
         \A u \in Threads \ {t} : call'[u] = call[u],
         \A c \in Chunks \ ChunksOf(call[t].srcs) : Kept(c),
         \A s \in Sources \ (call[t].srcs \cup call'[t].srcs) : acked'[s] = acked[s],
         \A c \in ChunksOf(call[t].srcs) : Promised(c)',
         OnTrack(t)'
  PROVE  PInv'
  <1>1. \A S, c : c \in ChunksOf(S) <=> c \in Chunks /\ SourceOf[c] \in S
    BY DEF ChunksOf
  <1>2. ASSUME NEW c \in Chunks \ ChunksOf(call[t].srcs) PROVE Promised(c)'
    <2>1. Kept(c) /\ Promised(c)
      BY DEF PInv
    <2>2. SourceOf[c] \in Sources \ call[t].srcs
      BY <1>1, CorpusAssumption
    <2>3. CASE SourceOf[c] \in call'[t].srcs
      <3>1. acked'[SourceOf[c]] = "unsettled"
        BY <2>3 DEF IInv, Owned
      <3> QED BY <2>1, <3>1 DEF Promised, Kept, Gone
    <2>4. CASE SourceOf[c] \notin call'[t].srcs
      <3>1. acked'[SourceOf[c]] = acked[SourceOf[c]]
        BY <2>2, <2>4
      <3> QED BY <2>1, <3>1 DEF Promised, Kept, Gone, Recalled
    <2> QED BY <2>3, <2>4
  <1>3. ASSUME NEW u \in Threads \ {t} PROVE OnTrack(u)'
    <2>1. call'[u] = call[u] /\ OnTrack(u)
      BY DEF PInv
    <2>2. ASSUME NEW c \in ChunksOf(call[u].srcs) PROVE Reached(u, c)'
      <3>1. c \in Chunks \ ChunksOf(call[t].srcs)
        BY <1>1 DEF IInv, Owned
      <3>2. Kept(c) /\ Reached(u, c)
        BY <2>1, <3>1 DEF OnTrack
      <3> QED BY <2>1, <3>2 DEF Kept, Reached
    <2>3. Planned(u)'
      BY <2>1 DEF OnTrack, Planned
    <2> QED BY <2>1, <2>2, <2>3 DEF OnTrack
  <1> QED BY <1>2, <1>3 DEF PInv

\* A call that goes on keeps every promise if it leaves none of its chunks both
\* recalled and tombstoned.
LEMMA PromisesGoOn ==
  ASSUME IInv, IInv', PInv, NEW t \in Threads, NEW r, Goto(t, r), r.srcs = call[t].srcs,
         acked' = acked,
         \A c \in Chunks \ ChunksOf(call[t].srcs) : Kept(c),
         \A c \in ChunksOf(call[t].srcs) : SourceOf[c] \in removed' => Gone(c)',
         OnTrack(t)'
  PROVE  PInv'
  <1>1. call'[t] = r /\ \A u \in Threads \ {t} : call'[u] = call[u]
    BY DEF Goto, IInv, TypeOK
  <1>2. \A c \in ChunksOf(call[t].srcs) : acked[SourceOf[c]] = "unsettled"
    BY DEF IInv, Owned, ChunksOf
  <1>3. \A c \in ChunksOf(call[t].srcs) : Promised(c)'
    BY <1>2 DEF Promised
  <1> QED BY <1>1, <1>3, PromisesOfOne

\* The same for a step that touches nothing but the call, the bases and counts.
LEMMA PromisesRest ==
  ASSUME IInv, IInv', PInv, NEW t \in Threads, NEW r, Goto(t, r), r.srcs = call[t].srcs,
         acked' = acked, UNCHANGED <<rows, postings, csm, vectors, removed>>,
         OnTrack(t)'
  PROVE  PInv'
  <1>1. \A c \in Chunks : Kept(c)
    BY DEF Kept
  <1>2. \A c \in ChunksOf(call[t].srcs) : SourceOf[c] \in removed' => Gone(c)'
    BY DEF PInv, Promised, Gone, ChunksOf
  <1> QED BY <1>1, <1>2, PromisesGoOn

\* A call that returns keeps every promise if its outcome is one that holds.
LEMMA PromisesEnd ==
  ASSUME IInv, IInv', PInv, NEW t \in Threads, Goto(t, Idle),
         \A s \in Sources \ call[t].srcs : acked'[s] = acked[s],
         \A c \in Chunks \ ChunksOf(call[t].srcs) : Kept(c),
         \A c \in ChunksOf(call[t].srcs) : Promised(c)'
  PROVE  PInv'
  <1>1. call'[t] = Idle /\ \A u \in Threads \ {t} : call'[u] = call[u]
    BY DEF Goto, IInv, TypeOK
  <1>2. OnTrack(t)'
    BY <1>1 DEF OnTrack, Planned, Idle, ChunksOf
  <1> QED BY <1>1, <1>2, PromisesOfOne

\* A call that fails settles nothing.
LEMMA PromisesFail ==
  ASSUME IInv, IInv', PInv, NEW t \in Threads, Goto(t, Idle), acked' = acked,
         \A c \in Chunks \ ChunksOf(call[t].srcs) : Kept(c),
         \A c \in ChunksOf(call[t].srcs) : SourceOf[c] \in removed' => Gone(c)'
  PROVE  PInv'
  <1>1. \A c \in ChunksOf(call[t].srcs) : acked[SourceOf[c]] = "unsettled"
    BY DEF IInv, Owned, ChunksOf
  <1>2. \A c \in ChunksOf(call[t].srcs) : Promised(c)'
    BY <1>1 DEF Promised
  <1> QED BY <1>2, PromisesEnd

\* A call that begins unsettles its sources.
LEMMA PromisesBegin ==
  ASSUME IInv, IInv', PInv, NEW t \in Threads, NEW op, NEW S, NEW first,
         Begin(t, op, S, first), first.srcs = S,
         UNCHANGED <<rows, postings, csm, vectors, removed>>, OnTrack(t)'
  PROVE  PInv'
  <1>1. call'[t] = first /\ \A u \in Threads \ {t} : call'[u] = call[u]
    BY DEF Begin, Goto, IInv, TypeOK
  <1>2. \A s \in Sources : acked'[s] = IF s \in S THEN "unsettled" ELSE acked[s]
    BY DEF Begin
  <1>3. \A c \in Chunks : Kept(c)
    BY DEF Kept
  <1>4. \A c \in Chunks : SourceOf[c] \in Sources
    BY CorpusAssumption
  <1>5. \A c \in Chunks : Promised(c)'
    BY <1>2, <1>4 DEF PInv, Promised, Recalled, Gone
  <1>6. \A c \in ChunksOf(call[t].srcs) : Promised(c)'
    BY <1>5 DEF ChunksOf
  <1> QED BY <1>1, <1>2, <1>3, <1>6, PromisesOfOne

\* The calls ingest makes keep every promise: it clears the tombstone before it
\* indexes, and maps and embeds every chunk before it returns.
LEMMA IngestStepPromises ==
  ASSUME NoSnapshots, IInv, IInv', PInv, NEW t \in Threads, IngestStep(t)
  PROVE  PInv'
  <1>c. /\ call[t] \in Calls /\ call \in [Threads -> Calls]
        /\ InScope(t) /\ Cleared(t) /\ OnTrack(t)
    BY DEF IInv, PInv, TypeOK
  <1>n. \A r : Goto(t, r) => call'[t] = r
    BY <1>c DEF Goto
  <1>1. ASSUME NEW s \in Sources, BeginIngest(t, s) PROVE PInv'
    <2> DEFINE r == [Idle EXCEPT !.op = "ingest", !.step = "clear", !.srcs = {s},
                                 !.chunks = ChunksOf({s}), !.slots = Models]
    <2>1. /\ r.op = "ingest" /\ r.step = "clear" /\ r.srcs = {s}
          /\ r.chunks = ChunksOf({s}) /\ r.cur = {} /\ r.todo = {}
          /\ r.slots = Models /\ r.fold = {}
      BY DEF Idle
    <2>2. Begin(t, "ingest", {s}, r) /\ UNCHANGED <<rows, postings, csm, vectors, removed>>
      BY <1>1 DEF BeginIngest, durables, memory
    <2> HIDE DEF r
    <2>3. call'[t] = r
      BY <1>n, <2>2 DEF Begin
    <2>4. OnTrack(t)'
      BY <2>1, <2>2, <2>3 DEF OnTrack, Planned, Reached, AfterNote, AfterIndex, ChunksOf
    <2> QED BY <2>1, <2>2, <2>4, PromisesBegin
  <1>2. CASE ClearRemoved(t)
    <2> DEFINE r == [call[t] EXCEPT !.step = "insert"]
    <2>1. /\ r.op = "ingest" /\ r.step = "insert" /\ r.srcs = call[t].srcs
          /\ r.chunks = call[t].chunks /\ r.slots = call[t].slots /\ r.fold = call[t].fold
      BY <1>2, <1>c DEF ClearRemoved, At, Calls
    <2>2. /\ Goto(t, r) /\ acked' = acked /\ UNCHANGED <<rows, postings, csm, vectors>>
          /\ removed' = removed \ call[t].srcs
      BY <1>2 DEF ClearRemoved, memory
    <2> HIDE DEF r
    <2>3. call'[t] = r
      BY <1>n, <2>2
    <2>4. OnTrack(t)'
      BY <1>2, <1>c, <2>1, <2>2, <2>3
      DEF ClearRemoved, At, OnTrack, Planned, Reached, AfterNote, AfterIndex, ChunksOf
    <2>5. \A c \in Chunks \ ChunksOf(call[t].srcs) : Kept(c)
      BY <2>2 DEF Kept, ChunksOf
    <2>6. \A c \in ChunksOf(call[t].srcs) : SourceOf[c] \notin removed'
      BY <2>2 DEF ChunksOf
    <2> QED BY <2>1, <2>2, <2>4, <2>5, <2>6, PromisesGoOn
  <1>3. CASE Insert(t)
    <2> DEFINE r == [call[t] EXCEPT !.step = "index", !.cur = NewIn(call[t].chunks)]
    <2>1. /\ r.op = "ingest" /\ r.step = "index" /\ r.srcs = call[t].srcs
          /\ r.chunks = call[t].chunks /\ r.slots = call[t].slots /\ r.fold = call[t].fold
      BY <1>3, <1>c DEF Insert, At, Calls
    <2>2. Goto(t, r) /\ acked' = acked /\ UNCHANGED <<postings, csm, vectors, removed>>
      BY <1>3 DEF Insert, memory
    <2> HIDE DEF r
    <2>3. call'[t] = r
      BY <1>n, <2>2
    <2>4. call[t].chunks = ChunksOf(call[t].srcs)
      BY <1>3, <1>c DEF Insert, At, InScope
    <2>5. \A c \in Chunks \ call[t].chunks : rows'[c] = rows[c]
      BY <1>3 DEF Insert, Inserted
    <2>6. OnTrack(t)'
      BY <1>3, <1>c, <2>1, <2>2, <2>3, <2>4
      DEF Insert, At, OnTrack, Planned, Reached, AfterNote, AfterIndex
    <2>7. \A c \in Chunks \ ChunksOf(call[t].srcs) : Kept(c)
      BY <2>2, <2>4, <2>5 DEF Kept
    <2>8. \A c \in ChunksOf(call[t].srcs) : SourceOf[c] \notin removed'
      BY <1>3, <1>c, <2>2 DEF Insert, At, OnTrack, Reached
    <2> QED BY <2>1, <2>2, <2>6, <2>7, <2>8, PromisesGoOn
  <1>4. ASSUME NEW c \in Chunks, IndexChunk(t, c) PROVE PInv'
    <2> DEFINE r == [call[t] EXCEPT !.chunks = @ \ {c},
                       !.step = IF call[t].chunks = {c} THEN "note" ELSE "index"]
    <2>1. /\ r.op = "ingest" /\ r.step = (IF call[t].chunks = {c} THEN "note" ELSE "index")
          /\ r.srcs = call[t].srcs /\ r.chunks = call[t].chunks \ {c}
          /\ r.slots = call[t].slots /\ r.fold = call[t].fold
      BY <1>4, <1>c DEF IndexChunk, At, Calls
    <2>2. /\ Goto(t, r) /\ acked' = acked /\ UNCHANGED <<rows, csm, vectors, removed>>
          /\ postings' = postings \cup {c}
      BY <1>4 DEF IndexChunk, memory
    <2> HIDE DEF r
    <2>3. call'[t] = r
      BY <1>n, <2>2
    <2>4. c \in ChunksOf(call[t].srcs)
      BY <1>4, <1>c DEF IndexChunk, InScope
    <2>5. \A d \in ChunksOf(call[t].srcs) :
            /\ SourceOf[d] \notin removed
            /\ d \in postings' \/ (d \in r.chunks /\ r.step = "index")
      BY <1>4, <1>c, <2>1, <2>2 DEF IndexChunk, At, OnTrack, Reached
    <2>6. Planned(t)'
      BY <1>4, <1>c, <2>1, <2>3 DEF IndexChunk, At, OnTrack, Planned
    <2>7. OnTrack(t)'
      BY <2>1, <2>2, <2>3, <2>5, <2>6 DEF OnTrack, Reached, AfterNote, AfterIndex
    <2>8. \A d \in Chunks \ ChunksOf(call[t].srcs) : Kept(d)
      BY <2>2, <2>4 DEF Kept
    <2> QED BY <2>1, <2>2, <2>5, <2>7, <2>8, PromisesGoOn
  <1>5. CASE NoteChunks(t)
    <2> DEFINE r == [call[t] EXCEPT !.step = "slots", !.cur = {}]
    <2>1. /\ r.op = "ingest" /\ r.step = "slots" /\ r.srcs = call[t].srcs
          /\ r.slots = call[t].slots /\ r.fold = call[t].fold
      BY <1>5, <1>c DEF NoteChunks, At, Calls
    <2>2. /\ Goto(t, r) /\ acked' = acked /\ UNCHANGED <<rows, postings, vectors, removed>>
          /\ csm' = csm \cup ChunksOf(call[t].srcs)
      BY <1>5 DEF NoteChunks, durables
    <2> HIDE DEF r
    <2>3. call'[t] = r
      BY <1>n, <2>2
    <2>4. OnTrack(t)'
      BY <1>5, <1>c, <2>1, <2>2, <2>3
      DEF NoteChunks, At, OnTrack, Planned, Reached, AfterNote, AfterIndex
    <2>5. \A c \in Chunks \ ChunksOf(call[t].srcs) : Kept(c)
      BY <2>2 DEF Kept
    <2>6. \A c \in ChunksOf(call[t].srcs) : SourceOf[c] \notin removed'
      BY <1>5, <1>c, <2>2 DEF NoteChunks, At, OnTrack, Reached, AfterIndex
    <2> QED BY <2>1, <2>2, <2>4, <2>5, <2>6, PromisesGoOn
  <1>6. ASSUME NEW m \in Models, LookAtSlot(t, m) PROVE PInv'
    <2> DEFINE r == [call[t] EXCEPT !.slots = @ \ {m}, !.fold = @ \cup {m}]
    <2>0. m \notin Untrained
      BY <1>6, <1>c DEF LookAtSlot, At, InScope, Untrained
    <2>1. /\ r.op = "ingest" /\ r.step = "slots" /\ r.srcs = call[t].srcs
          /\ r.slots = call[t].slots \ {m} /\ r.fold = call[t].fold \cup {m}
      BY <1>6, <1>c DEF LookAtSlot, At, Calls
    <2>2. Goto(t, r) /\ acked' = acked /\ UNCHANGED <<rows, postings, csm, vectors, removed>>
      BY <1>6, <2>0 DEF LookAtSlot, durables, memory
    <2> HIDE DEF r
    <2>3. call'[t] = r
      BY <1>n, <2>2
    <2>4. OnTrack(t)'
      BY <1>6, <1>c, <2>1, <2>2, <2>3
      DEF LookAtSlot, At, OnTrack, Planned, Reached, AfterNote, AfterIndex
    <2> QED BY <2>1, <2>2, <2>4, PromisesRest
  <1>7. CASE SlotsDone(t)
    <2> DEFINE r == [call[t] EXCEPT !.step = IF call[t].fold = {} THEN "persist" ELSE "embed"]
    <2>1. /\ r.op = "ingest" /\ r.step = (IF call[t].fold = {} THEN "persist" ELSE "embed")
          /\ r.srcs = call[t].srcs /\ r.fold = call[t].fold
      BY <1>7, <1>c DEF SlotsDone, At, Calls
    <2>2. Goto(t, r) /\ acked' = acked /\ UNCHANGED <<rows, postings, csm, vectors, removed>>
      BY <1>7 DEF SlotsDone, durables, memory
    <2> HIDE DEF r
    <2>3. call'[t] = r
      BY <1>n, <2>2
    <2>4. call[t].fold = Models
      BY <1>7, <1>c DEF SlotsDone, At, OnTrack, Planned
    <2>5. OnTrack(t)'
      BY <1>7, <1>c, <2>1, <2>2, <2>3, <2>4
      DEF SlotsDone, At, OnTrack, Planned, Reached, AfterNote, AfterIndex
    <2> QED BY <2>1, <2>2, <2>5, PromisesRest
  <1> QED BY <1>1, <1>2, <1>3, <1>4, <1>5, <1>6, <1>7 DEF IngestStep

\* Training and folding in keep every promise: the payloads of all slots are
\* added for every chunk before the call persists the counts and returns.
LEMMA EmbedStepPromises ==
  ASSUME NoSnapshots, IInv, IInv', PInv, NEW t \in Threads, EmbedStep(t)
  PROVE  PInv'
  <1>c. /\ call[t] \in Calls /\ call \in [Threads -> Calls]
        /\ InScope(t) /\ Cleared(t) /\ OnTrack(t)
    BY DEF IInv, PInv, TypeOK
  <1>n. \A r : Goto(t, r) => call'[t] = r
    BY <1>c DEF Goto
  <1>o. /\ call[t].step \in {"tombstones", "load", "train", "fit", "upsert"}
             => call[t].op = "batch"
        /\ call[t].step \in {"embed", "add", "persist"} => call[t].op \in {"ingest", "batch"}
        /\ call[t].step \notin {"reembed", "replace"}
        /\ call[t].op # "reindex"
    BY <1>c, StepGivesOp
  <1>1. ASSUME NEW m \in Models, ChooseSlot(t, m) PROVE PInv'
    <2> DEFINE r == [call[t] EXCEPT !.train = @ \ {m},
                       !.slot = IF Already(t, m) THEN {} ELSE {m},
                       !.step = IF ~Already(t, m) THEN "fit"
                                ELSE IF call[t].train = {m} THEN AfterTrain(t) ELSE "train"]
    <2>1. /\ r.op = "batch" /\ r.step \in {"fit", "train", "embed"}
          /\ r.srcs = call[t].srcs /\ r.fold = call[t].fold
      BY <1>1, <1>c, <1>o DEF ChooseSlot, At, Calls, AfterTrain
    <2>2. Goto(t, r) /\ acked' = acked /\ UNCHANGED <<rows, postings, csm, vectors, removed>>
      BY <1>1 DEF ChooseSlot, durables, memory, AfterTrain
    <2> HIDE DEF r
    <2>3. call'[t] = r
      BY <1>n, <2>2
    <2>4. OnTrack(t)'
      BY <1>1, <1>c, <1>o, <2>1, <2>2, <2>3
      DEF ChooseSlot, At, OnTrack, Planned, Reached, AfterNote, AfterIndex
    <2> QED BY <2>1, <2>2, <2>4, PromisesRest
  <1>2. ASSUME NEW m \in Models, Train(t, m) PROVE PInv'
    <2>0. PICK g : Goto(t, [call[t] EXCEPT !.step = "upsert",
                              !.gens = [call[t].gens EXCEPT ![m] = g]])
      BY <1>2 DEF Train
    <2> DEFINE r == [call[t] EXCEPT !.step = "upsert",
                       !.gens = [call[t].gens EXCEPT ![m] = g]]
    <2>1. /\ r.op = "batch" /\ r.step = "upsert"
          /\ r.srcs = call[t].srcs /\ r.fold = call[t].fold
      BY <1>2, <1>c, <1>o DEF Train, At, Calls
    <2>2. Goto(t, r) /\ acked' = acked /\ UNCHANGED <<rows, postings, csm, vectors, removed>>
      BY <1>2, <2>0 DEF Train, durables, memory
    <2> HIDE DEF r
    <2>3. call'[t] = r
      BY <1>n, <2>2
    <2>4. OnTrack(t)'
      BY <1>2, <1>c, <1>o, <2>1, <2>2, <2>3
      DEF Train, At, OnTrack, Planned, Reached, AfterNote, AfterIndex
    <2> QED BY <2>1, <2>2, <2>4, PromisesRest
  <1>3. ASSUME NEW m \in Models, UpsertBasis(t, m) PROVE PInv'
    <2> DEFINE r == [call[t] EXCEPT !.slot = {},
                       !.step = IF call[t].train = {} THEN AfterTrain(t) ELSE "train"]
    <2>1. /\ r.op = "batch" /\ r.step \in {"train", "embed"}
          /\ r.srcs = call[t].srcs /\ r.fold = call[t].fold
      BY <1>3, <1>c, <1>o DEF UpsertBasis, At, Calls, AfterTrain
    <2>2. Goto(t, r) /\ acked' = acked /\ UNCHANGED <<rows, postings, csm, vectors, removed>>
      BY <1>3 DEF UpsertBasis, durables, memory, AfterTrain
    <2> HIDE DEF r
    <2>3. call'[t] = r
      BY <1>n, <2>2
    <2>4. OnTrack(t)'
      BY <1>3, <1>c, <1>o, <2>1, <2>2, <2>3
      DEF UpsertBasis, At, OnTrack, Planned, Reached, AfterNote, AfterIndex
    <2> QED BY <2>1, <2>2, <2>4, PromisesRest
  <1>4. ASSUME NEW m \in Models, Reembed(t, m) \/ ReplaceVectors(t, m) PROVE PInv'
    BY <1>4, <1>o DEF Reembed, ReplaceVectors
  <1>5. CASE Embed(t)
    <2> DEFINE r == [call[t] EXCEPT !.step = "add", !.cur = ChunksOf(call[t].srcs),
                       !.gens = [m \in Models |-> IF m \in call[t].fold THEN handle[m] ELSE 0]]
    <2>1. /\ r.op = call[t].op /\ r.step = "add"
          /\ r.srcs = call[t].srcs /\ r.fold = call[t].fold /\ r.cur = ChunksOf(call[t].srcs)
      BY <1>5, <1>c, <1>o DEF Embed, At, Calls
    <2>2. Goto(t, r) /\ acked' = acked /\ UNCHANGED <<rows, postings, csm, vectors, removed>>
      BY <1>5 DEF Embed, durables, memory
    <2> HIDE DEF r
    <2>3. call'[t] = r
      BY <1>n, <2>2
    <2>4. OnTrack(t)'
      BY <1>5, <1>c, <1>o, <2>1, <2>2, <2>3
      DEF Embed, At, OnTrack, Planned, Reached, AfterNote, AfterIndex
    <2> QED BY <2>1, <2>2, <2>4, PromisesRest
  <1>6. ASSUME NEW C \in NonEmpty(Chunks), AddPayloads(t, C) PROVE PInv'
    <2> DEFINE r == [call[t] EXCEPT !.cur = @ \ C,
                       !.step = IF call[t].cur = C THEN "persist" ELSE "add"]
    <2>1. /\ r.op = call[t].op /\ r.step = (IF call[t].cur = C THEN "persist" ELSE "add")
          /\ r.srcs = call[t].srcs /\ r.cur = call[t].cur \ C /\ r.fold = call[t].fold
      BY <1>6, <1>c DEF AddPayloads, Calls
    <2>2. Goto(t, r) /\ acked' = acked /\ UNCHANGED <<rows, postings, csm, removed>>
      BY <1>6 DEF AddPayloads, memory
    <2> HIDE DEF r
    <2>3. call'[t] = r
      BY <1>n, <2>2
    <2>4. C \subseteq ChunksOf(call[t].srcs) /\ call[t].fold = Models /\ call[t].step = "add"
      BY <1>6, <1>c DEF AddPayloads, InScope, OnTrack, Planned
    <2>5. \A m \in Models : \A d \in Chunks :
            IF d \in C THEN vectors'[m][d].from = "text" ELSE vectors'[m][d] = vectors[m][d]
      BY <1>6, <2>4 DEF AddPayloads, WithPayloads
    <2>6. \A d \in ChunksOf(call[t].srcs) :
            \/ \A m \in Models : vectors'[m][d].from # "none"
            \/ d \in r.cur /\ r.step = "add"
      <3>1. ASSUME NEW d \in ChunksOf(call[t].srcs), d \notin r.cur, NEW m \in Models
            PROVE  vectors'[m][d].from # "none"
        BY <1>c, <2>1, <2>4, <2>5, <3>1 DEF OnTrack, Reached, ChunksOf
      <3> QED BY <2>1, <3>1
    <2>7. Planned(t)'
      BY <1>c, <2>1, <2>3, <2>4 DEF OnTrack, Planned
    <2>8. OnTrack(t)'
      <3>1. ASSUME NEW d \in ChunksOf(call[t].srcs) PROVE Reached(t, d)'
        <4>1. Reached(t, d)
          BY <1>c DEF OnTrack
        <4> QED BY <1>o, <2>1, <2>2, <2>3, <2>4, <2>6, <4>1 DEF Reached, AfterNote, AfterIndex
      <3> QED BY <2>1, <2>3, <2>7, <3>1 DEF OnTrack
    <2>9. \A d \in Chunks \ ChunksOf(call[t].srcs) : Kept(d)
      BY <2>2, <2>4, <2>5 DEF Kept
    <2>10. \A d \in ChunksOf(call[t].srcs) : SourceOf[d] \notin removed'
      BY <1>c, <2>2, <2>4 DEF OnTrack, Reached, AfterNote, AfterIndex
    <2> QED BY <2>1, <2>2, <2>8, <2>9, <2>10, PromisesGoOn
  <1>7. CASE Persist(t)
    <2>1. Finish(t, "ingested") /\ UNCHANGED <<rows, postings, csm, vectors, removed>>
      BY <1>7, <1>o DEF Persist, memory
    <2>2. /\ Goto(t, Idle)
          /\ \A s \in Sources : acked'[s] = IF s \in call[t].srcs THEN "ingested" ELSE acked[s]
      BY <2>1 DEF Finish
    <2>3. \A c \in Chunks : Kept(c)
      BY <2>1 DEF Kept
    <2>4. ASSUME NEW c \in ChunksOf(call[t].srcs) PROVE Promised(c)'
      <3>1. SourceOf[c] \in call[t].srcs /\ SourceOf[c] \in Sources /\ Reached(t, c)
        BY <1>c, CorpusAssumption DEF ChunksOf, OnTrack
      <3>2. acked'[SourceOf[c]] = "ingested"
        BY <2>2, <3>1
      <3>3. Recalled(c) /\ SourceOf[c] \notin removed
        BY <1>7, <3>1 DEF Persist, Reached, Recalled, AfterNote, AfterIndex
      <3> QED BY <2>1, <3>2, <3>3 DEF Promised, Recalled
    <2> QED BY <2>2, <2>3, <2>4, PromisesEnd
  <1>8. CASE ReadTombstones(t)
    <2> DEFINE r == [call[t] EXCEPT !.gone = removed, !.step = "load"]
    <2>1. /\ r.op = "batch" /\ r.step = "load"
          /\ r.srcs = call[t].srcs /\ r.fold = call[t].fold
      BY <1>8, <1>c, <1>o DEF ReadTombstones, Calls
    <2>2. Goto(t, r) /\ acked' = acked /\ UNCHANGED <<rows, postings, csm, vectors, removed>>
      BY <1>8 DEF ReadTombstones, durables, memory
    <2> HIDE DEF r
    <2>3. call'[t] = r
      BY <1>n, <2>2
    <2>4. OnTrack(t)'
      BY <1>8, <1>c, <1>o, <2>1, <2>2, <2>3
      DEF ReadTombstones, OnTrack, Planned, Reached, AfterNote, AfterIndex
    <2> QED BY <2>1, <2>2, <2>4, PromisesRest
  <1>9. CASE LoadActive(t)
    <2> DEFINE r == [call[t] EXCEPT !.snap = Without(call[t].gone), !.loaded = TRUE,
                                    !.step = AfterLoad(t)]
    <2>1. /\ r.op = "batch" /\ r.step \in {"train", "embed"}
          /\ r.srcs = call[t].srcs /\ r.fold = call[t].fold
      BY <1>9, <1>c, <1>o DEF LoadActive, AfterLoad, AfterTrain, Calls
    <2>2. Goto(t, r) /\ acked' = acked /\ UNCHANGED <<rows, postings, csm, vectors, removed>>
      BY <1>9 DEF LoadActive, durables, memory
    <2> HIDE DEF r
    <2>3. call'[t] = r
      BY <1>n, <2>2
    <2>4. OnTrack(t)'
      BY <1>9, <1>c, <1>o, <2>1, <2>2, <2>3
      DEF LoadActive, OnTrack, Planned, Reached, AfterNote, AfterIndex
    <2> QED BY <2>1, <2>2, <2>4, PromisesRest
  <1> QED BY <1>1, <1>2, <1>3, <1>4, <1>5, <1>6, <1>7, <1>8, <1>9 DEF EmbedStep

\* Batches and imports keep every promise: a window clears the tombstones, maps
\* and stores, and only when every source has been through one is any indexed.
LEMMA BatchStepPromises ==
  ASSUME NoSnapshots, IInv, IInv', PInv, NEW t \in Threads, BatchStep(t)
  PROVE  PInv'
  <1>c. /\ call[t] \in Calls /\ call \in [Threads -> Calls]
        /\ InScope(t) /\ Cleared(t) /\ OnTrack(t)
    BY DEF IInv, PInv, TypeOK
  <1>n. \A r : Goto(t, r) => call'[t] = r
    BY <1>c DEF Goto
  <1>1. ASSUME NEW S \in NonEmpty(Sources), BeginBatch(t, S) PROVE PInv'
    <2> DEFINE r == [Idle EXCEPT !.op = "batch", !.step = "window", !.srcs = S, !.todo = S,
                                 !.chunks = ChunksOf(S), !.fold = Models]
    <2>1. /\ r.op = "batch" /\ r.step = "window" /\ r.srcs = S
          /\ r.chunks = ChunksOf(S) /\ r.cur = {} /\ r.todo = S
          /\ r.slots = {} /\ r.fold = Models
      BY DEF Idle
    <2>2. Begin(t, "batch", S, r) /\ UNCHANGED <<rows, postings, csm, vectors, removed>>
      BY <1>1 DEF BeginBatch, durables, memory
    <2> HIDE DEF r
    <2>3. call'[t] = r
      BY <1>n, <2>2 DEF Begin
    <2>4. OnTrack(t)'
      BY <2>1, <2>2, <2>3 DEF OnTrack, Planned, Reached, AfterNote, AfterIndex, ChunksOf
    <2> QED BY <2>1, <2>2, <2>4, PromisesBegin
  <1>2. ASSUME NEW S \in NonEmpty(Sources), BeginImport(t, S) PROVE PInv'
    <2> DEFINE r == [Idle EXCEPT !.op = "import", !.step = "shard", !.srcs = S, !.todo = S,
                                 !.chunks = ChunksOf(S)]
    <2>1. /\ r.op = "import" /\ r.step = "shard" /\ r.srcs = S
          /\ r.chunks = ChunksOf(S) /\ r.cur = {} /\ r.todo = S
          /\ r.slots = {} /\ r.fold = {}
      BY DEF Idle
    <2>2. Begin(t, "import", S, r) /\ UNCHANGED <<rows, postings, csm, vectors, removed>>
      BY <1>2 DEF BeginImport, durables, memory
    <2> HIDE DEF r
    <2>3. call'[t] = r
      BY <1>n, <2>2 DEF Begin
    <2>4. OnTrack(t)'
      BY <2>1, <2>2, <2>3 DEF OnTrack, Planned, Reached, AfterNote, AfterIndex, ChunksOf
    <2> QED BY <2>1, <2>2, <2>4, PromisesBegin
  <1>3. ASSUME NEW S \in NonEmpty(Sources), Window(t, S) PROVE PInv'
    <2> DEFINE r == [call[t] EXCEPT !.todo = @ \ S,
                       !.step = IF call[t].todo = S THEN "index" ELSE "window"]
    <2>0. /\ call[t].op \in {"batch", "import"} /\ call[t].step = "window"
          /\ S \subseteq call[t].todo /\ S \subseteq call[t].srcs
          /\ call[t].chunks = ChunksOf(call[t].srcs)
      BY <1>3, <1>c, StepGivesOp DEF Window, InScope, OnTrack, Planned
    <2>1. /\ r.op = call[t].op /\ r.step = (IF call[t].todo = S THEN "index" ELSE "window")
          /\ r.srcs = call[t].srcs /\ r.chunks = call[t].chunks
          /\ r.todo = call[t].todo \ S /\ r.fold = call[t].fold
      BY <1>3, <1>c DEF Window, Calls
    <2>2. /\ Goto(t, r) /\ acked' = acked /\ UNCHANGED <<postings, vectors>>
          /\ removed' = removed \ S /\ csm' = csm \cup ChunksOf(S)
      BY <1>3 DEF Window
    <2>3. \A c \in Chunks \ ChunksOf(S) : rows'[c] = rows[c]
      BY <1>3 DEF Window, Inserted
    <2> HIDE DEF r
    <2>4. call'[t] = r
      BY <1>n, <2>2
    <2>5. Planned(t)'
      BY <1>c, <2>0, <2>1, <2>4 DEF OnTrack, Planned
    <2>6. ASSUME NEW c \in ChunksOf(call[t].srcs)
          PROVE  /\ SourceOf[c] \in r.todo \/ SourceOf[c] \notin removed'
                 /\ r.op = "batch" => SourceOf[c] \in r.todo \/ c \in csm'
      <3>1. Reached(t, c) /\ c \in Chunks
        BY <1>c DEF OnTrack, ChunksOf
      <3> QED BY <2>0, <2>1, <2>2, <3>1 DEF Reached, ChunksOf
    <2>7. r.step = "index" => r.todo = {}
      BY <2>1
    <2>8. \A c \in ChunksOf(call[t].srcs) : Reached(t, c)'
      BY <2>0, <2>1, <2>4, <2>6, <2>7 DEF Reached, AfterNote, AfterIndex
    <2>9. OnTrack(t)'
      BY <2>1, <2>4, <2>5, <2>8 DEF OnTrack
    <2>10. \A c \in Chunks \ ChunksOf(call[t].srcs) : Kept(c)
      BY <2>0, <2>2, <2>3 DEF Kept, ChunksOf
    <2>11. \A c \in ChunksOf(call[t].srcs) : SourceOf[c] \in removed' => Gone(c)'
      BY <2>2 DEF PInv, Promised, Gone, ChunksOf
    <2> QED BY <2>1, <2>2, <2>9, <2>10, <2>11, PromisesGoOn
  <1>4. ASSUME NEW C \in NonEmpty(Chunks), IndexBatch(t, C) PROVE PInv'
    <2> DEFINE r == [call[t] EXCEPT !.chunks = @ \ C,
                       !.step = IF call[t].chunks = C THEN "boot" ELSE "index"]
    <2>1. /\ r.op = "batch" /\ r.step = (IF call[t].chunks = C THEN "boot" ELSE "index")
          /\ r.srcs = call[t].srcs /\ r.chunks = call[t].chunks \ C /\ r.fold = call[t].fold
      BY <1>4, <1>c DEF IndexBatch, At, Calls
    <2>2. /\ Goto(t, r) /\ acked' = acked /\ UNCHANGED <<rows, csm, vectors, removed>>
          /\ postings' = postings \cup C
      BY <1>4 DEF IndexBatch, memory
    <2> HIDE DEF r
    <2>3. call'[t] = r
      BY <1>n, <2>2
    <2>4. C \subseteq ChunksOf(call[t].srcs) /\ call[t].op = "batch" /\ call[t].step = "index"
      BY <1>4, <1>c DEF IndexBatch, At, InScope
    <2>5. \A d \in ChunksOf(call[t].srcs) :
            /\ SourceOf[d] \notin removed /\ d \in csm
            /\ d \in postings' \/ (d \in r.chunks /\ r.step = "index")
      BY <1>c, <2>1, <2>2, <2>4 DEF OnTrack, Reached
    <2>6. Planned(t)'
      BY <1>c, <2>1, <2>3, <2>4 DEF OnTrack, Planned
    <2>7. OnTrack(t)'
      BY <2>1, <2>2, <2>3, <2>5, <2>6 DEF OnTrack, Reached, AfterNote, AfterIndex
    <2>8. \A d \in Chunks \ ChunksOf(call[t].srcs) : Kept(d)
      BY <2>2, <2>4 DEF Kept
    <2> QED BY <2>1, <2>2, <2>5, <2>7, <2>8, PromisesGoOn
  <1>5. ASSUME NEW C \in NonEmpty(Chunks), MergeShard(t, C), C # call[t].chunks PROVE PInv'
    <2> DEFINE r == [call[t] EXCEPT !.chunks = @ \ C]
    <2>1. /\ r.op = "import" /\ r.step = "index" /\ r.srcs = call[t].srcs
          /\ r.chunks = call[t].chunks \ C
      BY <1>5, <1>c DEF MergeShard, At, Calls
    <2>2. /\ Goto(t, r) /\ acked' = acked /\ UNCHANGED <<rows, csm, vectors, removed>>
          /\ postings' = postings \cup C
      BY <1>5 DEF MergeShard, memory
    <2> HIDE DEF r
    <2>3. call'[t] = r
      BY <1>n, <2>2
    <2>4. C \subseteq ChunksOf(call[t].srcs) /\ call[t].op = "import" /\ call[t].step = "index"
      BY <1>5, <1>c DEF MergeShard, At, InScope
    <2>5. \A d \in ChunksOf(call[t].srcs) :
            SourceOf[d] \notin removed /\ (d \in postings' \/ d \in r.chunks)
      BY <1>c, <2>1, <2>2, <2>4 DEF OnTrack, Reached
    <2>6. OnTrack(t)'
      BY <2>1, <2>2, <2>3, <2>5 DEF OnTrack, Planned, Reached, AfterNote, AfterIndex
    <2>7. \A d \in Chunks \ ChunksOf(call[t].srcs) : Kept(d)
      BY <2>2, <2>4 DEF Kept
    <2> QED BY <2>1, <2>2, <2>5, <2>6, <2>7, PromisesGoOn
  <1>6. ASSUME NEW C \in NonEmpty(Chunks), MergeShard(t, C), C = call[t].chunks PROVE PInv'
    <2>1. /\ Finish(t, "imported") /\ UNCHANGED <<rows, csm, vectors, removed>>
          /\ postings' = postings \cup C
      BY <1>6 DEF MergeShard, memory
    <2>2. /\ Goto(t, Idle)
          /\ \A s \in Sources : acked'[s] = IF s \in call[t].srcs THEN "imported" ELSE acked[s]
      BY <2>1 DEF Finish
    <2>3. C \subseteq ChunksOf(call[t].srcs) /\ call[t].step = "index"
      BY <1>6, <1>c DEF MergeShard, At, InScope
    <2>4. \A d \in Chunks \ ChunksOf(call[t].srcs) : Kept(d)
      BY <2>1, <2>3 DEF Kept
    <2>5. ASSUME NEW d \in ChunksOf(call[t].srcs) PROVE Promised(d)'
      <3>1. SourceOf[d] \in call[t].srcs /\ SourceOf[d] \in Sources /\ Reached(t, d)
        BY <1>c, CorpusAssumption DEF ChunksOf, OnTrack
      <3>2. acked'[SourceOf[d]] = "imported" /\ SourceOf[d] \notin removed'
        BY <2>1, <2>2, <2>3, <3>1 DEF Reached
      <3> QED BY <3>2 DEF Promised
    <2> QED BY <2>2, <2>4, <2>5, PromisesEnd
  <1>7. CASE WriteShards(t)
    <2> DEFINE r == [call[t] EXCEPT !.step = "window"]
    <2>1. /\ r.op = "import" /\ r.step = "window" /\ r.srcs = call[t].srcs
          /\ r.chunks = call[t].chunks /\ r.todo = call[t].todo
      BY <1>7, <1>c DEF WriteShards, At, Calls
    <2>2. Goto(t, r) /\ acked' = acked /\ UNCHANGED <<rows, postings, csm, vectors, removed>>
      BY <1>7 DEF WriteShards, durables, memory
    <2> HIDE DEF r
    <2>3. call'[t] = r
      BY <1>n, <2>2
    <2>4. call[t].todo = call[t].srcs
      BY <1>7, <1>c DEF WriteShards, At, InScope
    <2>5. OnTrack(t)'
      BY <1>7, <1>c, <2>1, <2>2, <2>3, <2>4
      DEF WriteShards, At, OnTrack, Planned, Reached, AfterNote, AfterIndex, ChunksOf
    <2> QED BY <2>1, <2>2, <2>5, PromisesRest
  <1>8. CASE Bootstrap(t)
    <2>1. PICK r : /\ Goto(t, r) /\ r.op = "batch" /\ r.step \in {"embed", "tombstones"}
                   /\ r.srcs = call[t].srcs /\ r.fold = call[t].fold
      <3>1. LET r == [call[t] EXCEPT !.step = "embed"]
            IN  /\ r.op = "batch" /\ r.step = "embed" /\ r.srcs = call[t].srcs
                /\ r.fold = call[t].fold
        BY <1>8, <1>c DEF Bootstrap, At, Calls
      <3>2. LET r == [call[t] EXCEPT !.step = "tombstones", !.train = Trainable]
            IN  /\ r.op = "batch" /\ r.step = "tombstones" /\ r.srcs = call[t].srcs
                /\ r.fold = call[t].fold
        BY <1>8, <1>c DEF Bootstrap, At, Calls
      <3> QED BY <1>8, <3>1, <3>2 DEF Bootstrap
    <2>2. acked' = acked /\ UNCHANGED <<rows, postings, csm, vectors, removed>>
      BY <1>8 DEF Bootstrap, durables, memory
    <2>3. call'[t] = r
      BY <1>n, <2>1
    <2>4. OnTrack(t)'
      BY <1>8, <1>c, <2>1, <2>2, <2>3
      DEF Bootstrap, At, OnTrack, Planned, Reached, AfterNote, AfterIndex
    <2> QED BY <2>1, <2>2, <2>4, PromisesRest
  <1> QED BY <1>1, <1>2, <1>3, <1>4, <1>5, <1>6, <1>7, <1>8 DEF BatchStep

\* remove and expunge keep every promise: the text is scrubbed first, and the
\* tombstone comes when nothing of the source is left.
LEMMA RemoveStepPromises ==
  ASSUME NoSnapshots, IInv, IInv', PInv, NEW t \in Threads, RemoveStep(t)
  PROVE  PInv'
  <1>c. /\ call[t] \in Calls /\ call \in [Threads -> Calls]
        /\ InScope(t) /\ Cleared(t) /\ OnTrack(t)
    BY DEF IInv, PInv, TypeOK
  <1>n. \A r : Goto(t, r) => call'[t] = r
    BY <1>c DEF Goto
  <1>g. \A c \in Chunks : SourceOf[c] \in removed => Gone(c)
    BY DEF PInv, Promised
  <1>o. call[t].step \in {"unindex", "unvector", "forget", "mark"}
          => call[t].op \in {"remove", "expunge"}
    BY <1>c, StepGivesOp
  <1>1. ASSUME NEW s \in Sources, BeginRemove(t, s) PROVE PInv'
    <2> DEFINE stored == {c \in ChunksOf({s}) : rows[c] # "absent"}
               r == [Idle EXCEPT !.op = "remove", !.srcs = {s}, !.chunks = stored,
                                 !.step = IF stored = {} THEN "forget" ELSE "unindex"]
    <2>1. Begin(t, "remove", {s}, r) /\ UNCHANGED <<rows, postings, csm, vectors, removed>>
      BY <1>1 DEF BeginRemove, durables, memory
    <2> HIDE DEF stored
    <2>2. r.op = "remove" /\ r.srcs = {s} /\ r.step \in {"forget", "unindex"}
      BY DEF Idle
    <2> HIDE DEF r
    <2>3. call'[t] = r
      BY <1>n, <2>1 DEF Begin
    <2>4. OnTrack(t)'
      BY <2>2, <2>3 DEF OnTrack, Planned, Reached, AfterNote, AfterIndex
    <2> QED BY <2>1, <2>2, <2>4, PromisesBegin
  <1>2. ASSUME NEW s \in Sources, BeginExpunge(t, s) PROVE PInv'
    <2> DEFINE r == [Idle EXCEPT !.op = "expunge", !.step = "scrub", !.srcs = {s}]
    <2>1. Begin(t, "expunge", {s}, r) /\ UNCHANGED <<rows, postings, csm, vectors, removed>>
      BY <1>2 DEF BeginExpunge, durables, memory
    <2>2. r.op = "expunge" /\ r.srcs = {s} /\ r.step = "scrub"
      BY DEF Idle
    <2> HIDE DEF r
    <2>3. call'[t] = r
      BY <1>n, <2>1 DEF Begin
    <2>4. OnTrack(t)'
      BY <2>2, <2>3 DEF OnTrack, Planned, Reached, AfterNote, AfterIndex
    <2> QED BY <2>1, <2>2, <2>4, PromisesBegin
  <1>3. CASE ScrubText(t)
    <2> DEFINE stored == {c \in ChunksOf(call[t].srcs) : rows[c] # "absent"}
               r == [call[t] EXCEPT !.chunks = stored,
                                    !.step = IF stored = {} THEN "forget" ELSE "unindex"]
    <2>1. Goto(t, r) /\ acked' = acked /\ UNCHANGED <<postings, csm, vectors, removed>>
      BY <1>3 DEF ScrubText, memory
    <2>2. \A c \in Chunks :
            IF c \in ChunksOf(call[t].srcs) THEN rows'[c] # "text" ELSE rows'[c] = rows[c]
      BY <1>3 DEF ScrubText
    <2> HIDE DEF stored
    <2>3. r.op = "expunge" /\ r.srcs = call[t].srcs /\ r.step \in {"forget", "unindex"}
      BY <1>3, <1>c DEF ScrubText, At, Calls
    <2> HIDE DEF r
    <2>4. call'[t] = r
      BY <1>n, <2>1
    <2>5. OnTrack(t)'
      BY <2>2, <2>3, <2>4 DEF OnTrack, Planned, Reached, AfterNote, AfterIndex, ChunksOf
    <2>6. \A c \in Chunks \ ChunksOf(call[t].srcs) : Kept(c)
      BY <2>1, <2>2 DEF Kept
    <2>7. \A c \in ChunksOf(call[t].srcs) : SourceOf[c] \in removed' => Gone(c)'
      BY <1>g, <2>1 DEF Gone, ChunksOf
    <2> QED BY <2>1, <2>3, <2>5, <2>6, <2>7, PromisesGoOn
  <1>4. ASSUME NEW c \in Chunks, Unindex(t, c) PROVE PInv'
    <2> DEFINE r == [call[t] EXCEPT !.cur = {c}, !.step = "unvector"]
    <2>1. r.op = call[t].op /\ r.step = "unvector" /\ r.srcs = call[t].srcs
      BY <1>4, <1>c DEF Unindex, Calls
    <2>2. /\ Goto(t, r) /\ acked' = acked /\ UNCHANGED <<rows, csm, vectors, removed>>
          /\ postings' = postings \ {c}
      BY <1>4 DEF Unindex, memory
    <2> HIDE DEF r
    <2>3. call'[t] = r
      BY <1>n, <2>2
    <2>4. OnTrack(t)'
      BY <1>4, <1>c, <1>o, <2>1, <2>2, <2>3
      DEF Unindex, OnTrack, Planned, Reached, AfterNote, AfterIndex
    <2>5. \A d \in Chunks \ ChunksOf(call[t].srcs) : Kept(d)
      BY <1>4, <1>c, <2>2 DEF Unindex, InScope, Kept
    <2>6. \A d \in ChunksOf(call[t].srcs) : SourceOf[d] \in removed' => Gone(d)'
      BY <1>g, <2>2 DEF Gone, ChunksOf
    <2> QED BY <2>1, <2>2, <2>4, <2>5, <2>6, PromisesGoOn
  <1>5. ASSUME NEW c \in Chunks, Unvector(t, c) PROVE PInv'
    <2> DEFINE r == [call[t] EXCEPT !.cur = {}, !.chunks = @ \ {c},
                       !.step = IF call[t].chunks = {c} THEN "forget" ELSE "unindex"]
    <2>1. r.op = call[t].op /\ r.step \in {"forget", "unindex"} /\ r.srcs = call[t].srcs
      BY <1>5, <1>c DEF Unvector, Calls
    <2>2. Goto(t, r) /\ acked' = acked /\ UNCHANGED <<rows, postings, csm, removed>>
      BY <1>5 DEF Unvector, memory
    <2> HIDE DEF r
    <2>3. call'[t] = r
      BY <1>n, <2>2
    <2>4. \A m \in Models : \A d \in Chunks :
            IF d = c THEN vectors'[m][d].from = "none" ELSE vectors'[m][d] = vectors[m][d]
      BY <1>5 DEF Unvector, WithoutVectors, NoVector, IInv, TypeOK
    <2>5. OnTrack(t)'
      BY <1>5, <1>c, <1>o, <2>1, <2>2, <2>3
      DEF Unvector, OnTrack, Planned, Reached, AfterNote, AfterIndex
    <2>6. \A d \in Chunks \ ChunksOf(call[t].srcs) : Kept(d)
      BY <1>5, <1>c, <2>2, <2>4 DEF Unvector, InScope, Kept
    <2>7. \A d \in ChunksOf(call[t].srcs) : SourceOf[d] \in removed' => Gone(d)'
      BY <1>g, <2>2, <2>4 DEF Gone, ChunksOf
    <2> QED BY <2>1, <2>2, <2>5, <2>6, <2>7, PromisesGoOn
  <1>6. CASE Forget(t)
    <2> DEFINE r == [call[t] EXCEPT !.step = "mark"]
    <2>1. r.op = call[t].op /\ r.step = "mark" /\ r.srcs = call[t].srcs
      BY <1>6, <1>c DEF Forget, Calls
    <2>2. /\ Goto(t, r) /\ acked' = acked /\ UNCHANGED <<rows, postings, vectors, removed>>
          /\ csm' = csm \ ChunksOf(call[t].srcs)
      BY <1>6 DEF Forget, durables
    <2> HIDE DEF r
    <2>3. call'[t] = r
      BY <1>n, <2>2
    <2>4. OnTrack(t)'
      BY <1>6, <1>c, <1>o, <2>1, <2>2, <2>3
      DEF Forget, OnTrack, Planned, Reached, AfterNote, AfterIndex
    <2>5. \A d \in Chunks \ ChunksOf(call[t].srcs) : Kept(d)
      BY <2>2 DEF Kept
    <2>6. \A d \in ChunksOf(call[t].srcs) : SourceOf[d] \in removed' => Gone(d)'
      BY <1>g, <2>2 DEF Gone, ChunksOf
    <2> QED BY <2>1, <2>2, <2>4, <2>5, <2>6, PromisesGoOn
  <1>7. CASE MarkRemoved(t)
    <2>1. /\ UNCHANGED <<rows, postings, csm, vectors>>
          /\ removed' = removed \cup call[t].srcs
      BY <1>7 DEF MarkRemoved, memory
    <2>2. /\ Goto(t, Idle)
          /\ \A s \in Sources :
               acked'[s] = IF s \notin call[t].srcs THEN acked[s]
                           ELSE IF call[t].op = "expunge" THEN "expunged" ELSE "removed"
      BY <1>7 DEF MarkRemoved, Finish
    <2>3. \A c \in Chunks \ ChunksOf(call[t].srcs) : Kept(c)
      BY <2>1 DEF Kept, ChunksOf
    <2>4. ASSUME NEW c \in ChunksOf(call[t].srcs) PROVE Promised(c)'
      <3>1. SourceOf[c] \in call[t].srcs /\ SourceOf[c] \in Sources /\ Reached(t, c)
        BY <1>c, CorpusAssumption DEF ChunksOf, OnTrack
      <3>2. Gone(c)
        BY <1>7, <1>c DEF MarkRemoved, Cleared
      <3>3. call[t].op = "expunge" => rows[c] # "text"
        BY <1>7, <3>1 DEF MarkRemoved, Reached
      <3> QED BY <2>1, <2>2, <3>1, <3>2, <3>3 DEF Promised, Gone
    <2> QED BY <2>2, <2>3, <2>4, PromisesEnd
  <1> QED BY <1>1, <1>2, <1>3, <1>4, <1>5, <1>6, <1>7 DEF RemoveStep

\* A call that fails, whole or cut short, breaks no promise.
LEMMA FailStepPromises ==
  ASSUME NoSnapshots, IInv, IInv', PInv, NEW t \in Threads, FailStep(t)
  PROVE  PInv'
  <1>c. call[t] \in Calls /\ InScope(t) /\ OnTrack(t)
    BY DEF IInv, PInv, TypeOK
  <1>g. \A c \in ChunksOf(call[t].srcs) : SourceOf[c] \in removed => Gone(c)
    BY DEF PInv, Promised, ChunksOf
  <1>1. CASE CallFails(t)
    <2>1. Goto(t, Idle) /\ acked' = acked /\ UNCHANGED <<rows, postings, csm, vectors, removed>>
      BY <1>1 DEF CallFails, durables, memory
    <2>2. \A d \in Chunks : Kept(d)
      BY <2>1 DEF Kept
    <2> QED BY <1>g, <2>1, <2>2, PromisesFail DEF Gone
  <1>2. ASSUME NEW S \in NonEmpty(Sources), WindowFails(t, S) PROVE PInv'
    <2>1. /\ Goto(t, Idle) /\ acked' = acked /\ UNCHANGED <<rows, postings, vectors, removed>>
          /\ csm' = csm \cup ChunksOf(S)
      BY <1>2 DEF WindowFails, durables
    <2>2. S \subseteq call[t].srcs
      BY <1>2, <1>c DEF WindowFails, InScope
    <2>3. \A d \in Chunks \ ChunksOf(call[t].srcs) : Kept(d)
      BY <2>1, <2>2 DEF Kept, ChunksOf
    <2> QED BY <1>g, <2>1, <2>3, PromisesFail DEF Gone
  <1>3. ASSUME NEW C \in NonEmpty(Chunks), InsertCutShort(t, C) PROVE PInv'
    <2>1. Goto(t, Idle) /\ acked' = acked /\ UNCHANGED <<postings, csm, vectors, removed>>
      BY <1>3 DEF InsertCutShort, memory
    <2>2. C \subseteq ChunksOf(call[t].srcs)
      BY <1>3, <1>c DEF InsertCutShort, InScope
    <2>3. \A d \in Chunks \ C : rows'[d] = rows[d]
      BY <1>3 DEF InsertCutShort, Inserted
    <2>4. \A d \in Chunks \ ChunksOf(call[t].srcs) : Kept(d)
      BY <2>1, <2>2, <2>3 DEF Kept
    <2> QED BY <1>g, <2>1, <2>4, PromisesFail DEF Gone
  <1>4. ASSUME NEW C \in NonEmpty(Chunks), NEW M \in NonEmpty(Models), AddCutShort(t, C, M)
        PROVE  PInv'
    <2>1. Goto(t, Idle) /\ acked' = acked /\ UNCHANGED <<rows, postings, csm, removed>>
      BY <1>4 DEF AddCutShort, memory
    <2>2. C \subseteq ChunksOf(call[t].srcs)
      BY <1>4, <1>c DEF AddCutShort, InScope
    <2>3. \A m \in Models : \A d \in Chunks \ C : vectors'[m][d] = vectors[m][d]
      BY <1>4 DEF AddCutShort, WithPayloads
    <2>4. \A d \in Chunks \ ChunksOf(call[t].srcs) : Kept(d)
      BY <2>1, <2>2, <2>3 DEF Kept
    <2>5. \A d \in ChunksOf(call[t].srcs) : SourceOf[d] \notin removed'
      BY <1>4, <1>c, <2>1 DEF AddCutShort, OnTrack, Reached, AfterNote, AfterIndex
    <2> QED BY <2>1, <2>4, <2>5, PromisesFail
  <1>5. ASSUME NEW c \in Chunks, NEW M \in NonEmpty(Models), UnvectorCutShort(t, c, M)
        PROVE  PInv'
    <2>1. Goto(t, Idle) /\ acked' = acked /\ UNCHANGED <<rows, postings, csm, removed>>
      BY <1>5 DEF UnvectorCutShort, memory
    <2>2. \A m \in Models : \A d \in Chunks :
            \/ vectors'[m][d] = vectors[m][d]
            \/ d = c /\ vectors'[m][d].from = "none"
      BY <1>5 DEF UnvectorCutShort, WithoutVectors, NoVector, IInv, TypeOK
    <2>3. \A d \in Chunks \ ChunksOf(call[t].srcs) : Kept(d)
      BY <1>5, <1>c, <2>1, <2>2 DEF UnvectorCutShort, InScope, Kept
    <2>4. \A d \in ChunksOf(call[t].srcs) : SourceOf[d] \in removed' => Gone(d)'
      BY <1>g, <2>1, <2>2 DEF Gone, ChunksOf
    <2> QED BY <2>1, <2>3, <2>4, PromisesFail
  <1> QED BY <1>1, <1>2, <1>3, <1>4, <1>5 DEF FailStep

\* Nor does a crash: the next open maps every stored chunk, and what is
\* indexed is stored.
LEMMA CrashPromises ==
  ASSUME IInv, PInv, CrashAndOpen
  PROVE  PInv'
  <1>1. /\ UNCHANGED <<rows, postings, vectors, removed, acked>>
        /\ csm' = {c \in Chunks : rows[c] # "absent"}
        /\ \A t \in Threads : call'[t] = Idle
    BY DEF CrashAndOpen, durables
  <1>2. \A t \in Threads : OnTrack(t)'
    BY <1>1 DEF OnTrack, Planned, Idle, ChunksOf
  <1>3. ASSUME NEW c \in Chunks PROVE Promised(c)'
    <2>1. c \in postings => c \in csm'
      BY <1>1 DEF IInv, Stored, Gone
    <2> QED BY <1>1, <2>1 DEF PInv, Promised, Recalled, Gone
  <1> QED BY <1>2, <1>3 DEF PInv

\* A new corpus has promised nothing.
LEMMA InitPromises == Init => PInv
  <1> SUFFICES ASSUME Init PROVE PInv
    OBVIOUS
  <1>1. \A c \in Chunks : Promised(c)
    BY CorpusAssumption DEF Init, Promised
  <1>2. \A t \in Threads : call[t] = Idle
    BY DEF Init
  <1>3. \A t \in Threads : OnTrack(t)
    BY <1>2 DEF OnTrack, Planned, Idle, ChunksOf
  <1> QED BY <1>1, <1>3 DEF PInv

\* Every step keeps every promise.
LEMMA NextPromises ==
  ASSUME NoSnapshots PROVE IInv /\ IInv' /\ PInv /\ [Next]_vars => PInv'
  <1> SUFFICES ASSUME IInv, IInv', PInv, [Next]_vars PROVE PInv'
    OBVIOUS
  <1>1. CASE UNCHANGED vars
    <2>1. UNCHANGED <<rows, postings, csm, vectors, removed, call, acked>>
      BY <1>1 DEF vars, durables, memory
    <2>2. \A c \in Chunks : Promised(c)'
      BY <2>1 DEF PInv, Promised, Recalled, Gone
    <2>3. \A t \in Threads : OnTrack(t)'
      BY <2>1 DEF PInv, OnTrack, Planned, Reached
    <2> QED BY <2>2, <2>3 DEF PInv
  <1> QED
    BY <1>1, IngestStepPromises, EmbedStepPromises, BatchStepPromises, RemoveStepPromises,
       FailStepPromises, CrashPromises, WholeStepIsOut DEF Next

\* What every promise holding says of the sources.
LEMMA PromisesMean ==
  ASSUME IInv, PInv
  PROVE  IngestedIsRecalled /\ ExpungedIsErased /\ TombstoneMeansGone
  <1>1. \A s : ChunksOf({s}) = {c \in Chunks : SourceOf[c] = s}
    BY DEF ChunksOf
  <1>2. \A c \in Chunks : Promised(c)
    BY DEF PInv
  <1>3. IngestedIsRecalled
    BY <1>1, <1>2 DEF IngestedIsRecalled, Promised, Recalled
  <1>4. \A c \in Chunks : acked[SourceOf[c]] = "expunged" => Gone(c)
    BY RecalledChunks DEF IInv
  <1>5. ExpungedIsErased
    <2>1. ASSUME NEW s \in Sources, acked[s] = "expunged", NEW c \in ChunksOf({s})
          PROVE  rows[c] # "text" /\ \A m \in Models : vectors[m][c].from # "text"
      <3>1. c \in Chunks /\ SourceOf[c] = s
        BY <1>1
      <3>2. Promised(c) /\ Gone(c)
        BY <1>2, <1>4, <2>1, <3>1
      <3> QED BY <2>1, <3>1, <3>2 DEF Promised, Gone
    <2> QED BY <2>1 DEF ExpungedIsErased
  <1>6. TombstoneMeansGone
    <2>1. ASSUME NEW s \in removed, NEW c \in ChunksOf({s}) PROVE Gone(c)
      <3>1. c \in Chunks /\ SourceOf[c] = s
        BY <1>1
      <3> QED BY <1>2, <3>1 DEF Promised
    <2> QED BY <2>1 DEF TombstoneMeansGone, InPostings, InVectors, Gone
  <1> QED BY <1>3, <1>5, <1>6

\* A source whose ingest returned Ok is found by every lane, and stays found
\* until the next call on it begins, whatever other threads do to other
\* sources, whatever fails and whenever the process dies.
THEOREM IngestedStaysRecalled ==
  ASSUME NoSnapshots
  PROVE  Spec => []IngestedIsRecalled
  <1>1. IInv /\ PInv => IngestedIsRecalled
    BY PromisesMean
  <1> QED BY <1>1, InitIInv, NextIInv, InitPromises, NextPromises, PTL DEF Spec

\* A source whose expunge returned Ok has no text in the chunk table and no
\* vector made from it, and stays erased until it is ingested again.
THEOREM ExpungedStaysErased ==
  ASSUME NoSnapshots
  PROVE  Spec => []ExpungedIsErased
  <1>1. IInv /\ PInv => ExpungedIsErased
    BY PromisesMean
  <1> QED BY <1>1, InitIInv, NextIInv, InitPromises, NextPromises, PTL DEF Spec

\* A source with a tombstone is in no lane of recall, however its removal or a
\* later ingest of it ended.
THEOREM TombstonesMeanGone ==
  ASSUME NoSnapshots
  PROVE  Spec => []TombstoneMeansGone
  <1>1. IInv /\ PInv => TombstoneMeansGone
    BY PromisesMean
  <1> QED BY <1>1, InitIInv, NextIInv, InitPromises, NextPromises, PTL DEF Spec

(***************************************************************************)
(* Maintained counts.  Every operation is allowed here, reindex, training  *)
(* and destroy_recall_index too; calls on one source do not overlap and    *)
(* nothing fails (a window that rolls back keeps its folds in memory, and  *)
(* a crash loses the folds since the last persist).  A chunk is counted    *)
(* when it is stored, except between an ingest's insert and the step that  *)
(* folds what insert reported as new.                                      *)
(***************************************************************************)

\* The ingest of t has stored the chunk and not yet counted it.
Uncounted(t, c) ==
  call[t].op = "ingest" /\ call[t].step \in {"index", "note"} /\ c \in call[t].cur

CountsExactly(c) ==
  counts[c] = IF rows[c] = "absent" \/ \E t \in Threads : Uncounted(t, c) THEN 0 ELSE 1

\* A call has stored the chunks of its sources, or is yet to insert them.
Storing(t) ==
  /\ call[t].op = "idle" => call[t].srcs = {}
  /\ call[t].step = "window" => call[t].op \in {"batch", "import"}
  /\ call[t].todo \subseteq call[t].srcs
  /\ call[t].op = "ingest" =>
       /\ call[t].step \in {"clear", "insert"} => call[t].chunks = ChunksOf(call[t].srcs)
       /\ call[t].step \in {"index", "note"} => call[t].cur \subseteq ChunksOf(call[t].srcs)
  /\ \A c \in ChunksOf(call[t].srcs) :
       /\ call[t].op = "ingest" => call[t].step \in {"clear", "insert"} \/ rows[c] # "absent"
       /\ call[t].op \in {"batch", "import"} =>
            \/ call[t].step \in {"shard", "window"} /\ SourceOf[c] \in call[t].todo
            \/ rows[c] # "absent"

\* What was ingested or imported is stored.
Arrived(c) == acked[SourceOf[c]] \in {"ingested", "imported"} => rows[c] # "absent"

CInv ==
  /\ TypeOK /\ Owned
  /\ \A c \in Chunks : CountsExactly(c) /\ Arrived(c)
  /\ \A t \in Threads : Storing(t)

\* A step of one thread that counts the chunks of its sources exactly, and
\* leaves the others alone, keeps the counts exact.
LEMMA CountsOfOne ==
  ASSUME CInv, TypeOK', NEW t \in Threads,
         \A u \in Threads \ {t} : call'[u] = call[u],
         \A u \in Threads \ {t} : call'[t].srcs \cap call[u].srcs = {},
         \A c \in Chunks \ ChunksOf(call[t].srcs) : rows'[c] = rows[c] /\ counts'[c] = counts[c],
         \A c \in Chunks \ ChunksOf(call[t].srcs) : ~Uncounted(t, c)',
         \A c \in ChunksOf(call[t].srcs) :
           /\ rows[c] # "absent" => rows'[c] # "absent"
           /\ counts'[c] = IF rows'[c] = "absent" \/ Uncounted(t, c)' THEN 0 ELSE 1,
         \A s \in call'[t].srcs : acked'[s] = "unsettled",
         \A s \in Sources \ (call[t].srcs \cup call'[t].srcs) :
           \/ acked'[s] \in {acked[s], "unsettled"}
           \/ acked[s] = "imported" /\ acked'[s] = "ingested",
         \A s \in call[t].srcs : acked'[s] \in {"ingested", "imported"} =>
           \A c \in ChunksOf({s}) : rows'[c] # "absent",
         Storing(t)'
  PROVE  CInv'
  <1>1. \A S, c : c \in ChunksOf(S) <=> c \in Chunks /\ SourceOf[c] \in S
    BY DEF ChunksOf
  <1>2. \A u \in Threads : call[u].srcs \subseteq Sources /\ call'[u].srcs \subseteq Sources
    BY DEF CInv, TypeOK, Calls
  <1>3. \A u \in Threads \ {t} : \A s \in call[u].srcs :
          s \notin call[t].srcs /\ s \notin call'[t].srcs /\ acked[s] = "unsettled"
    BY DEF CInv, Owned
  <1>4. Owned'
    <2>1. \A u \in Threads : \A s \in call'[u].srcs : acked'[s] = "unsettled"
      BY <1>2, <1>3
    <2>2. \A u, v \in Threads : u # v => call'[u].srcs \cap call'[v].srcs = {}
      BY DEF CInv, Owned
    <2> QED BY <2>1, <2>2 DEF Owned
  <1>5. ASSUME NEW c \in Chunks PROVE Arrived(c)'
    <2>1. SourceOf[c] \in Sources /\ Arrived(c)
      BY CorpusAssumption DEF CInv
    <2>2. CASE SourceOf[c] \in call[t].srcs
      BY <1>1, <2>2 DEF Arrived
    <2>3. CASE SourceOf[c] \notin call[t].srcs /\ SourceOf[c] \in call'[t].srcs
      BY <2>3 DEF Arrived
    <2>4. CASE SourceOf[c] \notin call[t].srcs /\ SourceOf[c] \notin call'[t].srcs
      <3>1. rows'[c] = rows[c]
        BY <1>1, <2>4
      <3>2. acked'[SourceOf[c]] \in {"ingested", "imported"}
              => acked[SourceOf[c]] \in {"ingested", "imported"}
        BY <2>1, <2>4
      <3> QED BY <2>1, <3>1, <3>2 DEF Arrived
    <2> QED BY <2>2, <2>3, <2>4
  <1>6. ASSUME NEW u \in Threads \ {t} PROVE Storing(u)'
    <2>1. call'[u] = call[u] /\ Storing(u)
      BY DEF CInv
    <2>2. \A c \in ChunksOf(call[u].srcs) : rows'[c] = rows[c]
      BY <1>1, <1>3
    <2> QED BY <2>1, <2>2 DEF Storing
  <1>7. ASSUME NEW c \in ChunksOf(call[t].srcs) PROVE CountsExactly(c)'
    <2>1. \A u \in Threads \ {t} : c \notin ChunksOf(call[u].srcs)
      BY <1>1, <1>3
    <2>2. \A u \in Threads \ {t} : ~Uncounted(u, c)'
      BY <2>1 DEF CInv, Storing, Uncounted
    <2> QED BY <2>2 DEF CountsExactly
  <1>8. ASSUME NEW c \in Chunks \ ChunksOf(call[t].srcs) PROVE CountsExactly(c)'
    <2>1. ~Uncounted(t, c)
      BY DEF CInv, Storing, Uncounted
    <2>2. \A u \in Threads \ {t} : Uncounted(u, c)' <=> Uncounted(u, c)
      BY DEF Uncounted
    <2>3. (\E u \in Threads : Uncounted(u, c)') <=> (\E u \in Threads : Uncounted(u, c))
      BY <2>1, <2>2
    <2>4. CountsExactly(c) /\ rows'[c] = rows[c] /\ counts'[c] = counts[c]
      BY DEF CInv
    <2> QED BY <2>3, <2>4 DEF CountsExactly
  <1> QED BY <1>4, <1>5, <1>6, <1>7, <1>8 DEF CInv, ChunksOf

\* In a state with exact counts, those of a call's own chunks are up to it.
LEMMA OwnCounts ==
  ASSUME CInv, NEW t \in Threads, NEW c \in ChunksOf(call[t].srcs)
  PROVE  counts[c] = IF rows[c] = "absent" \/ Uncounted(t, c) THEN 0 ELSE 1
  <1>1. c \in Chunks /\ SourceOf[c] \in call[t].srcs
    BY DEF ChunksOf
  <1>2. \A u \in Threads \ {t} : c \notin ChunksOf(call[u].srcs)
    BY <1>1 DEF CInv, Owned, ChunksOf
  <1>3. \A u \in Threads \ {t} : ~Uncounted(u, c)
    BY <1>2 DEF CInv, Storing, Uncounted
  <1>4. CountsExactly(c)
    BY <1>1 DEF CInv
  <1> QED BY <1>3, <1>4 DEF CountsExactly

\* A call that goes on without storing or counting anything.
LEMMA CountsRest ==
  ASSUME CInv, TypeOK', NEW t \in Threads, NEW r, Goto(t, r), r.srcs = call[t].srcs,
         UNCHANGED <<rows, counts, acked>>, Storing(t)',
         \A c \in ChunksOf(call[t].srcs) : Uncounted(t, c)' <=> Uncounted(t, c),
         \A c \in Chunks \ ChunksOf(call[t].srcs) : ~Uncounted(t, c)'
  PROVE  CInv'
  <1>1. call'[t] = r /\ \A u \in Threads \ {t} : call'[u] = call[u]
    BY DEF Goto, CInv, TypeOK
  <1>2. \A u \in Threads \ {t} : call'[t].srcs \cap call[u].srcs = {}
    BY <1>1 DEF CInv, Owned
  <1>3. \A s \in call[t].srcs : acked[s] = "unsettled"
    BY DEF CInv, Owned
  <1>4. \A c \in ChunksOf(call[t].srcs) :
          counts'[c] = IF rows'[c] = "absent" \/ Uncounted(t, c)' THEN 0 ELSE 1
    BY OwnCounts
  <1> QED BY <1>1, <1>2, <1>3, <1>4, CountsOfOne

\* The steps of a call that has stored and counted what it will.
Late ==
  Steps \ {"idle", "clear", "insert", "index", "note", "shard", "window"}

\* A call that goes on late in its operation.
LEMMA CountsLate ==
  ASSUME CInv, TypeOK', NEW t \in Threads, NEW r, Goto(t, r), r.srcs = call[t].srcs,
         r.op = call[t].op, r.todo = call[t].todo, call[t].step \in Late, r.step \in Late,
         UNCHANGED <<rows, counts, acked>>
  PROVE  CInv'
  <1>1. call'[t] = r
    BY DEF Goto, CInv, TypeOK
  <1>2. \A c : ~Uncounted(t, c) /\ ~Uncounted(t, c)'
    BY <1>1 DEF Uncounted, Late
  <1>3. Storing(t)
    BY DEF CInv
  <1>4. Storing(t)'
    BY <1>1, <1>3 DEF Storing, Late
  <1> QED BY <1>2, <1>4, CountsRest

\* A call that begins.
LEMMA CountsBegin ==
  ASSUME ~Overlap, CInv, TypeOK', NEW t \in Threads, NEW op, NEW S \in SUBSET Sources,
         NEW first, Begin(t, op, S, first), first.srcs = S, first.cur = {},
         UNCHANGED <<rows, counts>>, Storing(t)'
  PROVE  CInv'
  <1>1. call'[t] = first /\ \A u \in Threads \ {t} : call'[u] = call[u]
    BY DEF Begin, Goto, CInv, TypeOK
  <1>2. \A u \in Threads : S \cap call[u].srcs = {}
    BY DEF Begin, Busy
  <1>3. \A s \in Sources : acked'[s] = IF s \in S THEN "unsettled" ELSE acked[s]
    BY DEF Begin
  <1>4. call[t].srcs = {}
    BY DEF Begin, CInv, Storing
  <1>5. \A c : ~Uncounted(t, c)'
    BY <1>1 DEF Uncounted
  <1>6. ChunksOf(call[t].srcs) = {}
    BY <1>4 DEF ChunksOf
  <1>7. \A u \in Threads \ {t} : call'[t].srcs \cap call[u].srcs = {}
    BY <1>1, <1>2
  <1>8. \A s \in call'[t].srcs : acked'[s] = "unsettled"
    BY <1>1, <1>3
  <1>9. \A s \in Sources \ (call[t].srcs \cup call'[t].srcs) : acked'[s] \in {acked[s], "unsettled"}
    BY <1>3
  <1> QED BY <1>1, <1>4, <1>5, <1>6, <1>7, <1>8, <1>9, CountsOfOne

\* A call that returns, late in its operation.
LEMMA CountsEnd ==
  ASSUME CInv, TypeOK', NEW t \in Threads, Goto(t, Idle), UNCHANGED <<rows, counts>>,
         ~\E c \in Chunks : Uncounted(t, c),
         \A s \in Sources \ call[t].srcs :
           acked'[s] = acked[s] \/ (acked[s] = "imported" /\ acked'[s] = "ingested"),
         \A s \in call[t].srcs : acked'[s] \in {"ingested", "imported"} =>
           \A c \in ChunksOf({s}) : rows'[c] # "absent"
  PROVE  CInv'
  <1>1. call'[t] = Idle /\ \A u \in Threads \ {t} : call'[u] = call[u]
    BY DEF Goto, CInv, TypeOK
  <1>2. /\ Idle.srcs = {} /\ Idle.todo = {} /\ Idle.op = "idle" /\ Idle.step = "idle"
        /\ ChunksOf({}) = {}
    BY DEF Idle, ChunksOf
  <1>3. Storing(t)' /\ \A c : ~Uncounted(t, c)'
    BY <1>1, <1>2 DEF Storing, Uncounted
  <1>4. \A c \in ChunksOf(call[t].srcs) :
          counts'[c] = IF rows'[c] = "absent" \/ Uncounted(t, c)' THEN 0 ELSE 1
    <2>1. \A c \in ChunksOf(call[t].srcs) : c \in Chunks
      BY DEF ChunksOf
    <2> QED BY <1>3, <2>1, OwnCounts
  <1> QED BY <1>1, <1>2, <1>3, <1>4, CountsOfOne

\* ingest counts what insert reported as new, once.
LEMMA IngestStepCounts ==
  ASSUME ~Overlap, CInv, TypeOK', NEW t \in Threads, IngestStep(t)
  PROVE  CInv'
  <1>c. /\ call[t] \in Calls /\ call \in [Threads -> Calls] /\ Storing(t)
        /\ rows \in [Chunks -> RowStates]
    BY DEF CInv, TypeOK
  <1>n. \A r : Goto(t, r) => call'[t] = r
    BY <1>c DEF Goto
  <1>1. ASSUME NEW s \in Sources, BeginIngest(t, s) PROVE CInv'
    <2> DEFINE r == [Idle EXCEPT !.op = "ingest", !.step = "clear", !.srcs = {s},
                                 !.chunks = ChunksOf({s}), !.slots = Models]
    <2>1. /\ r.op = "ingest" /\ r.step = "clear" /\ r.srcs = {s} /\ r.cur = {}
          /\ r.chunks = ChunksOf({s}) /\ r.todo = {}
      BY DEF Idle
    <2>2. Begin(t, "ingest", {s}, r) /\ UNCHANGED <<rows, counts>>
      BY <1>1 DEF BeginIngest, durables, memory
    <2> HIDE DEF r
    <2>3. call'[t] = r
      BY <1>n, <2>2 DEF Begin
    <2>4. Storing(t)'
      BY <2>1, <2>3 DEF Storing, ChunksOf
    <2> QED BY <2>1, <2>2, <2>4, CountsBegin DEF NonEmpty
  <1>2. CASE ClearRemoved(t)
    <2> DEFINE r == [call[t] EXCEPT !.step = "insert"]
    <2>1. /\ r.op = "ingest" /\ r.step = "insert" /\ r.srcs = call[t].srcs
          /\ r.chunks = call[t].chunks /\ r.cur = call[t].cur /\ r.todo = call[t].todo
      BY <1>2, <1>c DEF ClearRemoved, At, Calls
    <2>2. Goto(t, r) /\ UNCHANGED <<rows, counts, acked>>
      BY <1>2 DEF ClearRemoved, durables, memory
    <2> HIDE DEF r
    <2>3. call'[t] = r
      BY <1>n, <2>2
    <2>4. Storing(t)'
      BY <1>2, <1>c, <2>1, <2>2, <2>3 DEF ClearRemoved, At, Storing
    <2>5. \A c : Uncounted(t, c)' <=> Uncounted(t, c)
      BY <1>2, <2>1, <2>3 DEF ClearRemoved, At, Uncounted
    <2>6. \A c \in Chunks \ ChunksOf(call[t].srcs) : ~Uncounted(t, c)
      BY <1>c DEF Storing, Uncounted
    <2> QED BY <2>1, <2>2, <2>4, <2>5, <2>6, CountsRest
  <1>3. CASE Insert(t)
    <2> DEFINE r == [call[t] EXCEPT !.step = "index", !.cur = NewIn(call[t].chunks)]
    <2>1. /\ r.op = "ingest" /\ r.step = "index" /\ r.srcs = call[t].srcs
          /\ r.cur = NewIn(call[t].chunks) /\ r.todo = call[t].todo
      BY <1>3, <1>c DEF Insert, At, Calls
    <2>2. Goto(t, r) /\ counts' = counts /\ acked' = acked
      BY <1>3 DEF Insert, memory
    <2> HIDE DEF r
    <2>3. call'[t] = r /\ \A u \in Threads \ {t} : call'[u] = call[u]
      BY <1>c, <2>2 DEF Goto
    <2>4. call[t].chunks = ChunksOf(call[t].srcs) /\ ChunksOf(call[t].srcs) \subseteq Chunks
      BY <1>3, <1>c DEF Insert, At, Storing, ChunksOf
    <2>5. \A c \in Chunks : rows'[c] = IF c \in ChunksOf(call[t].srcs) /\ rows[c] = "absent"
                                       THEN "text" ELSE rows[c]
      BY <1>3, <2>4 DEF Insert, Inserted
    <2>6. \A c : Uncounted(t, c)' <=> c \in ChunksOf(call[t].srcs) /\ rows[c] = "absent"
      BY <2>1, <2>3, <2>4 DEF Uncounted, NewIn
    <2>7. \A c \in ChunksOf(call[t].srcs) :
            /\ rows'[c] # "absent"
            /\ counts'[c] = IF rows'[c] = "absent" \/ Uncounted(t, c)' THEN 0 ELSE 1
      <3>1. \A c : ~Uncounted(t, c)
        BY <1>3 DEF Insert, At, Uncounted
      <3>2. \A c \in ChunksOf(call[t].srcs) : counts[c] = IF rows[c] = "absent" THEN 0 ELSE 1
        BY <3>1, OwnCounts
      <3>3. \A c \in ChunksOf(call[t].srcs) : rows'[c] # "absent"
        BY <2>4, <2>5
      <3> QED BY <2>2, <2>6, <3>2, <3>3
    <2>8. Storing(t)'
      <3>1. r.cur \subseteq ChunksOf(call[t].srcs)
        BY <2>1, <2>4 DEF NewIn
      <3> QED BY <1>c, <2>1, <2>3, <2>7, <3>1 DEF Storing
    <2>9. /\ \A u \in Threads \ {t} : call'[t].srcs \cap call[u].srcs = {}
          /\ \A s \in call[t].srcs : acked'[s] = "unsettled"
      BY <2>1, <2>2, <2>3 DEF CInv, Owned
    <2> QED BY <2>1, <2>2, <2>3, <2>5, <2>6, <2>7, <2>8, <2>9, CountsOfOne
  <1>4. ASSUME NEW d \in Chunks, IndexChunk(t, d) PROVE CInv'
    <2> DEFINE r == [call[t] EXCEPT !.chunks = @ \ {d},
                       !.step = IF call[t].chunks = {d} THEN "note" ELSE "index"]
    <2>1. /\ r.op = "ingest" /\ r.step \in {"note", "index"} /\ r.srcs = call[t].srcs
          /\ r.cur = call[t].cur /\ r.todo = call[t].todo
      BY <1>4, <1>c DEF IndexChunk, At, Calls
    <2>2. Goto(t, r) /\ UNCHANGED <<rows, counts, acked>>
      BY <1>4 DEF IndexChunk, durables, memory
    <2> HIDE DEF r
    <2>3. call'[t] = r
      BY <1>n, <2>2
    <2>4. Storing(t)'
      BY <1>4, <1>c, <2>1, <2>2, <2>3 DEF IndexChunk, At, Storing
    <2>5. \A c : Uncounted(t, c)' <=> Uncounted(t, c)
      BY <1>4, <2>1, <2>3 DEF IndexChunk, At, Uncounted
    <2>6. \A c \in Chunks \ ChunksOf(call[t].srcs) : ~Uncounted(t, c)
      BY <1>c DEF Storing, Uncounted
    <2> QED BY <2>1, <2>2, <2>4, <2>5, <2>6, CountsRest
  <1>5. CASE NoteChunks(t)
    <2> DEFINE r == [call[t] EXCEPT !.step = "slots", !.cur = {}]
    <2>1. /\ r.op = "ingest" /\ r.step = "slots" /\ r.srcs = call[t].srcs
          /\ r.cur = {} /\ r.todo = call[t].todo
      BY <1>5, <1>c DEF NoteChunks, At, Calls
    <2>2. Goto(t, r) /\ rows' = rows /\ acked' = acked
      BY <1>5 DEF NoteChunks, durables
    <2> HIDE DEF r
    <2>3. call'[t] = r /\ \A u \in Threads \ {t} : call'[u] = call[u]
      BY <1>c, <2>2 DEF Goto
    <2>4. \A c \in Chunks : counts'[c] = IF c \in call[t].cur THEN counts[c] + 1 ELSE counts[c]
      BY <1>5 DEF NoteChunks, Folded
    <2>5. call[t].op = "ingest" /\ call[t].step = "note"
      BY <1>5 DEF NoteChunks, At
    <2>6. \A c \in ChunksOf(call[t].srcs) : rows[c] # "absent"
      BY <1>c, <2>5 DEF Storing
    <2>7. \A c : Uncounted(t, c) <=> c \in call[t].cur
      BY <2>5 DEF Uncounted
    <2>8. \A c : ~Uncounted(t, c)'
      BY <2>1, <2>3 DEF Uncounted
    <2>9. call[t].cur \subseteq ChunksOf(call[t].srcs) /\ ChunksOf(call[t].srcs) \subseteq Chunks
      BY <1>c, <2>5 DEF Storing, ChunksOf
    <2>10. \A c \in ChunksOf(call[t].srcs) : counts'[c] = 1
      BY <2>4, <2>6, <2>7, <2>9, OwnCounts
    <2>11. Storing(t)'
      BY <1>c, <2>1, <2>2, <2>3, <2>6 DEF Storing
    <2>12. /\ \A u \in Threads \ {t} : call'[t].srcs \cap call[u].srcs = {}
           /\ \A s \in call[t].srcs : acked'[s] = "unsettled"
      BY <2>1, <2>2, <2>3 DEF CInv, Owned
    <2>13. \A c \in Chunks \ ChunksOf(call[t].srcs) : counts'[c] = counts[c]
      BY <2>4, <2>9
    <2> QED BY <2>1, <2>2, <2>3, <2>6, <2>8, <2>10, <2>11, <2>12, <2>13, CountsOfOne
  <1>6. ASSUME NEW m \in Models, LookAtSlot(t, m) PROVE CInv'
    <2>1. PICK r : /\ Goto(t, r) /\ r.op = "ingest" /\ r.step \in {"slots", "fit", "tombstones"}
                   /\ r.srcs = call[t].srcs /\ r.todo = call[t].todo
      <3>1. LET r == [call[t] EXCEPT !.slots = @ \ {m}, !.slot = {m}, !.again = {m},
                        !.step = IF call[t].loaded THEN "fit" ELSE "tombstones"]
            IN  /\ r.op = "ingest" /\ r.step \in {"fit", "tombstones"}
                /\ r.srcs = call[t].srcs /\ r.todo = call[t].todo
        BY <1>6, <1>c DEF LookAtSlot, At, Calls
      <3>2. LET r == [call[t] EXCEPT !.slots = @ \ {m}, !.fold = @ \cup {m}]
            IN  /\ r.op = "ingest" /\ r.step = "slots"
                /\ r.srcs = call[t].srcs /\ r.todo = call[t].todo
        BY <1>6, <1>c DEF LookAtSlot, At, Calls
      <3> QED BY <1>6, <3>1, <3>2 DEF LookAtSlot
    <2>2. /\ UNCHANGED <<rows, counts, acked>>
          /\ call[t].op = "ingest" /\ call[t].step \in Late /\ r.step \in Late
      BY <1>6, <2>1 DEF LookAtSlot, At, durables, memory, Late, Steps
    <2> QED BY <2>1, <2>2, CountsLate
  <1>7. CASE SlotsDone(t)
    <2> DEFINE r == [call[t] EXCEPT !.step = IF call[t].fold = {} THEN "persist" ELSE "embed"]
    <2>1. /\ r.op = call[t].op /\ r.srcs = call[t].srcs /\ r.todo = call[t].todo
          /\ call[t].step \in Late /\ r.step \in Late
      BY <1>7, <1>c DEF SlotsDone, At, Calls, Late, Steps
    <2>2. Goto(t, r) /\ UNCHANGED <<rows, counts, acked>>
      BY <1>7 DEF SlotsDone, durables, memory
    <2> HIDE DEF r
    <2> QED BY <2>1, <2>2, CountsLate
  <1> QED BY <1>1, <1>2, <1>3, <1>4, <1>5, <1>6, <1>7 DEF IngestStep

\* Training, re-embedding and folding in count nothing; the outcome is
\* reported for stored chunks.
LEMMA EmbedStepCounts ==
  ASSUME CInv, TypeOK', NEW t \in Threads, EmbedStep(t)
  PROVE  CInv'
  <1>c. /\ call[t] \in Calls /\ call \in [Threads -> Calls] /\ Storing(t)
        /\ rows \in [Chunks -> RowStates]
    BY DEF CInv, TypeOK
  <1>n. \A r : Goto(t, r) => call'[t] = r
    BY <1>c DEF Goto
  <1>1. ASSUME NEW m \in Models, ChooseSlot(t, m) PROVE CInv'
    <2> DEFINE r == [call[t] EXCEPT !.train = @ \ {m},
                       !.slot = IF Already(t, m) THEN {} ELSE {m},
                       !.step = IF ~Already(t, m) THEN "fit"
                                ELSE IF call[t].train = {m} THEN AfterTrain(t) ELSE "train"]
    <2>1. /\ r.op = call[t].op /\ r.srcs = call[t].srcs /\ r.todo = call[t].todo
          /\ call[t].step \in Late /\ r.step \in Late
      BY <1>1, <1>c DEF ChooseSlot, At, Calls, Late, Steps, AfterTrain
    <2>2. Goto(t, r) /\ UNCHANGED <<rows, counts, acked>>
      BY <1>1 DEF ChooseSlot, durables, memory, AfterTrain
    <2> HIDE DEF r
    <2> QED BY <2>1, <2>2, CountsLate
  <1>2. ASSUME NEW m \in Models, Train(t, m) PROVE CInv'
    <2>0. PICK g : Goto(t, [call[t] EXCEPT !.step = "upsert",
                              !.gens = [call[t].gens EXCEPT ![m] = g]])
      BY <1>2 DEF Train
    <2> DEFINE r == [call[t] EXCEPT !.step = "upsert",
                       !.gens = [call[t].gens EXCEPT ![m] = g]]
    <2>1. /\ r.op = call[t].op /\ r.srcs = call[t].srcs /\ r.todo = call[t].todo
          /\ call[t].step \in Late /\ r.step \in Late
      BY <1>2, <1>c DEF Train, At, Calls, Late, Steps
    <2>2. Goto(t, r) /\ UNCHANGED <<rows, counts, acked>>
      BY <1>2, <2>0 DEF Train, durables, memory
    <2> HIDE DEF r
    <2> QED BY <2>1, <2>2, CountsLate
  <1>3. ASSUME NEW m \in Models, UpsertBasis(t, m) PROVE CInv'
    <2> DEFINE r == [call[t] EXCEPT !.slot = {},
                       !.step = IF call[t].train = {} THEN AfterTrain(t) ELSE "train"]
    <2>1. /\ r.op = call[t].op /\ r.srcs = call[t].srcs /\ r.todo = call[t].todo
          /\ call[t].step \in Late /\ r.step \in Late
      BY <1>3, <1>c DEF UpsertBasis, At, Calls, Late, Steps, AfterTrain
    <2>2. Goto(t, r) /\ UNCHANGED <<rows, counts, acked>>
      BY <1>3 DEF UpsertBasis, durables, memory, AfterTrain
    <2> HIDE DEF r
    <2> QED BY <2>1, <2>2, CountsLate
  <1>4. ASSUME NEW m \in Models, Reembed(t, m) PROVE CInv'
    <2> DEFINE r == [call[t] EXCEPT !.again = @ \ {m}, !.slot = {m}, !.step = "replace",
                       !.gens = [call[t].gens EXCEPT ![m] = handle[m]]]
    <2>1. /\ r.op = call[t].op /\ r.srcs = call[t].srcs /\ r.todo = call[t].todo
          /\ call[t].step \in Late /\ r.step \in Late
      BY <1>4, <1>c DEF Reembed, At, Calls, Late, Steps
    <2>2. Goto(t, r) /\ UNCHANGED <<rows, counts, acked>>
      BY <1>4 DEF Reembed, durables, memory
    <2> HIDE DEF r
    <2> QED BY <2>1, <2>2, CountsLate
  <1>5. ASSUME NEW m \in Models, ReplaceVectors(t, m) PROVE CInv'
    <2> DEFINE r == [call[t] EXCEPT !.slot = {},
                       !.step = IF call[t].again = {} THEN AfterReembed(t) ELSE "reembed"]
    <2>1. /\ r.op = call[t].op /\ r.srcs = call[t].srcs /\ r.todo = call[t].todo
          /\ call[t].step \in Late /\ r.step \in Late
      BY <1>5, <1>c DEF ReplaceVectors, At, Calls, Late, Steps, AfterReembed
    <2>2. Goto(t, r) /\ UNCHANGED <<rows, counts, acked>>
      BY <1>5 DEF ReplaceVectors, durables, memory, AfterReembed
    <2> HIDE DEF r
    <2> QED BY <2>1, <2>2, CountsLate
  <1>6. CASE Embed(t)
    <2> DEFINE r == [call[t] EXCEPT !.step = "add", !.cur = ChunksOf(call[t].srcs),
                       !.gens = [m \in Models |-> IF m \in call[t].fold THEN handle[m] ELSE 0]]
    <2>1. /\ r.op = call[t].op /\ r.srcs = call[t].srcs /\ r.todo = call[t].todo
          /\ call[t].step \in Late /\ r.step \in Late
      BY <1>6, <1>c DEF Embed, At, Calls, Late, Steps
    <2>2. Goto(t, r) /\ UNCHANGED <<rows, counts, acked>>
      BY <1>6 DEF Embed, durables, memory
    <2> HIDE DEF r
    <2> QED BY <2>1, <2>2, CountsLate
  <1>7. ASSUME NEW C \in NonEmpty(Chunks), AddPayloads(t, C) PROVE CInv'
    <2> DEFINE r == [call[t] EXCEPT !.cur = @ \ C,
                       !.step = IF call[t].cur = C THEN "persist" ELSE "add"]
    <2>1. /\ r.op = call[t].op /\ r.srcs = call[t].srcs /\ r.todo = call[t].todo
          /\ call[t].step \in Late /\ r.step \in Late
      BY <1>7, <1>c DEF AddPayloads, At, Calls, Late, Steps
    <2>2. Goto(t, r) /\ UNCHANGED <<rows, counts, acked>>
      BY <1>7 DEF AddPayloads, durables, memory
    <2> HIDE DEF r
    <2> QED BY <2>1, <2>2, CountsLate
  <1>8. CASE Persist(t)
    <2>1. /\ Goto(t, Idle) /\ UNCHANGED <<rows, counts>>
          /\ call[t].step = "persist" /\ call[t].op \in {"ingest", "batch", "reindex"}
      BY <1>8 DEF Persist, Finish, memory
    <2>2. \A c : ~Uncounted(t, c)
      BY <2>1 DEF Uncounted
    <2>3. CASE call[t].op = "reindex"
      <3>1. \A s \in Sources :
              acked'[s] = acked[s] \/ (acked[s] = "imported" /\ acked'[s] = "ingested")
        BY <1>8, <2>3 DEF Persist
      <3>2. \A s \in call[t].srcs : s \in Sources /\ acked[s] = "unsettled"
        BY <1>c DEF CInv, Owned, Calls
      <3> QED BY <2>1, <2>2, <3>1, <3>2, CountsEnd
    <2>4. CASE call[t].op \in {"ingest", "batch"}
      <3>1. \A s \in Sources \ call[t].srcs : acked'[s] = acked[s]
        BY <1>8, <2>4 DEF Persist, Finish
      <3>2. \A c \in ChunksOf(call[t].srcs) : rows[c] # "absent"
        BY <1>c, <2>1, <2>4 DEF Storing
      <3>3. \A s \in call[t].srcs : \A c \in ChunksOf({s}) : rows'[c] # "absent"
        BY <2>1, <3>2 DEF ChunksOf
      <3> QED BY <2>1, <2>2, <3>1, <3>3, CountsEnd
    <2> QED BY <2>1, <2>3, <2>4
  <1>9. CASE ReadTombstones(t)
    <2> DEFINE r == [call[t] EXCEPT !.gone = removed, !.step = "load"]
    <2>1. /\ r.op = call[t].op /\ r.srcs = call[t].srcs /\ r.todo = call[t].todo
          /\ call[t].step \in Late /\ r.step \in Late
      BY <1>9, <1>c DEF ReadTombstones, Calls, Late, Steps
    <2>2. Goto(t, r) /\ UNCHANGED <<rows, counts, acked>>
      BY <1>9 DEF ReadTombstones, durables, memory
    <2> HIDE DEF r
    <2> QED BY <2>1, <2>2, CountsLate
  <1>10. CASE LoadActive(t)
    <2> DEFINE r == [call[t] EXCEPT !.snap = Without(call[t].gone), !.loaded = TRUE,
                                    !.step = AfterLoad(t)]
    <2>1. /\ r.op = call[t].op /\ r.srcs = call[t].srcs /\ r.todo = call[t].todo
          /\ call[t].step \in Late /\ r.step \in Late
      BY <1>10, <1>c DEF LoadActive, AfterLoad, AfterTrain, Calls, Late, Steps
    <2>2. Goto(t, r) /\ UNCHANGED <<rows, counts, acked>>
      BY <1>10 DEF LoadActive, durables, memory
    <2> HIDE DEF r
    <2> QED BY <2>1, <2>2, CountsLate
  <1> QED BY <1>1, <1>2, <1>3, <1>4, <1>5, <1>6, <1>7, <1>8, <1>9, <1>10 DEF EmbedStep

\* A window of a batch or an import stores and counts in one step.
LEMMA BatchStepCounts ==
  ASSUME ~Overlap, CInv, TypeOK', NEW t \in Threads, BatchStep(t)
  PROVE  CInv'
  <1>c. /\ call[t] \in Calls /\ call \in [Threads -> Calls] /\ Storing(t)
        /\ rows \in [Chunks -> RowStates]
    BY DEF CInv, TypeOK
  <1>n. \A r : Goto(t, r) => call'[t] = r
    BY <1>c DEF Goto
  <1>1. ASSUME NEW S \in NonEmpty(Sources), BeginBatch(t, S) PROVE CInv'
    <2> DEFINE r == [Idle EXCEPT !.op = "batch", !.step = "window", !.srcs = S, !.todo = S,
                                 !.chunks = ChunksOf(S), !.fold = Models]
    <2>1. /\ r.op = "batch" /\ r.step = "window" /\ r.srcs = S /\ r.cur = {}
          /\ r.todo = S
      BY DEF Idle
    <2>2. Begin(t, "batch", S, r) /\ UNCHANGED <<rows, counts>>
      BY <1>1 DEF BeginBatch, durables, memory
    <2> HIDE DEF r
    <2>3. call'[t] = r
      BY <1>n, <2>2 DEF Begin
    <2>4. Storing(t)'
      BY <2>1, <2>3 DEF Storing, ChunksOf
    <2> QED BY <2>1, <2>2, <2>4, CountsBegin DEF NonEmpty
  <1>2. ASSUME NEW S \in NonEmpty(Sources), BeginImport(t, S) PROVE CInv'
    <2> DEFINE r == [Idle EXCEPT !.op = "import", !.step = "shard", !.srcs = S, !.todo = S,
                                 !.chunks = ChunksOf(S)]
    <2>1. /\ r.op = "import" /\ r.step = "shard" /\ r.srcs = S /\ r.cur = {}
          /\ r.todo = S
      BY DEF Idle
    <2>2. Begin(t, "import", S, r) /\ UNCHANGED <<rows, counts>>
      BY <1>2 DEF BeginImport, durables, memory
    <2> HIDE DEF r
    <2>3. call'[t] = r
      BY <1>n, <2>2 DEF Begin
    <2>4. Storing(t)'
      BY <2>1, <2>3 DEF Storing, ChunksOf
    <2> QED BY <2>1, <2>2, <2>4, CountsBegin DEF NonEmpty
  <1>3. ASSUME NEW S \in NonEmpty(Sources), Window(t, S) PROVE CInv'
    <2> DEFINE r == [call[t] EXCEPT !.todo = @ \ S,
                       !.step = IF call[t].todo = S THEN "index" ELSE "window"]
    <2>0. /\ call[t].op \in {"batch", "import"} /\ call[t].step = "window"
          /\ S \subseteq call[t].todo /\ S \subseteq call[t].srcs
      BY <1>3, <1>c DEF Window, Storing
    <2>1. /\ r.op = call[t].op /\ r.step = (IF call[t].todo = S THEN "index" ELSE "window")
          /\ r.srcs = call[t].srcs /\ r.todo = call[t].todo \ S
      BY <1>3, <1>c DEF Window, Calls
    <2>2. Goto(t, r) /\ acked' = acked
      BY <1>3 DEF Window
    <2> HIDE DEF r
    <2>3. call'[t] = r /\ \A u \in Threads \ {t} : call'[u] = call[u]
      BY <1>c, <2>2 DEF Goto
    <2>4. \A c \in Chunks :
            rows'[c] = IF SourceOf[c] \in S /\ rows[c] = "absent" THEN "text" ELSE rows[c]
      BY <1>3 DEF Window, Inserted, ChunksOf
    <2>5. \A c \in Chunks :
            counts'[c] = IF SourceOf[c] \in S /\ rows[c] = "absent" THEN counts[c] + 1
                         ELSE counts[c]
      BY <1>3 DEF Window, Folded, NewIn, ChunksOf
    <2>6. \A c : ~Uncounted(t, c) /\ ~Uncounted(t, c)'
      BY <2>0, <2>1, <2>3 DEF Uncounted
    <2>7. \A c \in ChunksOf(call[t].srcs) :
            /\ c \in Chunks
            /\ rows[c] # "absent" => rows'[c] # "absent"
            /\ counts'[c] = IF rows'[c] = "absent" \/ Uncounted(t, c)' THEN 0 ELSE 1
      <3>1. \A c \in ChunksOf(call[t].srcs) :
              c \in Chunks /\ counts[c] = IF rows[c] = "absent" THEN 0 ELSE 1
        BY <2>6, OwnCounts DEF ChunksOf
      <3> QED BY <2>4, <2>5, <2>6, <3>1
    <2>8. \A c \in Chunks \ ChunksOf(call[t].srcs) : rows'[c] = rows[c] /\ counts'[c] = counts[c]
      BY <2>0, <2>4, <2>5 DEF ChunksOf
    <2>9. Storing(t)'
      <3>1. ASSUME NEW c \in ChunksOf(call[t].srcs)
            PROVE  (r.step = "window" /\ SourceOf[c] \in r.todo) \/ rows'[c] # "absent"
        <4>1. c \in Chunks /\ (SourceOf[c] \in call[t].todo \/ rows[c] # "absent")
          BY <1>c, <2>0, <2>7 DEF Storing
        <4> QED BY <2>1, <2>4, <4>1
      <3>2. call'[t].todo \subseteq call'[t].srcs
        BY <1>c, <2>1, <2>3 DEF Storing
      <3> QED BY <2>0, <2>1, <2>3, <3>1, <3>2 DEF Storing
    <2>10. /\ \A u \in Threads \ {t} : call'[t].srcs \cap call[u].srcs = {}
           /\ \A s \in call[t].srcs : acked'[s] = "unsettled"
      BY <2>1, <2>2, <2>3 DEF CInv, Owned
    <2> QED BY <2>1, <2>2, <2>3, <2>6, <2>7, <2>8, <2>9, <2>10, CountsOfOne
  <1>4. ASSUME NEW C \in NonEmpty(Chunks), IndexBatch(t, C) PROVE CInv'
    <2> DEFINE r == [call[t] EXCEPT !.chunks = @ \ C,
                       !.step = IF call[t].chunks = C THEN "boot" ELSE "index"]
    <2>1. /\ r.op = "batch" /\ r.step \in {"index", "boot"}
          /\ r.srcs = call[t].srcs /\ r.todo = call[t].todo
      BY <1>4, <1>c DEF IndexBatch, At, Calls
    <2>2. Goto(t, r) /\ UNCHANGED <<rows, counts, acked>>
      BY <1>4 DEF IndexBatch, durables, memory
    <2> HIDE DEF r
    <2>3. call'[t] = r
      BY <1>n, <2>2
    <2>4. Storing(t)'
      BY <1>4, <1>c, <2>1, <2>2, <2>3 DEF IndexBatch, At, Storing
    <2>5. \A c : Uncounted(t, c)' <=> Uncounted(t, c)
      BY <1>4, <2>1, <2>3 DEF IndexBatch, At, Uncounted
    <2>6. \A c \in Chunks \ ChunksOf(call[t].srcs) : ~Uncounted(t, c)
      BY <1>c DEF Storing, Uncounted
    <2> QED BY <2>1, <2>2, <2>4, <2>5, <2>6, CountsRest
  <1>5. ASSUME NEW C \in NonEmpty(Chunks), MergeShard(t, C), C # call[t].chunks PROVE CInv'
    <2> DEFINE r == [call[t] EXCEPT !.chunks = @ \ C]
    <2>1. /\ r.op = "import" /\ r.step = "index"
          /\ r.srcs = call[t].srcs /\ r.todo = call[t].todo
      BY <1>5, <1>c DEF MergeShard, At, Calls
    <2>2. Goto(t, r) /\ UNCHANGED <<rows, counts, acked>>
      BY <1>5 DEF MergeShard, durables, memory
    <2> HIDE DEF r
    <2>3. call'[t] = r
      BY <1>n, <2>2
    <2>4. Storing(t)'
      BY <1>5, <1>c, <2>1, <2>2, <2>3 DEF MergeShard, At, Storing
    <2>5. \A c : Uncounted(t, c)' <=> Uncounted(t, c)
      BY <1>5, <2>1, <2>3 DEF MergeShard, At, Uncounted
    <2>6. \A c \in Chunks \ ChunksOf(call[t].srcs) : ~Uncounted(t, c)
      BY <1>c DEF Storing, Uncounted
    <2> QED BY <2>1, <2>2, <2>4, <2>5, <2>6, CountsRest
  <1>6. ASSUME NEW C \in NonEmpty(Chunks), MergeShard(t, C), C = call[t].chunks PROVE CInv'
    <2>1. /\ Goto(t, Idle) /\ UNCHANGED <<rows, counts>>
          /\ call[t].step = "index" /\ call[t].op = "import"
          /\ \A s \in Sources \ call[t].srcs : acked'[s] = acked[s]
      BY <1>6 DEF MergeShard, Finish, At, memory
    <2>2. \A c : ~Uncounted(t, c)
      BY <2>1 DEF Uncounted
    <2>3. \A c \in ChunksOf(call[t].srcs) : rows[c] # "absent"
      BY <1>c, <2>1 DEF Storing
    <2>4. \A s \in call[t].srcs : \A c \in ChunksOf({s}) : rows'[c] # "absent"
      BY <2>1, <2>3 DEF ChunksOf
    <2> QED BY <2>1, <2>2, <2>4, CountsEnd
  <1>7. CASE WriteShards(t)
    <2> DEFINE r == [call[t] EXCEPT !.step = "window"]
    <2>1. /\ r.op = "import" /\ r.step = "window"
          /\ r.srcs = call[t].srcs /\ r.todo = call[t].todo
      BY <1>7, <1>c DEF WriteShards, At, Calls
    <2>2. Goto(t, r) /\ UNCHANGED <<rows, counts, acked>>
      BY <1>7 DEF WriteShards, durables, memory
    <2> HIDE DEF r
    <2>3. call'[t] = r
      BY <1>n, <2>2
    <2>4. Storing(t)'
      BY <1>7, <1>c, <2>1, <2>2, <2>3 DEF WriteShards, At, Storing
    <2>5. \A c : Uncounted(t, c)' <=> Uncounted(t, c)
      BY <1>7, <2>1, <2>3 DEF WriteShards, At, Uncounted
    <2>6. \A c \in Chunks \ ChunksOf(call[t].srcs) : ~Uncounted(t, c)
      BY <1>c DEF Storing, Uncounted
    <2> QED BY <2>1, <2>2, <2>4, <2>5, <2>6, CountsRest
  <1>8. CASE Bootstrap(t)
    <2>1. PICK r : /\ Goto(t, r) /\ r.op = "batch" /\ r.step \in {"embed", "tombstones"}
                   /\ r.srcs = call[t].srcs /\ r.todo = call[t].todo
      <3>1. LET r == [call[t] EXCEPT !.step = "embed"]
            IN  /\ r.op = "batch" /\ r.step = "embed" /\ r.srcs = call[t].srcs
                /\ r.todo = call[t].todo
        BY <1>8, <1>c DEF Bootstrap, At, Calls
      <3>2. LET r == [call[t] EXCEPT !.step = "tombstones", !.train = Trainable]
            IN  /\ r.op = "batch" /\ r.step = "tombstones" /\ r.srcs = call[t].srcs
                /\ r.todo = call[t].todo
        BY <1>8, <1>c DEF Bootstrap, At, Calls
      <3> QED BY <1>8, <3>1, <3>2 DEF Bootstrap
    <2>2. /\ UNCHANGED <<rows, counts, acked>>
          /\ call[t].op = "batch" /\ call[t].step \in Late /\ r.step \in Late
      BY <1>8, <2>1 DEF Bootstrap, At, durables, memory, Late, Steps
    <2> QED BY <2>1, <2>2, CountsLate
  <1> QED BY <1>1, <1>2, <1>3, <1>4, <1>5, <1>6, <1>7, <1>8 DEF BatchStep

\* remove and expunge leave counts alone: a scrubbed chunk stays stored.
LEMMA RemoveStepCounts ==
  ASSUME ~Overlap, CInv, TypeOK', NEW t \in Threads, RemoveStep(t)
  PROVE  CInv'
  <1>c. /\ call[t] \in Calls /\ call \in [Threads -> Calls] /\ Storing(t)
        /\ rows \in [Chunks -> RowStates]
    BY DEF CInv, TypeOK
  <1>n. \A r : Goto(t, r) => call'[t] = r
    BY <1>c DEF Goto
  <1>1. ASSUME NEW s \in Sources, BeginRemove(t, s) PROVE CInv'
    <2> DEFINE stored == {c \in ChunksOf({s}) : rows[c] # "absent"}
               r == [Idle EXCEPT !.op = "remove", !.srcs = {s}, !.chunks = stored,
                                 !.step = IF stored = {} THEN "forget" ELSE "unindex"]
    <2>1. Begin(t, "remove", {s}, r) /\ UNCHANGED <<rows, counts>>
      BY <1>1 DEF BeginRemove, durables, memory
    <2> HIDE DEF stored
    <2>2. /\ r.op = "remove" /\ r.srcs = {s} /\ r.step \in {"forget", "unindex"}
          /\ r.cur = {} /\ r.todo = {}
      BY DEF Idle
    <2> HIDE DEF r
    <2>3. call'[t] = r
      BY <1>n, <2>1 DEF Begin
    <2>4. Storing(t)'
      BY <2>2, <2>3 DEF Storing
    <2> QED BY <2>1, <2>2, <2>4, CountsBegin
  <1>2. ASSUME NEW s \in Sources, BeginExpunge(t, s) PROVE CInv'
    <2> DEFINE r == [Idle EXCEPT !.op = "expunge", !.step = "scrub", !.srcs = {s}]
    <2>1. /\ r.op = "expunge" /\ r.step = "scrub" /\ r.srcs = {s} /\ r.cur = {}
          /\ r.todo = {}
      BY DEF Idle
    <2>2. Begin(t, "expunge", {s}, r) /\ UNCHANGED <<rows, counts>>
      BY <1>2 DEF BeginExpunge, durables, memory
    <2> HIDE DEF r
    <2>3. call'[t] = r
      BY <1>n, <2>2 DEF Begin
    <2>4. Storing(t)'
      BY <2>1, <2>3 DEF Storing, ChunksOf
    <2> QED BY <2>1, <2>2, <2>4, CountsBegin DEF NonEmpty
  <1>3. CASE ScrubText(t)
    <2> DEFINE stored == {c \in ChunksOf(call[t].srcs) : rows[c] # "absent"}
               r == [call[t] EXCEPT !.chunks = stored,
                                    !.step = IF stored = {} THEN "forget" ELSE "unindex"]
    <2>1. Goto(t, r) /\ acked' = acked /\ counts' = counts
      BY <1>3 DEF ScrubText, memory
    <2>2. \A c \in Chunks :
            /\ rows'[c] = "absent" <=> rows[c] = "absent"
            /\ c \notin ChunksOf(call[t].srcs) => rows'[c] = rows[c]
      BY <1>3 DEF ScrubText
    <2> HIDE DEF stored
    <2>3. /\ r.op = "expunge" /\ r.srcs = call[t].srcs /\ r.step \in {"forget", "unindex"}
          /\ r.todo = call[t].todo
      BY <1>3, <1>c DEF ScrubText, At, Calls
    <2> HIDE DEF r
    <2>4. call'[t] = r /\ \A u \in Threads \ {t} : call'[u] = call[u]
      BY <1>c, <2>1 DEF Goto
    <2>5. \A c : ~Uncounted(t, c) /\ ~Uncounted(t, c)'
      BY <1>3, <2>3, <2>4 DEF ScrubText, At, Uncounted
    <2>6. Storing(t)'
      BY <1>c, <2>3, <2>4 DEF Storing
    <2>7. \A c \in ChunksOf(call[t].srcs) :
            /\ rows[c] # "absent" => rows'[c] # "absent"
            /\ counts'[c] = IF rows'[c] = "absent" \/ Uncounted(t, c)' THEN 0 ELSE 1
      BY <2>1, <2>2, <2>5, OwnCounts DEF ChunksOf
    <2>8. /\ \A u \in Threads \ {t} : call'[t].srcs \cap call[u].srcs = {}
          /\ \A s \in call[t].srcs : acked'[s] = "unsettled"
      BY <2>1, <2>3, <2>4 DEF CInv, Owned
    <2> QED BY <2>1, <2>2, <2>3, <2>4, <2>5, <2>6, <2>7, <2>8, CountsOfOne
  <1>4. ASSUME NEW c \in Chunks, Unindex(t, c) PROVE CInv'
    <2> DEFINE r == [call[t] EXCEPT !.cur = {c}, !.step = "unvector"]
    <2>1. /\ r.op = call[t].op /\ r.srcs = call[t].srcs /\ r.todo = call[t].todo
          /\ call[t].step \in Late /\ r.step \in Late
      BY <1>4, <1>c DEF Unindex, At, Calls, Late, Steps
    <2>2. Goto(t, r) /\ UNCHANGED <<rows, counts, acked>>
      BY <1>4 DEF Unindex, durables, memory
    <2> HIDE DEF r
    <2> QED BY <2>1, <2>2, CountsLate
  <1>5. ASSUME NEW c \in Chunks, Unvector(t, c) PROVE CInv'
    <2> DEFINE r == [call[t] EXCEPT !.cur = {}, !.chunks = @ \ {c},
                       !.step = IF call[t].chunks = {c} THEN "forget" ELSE "unindex"]
    <2>1. /\ r.op = call[t].op /\ r.srcs = call[t].srcs /\ r.todo = call[t].todo
          /\ call[t].step \in Late /\ r.step \in Late
      BY <1>5, <1>c DEF Unvector, At, Calls, Late, Steps
    <2>2. Goto(t, r) /\ UNCHANGED <<rows, counts, acked>>
      BY <1>5 DEF Unvector, durables, memory
    <2> HIDE DEF r
    <2> QED BY <2>1, <2>2, CountsLate
  <1>6. CASE Forget(t)
    <2> DEFINE r == [call[t] EXCEPT !.step = "mark"]
    <2>1. /\ r.op = call[t].op /\ r.srcs = call[t].srcs /\ r.todo = call[t].todo
          /\ call[t].step \in Late /\ r.step \in Late
      BY <1>6, <1>c DEF Forget, At, Calls, Late, Steps
    <2>2. Goto(t, r) /\ UNCHANGED <<rows, counts, acked>>
      BY <1>6 DEF Forget, durables, memory
    <2> HIDE DEF r
    <2> QED BY <2>1, <2>2, CountsLate
  <1>7. CASE MarkRemoved(t)
    <2>1. /\ Goto(t, Idle) /\ UNCHANGED <<rows, counts>> /\ call[t].step = "mark"
          /\ \A s \in Sources \ call[t].srcs : acked'[s] = acked[s]
      BY <1>7 DEF MarkRemoved, Finish, memory
    <2>2. \A s \in call[t].srcs : acked'[s] \in {"expunged", "removed"}
      BY <1>7, <1>c DEF MarkRemoved, Finish, Calls
    <2>3. \A c : ~Uncounted(t, c)
      BY <2>1 DEF Uncounted
    <2> QED BY <2>1, <2>2, <2>3, CountsEnd
  <1> QED BY <1>1, <1>2, <1>3, <1>4, <1>5, <1>6, <1>7 DEF RemoveStep

\* So do reindex and destroy_recall_index, which wipes the persisted counts but
\* neither the chunk table nor the accumulators in memory.
LEMMA WholeStepCounts ==
  ASSUME ~Overlap, CInv, TypeOK', NEW t \in Threads, WholeStep(t)
  PROVE  CInv'
  <1>c. /\ call[t] \in Calls /\ call \in [Threads -> Calls] /\ Storing(t)
        /\ rows \in [Chunks -> RowStates]
    BY DEF CInv, TypeOK
  <1>n. \A r : Goto(t, r) => call'[t] = r
    BY <1>c DEF Goto
  <1>1. CASE BeginReindex(t)
    <2> DEFINE r == [Idle EXCEPT !.op = "reindex", !.step = "tombstones",
                                 !.train = Trainable, !.again = Models]
    <2>1. /\ r.op = "reindex" /\ r.step = "tombstones" /\ r.srcs = {}
          /\ r.cur = {} /\ r.todo = {}
      BY DEF Idle
    <2>2. Begin(t, "reindex", {}, r) /\ UNCHANGED <<rows, counts>>
      BY <1>1 DEF BeginReindex, durables, memory
    <2> HIDE DEF r
    <2>3. call'[t] = r
      BY <1>n, <2>2 DEF Begin
    <2>4. Storing(t)'
      BY <2>1, <2>3 DEF Storing
    <2> QED BY <2>1, <2>2, <2>4, CountsBegin
  <1>2. CASE BeginDestroy(t)
    <2> DEFINE r == [Idle EXCEPT !.op = "destroy", !.step = "wipe_postings"]
    <2>1. /\ r.op = "destroy" /\ r.step = "wipe_postings" /\ r.srcs = {} /\ r.cur = {}
          /\ r.todo = {}
      BY DEF Idle
    <2>2. Begin(t, "destroy", {}, r) /\ UNCHANGED <<rows, counts>>
      BY <1>2 DEF BeginDestroy, durables, memory
    <2> HIDE DEF r
    <2>3. call'[t] = r
      BY <1>n, <2>2 DEF Begin
    <2>4. Storing(t)'
      BY <2>1, <2>3 DEF Storing, ChunksOf
    <2> QED BY <2>1, <2>2, <2>4, CountsBegin DEF NonEmpty
  <1>3. CASE WipePostings(t)
    <2> DEFINE r == [call[t] EXCEPT !.step = "wipe_vectors"]
    <2>1. /\ r.op = "destroy" /\ r.step = "wipe_vectors" /\ r.srcs = call[t].srcs
          /\ r.todo = call[t].todo
      BY <1>3, <1>c DEF WipePostings, At, Calls
    <2>2. /\ Goto(t, r) /\ UNCHANGED <<rows, counts>>
          /\ \A s \in Sources : acked'[s] = IF acked[s] \in {"removed", "expunged"}
                                            THEN acked[s] ELSE "unsettled"
      BY <1>3 DEF WipePostings
    <2> HIDE DEF r
    <2>3. call'[t] = r /\ \A u \in Threads \ {t} : call'[u] = call[u]
      BY <1>c, <2>2 DEF Goto
    <2>4. \A c : ~Uncounted(t, c) /\ ~Uncounted(t, c)'
      BY <1>3, <2>1, <2>3 DEF WipePostings, At, Uncounted
    <2>5. Storing(t)'
      BY <1>c, <2>1, <2>3 DEF Storing
    <2>6. \A c \in ChunksOf(call[t].srcs) :
            counts'[c] = IF rows'[c] = "absent" \/ Uncounted(t, c)' THEN 0 ELSE 1
      BY <2>2, <2>4, OwnCounts
    <2>7. \A s \in call[t].srcs : s \in Sources /\ acked[s] = "unsettled"
      BY <1>c DEF CInv, Owned, Calls
    <2>8. \A u \in Threads \ {t} : call'[t].srcs \cap call[u].srcs = {}
      BY <2>1, <2>3 DEF CInv, Owned
    <2> QED BY <2>1, <2>2, <2>3, <2>4, <2>5, <2>6, <2>7, <2>8, CountsOfOne
  <1>4. CASE WipeVectors(t)
    <2> DEFINE r == [call[t] EXCEPT !.step = "wipe_basis"]
    <2>1. /\ r.op = call[t].op /\ r.srcs = call[t].srcs /\ r.todo = call[t].todo
          /\ call[t].step \in Late /\ r.step \in Late
      BY <1>4, <1>c DEF WipeVectors, At, Calls, Late, Steps
    <2>2. Goto(t, r) /\ UNCHANGED <<rows, counts, acked>>
      BY <1>4 DEF WipeVectors, durables, memory
    <2> HIDE DEF r
    <2> QED BY <2>1, <2>2, CountsLate
  <1>5. CASE WipeBasis(t)
    <2> DEFINE r == [call[t] EXCEPT !.step = "wipe_counts"]
    <2>1. /\ r.op = call[t].op /\ r.srcs = call[t].srcs /\ r.todo = call[t].todo
          /\ call[t].step \in Late /\ r.step \in Late
      BY <1>5, <1>c DEF WipeBasis, At, Calls, Late, Steps
    <2>2. Goto(t, r) /\ UNCHANGED <<rows, counts, acked>>
      BY <1>5 DEF WipeBasis, durables, memory
    <2> HIDE DEF r
    <2> QED BY <2>1, <2>2, CountsLate
  <1>6. CASE WipeCounts(t)
    <2> DEFINE r == [call[t] EXCEPT !.step = "wipe_tombstones"]
    <2>1. /\ r.op = call[t].op /\ r.srcs = call[t].srcs /\ r.todo = call[t].todo
          /\ call[t].step \in Late /\ r.step \in Late
      BY <1>6, <1>c DEF WipeCounts, At, Calls, Late, Steps
    <2>2. Goto(t, r) /\ UNCHANGED <<rows, counts, acked>>
      BY <1>6 DEF WipeCounts, durables, memory
    <2> HIDE DEF r
    <2> QED BY <2>1, <2>2, CountsLate
  <1>7. CASE WipeTombstones(t)
    <2>1. Goto(t, Idle) /\ UNCHANGED <<rows, counts, acked>> /\ call[t].op = "destroy"
      BY <1>7 DEF WipeTombstones, At, memory
    <2>2. \A c : ~Uncounted(t, c)
      BY <2>1 DEF Uncounted
    <2>3. \A s \in call[t].srcs : acked[s] = "unsettled"
      BY DEF CInv, Owned
    <2> QED BY <2>1, <2>2, <2>3, CountsEnd
  <1> QED BY <1>1, <1>2, <1>3, <1>4, <1>5, <1>6, <1>7 DEF WholeStep

\* Every step of a run without failures keeps the counts exact.
LEMMA NextCounts ==
  ASSUME ~Overlap, Faults = {} PROVE CInv /\ [Next]_vars => CInv'
  <1> SUFFICES ASSUME CInv, [Next]_vars PROVE CInv'
    OBVIOUS
  <1>1. TypeOK'
    BY NextType DEF CInv
  <1>2. CASE UNCHANGED vars
    <2>1. UNCHANGED <<rows, counts, call, acked>>
      BY <1>2 DEF vars, durables, memory
    <2>2. \A c \in Chunks : CountsExactly(c)' /\ Arrived(c)'
      BY <2>1 DEF CInv, CountsExactly, Arrived, Uncounted
    <2>3. \A t \in Threads : Storing(t)'
      BY <2>1 DEF CInv, Storing
    <2>4. Owned'
      BY <2>1 DEF CInv, Owned
    <2> QED BY <1>1, <2>2, <2>3, <2>4 DEF CInv
  <1>3. \A t \in Threads : ~FailStep(t)
    BY DEF FailStep, CallFails, WindowFails, InsertCutShort, AddCutShort, UnvectorCutShort
  <1>4. ~CrashAndOpen
    BY DEF CrashAndOpen
  <1> QED
    BY <1>1, <1>2, <1>3, <1>4, IngestStepCounts, EmbedStepCounts, BatchStepCounts,
       RemoveStepCounts, WholeStepCounts DEF Next

\* A new corpus has stored and counted nothing.
LEMMA InitCounts == Init => CInv
  <1> SUFFICES ASSUME Init PROVE CInv
    OBVIOUS
  <1>1. /\ Idle.srcs = {} /\ Idle.todo = {} /\ Idle.op = "idle" /\ Idle.step = "idle"
        /\ ChunksOf({}) = {} /\ \A t \in Threads : call[t] = Idle
    BY DEF Init, Idle, ChunksOf
  <1>2. TypeOK
    BY InitType
  <1>3. Owned /\ \A t \in Threads : Storing(t)
    BY <1>1 DEF Owned, Storing
  <1>4. \A c \in Chunks : CountsExactly(c) /\ Arrived(c)
    <2>1. \A c \in Chunks : ~\E t \in Threads : Uncounted(t, c)
      BY <1>1 DEF Uncounted
    <2> QED BY <2>1, CorpusAssumption DEF Init, CountsExactly, Arrived, NoChunks
  <1> QED BY <1>2, <1>3, <1>4 DEF CInv

\* No chunk is ever counted twice, and one of an ingested source is counted
\* once, whatever is re-ingested, removed, expunged, reindexed or destroyed and
\* in whichever order the calls on different sources interleave.
THEOREM ChunksAreCountedOnce ==
  ASSUME ~Overlap, Faults = {}
  PROVE  Spec => []CountedOnce
  <1>1. ASSUME CInv PROVE CountedOnce
    <2>1. \A c \in Chunks : counts[c] \in {0, 1}
      BY <1>1 DEF CInv, CountsExactly
    <2>2. ASSUME NEW s \in Sources, acked[s] = "ingested", NEW c \in ChunksOf({s})
          PROVE  counts[c] = 1
      <3>1. c \in Chunks /\ SourceOf[c] = s
        BY DEF ChunksOf
      <3>2. rows[c] # "absent"
        BY <1>1, <2>2, <3>1 DEF CInv, Arrived
      <3>3. \A t \in Threads : s \notin call[t].srcs
        BY <1>1, <2>2 DEF CInv, Owned
      <3>4. \A t \in Threads : ~Uncounted(t, c)
        BY <1>1, <3>1, <3>3 DEF CInv, Storing, Uncounted, ChunksOf
      <3> QED BY <1>1, <3>1, <3>2, <3>4 DEF CInv, CountsExactly
    <2> QED BY <2>1, <2>2 DEF CountedOnce
  <1> QED BY <1>1, InitCounts, NextCounts, PTL DEF Spec

(***************************************************************************)
(* One basis per slot.  With one caller and no failures the vectors of a   *)
(* slot are all of the basis that serves: training a slot that has vectors *)
(* is left to reindex, which replaces them before it returns; ingest and   *)
(* batch train only slots without a basis, and those have no vector.       *)
(***************************************************************************)

\* One thread calls the corpus: operations follow each other.
OneCaller == \E t : Threads = {t}

\* The steps of an operation.
PathOf(op) ==
  CASE op = "idle"    -> {"idle"}
    [] op = "ingest"  -> {"clear", "insert", "index", "note", "slots", "tombstones", "load",
                          "fit", "upsert", "reembed", "replace", "embed", "add", "persist"}
    [] op = "batch"   -> {"window", "index", "boot", "tombstones", "load", "train", "fit",
                          "upsert", "embed", "add", "persist"}
    [] op = "import"  -> {"shard", "window", "index"}
    [] op = "remove"  -> {"unindex", "unvector", "forget", "mark"}
    [] op = "expunge" -> {"scrub", "unindex", "unvector", "forget", "mark"}
    [] op = "reindex" -> {"tombstones", "load", "train", "fit", "upsert", "reembed", "replace",
                          "persist"}
    [] op = "destroy" -> {"wipe_postings", "wipe_vectors", "wipe_basis", "wipe_counts",
                          "wipe_tombstones"}

\* Slot m has no vector; its vectors are of the serving basis; its basis, if it
\* needs one, is persisted.
Blank(m)   == \A c \in Chunks : vectors[m][c] = NoVector
Matches(m) == \A c \in Chunks : vectors[m][c].from # "none" => vectors[m][c].gen = handle[m]
Based(m)   == m \in Trainable => basis[m] # 0

\* A batch reaches the training with the text of its sources stored, and active.
Windowed(t) ==
  call[t].op = "batch" /\ call[t].step \in {"window", "index", "boot", "tombstones", "load"} =>
    /\ call[t].srcs # {} /\ call[t].slot = {}
    /\ call[t].step = "load" => call[t].gone = removed
    /\ call[t].step # "window" => call[t].todo = {}
    /\ \A c \in ChunksOf(call[t].srcs \ call[t].todo) :
         rows[c] # "absent" /\ SourceOf[c] \notin removed

\* Training: one slot at a time, a blank one unless a reindex re-embeds it
\* afterwards; every slot without a basis has its turn.
Trains(t) ==
  call[t].step \in {"tombstones", "load", "train", "fit", "upsert"} =>
    /\ call[t].train \subseteq Trainable
    /\ call[t].step = "train" => call[t].slot = {}
    /\ call[t].step \in {"tombstones", "load"} /\ call[t].op # "ingest" => call[t].slot = {}
    /\ \A m, n \in call[t].slot : m = n
    /\ call[t].op # "reindex" => \A m \in call[t].slot : Blank(m)
    /\ call[t].op = "reindex" => call[t].again = Models
    /\ call[t].op = "ingest" => call[t].again \subseteq call[t].slot
    /\ call[t].op # "ingest" => \A m \in Models : Based(m) \/ m \in call[t].train \cup call[t].slot
    /\ call[t].step = "upsert" =>
         \A m \in call[t].slot : call[t].gens[m] # 0 /\ call[t].gens[m] = handle[m]

\* Re-embedding: the slots are based, and the one in hand was embedded with the
\* basis that serves.
Reembeds(t) ==
  /\ call[t].step \in {"reembed", "replace"} =>
       /\ \A m \in call[t].again \cup call[t].slot : Based(m)
       /\ \A m, n \in call[t].slot : m = n
       /\ \A m \in call[t].slot : call[t].gens[m] = handle[m]
       /\ call[t].step = "reembed" => call[t].slot = {}
  /\ call[t].step = "persist" /\ call[t].op = "reindex" =>
       call[t].again = {} /\ call[t].slot = {}

\* Folding in: into based slots, with the basis that serves.
Folds(t) ==
  /\ call[t].op = "ingest" => call[t].train = {} /\ \A m \in call[t].fold : Based(m)
  /\ call[t].step \in {"embed", "add"} => \A m \in call[t].fold : Based(m)
  /\ call[t].step = "add" => \A m \in call[t].fold : call[t].gens[m] = handle[m]

\* A destroy has emptied the lanes before it wipes the bases.
Wipes(t) ==
  call[t].step \in {"wipe_basis", "wipe_counts", "wipe_tombstones"} => \A m \in Models : Blank(m)

\* The slots agree with the operation in progress.
Serves(t) ==
  /\ call[t].step \in PathOf(call[t].op)
  /\ \A m \in Models : \/ Matches(m)
                       \/ call[t].op = "reindex" /\ m \in call[t].again \cup call[t].slot

VInv ==
  /\ TypeOK
  /\ \A m \in Models : Based(m) \/ Blank(m)
  /\ \A t \in Threads : /\ Serves(t) /\ Windowed(t) /\ Trains(t) /\ Reembeds(t)
                        /\ Folds(t) /\ Wipes(t)

\* The steps at which nothing is known of slots in hand.
Plain == Steps \ {"tombstones", "load", "train", "fit", "upsert", "reembed", "replace", "embed", "add",
                  "wipe_basis", "wipe_counts", "wipe_tombstones"}

\* A step that at most drops vectors.
Drops ==
  /\ UNCHANGED <<basis, handle>>
  /\ \A m \in Models, c \in Chunks : vectors'[m][c] \in {vectors[m][c], NoVector}

\* Dropping vectors keeps what is known of the slots.
LEMMA DropsKeeps ==
  ASSUME Drops, NEW m \in Models
  PROVE  /\ Blank(m) => Blank(m)'
         /\ Matches(m) => Matches(m)'
         /\ Based(m)' <=> Based(m)
  <1>1. NoVector.from = "none"
    BY DEF NoVector
  <1>2. Blank(m) => Blank(m)'
    BY DEF Drops, Blank
  <1>3. Matches(m) => Matches(m)'
    BY <1>1 DEF Drops, Matches
  <1> QED BY <1>2, <1>3 DEF Drops, Based

\* Leaving the slots alone drops nothing.
LEMMA SameDrops ==
  ASSUME UNCHANGED <<vectors, basis, handle>>
  PROVE  Drops
  BY DEF Drops

\* With one caller the invariant is that of its call.
LEMMA OneGoes ==
  ASSUME OneCaller, VInv, TypeOK', NEW t \in Threads,
         \A m \in Models : Based(m)' \/ Blank(m)',
         Serves(t)', Windowed(t)', Trains(t)', Reembeds(t)', Folds(t)', Wipes(t)'
  PROVE  VInv'
  BY DEF OneCaller, VInv

\* A call that goes to a plain step, and at most drops vectors, keeps it.
LEMMA GoesPlainly ==
  ASSUME OneCaller, VInv, TypeOK', NEW t \in Threads, NEW r, Goto(t, r), Drops,
         call[t].op # "reindex", r.op # "reindex", r.step \in Plain, r.step \in PathOf(r.op),
         r.op = "ingest" => r.train = {} /\ \A m \in r.fold : m \in Models /\ Based(m),
         Windowed(t)'
  PROVE  VInv'
  <1>1. call'[t] = r
    BY DEF VInv, TypeOK, Goto
  <1>2. \A m \in Models : Based(m)' \/ Blank(m)'
    BY DropsKeeps DEF VInv
  <1>3. Serves(t)'
    BY <1>1, DropsKeeps DEF VInv, Serves, PathOf
  <1>4. Trains(t)' /\ Reembeds(t)' /\ Wipes(t)'
    BY <1>1 DEF Plain, Trains, Reembeds, Wipes
  <1>5. Folds(t)'
    BY <1>1, DropsKeeps DEF Plain, Folds
  <1> QED BY <1>2, <1>3, <1>4, <1>5, OneGoes

\* ingest: up to the slots nothing of them is touched; a slot without a basis is
\* blank when its training begins.
LEMMA IngestStepServes ==
  ASSUME OneCaller, VInv, TypeOK', NEW t \in Threads, IngestStep(t)
  PROVE  VInv'
  <1>c. /\ call[t] \in Calls /\ call \in [Threads -> Calls]
        /\ Serves(t) /\ Folds(t) /\ Windowed(t)
    BY DEF VInv, TypeOK
  <1>n. \A r : Goto(t, r) => call'[t] = r
    BY <1>c DEF Goto
  <1>f. \A m \in call[t].fold : m \in Models
    BY <1>c DEF Calls
  <1>1. ASSUME NEW s \in Sources, BeginIngest(t, s) PROVE VInv'
    <2> DEFINE r == [Idle EXCEPT !.op = "ingest", !.step = "clear", !.srcs = {s},
                                 !.chunks = ChunksOf({s}), !.slots = Models]
    <2>1. r.op = "ingest" /\ r.step = "clear" /\ r.train = {} /\ r.fold = {}
      BY DEF Idle
    <2>2. Goto(t, r) /\ UNCHANGED <<vectors, basis, handle>> /\ call[t].op = "idle"
      BY <1>1 DEF BeginIngest, Begin, durables, memory
    <2> HIDE DEF r
    <2>3. Windowed(t)'
      BY <1>n, <2>1, <2>2 DEF Windowed
    <2> QED BY <2>1, <2>2, <2>3, SameDrops, GoesPlainly DEF Plain, Steps, PathOf
  <1>2. ASSUME At(t, "ingest", call[t].step), NEW r, Goto(t, r), r.op = call[t].op,
               r.step \in {"insert", "index", "note", "slots", "persist"}, r.train = call[t].train,
               r.fold = call[t].fold, UNCHANGED <<vectors, basis, handle>>
        PROVE  VInv'
    <2>1. Windowed(t)'
      BY <1>2, <1>n DEF At, Windowed
    <2>2. call[t].op = "ingest" /\ call[t].train = {} /\ \A m \in call[t].fold : Based(m)
      BY <1>2, <1>c DEF At, Folds
    <2>3. r.step \in Plain /\ r.step \in PathOf(r.op)
      BY <1>2, <2>2 DEF Plain, Steps, PathOf
    <2> QED BY <1>2, <1>f, <2>1, <2>2, <2>3, SameDrops, GoesPlainly
  <1>3. CASE ClearRemoved(t)
    <2> DEFINE r == [call[t] EXCEPT !.step = "insert"]
    <2>1. r.op = call[t].op /\ r.step = "insert" /\ r.train = call[t].train /\ r.fold = call[t].fold
      BY <1>c DEF Calls
    <2>2. Goto(t, r) /\ UNCHANGED <<vectors, basis, handle>> /\ call[t].op = "ingest"
      BY <1>3 DEF ClearRemoved, At, memory
    <2> HIDE DEF r
    <2> QED BY <1>2, <2>1, <2>2 DEF At
  <1>4. CASE Insert(t)
    <2> DEFINE r == [call[t] EXCEPT !.step = "index", !.cur = NewIn(call[t].chunks)]
    <2>1. r.op = call[t].op /\ r.step = "index" /\ r.train = call[t].train /\ r.fold = call[t].fold
      BY <1>c DEF Calls
    <2>2. Goto(t, r) /\ UNCHANGED <<vectors, basis, handle>> /\ call[t].op = "ingest"
      BY <1>4 DEF Insert, At, memory
    <2> HIDE DEF r
    <2> QED BY <1>2, <2>1, <2>2 DEF At
  <1>5. ASSUME NEW c \in Chunks, IndexChunk(t, c) PROVE VInv'
    <2> DEFINE r == [call[t] EXCEPT !.chunks = @ \ {c},
                             !.step = IF call[t].chunks = {c} THEN "note" ELSE "index"]
    <2>1. /\ r.op = call[t].op /\ r.step \in {"note", "index"} /\ r.train = call[t].train
          /\ r.fold = call[t].fold
      BY <1>c DEF Calls
    <2>2. Goto(t, r) /\ UNCHANGED <<vectors, basis, handle>> /\ call[t].op = "ingest"
      BY <1>5 DEF IndexChunk, At, memory
    <2> HIDE DEF r
    <2> QED BY <1>2, <2>1, <2>2 DEF At
  <1>6. CASE NoteChunks(t)
    <2> DEFINE r == [call[t] EXCEPT !.step = "slots", !.cur = {}]
    <2>1. r.op = call[t].op /\ r.step = "slots" /\ r.train = call[t].train /\ r.fold = call[t].fold
      BY <1>c DEF Calls
    <2>2. Goto(t, r) /\ UNCHANGED <<vectors, basis, handle>> /\ call[t].op = "ingest"
      BY <1>6 DEF NoteChunks, At, durables
    <2> HIDE DEF r
    <2> QED BY <1>2, <2>1, <2>2 DEF At
  <1>7. CASE SlotsDone(t)
    <2> DEFINE r == [call[t] EXCEPT !.step = IF call[t].fold = {} THEN "persist" ELSE "embed"]
    <2>1. /\ r.op = call[t].op /\ r.step = (IF call[t].fold = {} THEN "persist" ELSE "embed")
          /\ r.train = call[t].train /\ r.fold = call[t].fold
      BY <1>c DEF Calls
    <2>2. Goto(t, r) /\ UNCHANGED <<vectors, basis, handle>> /\ call[t].op = "ingest"
      BY <1>7 DEF SlotsDone, At, durables, memory
    <2> HIDE DEF r
    <2>3. CASE call[t].fold = {}
      BY <1>2, <2>1, <2>2, <2>3 DEF At
    <2>4. CASE call[t].fold # {}
      <3>0. call'[t] = r /\ r.step = "embed" /\ r.op = "ingest"
        BY <1>n, <2>1, <2>2, <2>4
      <3>1. Drops
        BY <2>2, SameDrops
      <3>2. \A m \in Models : Based(m)' \/ Blank(m)'
        BY <3>1, DropsKeeps DEF VInv
      <3>3. Serves(t)'
        BY <1>c, <2>2, <3>0, <3>1, DropsKeeps DEF Serves, PathOf
      <3>4. Trains(t)' /\ Reembeds(t)' /\ Wipes(t)' /\ Windowed(t)'
        BY <3>0 DEF Trains, Reembeds, Wipes, Windowed
      <3>5. Folds(t)'
        BY <1>c, <1>f, <2>1, <2>2, <3>0, <3>1, DropsKeeps DEF Folds
      <3> QED BY <3>2, <3>3, <3>4, <3>5, OneGoes
    <2> QED BY <2>3, <2>4
  <1>8. ASSUME NEW m \in Models, LookAtSlot(t, m), m \notin Untrained PROVE VInv'
    <2> DEFINE r == [call[t] EXCEPT !.slots = @ \ {m}, !.fold = @ \cup {m}]
    <2>1. /\ r.op = call[t].op /\ r.step = call[t].step /\ r.train = call[t].train
          /\ r.fold = call[t].fold \cup {m}
      BY <1>c DEF Calls
    <2>2. /\ Goto(t, r) /\ UNCHANGED <<vectors, basis, handle>>
          /\ call[t].op = "ingest" /\ call[t].step = "slots"
      BY <1>8 DEF LookAtSlot, At, durables, memory
    <2> HIDE DEF r
    <2>3. Windowed(t)'
      BY <1>n, <2>1, <2>2 DEF Windowed
    <2>4. Based(m)
      BY <1>8 DEF Based, Untrained
    <2>5. r.train = {} /\ \A n \in r.fold : n \in Models /\ Based(n)
      BY <1>c, <1>f, <2>1, <2>2, <2>4 DEF Folds
    <2>6. r.step \in Plain /\ r.step \in PathOf(r.op) /\ r.op # "reindex"
      BY <2>1, <2>2 DEF Plain, Steps, PathOf
    <2> QED BY <2>2, <2>3, <2>5, <2>6, SameDrops, GoesPlainly
  <1>9. ASSUME NEW m \in Models, LookAtSlot(t, m), m \in Untrained PROVE VInv'
    <2> DEFINE r == [call[t] EXCEPT !.slots = @ \ {m}, !.slot = {m}, !.again = {m},
                       !.step = IF call[t].loaded THEN "fit" ELSE "tombstones"]
    <2>1. /\ r.op = call[t].op /\ r.step \in {"fit", "tombstones"} /\ r.train = call[t].train
          /\ r.fold = call[t].fold /\ r.slot = {m} /\ r.again = {m}
      BY <1>c DEF Calls
    <2>2. /\ Goto(t, r) /\ UNCHANGED <<vectors, basis, handle>> /\ call[t].op = "ingest"
      BY <1>9 DEF LookAtSlot, At, durables, memory
    <2> HIDE DEF r
    <2>3. call'[t] = r
      BY <1>n, <2>2
    <2>4. Drops
      BY <2>2, SameDrops
    <2>5. \A n \in Models : Based(n)' \/ Blank(n)'
      BY <2>4, DropsKeeps DEF VInv
    <2>6. Serves(t)'
      BY <1>c, <2>1, <2>2, <2>3, <2>4, DropsKeeps DEF Serves, PathOf
    <2>7. Blank(m)'
      BY <1>9, <2>4, DropsKeeps DEF VInv, Based, Untrained
    <2>8. Trains(t)'
      <3>1. r.train = {}
        BY <1>c, <2>1, <2>2 DEF Folds
      <3> QED BY <2>1, <2>2, <2>3, <2>7, <3>1 DEF Trains
    <2>9. Windowed(t)' /\ Reembeds(t)' /\ Wipes(t)'
      BY <2>1, <2>2, <2>3 DEF Windowed, Reembeds, Wipes
    <2>10. Folds(t)'
      BY <1>c, <1>f, <2>1, <2>2, <2>3, <2>4, DropsKeeps DEF Folds
    <2> QED BY <2>5, <2>6, <2>8, <2>9, <2>10, OneGoes
  <1> QED BY <1>1, <1>3, <1>4, <1>5, <1>6, <1>7, <1>8, <1>9 DEF IngestStep

\* Imports, removals and the beginnings of the other operations touch no slot,
\* or only drop vectors; a batch stores its text first.
LEMMA BatchStepServes ==
  ASSUME OneCaller, VInv, TypeOK', NEW t \in Threads, BatchStep(t)
  PROVE  VInv'
  <1>c. /\ call[t] \in Calls /\ call \in [Threads -> Calls]
        /\ Serves(t) /\ Folds(t) /\ Windowed(t)
    BY DEF VInv, TypeOK
  <1>n. \A r : Goto(t, r) => call'[t] = r
    BY <1>c DEF Goto
  <1>1. ASSUME NEW S \in NonEmpty(Sources), BeginBatch(t, S) PROVE VInv'
    <2> DEFINE r == [Idle EXCEPT !.op = "batch", !.step = "window", !.srcs = S, !.todo = S,
                             !.chunks = ChunksOf(S), !.fold = Models]
    <2>1. r.op = "batch" /\ r.step = "window" /\ r.srcs = S /\ r.todo = S /\ r.slot = {}
      BY DEF Idle
    <2>2. Goto(t, r) /\ UNCHANGED <<vectors, basis, handle>> /\ call[t].op = "idle"
      BY <1>1 DEF BeginBatch, Begin, durables, memory
    <2> HIDE DEF r
    <2>3. Windowed(t)'
      BY <1>n, <2>1, <2>2 DEF Windowed, NonEmpty, ChunksOf
    <2> QED BY <2>1, <2>2, <2>3, SameDrops, GoesPlainly DEF Plain, Steps, PathOf
  <1>2. ASSUME NEW S \in NonEmpty(Sources), BeginImport(t, S) PROVE VInv'
    <2> DEFINE r == [Idle EXCEPT !.op = "import", !.step = "shard", !.srcs = S, !.todo = S,
                             !.chunks = ChunksOf(S)]
    <2>1. r.op = "import" /\ r.step = "shard"
      BY DEF Idle
    <2>2. Goto(t, r) /\ UNCHANGED <<vectors, basis, handle>> /\ call[t].op = "idle"
      BY <1>2 DEF BeginImport, Begin, durables, memory
    <2> HIDE DEF r
    <2>3. Windowed(t)'
      BY <1>n, <2>1, <2>2 DEF Windowed
    <2> QED BY <2>1, <2>2, <2>3, SameDrops, GoesPlainly DEF Plain, Steps, PathOf
  <1>3. ASSUME NEW S \in NonEmpty(Sources), Window(t, S) PROVE VInv'
    <2> DEFINE r == [call[t] EXCEPT !.todo = @ \ S,
                             !.step = IF call[t].todo = S THEN "index" ELSE "window"]
    <2>1. /\ r.op = call[t].op /\ r.step = (IF call[t].todo = S THEN "index" ELSE "window")
          /\ r.srcs = call[t].srcs /\ r.todo = call[t].todo \ S /\ r.slot = call[t].slot
      BY <1>c DEF Calls
    <2>2. /\ Goto(t, r) /\ UNCHANGED <<vectors, basis, handle>> /\ call[t].step = "window"
          /\ rows' = Inserted(ChunksOf(S)) /\ removed' = removed \ S
      BY <1>3 DEF Window
    <2> HIDE DEF r
    <2>o. call[t].op \in {"batch", "import"}
      BY <1>c, <2>2 DEF Serves, PathOf, Calls, AllOps
    <2>3. Windowed(t)'
      <3> SUFFICES ASSUME r.op = "batch"
                   PROVE  /\ r.srcs # {} /\ r.slot = {} /\ (r.step # "window" => r.todo = {})
                          /\ \A c \in ChunksOf(r.srcs \ r.todo) :
                               rows'[c] # "absent" /\ SourceOf[c] \notin removed'
        BY <1>n, <2>1, <2>2 DEF Windowed
      <3>1. /\ call[t].srcs # {} /\ call[t].slot = {}
            /\ \A c \in ChunksOf(call[t].srcs \ call[t].todo) :
                 rows[c] # "absent" /\ SourceOf[c] \notin removed
        BY <1>c, <2>1, <2>2 DEF Windowed
      <3>2. \A c \in ChunksOf(S) : rows'[c] # "absent" /\ SourceOf[c] \notin removed'
        BY <2>2 DEF Inserted, ChunksOf
      <3>3. \A c \in Chunks : rows[c] # "absent" => rows'[c] # "absent"
        BY <2>2 DEF Inserted
      <3>4. removed' \subseteq removed
        BY <2>2
      <3>5. \A c \in ChunksOf(r.srcs \ r.todo) :
              c \in ChunksOf(S) \/ (c \in ChunksOf(call[t].srcs \ call[t].todo) /\ c \in Chunks)
        BY <2>1 DEF ChunksOf
      <3> QED BY <2>1, <3>1, <3>2, <3>3, <3>4, <3>5
    <2>4. r.step \in Plain /\ r.step \in PathOf(r.op) /\ r.op \notin {"reindex", "ingest"}
      BY <2>1, <2>o DEF Plain, Steps, PathOf
    <2> QED BY <2>1, <2>2, <2>3, <2>4, SameDrops, GoesPlainly
  <1>4. ASSUME NEW C \in NonEmpty(Chunks), IndexBatch(t, C) PROVE VInv'
    <2> DEFINE r == [call[t] EXCEPT !.chunks = @ \ C,
                             !.step = IF call[t].chunks = C THEN "boot" ELSE "index"]
    <2>1. /\ r.op = call[t].op /\ r.step \in {"boot", "index"}
          /\ r.srcs = call[t].srcs /\ r.todo = call[t].todo /\ r.slot = call[t].slot
      BY <1>c DEF Calls
    <2>2. /\ Goto(t, r) /\ UNCHANGED <<vectors, basis, handle, rows, removed>>
          /\ call[t].op = "batch" /\ call[t].step = "index"
      BY <1>4 DEF IndexBatch, At, memory
    <2> HIDE DEF r
    <2>3. Windowed(t)'
      BY <1>c, <1>n, <2>1, <2>2 DEF Windowed
    <2>4. r.step \in Plain /\ r.step \in PathOf(r.op) /\ r.op \notin {"reindex", "ingest"}
      BY <2>1, <2>2 DEF Plain, Steps, PathOf
    <2> QED BY <2>1, <2>2, <2>3, <2>4, SameDrops, GoesPlainly
  <1>5. ASSUME NEW C \in NonEmpty(Chunks), MergeShard(t, C) PROVE VInv'
    <2> DEFINE q == [call[t] EXCEPT !.chunks = @ \ C]
    <2>1. q.op = call[t].op /\ q.step = call[t].step /\ Idle.op = "idle" /\ Idle.step = "idle"
      BY <1>c DEF Calls, Idle
    <2>2. /\ Goto(t, q) \/ Goto(t, Idle)
          /\ UNCHANGED <<vectors, basis, handle>> /\ call[t].op = "import" /\ call[t].step = "index"
      BY <1>5 DEF MergeShard, At, memory, Finish
    <2> HIDE DEF q
    <2>3. PICK r \in {q, Idle} : Goto(t, r)
      BY <2>2
    <2>4. /\ r.step \in Plain /\ r.step \in PathOf(r.op) /\ r.op \in {"import", "idle"}
      BY <2>1, <2>2, <2>3 DEF Plain, Steps, PathOf
    <2>5. Windowed(t)'
      BY <1>n, <2>3, <2>4 DEF Windowed
    <2> QED BY <2>2, <2>3, <2>4, <2>5, SameDrops, GoesPlainly
  <1>6. CASE WriteShards(t)
    <2> DEFINE r == [call[t] EXCEPT !.step = "window"]
    <2>1. r.op = call[t].op /\ r.step = "window"
      BY <1>c DEF Calls
    <2>2. Goto(t, r) /\ UNCHANGED <<vectors, basis, handle>> /\ call[t].op = "import"
      BY <1>6 DEF WriteShards, At, durables, memory
    <2> HIDE DEF r
    <2>3. Windowed(t)'
      BY <1>n, <2>1, <2>2 DEF Windowed
    <2>4. r.step \in Plain /\ r.step \in PathOf(r.op)
      BY <2>1, <2>2 DEF Plain, Steps, PathOf
    <2> QED BY <2>1, <2>2, <2>3, <2>4, SameDrops, GoesPlainly
  <1>7. CASE Bootstrap(t)
    <2>s. /\ UNCHANGED <<vectors, basis, handle>> /\ call[t].op = "batch" /\ Drops
      BY <1>7, SameDrops DEF Bootstrap, At, durables, memory
    <2>m. \A n \in Models : Based(n)' \/ Blank(n)'
      BY <2>s, DropsKeeps DEF VInv
    <2>2. CASE Goto(t, [call[t] EXCEPT !.step = "embed"]) /\ Untrained = {}
      <3> DEFINE r == [call[t] EXCEPT !.step = "embed"]
      <3>1. r.op = "batch" /\ r.step = "embed" /\ r.fold = call[t].fold
        BY <1>c, <2>s DEF Calls
      <3>2. call'[t] = r
        BY <1>n, <2>2
      <3> HIDE DEF r
      <3>3. Serves(t)'
        BY <1>c, <2>s, <3>1, <3>2, DropsKeeps DEF Serves, PathOf
      <3>4. Windowed(t)' /\ Trains(t)' /\ Reembeds(t)' /\ Wipes(t)'
        BY <3>1, <3>2 DEF Windowed, Trains, Reembeds, Wipes
      <3>5. \A m \in call[t].fold : m \in Models /\ Based(m)
        BY <1>c, <2>2 DEF Calls, Untrained, Based
      <3>6. Folds(t)'
        BY <2>s, <3>1, <3>2, <3>5, DropsKeeps DEF Folds
      <3> QED BY <2>m, <3>3, <3>4, <3>6, OneGoes
    <2>3. CASE Goto(t, [call[t] EXCEPT !.step = "tombstones", !.train = Trainable])
      <3> DEFINE r == [call[t] EXCEPT !.step = "tombstones", !.train = Trainable]
      <3>1. /\ r.op = "batch" /\ r.step = "tombstones" /\ r.train = Trainable
            /\ r.slot = call[t].slot /\ r.srcs = call[t].srcs /\ r.todo = call[t].todo
        BY <1>c, <2>s DEF Calls
      <3>2. call'[t] = r
        BY <1>n, <2>3
      <3> HIDE DEF r
      <3>3. Serves(t)'
        BY <1>c, <2>s, <3>1, <3>2, DropsKeeps DEF Serves, PathOf
      <3>4. Reembeds(t)' /\ Wipes(t)' /\ Folds(t)'
        BY <3>1, <3>2 DEF Reembeds, Wipes, Folds
      <3>5. call[t].slot = {}
        BY <1>7, <1>c DEF Bootstrap, At, Windowed
      <3>6. Trains(t)'
        BY <3>1, <3>2, <3>5 DEF Trains, Based
      <3>7. Windowed(t)'
        BY <1>7, <1>c, <3>1, <3>2 DEF Bootstrap, At, Windowed, durables
      <3> QED BY <2>m, <3>3, <3>4, <3>6, <3>7, OneGoes
    <2> QED BY <1>7, <2>2, <2>3 DEF Bootstrap
  <1> QED BY <1>1, <1>2, <1>3, <1>4, <1>5, <1>6, <1>7 DEF BatchStep

\* Training, re-embedding and folding in: a new basis serves where there is no
\* vector yet or a reindex will replace them; what is written is of the basis
\* that serves.
LEMMA EmbedStepServes ==
  ASSUME OneCaller, VInv, TypeOK', NEW t \in Threads, EmbedStep(t)
  PROVE  VInv'
  <1>c. /\ call[t] \in Calls /\ call \in [Threads -> Calls]
        /\ Serves(t) /\ Windowed(t) /\ Trains(t) /\ Reembeds(t) /\ Folds(t) /\ Wipes(t)
        /\ vectors \in [Models -> [Chunks -> Vectors]]
        /\ handle \in [Models -> Gens] /\ basis \in [Models -> Gens]
        /\ \A m \in Models : Based(m) \/ Blank(m)
    BY DEF VInv, TypeOK
  <1>n. \A r : Goto(t, r) => call'[t] = r
    BY <1>c DEF Goto
  <1>s. /\ call[t].slot \in SUBSET Models /\ call[t].again \in SUBSET Models
        /\ call[t].fold \in SUBSET Models /\ call[t].train \in SUBSET Models
        /\ call[t].gens \in [Models -> Gens] /\ call[t].op \in AllOps \cup {"idle"}
    BY <1>c DEF Calls
  <1>p. /\ call[t].step \in {"tombstones", "load"} => call[t].op \in {"ingest", "batch", "reindex"}
        /\ call[t].step \in {"train"} => call[t].op \in {"batch", "reindex"}
        /\ call[t].step \in {"fit", "upsert"} => call[t].op \in {"ingest", "batch", "reindex"}
        /\ call[t].step \in {"reembed", "replace"} => call[t].op \in {"ingest", "reindex"}
        /\ call[t].step \in {"embed", "add"} => call[t].op \in {"ingest", "batch"}
        /\ call[t].step = "persist" => call[t].op \in {"ingest", "batch", "reindex"}
    BY <1>c, <1>s DEF Serves, PathOf, AllOps
  <1>1. ASSUME NEW m \in Models, ChooseSlot(t, m) PROVE VInv'
    <2> DEFINE r == [call[t] EXCEPT !.train = @ \ {m},
                       !.slot = IF Already(t, m) THEN {} ELSE {m},
                       !.step = IF ~Already(t, m) THEN "fit"
                                ELSE IF call[t].train = {m} THEN AfterTrain(t) ELSE "train"]
    <2>1. /\ r.op = call[t].op /\ r.train = call[t].train \ {m} /\ r.again = call[t].again
          /\ r.fold = call[t].fold
          /\ r.slot = (IF Already(t, m) THEN {} ELSE {m})
          /\ r.step = (IF ~Already(t, m) THEN "fit"
                       ELSE IF call[t].train = {m} THEN AfterTrain(t) ELSE "train")
      BY <1>c DEF Calls
    <2>2. /\ Goto(t, r) /\ UNCHANGED <<vectors, basis, handle>>
          /\ call[t].step = "train" /\ m \in call[t].train
      BY <1>1 DEF ChooseSlot, durables, memory
    <2> HIDE DEF r
    <2>3. call'[t] = r /\ call[t].op \in {"batch", "reindex"}
      BY <1>n, <1>p, <2>2
    <2>4. Drops
      BY <2>2, SameDrops
    <2>5. \A n \in Models : Based(n)' \/ Blank(n)'
      BY <1>c, <2>4, DropsKeeps
    <2>6. Serves(t)'
      <3>1. r.step \in PathOf(r.op)
        BY <2>1, <2>3 DEF PathOf, AfterTrain, Already
      <3>2. call[t].slot = {}
        BY <1>c, <2>2 DEF Trains
      <3> QED BY <1>c, <2>1, <2>3, <2>4, <3>1, <3>2, DropsKeeps DEF Serves
    <2>7. \A n \in Models : Based(n) \/ n \in r.train \cup r.slot
      <3>1. \A n \in Models : Based(n) \/ n \in call[t].train
        BY <1>c, <2>2, <2>3 DEF Trains
      <3>2. Already(t, m) => Based(m)
        BY DEF Already, Based
      <3> QED BY <2>1, <3>1, <3>2
    <2>8. Trains(t)'
      <3>1. r.op # "reindex" => \A n \in r.slot : Blank(n)
        <4>1. m \in Trainable
          BY <1>c, <2>2 DEF Trains
        <4>2. ASSUME ~Already(t, m), call[t].op = "batch" PROVE Blank(m)
          BY <1>c, <4>1, <4>2 DEF Already, Based
        <4> QED BY <2>1, <2>3, <4>2
      <3>2. r.op = "reindex" => r.again = Models
        BY <1>c, <2>1, <2>2 DEF Trains
      <3>3. /\ r.slot \subseteq Models /\ r.step \notin {"upsert", "tombstones", "load"}
            /\ r.step = "train" => r.slot = {}
        BY <2>1 DEF AfterTrain
      <3>4. \A k, n \in r.slot : k = n
        BY <2>1
      <3>5. \A n \in Models : (Blank(n) => Blank(n)') /\ (Based(n)' <=> Based(n))
        BY <2>4, DropsKeeps
      <3>6. r.op # "ingest" /\ r.train \subseteq Trainable
        BY <1>c, <2>1, <2>2, <2>3 DEF Trains
      <3> QED BY <2>3, <2>7, <3>1, <3>2, <3>3, <3>4, <3>5, <3>6 DEF Trains
    <2>9. r.step \in {"embed", "reembed"} => r.slot = {} /\ \A n \in Models : Based(n)
      BY <2>1, <2>7 DEF AfterTrain
    <2>10. Reembeds(t)' /\ Folds(t)'
      <3>1. r.again \subseteq Models /\ r.fold \subseteq Models /\ r.op # "ingest"
        BY <1>s, <2>1, <2>3
      <3>2. r.step \in {"fit", "embed", "reembed", "train"}
        BY <2>1 DEF AfterTrain
      <3>3. \A n \in Models : Based(n)' <=> Based(n)
        BY <2>4, DropsKeeps
      <3> QED BY <2>3, <2>9, <3>1, <3>2, <3>3 DEF Reembeds, Folds
    <2>11. Windowed(t)' /\ Wipes(t)'
      BY <2>1, <2>3 DEF Windowed, Wipes, AfterTrain
    <2> QED BY <2>5, <2>6, <2>8, <2>10, <2>11, OneGoes
  <1>2. ASSUME NEW m \in Models, Train(t, m) PROVE VInv'
    <2>0. PICK g \in FreshGens(m) :
            /\ handle' = [handle EXCEPT ![m] = g]
            /\ Goto(t, [call[t] EXCEPT !.step = "upsert",
                              !.gens = [call[t].gens EXCEPT ![m] = g]])
      BY <1>2 DEF Train
    <2> DEFINE r == [call[t] EXCEPT !.step = "upsert",
                       !.gens = [call[t].gens EXCEPT ![m] = g]]
    <2>1. /\ r.op = call[t].op /\ r.step = "upsert" /\ r.train = call[t].train
          /\ r.again = call[t].again /\ r.fold = call[t].fold /\ r.slot = call[t].slot
          /\ r.gens = [call[t].gens EXCEPT ![m] = g]
      BY <1>c DEF Calls
    <2>2. /\ Goto(t, r) /\ UNCHANGED <<vectors, basis>> /\ call[t].step = "fit" /\ m \in call[t].slot
      BY <1>2, <2>0 DEF Train, durables
    <2> HIDE DEF r
    <2>3. /\ call'[t] = r /\ call[t].op \in {"ingest", "batch", "reindex"}
          /\ g # 0 /\ r.gens[m] = g /\ handle'[m] = g
      BY <1>c, <1>n, <1>p, <1>s, <2>0, <2>1, <2>2 DEF FreshGens, LiveGens
    <2>4. \A n \in Models : (Blank(n)' <=> Blank(n)) /\ (Based(n)' <=> Based(n))
      BY <2>2 DEF Blank, Based
    <2>5. \A n \in Models : n # m /\ Matches(n) => Matches(n)'
      BY <1>c, <2>0, <2>2 DEF Matches
    <2>6. Blank(m) => Matches(m)'
      BY <2>2 DEF Blank, Matches, NoVector
    <2>7. Serves(t)'
      <3>1. r.step \in PathOf(r.op)
        BY <2>1, <2>3 DEF PathOf
      <3>2. call[t].op # "reindex" => Blank(m)
        BY <1>c, <2>2 DEF Trains
      <3>3. \A n \in Models : \/ Matches(n)'
                              \/ r.op = "reindex" /\ n \in r.again \cup r.slot
        BY <1>c, <2>1, <2>2, <2>5, <2>6, <3>2 DEF Serves
      <3> QED BY <2>3, <3>1, <3>3 DEF Serves
    <2>8. Trains(t)'
      <3>1. \A k, n \in call[t].slot : k = n
        BY <1>c, <2>2 DEF Trains
      <3>2. /\ r.train \subseteq Trainable
            /\ r.op # "reindex" => \A n \in r.slot : Blank(n)'
            /\ r.op = "reindex" => r.again = Models
            /\ r.op = "ingest" => r.again \subseteq r.slot
            /\ r.op # "ingest" => \A n \in Models : Based(n)' \/ n \in r.train \cup r.slot
        BY <1>c, <1>s, <2>1, <2>2, <2>4 DEF Trains
      <3>3. \A n \in r.slot : r.gens[n] # 0 /\ r.gens[n] = handle'[n]
        BY <2>1, <2>2, <2>3, <3>1
      <3> QED BY <2>1, <2>3, <3>1, <3>2, <3>3 DEF Trains
    <2>9. Windowed(t)' /\ Reembeds(t)' /\ Wipes(t)'
      BY <2>1, <2>3 DEF Windowed, Reembeds, Wipes
    <2>10. Folds(t)'
      BY <1>c, <1>s, <2>1, <2>3, <2>4 DEF Folds
    <2> QED BY <1>c, <2>4, <2>7, <2>8, <2>9, <2>10, OneGoes
  <1>3. ASSUME NEW m \in Models, UpsertBasis(t, m) PROVE VInv'
    <2> DEFINE r == [call[t] EXCEPT !.slot = {},
                       !.step = IF call[t].train = {} THEN AfterTrain(t) ELSE "train"]
    <2>1. /\ r.op = call[t].op /\ r.train = call[t].train /\ r.again = call[t].again
          /\ r.fold = call[t].fold /\ r.slot = {}
          /\ r.step = (IF call[t].train = {} THEN AfterTrain(t) ELSE "train")
      BY <1>c DEF Calls
    <2>2. /\ Goto(t, r) /\ UNCHANGED <<vectors, handle>>
          /\ basis' = [basis EXCEPT ![m] = call[t].gens[m]]
          /\ call[t].step = "upsert" /\ m \in call[t].slot
      BY <1>3 DEF UpsertBasis, memory
    <2> HIDE DEF r
    <2>3. /\ call'[t] = r /\ call[t].op \in {"ingest", "batch", "reindex"}
          /\ call[t].slot = {m} /\ call[t].gens[m] # 0
      BY <1>c, <1>n, <1>p, <2>2 DEF Trains
    <2>4. /\ Based(m)'
          /\ \A n \in Models : (Based(n) => Based(n)') /\ (Blank(n)' <=> Blank(n))
                               /\ (Matches(n)' <=> Matches(n))
      BY <1>c, <2>2, <2>3 DEF Based, Blank, Matches
    <2>5. \A n \in Models : Based(n)' \/ Blank(n)'
      BY <1>c, <2>4
    <2>6. Serves(t)'
      <3>1. r.step \in PathOf(r.op)
        <4>1. call[t].op = "ingest" => call[t].train = {}
          BY <1>c DEF Folds
        <4> QED BY <2>1, <2>3, <4>1 DEF PathOf, AfterTrain
      <3>2. call[t].op = "reindex" => call[t].again = Models
        BY <1>c, <2>2 DEF Trains
      <3> QED BY <1>c, <2>1, <2>3, <2>4, <3>1, <3>2 DEF Serves
    <2>7. call[t].op # "ingest" => \A n \in Models : Based(n)' \/ n \in call[t].train
      BY <1>c, <2>2, <2>3, <2>4 DEF Trains
    <2>8. Trains(t)'
      <3>1. /\ r.op = "reindex" => r.again = Models
            /\ r.step \in {"train", "embed", "reembed"} /\ r.train \subseteq Trainable
        BY <1>c, <2>1, <2>2 DEF Trains, AfterTrain
      <3>2. r.step = "train" => r.op # "ingest"
        BY <1>c, <2>1, <2>3 DEF Folds, AfterTrain
      <3> QED BY <2>1, <2>3, <2>7, <3>1, <3>2 DEF Trains
    <2>9. Reembeds(t)'
      <3>1. CASE r.step = "reembed"
        <4>1. \A n \in r.again : Based(n)'
          <5>1. CASE call[t].op = "ingest"
            BY <1>c, <1>s, <2>1, <2>2, <2>3, <2>4, <5>1 DEF Trains
          <5>2. CASE call[t].op # "ingest"
            BY <1>s, <2>1, <2>7, <3>1, <5>2
          <5> QED BY <5>1, <5>2
        <4> QED BY <2>1, <2>3, <3>1, <4>1 DEF Reembeds
      <3>2. CASE r.step # "reembed"
        BY <2>1, <2>3, <3>2 DEF Reembeds, AfterTrain
      <3> QED BY <3>1, <3>2
    <2>10. Folds(t)'
      <3>1. r.op = "ingest" => r.train = {} /\ \A n \in r.fold : Based(n)'
        BY <1>c, <1>s, <2>1, <2>4 DEF Folds
      <3>2. r.step # "add" /\ (r.step = "embed" => \A n \in r.fold : Based(n)')
        BY <1>s, <2>1, <2>7 DEF AfterTrain
      <3> QED BY <2>3, <3>1, <3>2 DEF Folds
    <2>11. Windowed(t)' /\ Wipes(t)'
      BY <2>1, <2>3 DEF Windowed, Wipes, AfterTrain
    <2> QED BY <2>5, <2>6, <2>8, <2>9, <2>10, <2>11, OneGoes
  <1>4. ASSUME NEW m \in Models, Reembed(t, m) PROVE VInv'
    <2> DEFINE r == [call[t] EXCEPT !.again = @ \ {m}, !.slot = {m}, !.step = "replace",
                       !.gens = [call[t].gens EXCEPT ![m] = handle[m]]]
    <2>1. /\ r.op = call[t].op /\ r.train = call[t].train /\ r.again = call[t].again \ {m}
          /\ r.fold = call[t].fold /\ r.slot = {m} /\ r.step = "replace"
          /\ r.gens = [call[t].gens EXCEPT ![m] = handle[m]]
      BY <1>c DEF Calls
    <2>2. /\ Goto(t, r) /\ UNCHANGED <<vectors, basis, handle>>
          /\ call[t].step = "reembed" /\ m \in call[t].again
      BY <1>4 DEF Reembed, durables, memory
    <2> HIDE DEF r
    <2>3. /\ call'[t] = r /\ call[t].op \in {"ingest", "reindex"} /\ r.gens[m] = handle'[m]
      BY <1>n, <1>p, <1>s, <2>1, <2>2
    <2>4. Drops
      BY <2>2, SameDrops
    <2>5. \A n \in Models : Based(n)' \/ Blank(n)'
      BY <1>c, <2>4, DropsKeeps
    <2>6. Serves(t)'
      <3>1. r.step \in PathOf(r.op)
        BY <2>1, <2>3 DEF PathOf
      <3>2. call[t].slot = {} /\ call[t].again \subseteq r.again \cup r.slot
        BY <1>c, <2>1, <2>2 DEF Reembeds
      <3> QED BY <1>c, <2>1, <2>3, <2>4, <3>1, <3>2, DropsKeeps DEF Serves
    <2>7. Reembeds(t)'
      <3>1. \A n \in call[t].again : n \in Models /\ Based(n)
        BY <1>c, <1>s, <2>2 DEF Reembeds
      <3>2. \A n \in r.again \cup r.slot : Based(n)'
        BY <2>1, <2>2, <2>4, <3>1, DropsKeeps
      <3> QED BY <2>1, <2>3, <3>2 DEF Reembeds
    <2>8. Folds(t)'
      BY <1>c, <1>s, <2>1, <2>3, <2>4, DropsKeeps DEF Folds
    <2>9. Windowed(t)' /\ Trains(t)' /\ Wipes(t)'
      BY <2>1, <2>3 DEF Windowed, Trains, Wipes
    <2> QED BY <2>5, <2>6, <2>7, <2>8, <2>9, OneGoes
  <1>5. ASSUME NEW m \in Models, ReplaceVectors(t, m) PROVE VInv'
    <2> DEFINE r == [call[t] EXCEPT !.slot = {},
                       !.step = IF call[t].again = {} THEN AfterReembed(t) ELSE "reembed"]
    <2>1. /\ r.op = call[t].op /\ r.train = call[t].train /\ r.again = call[t].again
          /\ r.fold = call[t].fold /\ r.slot = {}
          /\ r.step = (IF call[t].again = {} THEN AfterReembed(t) ELSE "reembed")
      BY <1>c DEF Calls
    <2>2. /\ Goto(t, r) /\ UNCHANGED <<basis, handle>>
          /\ vectors' = [vectors EXCEPT ![m] = Reembedded(t, m)]
          /\ call[t].step = "replace" /\ m \in call[t].slot
      BY <1>5 DEF ReplaceVectors, memory
    <2> HIDE DEF r
    <2>3. /\ call'[t] = r /\ call[t].op \in {"ingest", "reindex"}
          /\ call[t].slot = {m} /\ call[t].gens[m] = handle[m] /\ Based(m)
      BY <1>c, <1>n, <1>p, <2>2 DEF Reembeds
    <2>4. /\ Matches(m)' /\ \A n \in Models : Based(n)' <=> Based(n)
          /\ \A n \in Models : n # m => (Blank(n)' <=> Blank(n)) /\ (Matches(n)' <=> Matches(n))
      <3>1. \A c \in Chunks : vectors'[m][c].from # "none" => vectors'[m][c].gen = call[t].gens[m]
        BY <1>c, <2>2 DEF Reembedded, NoVector
      <3>2. Matches(m)'
        BY <2>2, <2>3, <3>1 DEF Matches
      <3>3. \A n \in Models : n # m => vectors'[n] = vectors[n]
        BY <1>c, <2>2
      <3> QED BY <2>2, <3>2, <3>3 DEF Matches, Blank, Based
    <2>5. \A n \in Models : Based(n)' \/ Blank(n)'
      BY <1>c, <2>3, <2>4
    <2>6. Serves(t)'
      <3>1. r.step \in PathOf(r.op)
        BY <2>1, <2>3 DEF PathOf, AfterReembed
      <3> QED BY <1>c, <2>1, <2>3, <2>4, <3>1 DEF Serves
    <2>7. Reembeds(t)'
      <3>1. \A n \in r.again : Based(n)'
        BY <1>c, <1>s, <2>1, <2>2, <2>4 DEF Reembeds
      <3>2. r.step = "persist" => r.again = {}
        BY <2>1
      <3>3. r.step # "replace"
        BY <2>1 DEF AfterReembed
      <3> QED BY <2>1, <2>3, <3>1, <3>2, <3>3 DEF Reembeds
    <2>8. Folds(t)'
      <3>1. r.step \notin {"embed", "add"}
        BY <2>1 DEF AfterReembed
      <3> QED BY <1>c, <1>s, <2>1, <2>3, <2>4, <3>1 DEF Folds
    <2>9. Windowed(t)' /\ Trains(t)' /\ Wipes(t)'
      BY <2>1, <2>3 DEF Windowed, Trains, Wipes, AfterReembed
    <2> QED BY <2>5, <2>6, <2>7, <2>8, <2>9, OneGoes
  <1>6. CASE Embed(t)
    <2> DEFINE g == [m \in Models |-> IF m \in call[t].fold THEN handle[m] ELSE 0]
               r == [call[t] EXCEPT !.step = "add", !.cur = ChunksOf(call[t].srcs), !.gens = g]
    <2>1. /\ r.op = call[t].op /\ r.step = "add" /\ r.train = call[t].train
          /\ r.fold = call[t].fold /\ r.gens = g
      BY <1>c DEF Calls
    <2>2. Goto(t, r) /\ UNCHANGED <<vectors, basis, handle>> /\ call[t].step = "embed"
      BY <1>6 DEF Embed, durables, memory
    <2>3. \A m \in call[t].fold : g[m] = handle[m]
      BY <1>s
    <2> HIDE DEF r, g
    <2>4. call'[t] = r /\ call[t].op \in {"ingest", "batch"}
      BY <1>n, <1>p, <2>2
    <2>5. Drops
      BY <2>2, SameDrops
    <2>6. \A n \in Models : Based(n)' \/ Blank(n)'
      BY <1>c, <2>5, DropsKeeps
    <2>7. Serves(t)'
      BY <1>c, <2>1, <2>4, <2>5, DropsKeeps DEF Serves, PathOf
    <2>8. Folds(t)'
      <3>1. \A m \in r.fold : Based(m)' /\ r.gens[m] = handle'[m]
        BY <1>c, <1>s, <2>1, <2>2, <2>3, <2>5, DropsKeeps DEF Folds
      <3> QED BY <1>c, <2>1, <2>4, <3>1 DEF Folds
    <2>9. Windowed(t)' /\ Trains(t)' /\ Reembeds(t)' /\ Wipes(t)'
      BY <2>1, <2>4 DEF Windowed, Trains, Reembeds, Wipes
    <2> QED BY <2>6, <2>7, <2>8, <2>9, OneGoes
  <1>7. ASSUME NEW C \in NonEmpty(Chunks), AddPayloads(t, C) PROVE VInv'
    <2> DEFINE r == [call[t] EXCEPT !.cur = @ \ C,
                             !.step = IF call[t].cur = C THEN "persist" ELSE "add"]
    <2>1. /\ r.op = call[t].op /\ r.step \in {"persist", "add"} /\ r.train = call[t].train
          /\ r.fold = call[t].fold /\ r.gens = call[t].gens
      BY <1>c DEF Calls
    <2>2. /\ Goto(t, r) /\ UNCHANGED <<basis, handle>> /\ call[t].step = "add"
          /\ vectors' = WithPayloads(t, C, call[t].fold)
      BY <1>7 DEF AddPayloads, memory
    <2> HIDE DEF r
    <2>3. /\ call'[t] = r /\ call[t].op \in {"ingest", "batch"}
          /\ \A m \in call[t].fold : m \in Models /\ Based(m) /\ call[t].gens[m] = handle[m]
      BY <1>c, <1>n, <1>p, <1>s, <2>2 DEF Folds
    <2>4. \A m \in Models : /\ Based(m)' <=> Based(m)
                            /\ Matches(m) => Matches(m)'
                            /\ m \notin call[t].fold /\ Blank(m) => Blank(m)'
      <3>1. \A m \in Models, c \in Chunks :
              vectors'[m][c] = IF m \in call[t].fold /\ c \in C
                               THEN [from |-> "text", gen |-> call[t].gens[m]] ELSE vectors[m][c]
        BY <2>2 DEF WithPayloads
      <3>2. ASSUME NEW m \in Models, Matches(m), NEW c \in Chunks, vectors'[m][c].from # "none"
            PROVE  vectors'[m][c].gen = handle'[m]
        <4>1. CASE m \in call[t].fold /\ c \in C
          <5>1. vectors'[m][c] = [from |-> "text", gen |-> call[t].gens[m]]
            BY <3>1, <4>1
          <5>2. vectors'[m][c].gen = call[t].gens[m]
            BY <5>1
          <5> QED BY <2>2, <2>3, <4>1, <5>2
        <4>2. CASE ~(m \in call[t].fold /\ c \in C)
          BY <2>2, <3>1, <3>2, <4>2 DEF Matches
        <4> QED BY <4>1, <4>2
      <3>3. \A m \in Models : Matches(m) => Matches(m)'
        BY <3>2 DEF Matches
      <3>4. \A m \in Models : m \notin call[t].fold /\ Blank(m) => Blank(m)'
        BY <3>1 DEF Blank
      <3>5. \A m \in Models : Based(m)' <=> Based(m)
        BY <2>2 DEF Based
      <3> QED BY <3>3, <3>4, <3>5
    <2>5. \A m \in Models : Based(m)' \/ Blank(m)'
      BY <1>c, <2>3, <2>4
    <2>6. Serves(t)'
      BY <1>c, <2>1, <2>3, <2>4 DEF Serves, PathOf
    <2>7. Folds(t)'
      BY <1>c, <2>1, <2>2, <2>3, <2>4 DEF Folds
    <2>8. Windowed(t)' /\ Trains(t)' /\ Reembeds(t)' /\ Wipes(t)'
      BY <2>1, <2>3 DEF Windowed, Trains, Reembeds, Wipes
    <2> QED BY <2>5, <2>6, <2>7, <2>8, OneGoes
  <1>8. CASE Persist(t)
    <2>1. Goto(t, Idle) /\ UNCHANGED <<vectors, basis, handle>> /\ call[t].step = "persist"
      BY <1>8 DEF Persist, Finish, memory
    <2>2. call'[t] = Idle /\ Idle.op = "idle" /\ Idle.step = "idle" /\ Drops
      BY <1>n, <2>1, SameDrops DEF Idle
    <2>3. \A n \in Models : Based(n)' \/ Blank(n)'
      BY <1>c, <2>2, DropsKeeps
    <2>4. Serves(t)'
      <3>1. \A m \in Models : Matches(m)
        BY <1>c, <2>1 DEF Serves, Reembeds
      <3> QED BY <2>2, <3>1, DropsKeeps DEF Serves, PathOf
    <2>5. Windowed(t)' /\ Trains(t)' /\ Reembeds(t)' /\ Folds(t)' /\ Wipes(t)'
      BY <2>2 DEF Windowed, Trains, Reembeds, Folds, Wipes
    <2> QED BY <2>3, <2>4, <2>5, OneGoes
  <1>9. CASE ReadTombstones(t)
    <2> DEFINE r == [call[t] EXCEPT !.gone = removed, !.step = "load"]
    <2>1. /\ r.op = call[t].op /\ r.step = "load" /\ r.gone = removed /\ r.srcs = call[t].srcs
          /\ r.todo = call[t].todo /\ r.train = call[t].train /\ r.again = call[t].again
          /\ r.fold = call[t].fold /\ r.slot = call[t].slot
      BY <1>c DEF Calls, TypeOK
    <2>2. /\ Goto(t, r) /\ UNCHANGED <<vectors, basis, handle, rows, removed>>
          /\ call[t].step = "tombstones"
      BY <1>9 DEF ReadTombstones, durables, memory
    <2> HIDE DEF r
    <2>3. call'[t] = r /\ Drops /\ call[t].op \in {"ingest", "batch", "reindex"}
      BY <1>n, <1>p, <2>2, SameDrops
    <2>4. \A n \in Models : Based(n)' \/ Blank(n)'
      BY <1>c, <2>3, DropsKeeps
    <2>5. Serves(t)'
      BY <1>c, <2>1, <2>3, DropsKeeps DEF Serves, PathOf
    <2>6. Windowed(t)'
      BY <1>c, <2>1, <2>2, <2>3 DEF Windowed
    <2>7. Trains(t)'
      BY <1>c, <1>s, <2>1, <2>2, <2>3, DropsKeeps DEF Trains
    <2>8. Reembeds(t)' /\ Folds(t)' /\ Wipes(t)'
      BY <1>c, <1>s, <2>1, <2>3, DropsKeeps DEF Reembeds, Folds, Wipes
    <2> QED BY <2>4, <2>5, <2>6, <2>7, <2>8, OneGoes
  <1>10. CASE LoadActive(t)
    <2> DEFINE r == [call[t] EXCEPT !.snap = Without(call[t].gone), !.loaded = TRUE,
                                    !.step = AfterLoad(t)]
    <2>1. /\ r.op = call[t].op /\ r.step = AfterLoad(t)
          /\ r.train = call[t].train /\ r.again = call[t].again
          /\ r.fold = call[t].fold /\ r.slot = call[t].slot
      BY <1>c DEF Calls
    <2>2. /\ Goto(t, r) /\ UNCHANGED <<vectors, basis, handle>> /\ call[t].step = "load"
      BY <1>10 DEF LoadActive, durables, memory
    <2> HIDE DEF r
    <2>3. call'[t] = r /\ Drops /\ call[t].op \in {"ingest", "batch", "reindex"}
      BY <1>n, <1>p, <2>2, SameDrops
    <2>a. call[t].op = "batch" => Without(call[t].gone) # NoChunks
      <3> SUFFICES ASSUME call[t].op = "batch" PROVE Without(call[t].gone) # NoChunks
        OBVIOUS
      <3>1. /\ call[t].srcs # {} /\ call[t].todo = {} /\ call[t].srcs \in SUBSET Sources
            /\ call[t].gone = removed
            /\ \A c \in ChunksOf(call[t].srcs \ call[t].todo) :
                 rows[c] # "absent" /\ SourceOf[c] \notin removed
        BY <1>c, <2>2 DEF Windowed, Calls
      <3>2. PICK s \in Sources : s \in call[t].srcs
        BY <3>1
      <3>3. PICK c \in Chunks : SourceOf[c] = s
        BY CorpusAssumption
      <3>4. Without(call[t].gone)[c] # "absent" /\ NoChunks[c] = "absent"
        BY <3>1, <3>2, <3>3 DEF ChunksOf, Without, NoChunks
      <3> QED BY <3>4
    <2>b. /\ call[t].op = "ingest" => r.step = "fit"
          /\ call[t].op = "batch" => r.step = "train"
          /\ call[t].op = "reindex" => r.step = IF Trainable = {} THEN "reembed" ELSE "train"
      BY <2>1, <2>a DEF AfterLoad, NothingToTrain, AfterTrain
    <2>4. \A n \in Models : Based(n)' \/ Blank(n)'
      BY <1>c, <2>3, DropsKeeps
    <2>5. Serves(t)'
      BY <1>c, <2>1, <2>3, <2>b, DropsKeeps DEF Serves, PathOf
    <2>6. Trains(t)'
      BY <1>c, <1>s, <2>1, <2>2, <2>3, <2>b, DropsKeeps DEF Trains
    <2>7. Reembeds(t)'
      <3>1. r.step = "reembed" => Trainable = {} /\ call[t].slot = {}
        BY <1>c, <2>2, <2>3, <2>b DEF Trains
      <3> QED BY <1>s, <2>1, <2>3, <2>b, <3>1 DEF Reembeds, Based
    <2>8. Windowed(t)' /\ Folds(t)' /\ Wipes(t)'
      BY <1>c, <1>s, <2>1, <2>3, <2>b, DropsKeeps DEF Windowed, Folds, Wipes
    <2> QED BY <2>4, <2>5, <2>6, <2>7, <2>8, OneGoes
  <1> QED BY <1>1, <1>2, <1>3, <1>4, <1>5, <1>6, <1>7, <1>8, <1>9, <1>10 DEF EmbedStep

\* remove and expunge only drop vectors.
LEMMA RemoveStepServes ==
  ASSUME OneCaller, VInv, TypeOK', NEW t \in Threads, RemoveStep(t)
  PROVE  VInv'
  <1>c. /\ call[t] \in Calls /\ call \in [Threads -> Calls] /\ Serves(t)
        /\ call[t].op \in AllOps \cup {"idle"} /\ vectors \in [Models -> [Chunks -> Vectors]]
    BY DEF VInv, TypeOK, Calls
  <1>n. \A r : Goto(t, r) => call'[t] = r
    BY <1>c DEF Goto
  <1>1. ASSUME NEW r, Goto(t, r), Drops, call[t].op \in {"idle", "remove", "expunge"},
               \/ r.op \in {"remove", "expunge"} /\ r.step \in {"unindex", "unvector", "forget", "mark"}
               \/ r.op = "expunge" /\ r.step = "scrub"
               \/ r.op = "idle" /\ r.step = "idle"
        PROVE  VInv'
    <2>1. /\ r.op \notin {"reindex", "ingest"} /\ call[t].op # "reindex"
          /\ r.step \in Plain /\ r.step \in PathOf(r.op)
      BY <1>1 DEF Plain, Steps, PathOf
    <2>2. Windowed(t)'
      BY <1>1, <1>n DEF Windowed
    <2> QED BY <1>1, <2>1, <2>2, GoesPlainly
  <1>2. call[t].step \in {"unindex", "unvector", "forget", "mark"} => call[t].op \in {"remove", "expunge"}
    BY <1>c DEF Serves, PathOf, AllOps
  <1>3. ASSUME NEW s \in Sources, BeginRemove(t, s) PROVE VInv'
    <2> DEFINE stored == {c \in ChunksOf({s}) : rows[c] # "absent"}
               r == [Idle EXCEPT !.op = "remove", !.srcs = {s}, !.chunks = stored,
                                 !.step = IF stored = {} THEN "forget" ELSE "unindex"]
    <2>1. Goto(t, r) /\ UNCHANGED <<vectors, basis, handle>> /\ call[t].op = "idle"
      BY <1>3 DEF BeginRemove, Begin, durables, memory
    <2> HIDE DEF stored
    <2>2. r.op = "remove" /\ r.step \in {"forget", "unindex"}
      BY DEF Idle
    <2> HIDE DEF r
    <2> QED BY <1>1, <2>1, <2>2, SameDrops
  <1>4. ASSUME NEW s \in Sources, BeginExpunge(t, s) PROVE VInv'
    <2> DEFINE r == [Idle EXCEPT !.op = "expunge", !.step = "scrub", !.srcs = {s}]
    <2>1. r.op = "expunge" /\ r.step = "scrub"
      BY DEF Idle
    <2>2. Goto(t, r) /\ UNCHANGED <<vectors, basis, handle>> /\ call[t].op = "idle"
      BY <1>4 DEF BeginExpunge, Begin, durables, memory
    <2> HIDE DEF r
    <2> QED BY <1>1, <2>1, <2>2, SameDrops
  <1>5. CASE ScrubText(t)
    <2> DEFINE stored == {c \in ChunksOf(call[t].srcs) : rows[c] # "absent"}
               r == [call[t] EXCEPT !.chunks = stored,
                                    !.step = IF stored = {} THEN "forget" ELSE "unindex"]
    <2>1. Goto(t, r) /\ UNCHANGED <<vectors, basis, handle>> /\ call[t].op = "expunge"
      BY <1>5 DEF ScrubText, At, memory
    <2> HIDE DEF stored
    <2>2. r.op = "expunge" /\ r.step \in {"forget", "unindex"}
      BY <1>c, <2>1 DEF Calls
    <2> HIDE DEF r
    <2> QED BY <1>1, <2>1, <2>2, SameDrops
  <1>6. ASSUME NEW c \in Chunks, Unindex(t, c) PROVE VInv'
    <2> DEFINE r == [call[t] EXCEPT !.cur = {c}, !.step = "unvector"]
    <2>1. r.op = call[t].op /\ r.step = "unvector"
      BY <1>c DEF Calls
    <2>2. /\ Goto(t, r) /\ UNCHANGED <<vectors, basis, handle>>
          /\ call[t].op \in {"remove", "expunge"}
      BY <1>2, <1>6 DEF Unindex, memory
    <2> HIDE DEF r
    <2> QED BY <1>1, <2>1, <2>2, SameDrops
  <1>7. ASSUME NEW c \in Chunks, Unvector(t, c) PROVE VInv'
    <2> DEFINE r == [call[t] EXCEPT !.cur = {}, !.chunks = @ \ {c},
                       !.step = IF call[t].chunks = {c} THEN "forget" ELSE "unindex"]
    <2>1. r.op = call[t].op /\ r.step \in {"forget", "unindex"}
      BY <1>c DEF Calls
    <2>2. /\ Goto(t, r) /\ UNCHANGED <<basis, handle>> /\ vectors' = WithoutVectors(c, Models)
          /\ call[t].op \in {"remove", "expunge"}
      BY <1>2, <1>7 DEF Unvector, memory
    <2> HIDE DEF r
    <2>3. Drops
      BY <1>c, <2>2 DEF Drops, WithoutVectors
    <2> QED BY <1>1, <2>1, <2>2, <2>3
  <1>8. CASE Forget(t)
    <2> DEFINE r == [call[t] EXCEPT !.step = "mark"]
    <2>1. r.op = call[t].op /\ r.step = "mark"
      BY <1>c DEF Calls
    <2>2. /\ Goto(t, r) /\ UNCHANGED <<vectors, basis, handle>>
          /\ call[t].op \in {"remove", "expunge"}
      BY <1>2, <1>8 DEF Forget, durables
    <2> HIDE DEF r
    <2> QED BY <1>1, <2>1, <2>2, SameDrops
  <1>9. CASE MarkRemoved(t)
    <2>1. /\ Goto(t, Idle) /\ UNCHANGED <<vectors, basis, handle>>
          /\ call[t].op \in {"remove", "expunge"} /\ Idle.op = "idle" /\ Idle.step = "idle"
      BY <1>2, <1>9 DEF MarkRemoved, Finish, memory, Idle
    <2> QED BY <1>1, <2>1, SameDrops
  <1> QED BY <1>3, <1>4, <1>5, <1>6, <1>7, <1>8, <1>9 DEF RemoveStep

\* reindex begins with all slots to re-embed; destroy drops every vector before
\* it forgets the bases.
LEMMA WholeStepServes ==
  ASSUME OneCaller, VInv, TypeOK', NEW t \in Threads, WholeStep(t)
  PROVE  VInv'
  <1>c. /\ call[t] \in Calls /\ call \in [Threads -> Calls] /\ Serves(t) /\ Wipes(t)
    BY DEF VInv, TypeOK
  <1>n. \A r : Goto(t, r) => call'[t] = r
    BY <1>c DEF Goto
  <1>1. CASE BeginReindex(t)
    <2> DEFINE r == [Idle EXCEPT !.op = "reindex", !.step = "tombstones",
                                 !.train = Trainable, !.again = Models]
    <2>1. /\ r.op = "reindex" /\ r.step = "tombstones"
          /\ r.train = Trainable /\ r.again = Models /\ r.slot = {}
      BY DEF Idle
    <2>2. Goto(t, r) /\ UNCHANGED <<vectors, basis, handle>> /\ call[t].op = "idle"
      BY <1>1 DEF BeginReindex, Begin, durables, memory
    <2> HIDE DEF r
    <2>3. call'[t] = r /\ Drops
      BY <1>n, <2>2, SameDrops
    <2>4. \A m \in Models : Based(m)' \/ Blank(m)'
      BY <2>3, DropsKeeps DEF VInv
    <2>5. Serves(t)'
      BY <2>1, <2>3 DEF Serves, PathOf
    <2>6. Trains(t)'
      BY <2>1, <2>3 DEF Trains, Based
    <2>7. Reembeds(t)'
      BY <2>1, <2>3 DEF Reembeds, Based
    <2>8. Windowed(t)' /\ Folds(t)' /\ Wipes(t)'
      BY <2>1, <2>3 DEF Windowed, Folds, Wipes
    <2> QED BY <2>4, <2>5, <2>6, <2>7, <2>8, OneGoes
  <1>2. CASE BeginDestroy(t)
    <2> DEFINE r == [Idle EXCEPT !.op = "destroy", !.step = "wipe_postings"]
    <2>1. r.op = "destroy" /\ r.step = "wipe_postings"
      BY DEF Idle
    <2>2. Goto(t, r) /\ UNCHANGED <<vectors, basis, handle>> /\ call[t].op = "idle"
      BY <1>2 DEF BeginDestroy, Begin, durables, memory
    <2> HIDE DEF r
    <2>3. Windowed(t)'
      BY <1>n, <2>1, <2>2 DEF Windowed
    <2> QED BY <2>1, <2>2, <2>3, SameDrops, GoesPlainly DEF Plain, Steps, PathOf
  <1>3. CASE WipePostings(t)
    <2> DEFINE r == [call[t] EXCEPT !.step = "wipe_vectors"]
    <2>1. r.op = call[t].op /\ r.step = "wipe_vectors"
      BY <1>c DEF Calls
    <2>2. Goto(t, r) /\ UNCHANGED <<vectors, basis, handle>> /\ call[t].op = "destroy"
      BY <1>3 DEF WipePostings, At
    <2> HIDE DEF r
    <2>3. Windowed(t)'
      BY <1>n, <2>1, <2>2 DEF Windowed
    <2> QED BY <2>1, <2>2, <2>3, SameDrops, GoesPlainly DEF Plain, Steps, PathOf
  <1>4. ASSUME NEW r, Goto(t, r), r.op = call[t].op, call[t].op = "destroy",
               r.step \in {"wipe_basis", "wipe_counts", "wipe_tombstones"},
               \A m \in Models : Blank(m)'
        PROVE  VInv'
    <2>1. call'[t] = r
      BY <1>4, <1>n
    <2>2. \A m \in Models : Matches(m)'
      BY <1>4 DEF Matches, Blank, NoVector
    <2>3. Serves(t)'
      BY <1>4, <2>1, <2>2 DEF Serves, PathOf
    <2>4. Windowed(t)' /\ Trains(t)' /\ Reembeds(t)' /\ Folds(t)' /\ Wipes(t)'
      BY <1>4, <2>1 DEF Windowed, Trains, Reembeds, Folds, Wipes
    <2> QED BY <1>4, <2>3, <2>4, OneGoes
  <1>5. CASE WipeVectors(t)
    <2> DEFINE r == [call[t] EXCEPT !.step = "wipe_basis"]
    <2>1. r.op = call[t].op /\ r.step = "wipe_basis"
      BY <1>c DEF Calls
    <2>2. /\ Goto(t, r) /\ vectors' = [m \in Models |-> [c \in Chunks |-> NoVector]]
          /\ call[t].op = "destroy"
      BY <1>5 DEF WipeVectors, At
    <2>3. \A m \in Models : Blank(m)'
      BY <2>2 DEF Blank
    <2> HIDE DEF r
    <2> QED BY <1>4, <2>1, <2>2, <2>3
  <1>6. CASE WipeBasis(t)
    <2> DEFINE r == [call[t] EXCEPT !.step = "wipe_counts"]
    <2>1. r.op = call[t].op /\ r.step = "wipe_counts"
      BY <1>c DEF Calls
    <2>2. Goto(t, r) /\ vectors' = vectors /\ call[t].op = "destroy" /\ call[t].step = "wipe_basis"
      BY <1>6 DEF WipeBasis, At
    <2>3. \A m \in Models : Blank(m)'
      BY <1>c, <2>2 DEF Wipes, Blank
    <2> HIDE DEF r
    <2> QED BY <1>4, <2>1, <2>2, <2>3
  <1>7. CASE WipeCounts(t)
    <2> DEFINE r == [call[t] EXCEPT !.step = "wipe_tombstones"]
    <2>1. r.op = call[t].op /\ r.step = "wipe_tombstones"
      BY <1>c DEF Calls
    <2>2. Goto(t, r) /\ vectors' = vectors /\ call[t].op = "destroy" /\ call[t].step = "wipe_counts"
      BY <1>7 DEF WipeCounts, At
    <2>3. \A m \in Models : Blank(m)'
      BY <1>c, <2>2 DEF Wipes, Blank
    <2> HIDE DEF r
    <2> QED BY <1>4, <2>1, <2>2, <2>3
  <1>8. CASE WipeTombstones(t)
    <2>1. /\ Goto(t, Idle) /\ UNCHANGED <<vectors, basis, handle>> /\ call[t].op = "destroy"
          /\ Idle.op = "idle" /\ Idle.step = "idle"
      BY <1>8 DEF WipeTombstones, At, memory, Idle
    <2>2. Windowed(t)'
      BY <1>n, <2>1 DEF Windowed
    <2> QED BY <2>1, <2>2, SameDrops, GoesPlainly DEF Plain, Steps, PathOf
  <1> QED BY <1>1, <1>2, <1>3, <1>5, <1>6, <1>7, <1>8 DEF WholeStep

\* Every step of one caller without failures keeps the slots in order.
LEMMA NextServes ==
  ASSUME OneCaller, Faults = {} PROVE VInv /\ [Next]_vars => VInv'
  <1> SUFFICES ASSUME VInv, [Next]_vars PROVE VInv'
    OBVIOUS
  <1>1. TypeOK'
    BY NextType DEF VInv
  <1>2. CASE UNCHANGED vars
    <2>1. UNCHANGED <<rows, removed, vectors, basis, handle, call>>
      BY <1>2 DEF vars, durables, memory
    <2>2. \A m : (Blank(m)' <=> Blank(m)) /\ (Matches(m)' <=> Matches(m)) /\ (Based(m)' <=> Based(m))
      BY <2>1 DEF Blank, Matches, Based
    <2>3. ASSUME NEW t \in Threads
          PROVE  /\ Serves(t)' /\ Windowed(t)' /\ Trains(t)' /\ Reembeds(t)' /\ Folds(t)' /\ Wipes(t)'
      <3>1. Serves(t) /\ Windowed(t) /\ Trains(t) /\ Reembeds(t) /\ Folds(t) /\ Wipes(t)
        BY DEF VInv
      <3>2. Serves(t)'
        BY <2>1, <2>2, <3>1 DEF Serves
      <3>3. Windowed(t)'
        BY <2>1, <3>1 DEF Windowed
      <3>4. Trains(t)'
        BY <2>1, <2>2, <3>1 DEF Trains
      <3>5. Reembeds(t)' /\ Folds(t)' /\ Wipes(t)'
        BY <2>1, <2>2, <3>1 DEF Reembeds, Folds, Wipes
      <3> QED BY <3>2, <3>3, <3>4, <3>5
    <2> QED BY <1>1, <2>2, <2>3 DEF VInv
  <1>3. \A t \in Threads : ~FailStep(t)
    BY DEF FailStep, CallFails, WindowFails, InsertCutShort, AddCutShort, UnvectorCutShort
  <1>4. ~CrashAndOpen
    BY DEF CrashAndOpen
  <1> QED
    BY <1>1, <1>2, <1>3, <1>4, IngestStepServes, EmbedStepServes, BatchStepServes,
       RemoveStepServes, WholeStepServes DEF Next

\* A new corpus has no vectors.
LEMMA InitServes == Init => VInv
  <1> SUFFICES ASSUME Init PROVE VInv
    OBVIOUS
  <1>1. /\ Idle.op = "idle" /\ Idle.step = "idle" /\ \A t \in Threads : call[t] = Idle
        /\ NoVector.from = "none"
    BY DEF Init, Idle, NoVector
  <1>2. TypeOK
    BY InitType
  <1>3. \A m \in Models : Blank(m) /\ Matches(m)
    BY <1>1 DEF Init, Blank, Matches
  <1>4. \A t \in Threads : /\ Serves(t) /\ Windowed(t) /\ Trains(t) /\ Reembeds(t)
                           /\ Folds(t) /\ Wipes(t)
    BY <1>1, <1>3 DEF Serves, PathOf, Windowed, Trains, Reembeds, Folds, Wipes
  <1> QED BY <1>2, <1>3, <1>4 DEF VInv

\* Whenever no operation runs, the vectors of every slot are of the basis that
\* serves queries, after any sequence of ingests, batches, imports, removals,
\* reindexes and destroys of one caller: a failure or a second caller between
\* the training and the re-embedding would leave vectors of two bases.
THEOREM VectorsAreOfTheServingBasis ==
  ASSUME OneCaller, Faults = {}
  PROVE  Spec => []VectorsMatchBasis
  <1>1. ASSUME VInv PROVE VectorsMatchBasis
    <2> SUFFICES ASSUME Quiet, NEW m \in Models, NEW c \in Chunks, vectors[m][c].from # "none"
                 PROVE  vectors[m][c].gen = handle[m]
      BY DEF VectorsMatchBasis
    <2>1. PICK t \in Threads : call[t].op = "idle"
      BY DEF OneCaller, Quiet
    <2> QED BY <1>1, <2>1 DEF VInv, Serves, Matches
  <1> QED BY <1>1, InitServes, NextServes, PTL DEF Spec

(***************************************************************************)
(* destroy_recall_index.  With one caller nothing comes between its wipes, *)
(* whatever fails: a call that failed does not return Ok.                  *)
(***************************************************************************)

Wiping == {"wipe_vectors", "wipe_basis", "wipe_counts", "wipe_tombstones"}

\* A destroy past its first wipe has emptied the postings, past its second the
\* vectors too.
DInv ==
  /\ TypeOK
  /\ \A t \in Threads :
       /\ call[t].step \in Wiping => postings = {}
       /\ call[t].step \in Wiping \ {"wipe_vectors"} => \A m \in Models : Blank(m)

\* Only a destroy is ever past its first wipe.
LEMMA OthersNeverWipe ==
  ASSUME TypeOK, NEW t \in Threads,
         IngestStep(t) \/ EmbedStep(t) \/ BatchStep(t) \/ RemoveStep(t) \/ FailStep(t)
         \/ BeginReindex(t) \/ BeginDestroy(t) \/ WipeTombstones(t)
  PROVE  call'[t].step \notin Wiping
  <1>c. call[t] \in Calls /\ call \in [Threads -> Calls]
    BY DEF TypeOK
  <1>n. \A r : Goto(t, r) => call'[t] = r
    BY <1>c DEF Goto
  <1>i. Idle.step = "idle" /\ \A x : [Idle EXCEPT !.step = x].step = x
    BY DEF Idle
  <1>1. CASE FailStep(t) \/ WipeTombstones(t)
    <2>1. Goto(t, Idle)
      BY <1>1 DEF FailStep, CallFails, WindowFails, InsertCutShort, AddCutShort, UnvectorCutShort,
                  WipeTombstones
    <2> QED BY <1>i, <1>n, <2>1 DEF Wiping
  <1>2. CASE \/ BeginReindex(t) \/ BeginDestroy(t) \/ \E s \in Sources : BeginIngest(t, s)
             \/ \E s \in Sources : BeginRemove(t, s) \/ BeginExpunge(t, s)
             \/ \E S \in NonEmpty(Sources) : BeginBatch(t, S) \/ BeginImport(t, S)
    <2>1. CASE BeginReindex(t) \/ BeginDestroy(t)
      BY <2>1, <1>n, IdleType DEF BeginReindex, BeginDestroy, Begin, Calls, Wiping
    <2>2. ASSUME NEW s \in Sources, BeginIngest(t, s) \/ BeginExpunge(t, s)
          PROVE  call'[t].step \notin Wiping
      BY <2>2, <1>n, IdleType DEF BeginIngest, BeginExpunge, Begin, Calls, Wiping
    <2>3. ASSUME NEW s \in Sources, BeginRemove(t, s) PROVE call'[t].step \notin Wiping
      <3> DEFINE stored == {c \in ChunksOf({s}) : rows[c] # "absent"}
      <3>1. Goto(t, [Idle EXCEPT !.op = "remove", !.srcs = {s}, !.chunks = stored,
                          !.step = IF stored = {} THEN "forget" ELSE "unindex"])
        BY <2>3 DEF BeginRemove, Begin
      <3> HIDE DEF stored
      <3> QED BY <1>n, <3>1, IdleType DEF Calls, Wiping
    <2>4. ASSUME NEW S \in NonEmpty(Sources), BeginBatch(t, S) \/ BeginImport(t, S)
          PROVE  call'[t].step \notin Wiping
      BY <2>4, <1>n, IdleType DEF BeginBatch, BeginImport, Begin, Calls, Wiping
    <2> QED BY <1>2, <2>1, <2>2, <2>3, <2>4
  <1>3. CASE \/ ClearRemoved(t) \/ Insert(t) \/ NoteChunks(t) \/ SlotsDone(t)
             \/ \E c \in Chunks : IndexChunk(t, c)
             \/ \E m \in Models : LookAtSlot(t, m)
    <2>1. CASE ClearRemoved(t) \/ Insert(t) \/ NoteChunks(t) \/ SlotsDone(t)
      BY <2>1, <1>c, <1>n DEF ClearRemoved, Insert, NoteChunks, SlotsDone, Calls, Wiping
    <2>2. ASSUME NEW c \in Chunks, IndexChunk(t, c) PROVE call'[t].step \notin Wiping
      BY <2>2, <1>c, <1>n DEF IndexChunk, Calls, Wiping
    <2>3. ASSUME NEW m \in Models, LookAtSlot(t, m) PROVE call'[t].step \in {"fit", "tombstones", "slots"}
      BY <2>3, <1>c, <1>n DEF LookAtSlot, At, Calls
    <2> QED BY <1>3, <2>1, <2>2, <2>3 DEF Wiping
  <1>4. CASE EmbedStep(t)
    <2>1. ASSUME NEW m \in Models,
                 \/ ChooseSlot(t, m) \/ UpsertBasis(t, m) \/ Reembed(t, m) \/ ReplaceVectors(t, m)
          PROVE  call'[t].step \in {"fit", "embed", "reembed", "train", "replace", "slots", "persist"}
      BY <2>1, <1>c, <1>n DEF ChooseSlot, UpsertBasis, Reembed, ReplaceVectors, AfterTrain,
                              AfterReembed, Calls
    <2>2. ASSUME NEW m \in Models, Train(t, m) PROVE call'[t].step = "upsert"
      <3>1. PICK g : Goto(t, [call[t] EXCEPT !.step = "upsert",
                                !.gens = [call[t].gens EXCEPT ![m] = g]])
        BY <2>2 DEF Train
      <3> QED BY <1>c, <1>n, <3>1 DEF Calls
    <2>3. ASSUME NEW C \in NonEmpty(Chunks), AddPayloads(t, C)
          PROVE  call'[t].step \in {"persist", "add"}
      BY <2>3, <1>c, <1>n DEF AddPayloads, Calls
    <2>4. CASE Embed(t)
      BY <2>4, <1>c, <1>n DEF Embed, Calls, Wiping
    <2>5. CASE Persist(t)
      <3>1. Goto(t, Idle)
        BY <2>5 DEF Persist, Finish
      <3> QED BY <1>i, <1>n, <3>1 DEF Wiping
    <2>6. CASE ReadTombstones(t) \/ LoadActive(t)
      BY <2>6, <1>c, <1>n DEF ReadTombstones, LoadActive, AfterLoad, AfterTrain, Calls, Wiping
    <2> QED BY <1>4, <2>1, <2>2, <2>3, <2>4, <2>5, <2>6 DEF EmbedStep, Wiping
  <1>5. CASE \/ WriteShards(t) \/ Bootstrap(t)
             \/ \E S \in NonEmpty(Sources) : Window(t, S)
             \/ \E C \in NonEmpty(Chunks) : IndexBatch(t, C)
    <2>1. call'[t].step \in {"window", "embed", "tombstones", "index", "boot"}
      BY <1>5, <1>c, <1>n DEF WriteShards, Bootstrap, Window, IndexBatch, Calls
    <2> QED BY <2>1 DEF Wiping
  <1>6. ASSUME NEW C \in NonEmpty(Chunks), MergeShard(t, C) PROVE call'[t].step \in {"idle", "index"}
    BY <1>6, <1>c, <1>i, <1>n DEF MergeShard, Finish, At, Calls
  <1>7. CASE \/ ScrubText(t) \/ Forget(t) \/ MarkRemoved(t)
             \/ \E c \in Chunks : Unindex(t, c) \/ Unvector(t, c)
    <2>1. CASE ScrubText(t)
      <3> DEFINE stored == {c \in ChunksOf(call[t].srcs) : rows[c] # "absent"}
      <3>1. Goto(t, [call[t] EXCEPT !.chunks = stored,
                             !.step = IF stored = {} THEN "forget" ELSE "unindex"])
        BY <2>1 DEF ScrubText
      <3> HIDE DEF stored
      <3> QED BY <1>c, <1>n, <3>1 DEF Calls, Wiping
    <2>2. CASE Forget(t) \/ MarkRemoved(t)
      BY <2>2, <1>c, <1>i, <1>n DEF Forget, MarkRemoved, Finish, Calls, Wiping
    <2>3. ASSUME NEW c \in Chunks, Unindex(t, c) \/ Unvector(t, c)
          PROVE  call'[t].step \in {"forget", "unindex", "unvector"}
      BY <2>3, <1>c, <1>n DEF Unindex, Unvector, Calls
    <2> QED BY <1>7, <2>1, <2>2, <2>3 DEF Wiping
  <1> QED BY <1>1, <1>2, <1>3, <1>4, <1>5, <1>6, <1>7
          DEF IngestStep, BatchStep, RemoveStep, Wiping

\* The wipes of a destroy empty what they say, in order.
LEMMA WipesInOrder ==
  ASSUME DInv, NEW t \in Threads, WipePostings(t) \/ WipeVectors(t) \/ WipeBasis(t) \/ WipeCounts(t)
  PROVE  /\ postings' = {}
         /\ call'[t].step \in Wiping \ {"wipe_vectors"} => \A m \in Models : Blank(m)'
  <1>c. call[t] \in Calls /\ call \in [Threads -> Calls]
    BY DEF DInv, TypeOK
  <1>n. \A r : Goto(t, r) => call'[t] = r
    BY <1>c DEF Goto
  <1>1. CASE WipePostings(t)
    <2>1. postings' = {} /\ call'[t].step = "wipe_vectors"
      BY <1>1, <1>c, <1>n DEF WipePostings, Calls
    <2> QED BY <2>1
  <1>2. CASE WipeVectors(t)
    <2>1. /\ postings' = postings /\ vectors' = [m \in Models |-> [c \in Chunks |-> NoVector]]
          /\ call[t].step = "wipe_vectors"
      BY <1>2 DEF WipeVectors, At
    <2> QED BY <2>1 DEF DInv, Wiping, Blank
  <1>3. CASE WipeBasis(t) \/ WipeCounts(t)
    <2>1. postings' = postings /\ vectors' = vectors /\ call[t].step \in Wiping \ {"wipe_vectors"}
      BY <1>3 DEF WipeBasis, WipeCounts, At, Wiping
    <2> QED BY <2>1 DEF DInv, Blank
  <1> QED BY <1>1, <1>2, <1>3

\* With one caller every step keeps what its destroy has wiped.
LEMMA NextWipes ==
  ASSUME OneCaller PROVE DInv /\ [Next]_vars => DInv'
  <1> SUFFICES ASSUME DInv, [Next]_vars PROVE DInv'
    OBVIOUS
  <1>1. TypeOK' /\ TypeOK
    BY NextType DEF DInv
  <1>2. CASE UNCHANGED vars
    <2>1. UNCHANGED <<postings, vectors, call>>
      BY <1>2 DEF vars, durables
    <2> QED BY <1>1, <2>1 DEF DInv, Blank
  <1>3. CASE CrashAndOpen
    <2>1. \A t \in Threads : call'[t].step = "idle"
      BY <1>3 DEF CrashAndOpen, Idle
    <2> QED BY <1>1, <2>1 DEF DInv, Wiping
  <1>4. ASSUME NEW t \in Threads, call'[t].step \notin Wiping PROVE DInv'
    BY <1>1, <1>4 DEF DInv, OneCaller
  <1>5. ASSUME NEW t \in Threads, WipePostings(t) \/ WipeVectors(t) \/ WipeBasis(t) \/ WipeCounts(t)
        PROVE  DInv'
    <2>1. /\ postings' = {}
          /\ call'[t].step \in Wiping \ {"wipe_vectors"} => \A m \in Models : Blank(m)'
      BY <1>5, WipesInOrder
    <2> QED BY <1>1, <2>1 DEF DInv, OneCaller
  <1> QED BY <1>1, <1>2, <1>3, <1>4, <1>5, OthersNeverWipe DEF Next, WholeStep

\* When destroy_recall_index returns Ok neither lane holds anything, whatever
\* was indexed, whatever failed and whenever the process died before, as long
\* as one thread calls the corpus (an ingest of another thread between two wipes
\* would leave what it wrote).
THEOREM DestroyLeavesNothing ==
  ASSUME OneCaller
  PROVE  Spec => DestroyEmptiesRecall
  <1>1. Init => DInv
    <2> SUFFICES ASSUME Init PROVE DInv
      OBVIOUS
    <2>1. \A t \in Threads : call[t].step = "idle"
      BY DEF Init, Idle
    <2> QED BY <2>1, InitType DEF DInv, Wiping
  <1>2. DInv /\ [Next]_vars => DInv'
    BY NextWipes
  <1>3. DInv /\ [Next]_vars =>
          [(\E t \in Threads : WipeTombstones(t)) =>
             postings' = {} /\ \A m \in Models, c \in Chunks : vectors'[m][c] = NoVector]_vars
    <2> SUFFICES ASSUME DInv, NEW t \in Threads, WipeTombstones(t)
                 PROVE  postings' = {} /\ \A m \in Models, c \in Chunks : vectors'[m][c] = NoVector
      OBVIOUS
    <2>1. call[t].step = "wipe_tombstones" /\ postings' = postings /\ vectors' = vectors
      BY DEF WipeTombstones, At
    <2> QED BY <2>1 DEF DInv, Wiping, Blank
  <1> QED BY <1>1, <1>2, <1>3, PTL DEF Spec, DestroyEmptiesRecall
=============================================================================
