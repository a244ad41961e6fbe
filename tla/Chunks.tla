------------------------------- MODULE Chunks -------------------------------
(***************************************************************************)
(* CorpusKit's chunker and chunk store: chunker.rs, chunk.rs and           *)
(* bundle_store.rs.  A text is the sequence of its characters.  Hashes and *)
(* version 5 UUIDs are the tuples of what they are taken over.             *)
(***************************************************************************)
EXTENDS Rows, SequencesExt

--------------------------------------------------------------------------
(* Chunks.                                                                 *)

(* External: Uuid::new_v5 over the three parts, kept apart by a separator. *)
derive_id(source_id, start_offset, text) == <<source_id, start_offset, text>>

content_addressed(source_id, start_offset, text, hlc) ==
  [id |-> derive_id(source_id, start_offset, text), source_id |-> source_id,
   start_offset |-> start_offset, length |-> Len(text), text |-> text,
   hlc |-> hlc, metadata |-> <<>>]

ChunkerConfiguration(target_chars, overlap_chars, respect_sentences) ==
  LET target == Max({target_chars, 1})
  IN  [target_chars |-> target, overlap_chars |-> Min({overlap_chars, target - 1}),
       respect_sentences |-> respect_sentences]

(* What the loop over the segments carries: the chunks emitted, the text   *)
(* not yet emitted and where it starts, and how far the loop has read.     *)
Chunking == [chunks |-> <<>>, buffer |-> <<>>, buffer_start |-> 0, current_offset |-> 0]

Emit(st, source_id, hlc) ==
  Append(st.chunks, content_addressed(source_id, st.buffer_start, st.buffer,
                                      hlc + Len(st.chunks)))

(* Mutant: the tail kept for the overlap is taken to start where the       *)
(* emitted chunk did. *)
flush_KeepsStart(st, source_id, config, hlc) ==
  LET overlap == Min({config.overlap_chars, Len(st.buffer)})
  IN  IF st.buffer = <<>> THEN st
      ELSE [st EXCEPT !.chunks = Emit(st, source_id, hlc),
                      !.buffer = SubSeq(@, Len(@) - overlap + 1, Len(@))]

(* The next buffer begins with the last overlap_chars of the emitted one.  *)
flush(st, source_id, config, hlc) ==
  LET overlap == Min({config.overlap_chars, Len(st.buffer)})
      dropped == Len(st.buffer) - overlap
  IN  IF st.buffer = <<>> THEN st
      ELSE [st EXCEPT !.chunks = Emit(st, source_id, hlc),
                      !.buffer = SubSeq(@, dropped + 1, Len(@)),
                      !.buffer_start = @ + dropped]

take_segment(st, segment, source_id, config, hlc) ==
  LET started(s) == IF s.buffer = <<>> THEN [s EXCEPT !.buffer_start = s.current_offset]
                    ELSE s
      fits == \/ st.buffer = <<>>
              \/ Len(st.buffer) + Len(segment) <= config.target_chars
      room == IF fits THEN started(st) ELSE started(flush(st, source_id, config, hlc))
      placed == [room EXCEPT !.buffer = @ \o segment, !.current_offset = @ + Len(segment)]
  IN  IF Len(placed.buffer) >= config.target_chars
        THEN flush(placed, source_id, config, hlc) ELSE placed

(* sentences is what the segmenter makes of the text: its pieces in order. *)
chunk(sentences, source_id, config, hlc) ==
  LET segments == IF config.respect_sentences THEN sentences
                  ELSE <<FlattenSeq(sentences)>>
      st == FoldLeft(LAMBDA s, segment : take_segment(s, segment, source_id, config, hlc),
                     Chunking, segments)
  IN  IF st.buffer = <<>> THEN st.chunks ELSE Emit(st, source_id, hlc)

--------------------------------------------------------------------------
(* The chunk store: the rows of the chunks table in the order they were    *)
(* inserted, and the Merkle root stored for each source.                   *)

(* External: MerkleHash and the SHA-256 ids of the containment chain.      *)
leaf(id, content) == <<"leaf", id, content>>
interior(children) == <<"interior", children>>
EmptyRoot == <<"empty">>
corpus_uuid(source_id) == <<"corpus", source_id>>

RowsOf(db, source_id) ==
  {i \in DOMAIN db.chunks : string_value_of(db.chunks[i]["source_id"]) = source_id}

stored_hash(row) ==
  IF row["content_hash"].type = "blob" THEN row["content_hash"].val
  ELSE leaf(row["id"].val, string_value_of(row["text"]))

rollup_corpus_merkle_root(db, source_id) ==
  [db EXCEPT !.roots =
     [s \in {source_id} |->
        interior({<<db.chunks[i]["id"].val, stored_hash(db.chunks[i])>> :
                    i \in RowsOf(db, source_id)})] ++ @]
RollUp(db, sources) ==
  FoldLeft(LAMBDA d, s : rollup_corpus_merkle_root(d, s), db, sources)

all_source_ids(db) == {string_value_of(row["source_id"]) : row \in Range(db.chunks)}
recompute_all_corpus_merkle_roots(db) == RollUp(db, SetToSeq(all_source_ids(db)))
open_bundle_store(chunks, roots) ==
  recompute_all_corpus_merkle_roots([chunks |-> chunks, roots |-> roots])

(* External: the hashing row store adds the content hash to what it is     *)
(* asked to insert, and refuses a row whose id is taken.                   *)
Hashed(values) ==
  [content_hash |-> Blob(leaf(values["id"].val, values["text"].val))] ++ values
Taken(db, id) == \E row \in Range(db.chunks) : row["id"].val = id

(* The storage fails at the fail-th write, the chunks' rows first and then *)
(* the root of each of their sources: what came before it stays.           *)
insert(db, chunks, fail, now) ==
  LET rows == [i \in DOMAIN chunks |->
                 ReadBack("memory", chunks_table.columns,
                          Hashed(chunk_values(chunks[i], now)))]
      sources == SetToSeq({chunks[i].source_id : i \in DOMAIN chunks})
      ok == fail \notin 1..(Len(rows) + Len(sources))
      done == IF ok THEN Len(rows) + Len(sources) ELSE fail - 1
      put == FoldLeft(LAMBDA acc, row :
                        IF Taken(acc.db, row["id"].val) THEN acc
                        ELSE [db |-> [acc.db EXCEPT !.chunks = Append(@, row)],
                              inserted |-> Append(acc.inserted, decode_chunk(row))],
                      [db |-> db, inserted |-> <<>>],
                      SubSeq(rows, 1, Min({done, Len(rows)})))
  IN  [db |-> RollUp(put.db, SubSeq(sources, 1, done - Len(rows))),
       inserted |-> IF ok THEN put.inserted ELSE <<>>, ok |-> ok]

scrub_text(db, source_id) ==
  [db EXCEPT !.chunks =
     [i \in DOMAIN @ |-> IF i \in RowsOf(db, source_id) THEN [text |-> Text(<<>>)] ++ @[i]
                         ELSE @[i]]]

(* The reads.  A row that does not decode is left out.                     *)
Decoded(rows) ==
  SelectSeq([i \in DOMAIN rows |-> decode_chunk(rows[i])], LAMBDA c : c # Corrupt)
AscendingIn(rows, column) ==
  SortSeq(rows, LAMBDA a, b : a[column].val < b[column].val)

get(db, id) ==
  LET found == Decoded(SelectSeq(db.chunks, LAMBDA row : row["id"].val = id))
  IN  IF found = <<>> THEN None ELSE found[1]
get_many(db, ids) == Decoded(SelectSeq(db.chunks, LAMBDA row : row["id"].val \in ids))
chunks_for_source(db, source_id) ==
  Decoded(AscendingIn(SelectSeq(db.chunks, LAMBDA row :
                        string_value_of(row["source_id"]) = source_id), "start_offset"))
all_chunks(db) == Decoded(AscendingIn(db.chunks, "hlc"))
chunk_source_pairs(db) ==
  SelectSeq([i \in DOMAIN db.chunks |-> chunk_source_pair(db.chunks[i])],
            LAMBDA p : p # Corrupt)
chunk_count(db) == Len(db.chunks)

corpus_merkle_root(db, source_id) ==
  IF source_id \in DOMAIN db.roots THEN db.roots[source_id] ELSE EmptyRoot
global_corpus_merkle_root(db) ==
  interior({<<corpus_uuid(s), db.roots[s]>> : s \in DOMAIN db.roots})
=============================================================================
