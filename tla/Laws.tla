-------------------------------- MODULE Laws --------------------------------
(***************************************************************************)
(* The pure parts of the system, each examined on a bounded set of inputs: *)
(* a step picks an input of one part, the next step puts it back, and the  *)
(* laws say what the code computes from it.  What a law compares with is   *)
(* written here, from what the callers of that code rely on.               *)
(***************************************************************************)
EXTENDS Rows, Chunks, Bitmaps, Fusion, DrawerReads

CONSTANTS
  EntityInputs,    \* [table, entity]
  TimeInputs,      \* times since 1970
  ManifestInputs,  \* [stored, n, key, value]: what stood there, where the
                   \* first open stopped, a key set afterwards
  FieldInputs,     \* [layout, field, raw, bm]
  FusionInputs,    \* [vector, keyword, chunks, limit]
  SourceInputs,    \* [slot, csm, limit]
  TableInputs,     \* [db, limit, facts]: drawer rows and facts as stored
  WindowInputs,    \* [db, bit, seconds, count, end]
  MutationInputs,  \* [row, writes]: a drawer and what is done to it
  BundleInputs,    \* [bits, drawers, left]: the drawers of a wing, and one
                   \* that leaves it
  TextInputs       \* [sentences, config, legacy, fail]: a text in
                   \* sentences, how many of its chunks an older version
                   \* stored, the write at which the storage fails

(* What the code is handed: a time that four digits can write the year of; *)
(* an entity with the fields of its kind, what must parse does, the kinds  *)
(* and the clock reading that its type cannot be without are there, and    *)
(* the times kept as text are moments, CorpusKit's of whole seconds; keys  *)
(* the manifest knows; a field with a value of its enum.                   *)
LastDay == days_from_civil(9999, 12, 31)
IsMoment(t) ==
  t = Time(t.day, t.ms) /\ t.day \in 0..LastDay /\ t.ms \in 0..(Day - 1)
IsWholeSecond(t) == t # None /\ IsMoment(t) /\ t.ms % 1000 = 0
IsWritten(iso) ==
  LET t == parse_iso8601(iso)
  IN  IsMoment(t) /\ iso = epoch_to_iso8601(t)
FieldsOf(table) ==
  Entities[table].given \cup DOMAIN Entities[table].filled \cup Entities[table].optional
IsEntity(table, e) ==
  /\ DOMAIN e = FieldsOf(table)
  /\ table = "drawers" => /\ e["lineageID"] # "" /\ ParsesAsUuid(e["lineageID"])
                          /\ e["eventTime"] # None
  /\ table = "tunnels" => e["kind_id"] \in 0..9
  /\ table = "source_catalog" => e["kind"] \in 0..5
  /\ table = "recall_trace" => IsWritten(e["recalledAt"])
  /\ table = "nodes" => ParsesAsUuid(e["id"]) /\ e["created_hlc"] # None
  /\ table = "vectors" => ParsesAsUuid(e["id"]) /\ e["kind"] = Binary
  /\ table = "chunks" => ParsesAsUuid(e["id"])
  /\ table = "corpus_provider_basis" => IsWholeSecond(e["trained_at"])
  /\ table = "corpus_provider_counts" => IsWholeSecond(e["updated_at"])
ASSUME EntityInputsAssumption ==
  \A i \in EntityInputs : i.table \in Coded /\ IsEntity(i.table, i.entity)
ASSUME TimeInputsAssumption == \A t \in TimeInputs : IsMoment(t)
ManifestKeys == {REQUIRED[j] : j \in DOMAIN REQUIRED} \cup OPTIONAL
ASSUME ManifestInputsAssumption ==
  \A i \in ManifestInputs :
    /\ DOMAIN i.stored \subseteq ManifestKeys
    /\ i.n \in 0..Len(REQUIRED)
    /\ i.key \in ManifestKeys
ASSUME FieldInputsAssumption ==
  \A i \in FieldInputs :
    /\ i.layout \in DOMAIN Layouts
    /\ i.field \in DOMAIN Layouts[i.layout]
    /\ i.raw \in Layouts[i.layout][i.field].legal
    /\ i.bm \subseteq 0..63
IdTexts == {"lower", "upper", "junk"} \X (Nat \ {0})
ASSUME FusionInputsAssumption ==
  \A i \in FusionInputs :
    /\ i.vector \in Seq(IdTexts) /\ i.keyword \in Seq(IdTexts)
    /\ i.limit \in Nat
    /\ \A rank \in 1..candidate_k(i.limit) : RankScale % (RRF_K + rank) = 0
ASSUME SourceInputsAssumption ==
  \A i \in SourceInputs :
    /\ i.slot.rows \in Seq([uuid : Nat, score : Int])
    /\ \A a, b \in DOMAIN i.slot.rows : a < b => i.slot.rows[a].score >= i.slot.rows[b].score
    /\ \A u \in DOMAIN i.csm : i.csm[u] \in Nat
    /\ i.limit \in Nat
FingerprintFields == {"adjective", "operational", "provenance", "udc", "qid", "lineage", "eventTime"}
ASSUME MutationInputsAssumption ==
  \A i \in MutationInputs :
    /\ FingerprintFields \cup {"fp"} \subseteq DOMAIN i.row
    /\ i.row = [c \in DOMAIN i.row |-> i.row[c]]
    /\ i.row.eventTime.day \in Int /\ i.row.eventTime.ms \in 0..(Day - 1)
    /\ Len(i.writes) \in Nat
    /\ \A n \in 1..Len(i.writes) :
         /\ i.writes[n].op \in {"bitmap", "reanchor", "expunge", "scrub", "wipe"}
         /\ i.writes[n].op = "bitmap" =>
              i.writes[n].column \in {"adjective", "operational", "provenance"}

VARIABLE input

NoInput == [kind |-> "none"]
Try(kind, inputs) ==
  /\ input = NoInput
  /\ \E x \in inputs : input' = [kind |-> kind, of |-> x]

Store == Try("entity", EntityInputs)
Tell == Try("time", TimeInputs)
Open == Try("manifest", ManifestInputs)
Pack == Try("field", FieldInputs)
Fuse == Try("fusion", FusionInputs)
RankSources == Try("sources", SourceInputs)
ChunkText == Try("text", TextInputs)
ScanDrawers == Try("table", TableInputs)
ReadWindow == Try("window", WindowInputs)
MutateDrawer == Try("mutation", MutationInputs)
FoldWing == Try("bundle", BundleInputs)
Return == input # NoInput /\ input' = NoInput

Init == input = NoInput
Next == \/ Store \/ Tell \/ Open \/ Pack
        \/ Fuse \/ RankSources \/ ChunkText
        \/ ScanDrawers \/ ReadWindow \/ MutateDrawer \/ FoldWing \/ Return
Spec == Init /\ [][Next]_input

Given(kind) == input.kind = kind

--------------------------------------------------------------------------
(* Rows.                                                                   *)

(* A stored value has its column's type; a timestamp may be given as text. *)
Fits(v, column) ==
  \/ v.type = column.type
  \/ v.type = "null" /\ column.nullable
  \/ v.type = "text" /\ column.type = "timestamp"

EntityRoundTrips ==
  Given("entity") =>
    LET table == input.of.table
        e == input.of.entity
        columns == tables[table].columns
        values == Values(table, e)
    IN  /\ DOMAIN values \subseteq DOMAIN columns
        /\ \A c \in DOMAIN columns :
             IF c \in DOMAIN values THEN Fits(values[c], columns[c])
             ELSE columns[c].nullable \/ columns[c].default # NoDefault
        /\ tables[table].key \subseteq DOMAIN values
        /\ \A ix \in indices[table] :
             ix \subseteq DOMAIN columns \cup DOMAIN tables[table].generated
        /\ \A b \in BackendsOf(table) :
             LET row == ReadBack(b, columns, values)
                 read == FromRow(table, row)
             IN  /\ DOMAIN e \subseteq DOMAIN read
                 /\ \A c \in DOMAIN e : read[c] = e[c]
                 /\ table = "vectors" =>
                      LET light == decode_stored_vector_light(row)
                      IN  \A c \in DOMAIN light : light[c] = e[c]
                 /\ table = "chunks" =>
                      chunk_source_pair(row) = <<e["id"], e["source_id"]>>
                 /\ table = "corpus_provider_counts" =>
                      growth_anchor(row) = <<e["doc_count"], e["vocab_size"]>>

TimeRoundTrips ==
  Given("time") =>
    LET t == input.of
    IN  /\ epoch_to_iso8601(t) = format_iso8601(t)
        /\ parse_iso8601(format_iso8601(t)) = t
        /\ parse_iso8601_utc(format_iso8601(t)) = Time(t.day, t.ms - (t.ms % 1000))

(* Whatever entity the store is handed, the row it writes is one its table *)
(* accepts on any backend (only declared columns, every mandatory one,     *)
(* each of its type), every index of the table is on columns it has, and   *)
(* the row read back from each backend decodes to the entity.  The two     *)
(* ISO-8601 writers, the closed form of the store and the loops of the     *)
(* verbs, write the same text for a moment, and both readers find that     *)
(* moment in it, CorpusKit's to the second.                                *)
RowsSurviveStorage == EntityRoundTrips /\ TimeRoundTrips

(* An estate whose first opening stopped after any number of manifest keys *)
(* is completed by the next one without losing what was written: its       *)
(* identity and everything set in between stay, every required key is      *)
(* there, and a third opening changes nothing.                             *)
ReopenKeepsManifest ==
  Given("manifest") =>
    LET i == input.of
        first == populate_v1_manifest_defaults(i.stored, i.n, "uuid-1", Time(1, 0))
        set == set_meta(first, i.key, i.value)
        second == populate_v1_manifest_defaults(set, Len(REQUIRED), "uuid-2", Time(2, 0))
        third == populate_v1_manifest_defaults(second, Len(REQUIRED), "uuid-3", Time(3, 0))
    IN  /\ \A k \in DOMAIN set : get_meta(second, k) = set[k]
        /\ {REQUIRED[k] : k \in DOMAIN REQUIRED} \subseteq DOMAIN second
        /\ third = second
        /\ \A k \in DOMAIN set :
             read_manifest(second)[k] = read_manifest(set)[k]

--------------------------------------------------------------------------
(* Chunks.                                                                 *)

IsSortedBy(chunks, field) ==
  \A j \in 2..Len(chunks) : chunks[j - 1][field] <= chunks[j][field]
Legacy(c) == ReadBack("memory", chunks_table.columns, chunk_values(c, Time(0, 0)))
Leaves(chunks) ==
  interior({<<chunks[i].id, leaf(chunks[i].id, chunks[i].text)>> : i \in DOMAIN chunks})

(* Every chunk holds the characters it says, and together all of them.     *)
Covers(chunks, text, overlap) ==
  LET ends(c) == c.start_offset + c.length
  IN  /\ \A c \in Range(chunks) :
           c.text = SubSeq(text, c.start_offset + 1, ends(c)) /\ c.text # <<>>
      /\ UNION {Range(c.text) : c \in Range(chunks)} = Range(text)
      /\ \A j \in 2..Len(chunks) :
           LET c == chunks[j]  b == chunks[j - 1]
           IN  /\ ends(b) - c.start_offset \in 0..overlap
               /\ \/ ends(c) > ends(b)
                  \/ ends(c) = ends(b) /\ c.length = overlap

IdsOf(chunks) == {chunks[j].id : j \in DOMAIN chunks}

(* A first insert, and one of the same chunks and rest after a reopening.  *)
ReportedOnce(before, chunks, rest, once, again) ==
  /\ again.ok
  /\ Cardinality(IdsOf(chunks)) = Len(chunks)
  /\ IdsOf(once.inserted) \cap IdsOf(again.inserted) = {}
  /\ once.ok => IdsOf(once.inserted) \cup IdsOf(again.inserted) \cup IdsOf(Decoded(before.chunks))
                  = IdsOf(chunks) \cup IdsOf(rest)

ReadsAgreeOn(db, chunks, rest) ==
  /\ LET there == chunks_for_source(db, "s")
     IN  IdsOf(there) = IdsOf(chunks) /\ IsSortedBy(there, "start_offset")
  /\ LET all == all_chunks(db)
     IN  IdsOf(all) = IdsOf(chunks) \cup IdsOf(rest) /\ IsSortedBy(all, "hlc")
  /\ \A c \in Range(chunks) :
       get(db, c.id).text = c.text /\ Len(get_many(db, {c.id})) = 1
  /\ chunk_count(db) = Len(chunks) + Len(rest)
  /\ Range(chunk_source_pairs(db)) = {<<c.id, c.source_id>> : c \in Range(chunks \o rest)}
  /\ chunks # <<>> => corpus_merkle_root(db, "s") = Leaves(chunks)
  /\ global_corpus_merkle_root(db) =
       interior({<<corpus_uuid(s), corpus_merkle_root(db, s)>> : s \in all_source_ids(db)})

IsScrubbed(db, scrubbed) ==
  /\ \A c \in Range(chunks_for_source(scrubbed, "s")) : c.text = <<>>
  /\ IdsOf(all_chunks(scrubbed)) = IdsOf(all_chunks(db))

Reopened(db) == open_bundle_store(db.chunks, db.roots)
HoldsAll(db, chunks, rest) ==
  ReadsAgreeOn(db, chunks, rest) /\ IsScrubbed(db, scrub_text(db, "s"))
StoredAgain(before, chunks, rest, once, again) ==
  ReportedOnce(before, chunks, rest, once, again) /\ HoldsAll(Reopened(again.db), chunks, rest)
StoredTwice(before, chunks, retried, rest, once) ==
  StoredAgain(before, chunks, rest, once,
              insert(Reopened(once.db), retried \o rest, 0, Time(2, 0)))
StoredOver(before, chunks, retried, rest, fail) ==
  StoredTwice(before, chunks, retried, rest, insert(before, chunks, fail, Time(1, 0)))
OlderStore(chunks, n) ==
  open_bundle_store([j \in 1..Min({n, Len(chunks)}) |-> Legacy(chunks[j])], <<>>)

(* A text that was chunked and stored is all there, however it happened:   *)
(* every chunk holds the characters it says it does, together they hold    *)
(* every one, neighbours share no more than the overlap, and each goes     *)
(* past the one before it except one that is just the overlap again.  If   *)
(* an older version stored some of the chunks without a hash and the       *)
(* storage failed in the middle of the rest, ingesting the text again      *)
(* leaves each chunk stored once and reported as new at most once, every   *)
(* read agrees on them, and the next opening leaves the roots of a store   *)
(* that never failed.  Scrubbing erases every text and no row.             *)
StoredTextIsWhole ==
  Given("text") =>
    LET i == input.of
        Whole(chunks) ==
          /\ Covers(chunks, FlattenSeq(i.sentences), i.config.overlap_chars)
          /\ StoredOver(OlderStore(chunks, i.legacy), chunks,
                        chunk(i.sentences, "s", i.config, 50),
                        chunk(<<<<0>>>>, "other", i.config, 100), i.fail)
    IN  Whole(chunk(i.sentences, "s", i.config, 1))

--------------------------------------------------------------------------
(* Bitmaps.                                                                *)

(* What the bits of the operational writers are read back as.              *)
ComposedReads(raws) ==
  LET composed == compose_operational(raws[1], raws[2], raws[3], raws[4])
      proposed == propose_operational(raws[1], raws[2], raws[3], raws[4])
  IN  /\ Reads(ProposalKind, composed) = raws[1]
      /\ Reads(ProposalTargetObjectType, composed) = raws[2]
      /\ Reads(ProposalGeneratedByClass, composed) = raws[3]
      /\ Reads(ProposalConfidenceBucket, composed) = raws[4]
      /\ Reads(ProposalKind, proposed) = raws[1]
      /\ Reads(ProposalConfirmationSource, proposed) = raws[2]
      /\ Reads(ProposalGeneratedByClass, proposed) = raws[3]
      /\ Reads(ProposalConfidenceBucket, proposed) = raws[4]

(* A value written into a field of any bitmap is read back as written and  *)
(* every other field of that layout keeps its value, for the generic       *)
(* writer and for each writer of a single flag; the composers of a new     *)
(* row's bitmap read back part by part; and the slots the audit gate is    *)
(* given are the fields the accessors read.                                *)
FieldsKeepApart ==
  Given("field") =>
    LET i == input.of
        layout == Layouts[i.layout]
        f == layout[i.field]
        written == Writes(f, i.raw, i.bm)
        keeps(bm, changed) ==
          \A g \in DOMAIN layout \ changed : Reads(layout[g], bm) = Reads(layout[g], i.bm)
    IN  /\ Reads(f, written) = i.raw
        /\ keeps(written, {i.field})
        /\ i.layout = "tunnel" =>
             /\ \A retired \in {with_retired(i.bm), with_unretired(i.bm)} :
                  keeps(retired, {"is_retired"})
             /\ Reads(layout.is_retired, with_retired(i.bm)) = 1
             /\ Reads(layout.is_retired, with_unretired(with_retired(i.bm))) = 0
             /\ i.field = "lifecycle" => with_lifecycle(i.bm, i.raw) = written
        /\ i.layout = "learned" =>
             \A ingested \in BOOLEAN :
               LET bm == learn_operational(16, ingested, 3)
               IN  /\ Reads(RefreshPolicy, bm) = 16
                   /\ (Reads(LearnMode, bm) = 1) <=> ingested
                   /\ Reads(LearnedReferenceSource, bm) = 3
                   /\ Reads(DriftSeverity, bm) = 0
        /\ i.layout = "proposal" /\ i.field = "confidence" =>
             \A k \in ProposalKind.legal, c \in 0..3 : ComposedReads(<<k, c, c, i.raw>>)
        /\ \A bitmap \in DOMAIN union_slots : \A s \in DOMAIN union_slots[bitmap] :
             LET slot == union_slots[bitmap][s]
                 field == (IF bitmap = "provenance" THEN Provenance
                           ELSE DrawerOperational)[s]
             IN  /\ slot.low = field.low
                 /\ slot.width = field.width
                 /\ slot.values # {} => slot.values = field.legal

--------------------------------------------------------------------------
(* Fusion.                                                                 *)

Place(hits, u) ==
  LET at == {i \in DOMAIN hits : Uuid(hits[i]) = u}
  IN  IF at = {} THEN Len(hits) + 1 ELSE Min(at)

FusionIsFair ==
  Given("fusion") =>
    LET i == input.of
        k == candidate_k(i.limit)
        lanes == <<Take2(i.vector, k), Take2(i.keyword, k)>>
        known == (UNION {{Uuid(lanes[l][j]) : j \in DOMAIN lanes[l]} : l \in 1..2})
                   \ {Missing}
        out == hybrid_recall(i.vector, i.keyword, i.chunks, i.limit)
        at(u) == {j \in DOMAIN out : Uuid(out[j].item) = u}
        beats(u, v) ==
          /\ \A l \in 1..2 : Place(lanes[l], u) <= Place(lanes[l], v)
          /\ \E l \in 1..2 : Place(lanes[l], u) < Place(lanes[l], v)
    IN  /\ \A j \in DOMAIN out : Uuid(out[j].item) \in known \cap i.chunks
        /\ \A u \in known : Cardinality(at(u)) <= 1
        /\ \A u \in known \cap i.chunks, v \in known :
             beats(u, v) /\ at(v) # {} => at(u) # {} /\ Max(at(u)) < Min(at(v))
        /\ known \subseteq i.chunks =>
             Len(out) = Min({i.limit, Cardinality(known)})

(* What is said of the sources of ranked rows: each once, with its best    *)
(* score of all rows, better ones first, none left out for a worse one.    *)
ScoresOf(i, s) ==
  {i.slot.rows[j].score : j \in {m \in DOMAIN i.slot.rows :
                                  /\ i.slot.rows[m].uuid \in DOMAIN i.csm
                                  /\ i.csm[i.slot.rows[m].uuid] = s}}
SourcesOf(i) ==
  {i.csm[i.slot.rows[j].uuid] :
     j \in {m \in DOMAIN i.slot.rows : i.slot.rows[m].uuid \in DOMAIN i.csm}}
Best(highest, S) == IF highest THEN Max(S) ELSE Min(S)
Beats(highest, a, b) == IF highest THEN a > b ELSE a < b
RanksSources(i, out, highest) ==
  /\ \A a \in DOMAIN out :
       /\ out[a][1] \in SourcesOf(i)
       /\ out[a][2] = Best(highest, ScoresOf(i, out[a][1]))
       /\ \A b \in 1..(a - 1) :
            out[b][1] # out[a][1] /\ ~Beats(highest, out[a][2], out[b][2])
  /\ \A s \in SourcesOf(i) \ {out[a][1] : a \in DOMAIN out} :
       out # <<>> => ~Beats(highest, Best(highest, ScoresOf(i, s)), out[Len(out)][2])
  /\ Len(i.slot.rows) <= i.limit * Overfetch =>
       Len(out) = Min({i.limit, Cardinality(SourcesOf(i))})

SourcesRankByBestChunk ==
  Given("sources") =>
    LET i == input.of
        lane(nearest) == float_per_signal(<<i.slot>>, i.csm, i.limit, nearest)[1]
    IN  /\ RanksSources(i, bm25_top_k_by_source(i.slot.rows, i.csm, i.limit), TRUE)
        /\ \A nearest \in BOOLEAN :
             /\ (lane(nearest).lane = "Hits") <=> (lane(nearest).hits # <<>>)
             /\ i.slot.embeds = "vector" /\ ~i.slot.fails =>
                  RanksSources(i, lane(nearest).hits, nearest)

(* The fused answer names a chunk once, whatever casing the two lanes hold *)
(* its id in and however many vectors it has; a chunk that no lane ranks   *)
(* lower than another and one ranks higher comes first, and is not left    *)
(* out for it; while no chunk is missing the answer is as long as it may.  *)
(* Cutting the chunks before they are grouped does not change what is said *)
(* of a source: each is reported once, with the score of its best chunk of *)
(* all (its most distant for the farthest lane), no source left out scores *)
(* better than one reported, and nothing is left out while the chunks fit  *)
(* the cut.  The float lane says Hits exactly when it has some.            *)
RankingIsFair == FusionIsFair /\ SourcesRankByBestChunk

--------------------------------------------------------------------------
(* Drawer reads.                                                           *)

SetOf(s) == {s[i] : i \in DOMAIN s}
Alike(db) == \A i \in DOMAIN db : db[i].decodes
\* The pages of a sweep: the last id of each is the cursor of the next.
Sweep(db, limit) ==
  LET next[n \in Nat, after \in Seq(Nat)] ==
        LET page == active_drawers_after(db, after, limit)
        IN  IF n = 0 \/ ~page.ok \/ page.value = <<>> THEN <<page>>
            ELSE <<page>> \o next[n - 1, <<Last(page.value).id>>]
  IN  next[Len(db) + 1, <<>>]

ScansAgree ==
  Given("table") =>
    LET db == input.of.db
        limit == input.of.limit
        all == all_drawers(db)
        kept(s) == SelectSeq(s, LAMBDA r : r.decodes)
        facts == all_kg_facts(input.of.facts)
        ever == all_kg_facts_including_retired(input.of.facts)
    IN  /\ \A id \in drawer_ids(db) :
             get_drawer(db, id).ok <=> \E i \in DOMAIN all : all[i].id = id
        /\ \A id \in drawer_ids(db) :
             get_drawer(db, id).ok => get_drawer(db, id).value[1] \in SetOf(all)
        /\ all_drawers_bounded_desc(db, NoLimit) = Reverse(all)
        /\ Alike(db) =>
             /\ all_drawers_bounded(db, limit) = default_bounded(db, limit)
             /\ all_drawers_bounded_projected(db, limit) = default_projected(db, limit)
             /\ all_drawers_bounded_desc(db, limit) = default_desc(db, limit)
             /\ all_drawers_bounded_projected_desc(db, limit) = default_projected_desc(db, limit)
             /\ \A after \in {<<>>} \cup {<<id>> : id \in drawer_ids(db)} :
                  active_drawers_after(db, after, 2) = Ok(default_active_after(db, after, 2))
        /\ UNION {SetOf(drawers_by_source(db, f)) : f \in {db[i].source : i \in DOMAIN db}}
             = {r \in SetOf(all) : IsActive(r)}
        /\ SetOf(facts) = {f \in SetOf(ever) : is_cluster_a(f.state)}
        /\ SetOf(ever) = SetOf(all_proposals(input.of.facts))
        /\ SetOf(all_associations(input.of.facts)) = {f \in SetOf(ever) : IsActive(f)}

SweepVisitsOnce ==
  Given("table") =>
    LET db == input.of.db
    IN  \A limit \in 1..2 :
          LET pages == Sweep(db, limit)
              seen == FlattenSeq([i \in DOMAIN pages |->
                        IF pages[i].ok THEN pages[i].value ELSE <<>>])
              active == {r \in SetOf(db) : IsActive(r)}
          IN  /\ IsInjective(seen)
              /\ Last(pages).ok => SetOf(seen) = active
              /\ Alike(db) => Last(pages).ok

WindowsAgree ==
  Given("window") =>
    LET i == input.of
        start == i.end - i.count * i.seconds * 1000
        series(db) == fingerprint_bit_series(db, i.bit, i.seconds, i.count, i.end)
        captured(db) == fingerprints_captured_in(db, start, i.end)
        has(fp) == \E b \in 1..4 : \E j \in fp[b] : 64 * (b - 1) + j = i.bit
        hit(r) == LET c == captured(<<r>>) IN c.ok /\ c.value # <<>> /\ has(c.value[1])
    IN  /\ series(i.db).ok => (i.bit \in 0..255 /\ i.seconds >= 1)
        /\ (series(i.db).ok /\ i.count > 0) =>
             /\ \A k \in DOMAIN i.db :
                  Cardinality({n \in 1..i.count : series(<<i.db[k]>>).value[n]})
                    = IF hit(i.db[k]) THEN 1 ELSE 0
             /\ \A n \in 1..i.count :
                  series(i.db).value[n] = \E k \in DOMAIN i.db : series(<<i.db[k]>>).value[n]

FingerprintsFollow ==
  Given("mutation") =>
    LET born == [input.of.row EXCEPT !.fp = <<fingerprint("estate", input.of.row)>>]
        after[n \in Nat] ==
          IF n = 0 THEN born ELSE Mutated("estate", after[n - 1], input.of.writes[n])
        row == after[Len(input.of.writes)]
        t == row.eventTime
    IN  /\ row.fp = <<fingerprint("estate", row)>>
        /\ t.day >= CaptureWeekEpochDay =>
             capture_week_bucket(t) = ((t.day - CaptureWeekEpochDay) \div 7) % 256

BundlesAddUp ==
  Given("bundle") =>
    LET i == input.of
        in(room, ds) == SelectSeq(ds, LAMBDA d : d.room = room)
        fill(store, ds) ==
          FoldSet(LAMBDA room, st : materialize_room(i.bits, st, "w", room, in(room, ds)),
                  store, {i.drawers[k].room : k \in DOMAIN i.drawers})
        direct(ds) == Ok(count_fold(i.bits, [k \in DOMAIN ds |-> ds[k].bits]))
        wing(store) == bundle(i.bits, store, "w", WingRollupRoom, "A")
        other == put(put(<<>>, "w", "r1", "B", count_fold(i.bits, <<i.bits>>)),
                     "w2", "r1", "A", count_fold(i.bits, <<i.bits>>))
        first == roll_up_wing(i.bits, fill(other, i.drawers), "w")
        again == roll_up_wing(i.bits, first, "w")
        rest == SelectSeq(i.drawers, LAMBDA d : d.id # i.left)
        later == roll_up_wing(i.bits, fill(again, rest), "w")
    IN  /\ wing(first) = direct(i.drawers)
        /\ again = first
        /\ wing(later) = direct(rest)
        /\ \A k \in DOMAIN other : later[k] = other[k]

(* The ways to read drawers agree.  Where every row decodes, each scan     *)
(* pushed into the storage returns what the trait's default computes in    *)
(* memory, the newest-first one the reverse of the oldest-first one; a     *)
(* sweep in pages sees every active drawer once, and where a row does not  *)
(* decode it fails instead of passing it over.  A capture in the window of *)
(* a bit series is counted in one bucket, the one the window read finds it *)
(* in.  After any mutations the stored fingerprint is that of the row, and *)
(* a wing's count vector is the fold of the drawers in it, whenever rooms  *)
(* were filled and the wing rolled up.                                     *)
DrawerReadsAgree ==
  /\ ScansAgree /\ SweepVisitsOnce /\ WindowsAgree
  /\ FingerprintsFollow /\ BundlesAddUp
=============================================================================
