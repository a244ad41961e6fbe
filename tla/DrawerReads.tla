---------------------------- MODULE DrawerReads ----------------------------
(***************************************************************************)
(* What the estate reads back from its drawers (drawer_store_inmemory.rs   *)
(* under the defaults of drawer_store.rs), the structural fingerprint kept *)
(* in every drawer row (drawer_fingerprint.rs), and the count vectors      *)
(* folded from the fingerprints of a room (bundle_materializer.rs,         *)
(* node_bundle_store.rs).                                                  *)
(*                                                                         *)
(* A table is a sequence of rows.  A drawer row has its id, times, source, *)
(* chunk index, text, the fields a fingerprint is derived from, the stored *)
(* fingerprint, and whether its lineage id parses (drawer_from_row).       *)
(* Optional values are sequences of at most one element.                   *)
(***************************************************************************)
EXTENDS Integers, Sequences, SequencesExt, FiniteSets, FiniteSetsExt

Err == [ok |-> FALSE]
Ok(v) == [ok |-> TRUE, value |-> v]

\* A query of the row store: its predicate, order and limit.
NoLimit == <<>>
Limited(s, limit) ==
  IF limit = NoLimit \/ Len(s) < limit[1] THEN s ELSE SubSeq(s, 1, limit[1])
Query(rows, Where(_), Before(_, _), limit) ==
  Limited(SortSeq(SelectSeq(rows, Where), Before), limit)
Everything(r) == TRUE
ById(r, s) == r.id < s.id
Oldest(r, s) == r.filedAt < s.filedAt \/ (r.filedAt = s.filedAt /\ r.id < s.id)
Newest(r, s) == Oldest(s, r)

Readable(rows) == SelectSeq(rows, LAMBDA r : r.decodes)
Collected(rows) ==
  IF \A i \in DOMAIN rows : rows[i].decodes THEN Ok(rows) ELSE Err

--------------------------------------------------------------------------
(* Drawers.                                                                *)

IsActive(r) == r.tombstonedAt = <<>>
WithoutContent(rows) == [i \in DOMAIN rows |-> [rows[i] EXCEPT !.content = "none"]]

get_drawer(db, id) ==
  LET rows == Query(db, LAMBDA r : r.id = id, ById, <<1>>)
  IN  IF rows = <<>> THEN Ok(<<>>) ELSE Collected(rows)

drawers_by_source(db, source) ==
  Readable(
    Query(db, LAMBDA r : r.source = source /\ IsActive(r),
          LAMBDA r, s : \/ r.chunkIndex < s.chunkIndex
                        \/ r.chunkIndex = s.chunkIndex /\ r.filedAt < s.filedAt,
          NoLimit))

all_drawers(db) == Readable(Query(db, Everything, Oldest, NoLimit))

all_drawers_bounded(db, limit) ==
  Readable(Query(db, Everything, Oldest, limit))

all_drawers_bounded_projected(db, limit) ==
  Readable(WithoutContent(Query(db, Everything, Oldest, limit)))

all_drawers_bounded_desc(db, limit) ==
  Readable(Query(db, Everything, Newest, limit))

all_drawers_bounded_projected_desc(db, limit) ==
  Readable(WithoutContent(Query(db, Everything, Newest, limit)))

drawer_ids(db) == {db[i].id : i \in DOMAIN db}

(* Mutant: the cursor's own row is read again.                             *)
active_drawers_after_From(db, after, limit) ==
  Collected(Query(db, LAMBDA r : IsActive(r) /\ (after # <<>> => r.id >= after[1]),
                  ById, <<limit>>))
active_drawers_after(db, after, limit) ==
  Collected(Query(db, LAMBDA r : IsActive(r) /\ (after # <<>> => r.id > after[1]),
                  ById, <<limit>>))

\* The defaults of the trait, for a store that implements all_drawers alone.
default_bounded(db, limit) == Limited(all_drawers(db), limit)
default_active_after(db, after, limit) ==
  Limited(SortSeq(SelectSeq(all_drawers(db),
                            LAMBDA r : IsActive(r) /\ (after # <<>> => r.id > after[1])),
                  ById), <<limit>>)
default_projected(db, limit) == WithoutContent(default_bounded(db, limit))
default_desc(db, limit) == Limited(Reverse(all_drawers(db)), limit)
default_projected_desc(db, limit) == WithoutContent(default_desc(db, limit))

--------------------------------------------------------------------------
(* The other tables, oldest first; what is left out is what was buried, or *)
(* for facts what left the active cluster of states.                       *)

ByFiling(r, s) == r.filedAt < s.filedAt
ActiveClusterUpperBound == 16
all_proposals(rows) == Query(rows, Everything, ByFiling, NoLimit)
all_associations(rows) == Query(rows, IsActive, ByFiling, NoLimit)
all_learned_references(rows) == Query(rows, IsActive, ByFiling, NoLimit)
all_diary_entries(rows) == Query(rows, IsActive, ByFiling, NoLimit)
all_kg_facts(rows) ==
  Query(rows, LAMBDA r : r.state < ActiveClusterUpperBound, ByFiling, NoLimit)
all_kg_facts_including_retired(rows) == Query(rows, Everything, ByFiling, NoLimit)

--------------------------------------------------------------------------
(* Fingerprints: four blocks, each the projection of one facet; equal      *)
(* facets give equal blocks, and the facet stands for the block here.      *)

CaptureWeekEpochDay == 18262
capture_week_bucket(t) ==
  LET seconds == (t.day - CaptureWeekEpochDay) * 86400 + (t.ms \div 1000)
  IN  IF seconds <= 0 THEN 0 ELSE (seconds \div (7 * 86400)) % 256

Dot == 10  \* any character that is no digit
udc_prefix(udc) ==
  LET digits == SelectSeq(udc, LAMBDA c : c \in 0..9)
  IN  SubSeq(digits, 1, IF Len(digits) < 4 THEN Len(digits) ELSE 4)

ancestors(qid) == IF qid = <<>> THEN {} ELSE {<<"above", qid[1]>>}

fingerprint(estate, d) ==
  <<[adjective |-> d.adjective, operational |-> d.operational, provenance |-> d.provenance],
    [udc |-> udc_prefix(d.udc), qid |-> d.qid, closure |-> ancestors(d.qid)],
    [lineage |-> d.lineage, week |-> capture_week_bucket(d.eventTime)],
    [channel |-> d.provenance.channel, source_type |-> d.provenance.source_type,
     capture_channel |-> d.operational.capture_channel,
     sensitivity |-> d.provenance.sensitivity, estate |-> estate]>>

(* The columns a mutation writes, and the patch its fingerprint is         *)
(* computed with: a bitmap through the gate, a lattice anchor, an expunge, *)
(* and the scrub of a sibling buried before.                               *)
update_vals(w) ==
  CASE w.op = "bitmap" -> [c \in {w.column} |-> w.value]
    [] w.op = "reanchor" /\ w.lattice # <<>> ->
         [udc |-> w.lattice[1].udc, qid |-> w.lattice[1].qid, parent |-> w.parent]
    [] w.op = "reanchor" /\ w.lattice = <<>> -> [parent |-> w.parent]
    [] w.op = "expunge" -> [adjective |-> w.value, content |-> "none", tombstonedAt |-> <<w.now>>]
    [] w.op \in {"scrub", "wipe"} -> [content |-> "none"]
patch(w) ==
  CASE w.op = "bitmap" -> [c \in {w.column} |-> w.value]
    [] w.op = "reanchor" /\ w.lattice # <<>> -> [udc |-> w.lattice[1].udc, qid |-> w.lattice[1].qid]
    [] w.op = "reanchor" /\ w.lattice = <<>> -> <<>>
    [] w.op = "expunge" -> [adjective |-> w.value, content |-> "none", tombstonedAt |-> <<w.now>>]
    [] w.op = "scrub" -> [content |-> "none"]

Assigned(row, values) == [c \in DOMAIN row |-> IF c \in DOMAIN values THEN values[c] ELSE row[c]]

recomputed_fingerprint(estate, row, change) == fingerprint(estate, Assigned(row, change))

\* wipe_all_content alone leaves the fingerprint as it is.
Mutated(estate, row, w) ==
  IF w.op = "wipe" THEN Assigned(row, update_vals(w))
  ELSE [Assigned(row, update_vals(w)) EXCEPT !.fp = <<recomputed_fingerprint(estate, row, patch(w))>>]

--------------------------------------------------------------------------
(* Reads by capture time.  Here a stored fingerprint is four sets of bits. *)

CapturedAt(r) == IF r.eventTime = <<>> THEN r.filedAt ELSE r.eventTime[1]
InWindow(r, from, to) == CapturedAt(r) \in from..to /\ IsActive(r)

StoredFps(rows) ==
  IF \A i \in DOMAIN rows : rows[i].fp # <<>> THEN Ok([i \in DOMAIN rows |-> rows[i].fp[1]])
  ELSE Err

fingerprints_captured_in(db, from, to) ==
  StoredFps(Query(db, LAMBDA r : InWindow(r, from, to), ById, NoLimit))

temporal_bit_set(fp, bit) ==
  CASE bit \in 0..63    -> bit \in fp[1]
    [] bit \in 64..127  -> (bit - 64) \in fp[2]
    [] bit \in 128..191 -> (bit - 128) \in fp[3]
    [] OTHER            -> (bit - 192) \in fp[4]

fingerprint_bit_series(db, bit, bucket_seconds, bucket_count, ending_at) ==
  LET width == bucket_seconds * 1000
      lower(i) == ending_at - (bucket_count - i) * width
      rows == SelectSeq(db, LAMBDA r : InWindow(r, lower(0), ending_at))
      decoded == Collected(rows)
      in_bucket(t, i) ==
        /\ t >= lower(i)
        /\ IF i = bucket_count - 1 THEN t <= ending_at ELSE t < lower(i + 1)
  IN  CASE bit > 255 \/ bucket_seconds < 1 -> Err
        [] OTHER ->
             IF bucket_count = 0 THEN Ok(<<>>)
             ELSE IF ~decoded.ok \/ ~StoredFps(rows).ok THEN Err
             ELSE Ok([k \in 1..bucket_count |->
                       \E j \in DOMAIN rows :
                         /\ in_bucket(CapturedAt(rows[j]), k - 1)
                         /\ temporal_bit_set(rows[j].fp[1], bit)])

--------------------------------------------------------------------------
(* Count vectors.  A bundle has, for every bit, the number of members with *)
(* that bit, and the number of members; a store maps keys to bundles.      *)

WingRollupRoom == "rollup"
Empty(bits) == [n |-> 0, counts |-> [b \in bits |-> 0]]
count_fold(bits, fps) ==
  [n |-> Len(fps),
   counts |-> [b \in bits |-> Cardinality({i \in DOMAIN fps : b \in fps[i]})]]
merge(x, y) ==
  [n |-> x.n + y.n, counts |-> [b \in DOMAIN x.counts |-> x.counts[b] + y.counts[b]]]

\* The counts column holds the counts alone, as a sequence of words; n has its own.
encode_counts(cv) == [j \in 1..Cardinality(DOMAIN cv.counts) |-> cv.counts[j - 1]]
decode_count_words(bits, data, n) ==
  IF Len(data) # Cardinality(bits) THEN Err
  ELSE Ok([n |-> n, counts |-> [b \in bits |-> data[b + 1]]])
bundle_from_row(bits, row) == decode_count_words(bits, row.counts, row.n)

put(store, wing, room, kind, cv) ==
  [k \in DOMAIN store \cup {<<wing, room, kind>>} |->
     IF k = <<wing, room, kind>> THEN [n |-> cv.n, counts |-> encode_counts(cv)] ELSE store[k]]

bundle(bits, store, wing, room, kind) ==
  IF <<wing, room, kind>> \notin DOMAIN store THEN Ok(<<>>)
  ELSE bundle_from_row(bits, store[<<wing, room, kind>>])

rooms(store, wing, kind) ==
  {k \in DOMAIN store : k[1] = wing /\ k[3] = kind /\ k[2] # WingRollupRoom}

materialize_room(bits, store, wing, room, active) ==
  put(store, wing, room, "A", count_fold(bits, [i \in DOMAIN active |-> active[i].bits]))

rolled_up(bits, store, wing) ==
  FoldSet(LAMBDA k, acc : merge(acc, bundle_from_row(bits, store[k]).value),
          Empty(bits), rooms(store, wing, "A"))
roll_up_wing(bits, store, wing) ==
  put(store, wing, WingRollupRoom, "A", rolled_up(bits, store, wing))
=============================================================================
