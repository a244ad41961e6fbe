---------------------------- MODULE VectorSearch ----------------------------
(***************************************************************************)
(* VectorKit's search engines: the brute-force scan and multi-index        *)
(* hashing over binary vectors, the float scans, late interaction, the     *)
(* paged enumerations of the vectors table, and the sidecar codec.         *)
(*                                                                         *)
(* A binary vector (Engram) is the set of its one bits.  A float vector    *)
(* keeps its dimension and its distance to the probe, counted in parts of  *)
(* the ten-thousandth that a hit reports: the cosine itself is external    *)
(* arithmetic.  A result that is an Err is Refused.                        *)
(***************************************************************************)
EXTENDS Integers, Sequences, FiniteSets, FiniteSetsExt, SequencesExt, TLC, Bitwise

CONSTANTS
  Width,       \* bits of a binary vector
  PAGE_SIZE,   \* rows of a page of the vectors table
  DEFAULT_BUDGET,\* masks a search may enumerate when no budget is given
  Fraction,    \* parts of a ten-thousandth that distances are told apart by
  MAX_RAW      \* i32::MAX

Refused == [refused |-> TRUE]

(* VectorRecordKey and its lexicographic order.                            *)
VectorRecordKey(item, index, model, version) ==
  [item_id |-> item, vector_index |-> index, model_id |-> model,
   model_version |-> version]
KeyTuple(k) == <<k.item_id, k.vector_index, k.model_id, k.model_version>>
KeyLess(a, b) ==
  \E i \in 1..4 : /\ KeyTuple(a)[i] < KeyTuple(b)[i]
                  /\ \A j \in 1..(i - 1) : KeyTuple(a)[j] = KeyTuple(b)[j]

(* External: EngramLib::distance.                                          *)
distance(a, b) == Cardinality((a \ b) \cup (b \ a))

Unset == 0   \* a MetadataFilter field that is None
accepts(filter, key) ==
  /\ filter.model_id \in {Unset, key.model_id}
  /\ filter.model_version \in {Unset, key.model_version}

Hit(key, dist) == [key |-> key, raw_distance |-> dist]
HitLess(a, b) ==
  \/ a.raw_distance < b.raw_distance
  \/ a.raw_distance = b.raw_distance /\ KeyLess(a.key, b.key)
Truncate(s, n) == SubSeq(s, 1, IF Len(s) < n THEN Len(s) ELSE n)

(* VectorPayload: the kind is read back with the bytes.                    *)
BinaryPayload(code) == [kind |-> "Binary", bits |-> code]
FloatPayload(dim, at) == [kind |-> "Float32", dim |-> dim, at |-> at]
as_engram(payload) == IF payload.kind = "Binary" THEN payload.bits ELSE Refused

--------------------------------------------------------------------------
(* The resident array: slots, dead slots, one range per model.             *)

(* The least range that holds every live slot of the model.                *)
build_partitions(keys, dead) ==
  LET live == DOMAIN keys \ dead
      of(m) == {i \in live : keys[i].model_id = m}
  IN  [m \in {keys[i].model_id : i \in live} |-> <<Min(of(m)), Max(of(m)) + 1>>]
ResidentVectorArray(keys, vectors, dead) ==
  [keys |-> keys, vectors |-> vectors, dead |-> dead,
   partitions |-> build_partitions(keys, dead)]
live_count(array) == Cardinality(DOMAIN array.keys \ array.dead)
partition_range(array, model) ==
  IF model \in DOMAIN array.partitions THEN array.partitions[model] ELSE <<1, 1>>

brute_build(records) ==
  ResidentVectorArray([i \in DOMAIN records |-> records[i][1]],
                      [i \in DOMAIN records |-> records[i][2]], {})
SlotsOf(array, key) == {i \in DOMAIN array.keys : array.keys[i] = key}

brute_add(array, key, code) ==
  ResidentVectorArray(Append(array.keys, key), Append(array.vectors, code),
                      array.dead \cup SlotsOf(array, key))
brute_remove(array, key) ==
  ResidentVectorArray(array.keys, array.vectors, array.dead \cup SlotsOf(array, key))

scan_range(array, filter) ==
  IF filter.model_id = Unset THEN <<1, Len(array.keys) + 1>>
  ELSE partition_range(array, filter.model_id)
brute_search(array, probe, metric, k, filter) ==
  IF probe.kind # "Binary" \/ metric # "Hamming" THEN Refused
  ELSE LET range == scan_range(array, filter)
           slots == {i \in range[1]..(range[2] - 1) :
                       i \notin array.dead /\ accepts(filter, array.keys[i])}
           hits == {Hit(array.keys[i], distance(probe.bits, array.vectors[i])) :
                      i \in slots}
       IN  Truncate(SetToSortSeq(hits, HitLess), k)

--------------------------------------------------------------------------
(* Multi-index hashing: m bands of sub_bits bits, a table per band from    *)
(* the band's value to the keys that have it.                              *)

sub_bits(m) == Width \div m
extract_band(code, t, sub) ==
  SumSet({2^(b - t * sub) : b \in code \cap (t * sub)..(t * sub + sub - 1)})

new_with_budget(m, budget) ==
  [m |-> m, budget |-> budget, tables |-> [t \in 0..(m - 1) |-> {}], codes |-> <<>>]
Postings(mih, key, code) ==
  [t \in 0..(mih.m - 1) |-> <<extract_band(code, t, sub_bits(mih.m)), key>>]
insert_into_tables(mih, key, code) ==
  [mih EXCEPT !.tables = [t \in DOMAIN @ |-> @[t] \cup {Postings(mih, key, code)[t]}]]
remove_from_tables(mih, key, code) ==
  [mih EXCEPT !.tables = [t \in DOMAIN @ |-> @[t] \ {Postings(mih, key, code)[t]}]]

mih_add(mih, key, code) ==
  LET without == IF key \in DOMAIN mih.codes
                   THEN remove_from_tables(mih, key, mih.codes[key]) ELSE mih
  IN  [insert_into_tables(without, key, code) EXCEPT !.codes = key :> code @@ @]
mih_remove(mih, key) ==
  IF key \notin DOMAIN mih.codes THEN mih
  ELSE [remove_from_tables(mih, key, mih.codes[key])
        EXCEPT !.codes = [k \in DOMAIN @ \ {key} |-> @[k]]]
mih_build(m, budget, records) ==
  FoldLeft(LAMBDA mih, r :
             [insert_into_tables(mih, r[1], r[2]) EXCEPT !.codes = r[1] :> r[2] @@ @],
           new_with_budget(m, budget), records)

(* The masks of at most max_hamming of n bits, by weight; within a weight  *)
(* each mask is computed from the one before it.                           *)
RECURSIVE LowestBit(_)
LowestBit(mask) == IF mask % 2 = 1 THEN 1 ELSE 2 * LowestBit(mask \div 2)
RECURSIVE masks_from(_, _)
masks_from(mask, limit) ==
  IF mask >= limit THEN {}
  ELSE LET c == LowestBit(mask)
           r == mask + c
       IN  {mask} \cup masks_from((((r ^^ mask) \div 4) \div c) | r, limit)
colex_flip_masks(n, max_hamming) ==
  {0} \cup UNION {masks_from(2^d - 1, 2^n) : d \in 1..(IF max_hamming < n THEN max_hamming ELSE n)}

(* How many masks there are.                                               *)
RECURSIVE choose_sum(_, _, _, _)
choose_sum(n, rho, d, c) ==
  IF d > rho \/ d > n THEN 0
  ELSE LET next == (c * (n - d + 1)) \div d IN next + choose_sum(n, rho, d + 1, next)
cumulative_choose(n, rho) == IF n = 0 THEN 0 ELSE 1 + choose_sum(n, rho, 1, 1)

(* The bounded max-heap, as the set of what it holds.                      *)
Worst(heap) == CHOOSE h \in heap : \A g \in heap : g = h \/ HitLess(g, h)
offer(heap, k, hit) ==
  IF Cardinality(heap) < k THEN heap \cup {hit}
  ELSE IF HitLess(hit, Worst(heap)) THEN (heap \ {Worst(heap)}) \cup {hit} ELSE heap
offer_all(heap, k, hits) == FoldSet(LAMBDA h, acc : offer(acc, k, h), heap, hits)
sorted_ascending(heap) == SetToSortSeq(heap, HitLess)

mih_brute_scan(mih, probe, k, filter) ==
  sorted_ascending(offer_all({}, k,
    {Hit(key, distance(probe, mih.codes[key])) :
       key \in {c \in DOMAIN mih.codes : accepts(filter, c)}}))

(* One band at one radius: keys not seen yet, by their band value.         *)
enumerate_band(mih, t, rho, probe, k, filter, s) ==
  LET masks == colex_flip_masks(sub_bits(mih.m), rho)
      sub == extract_band(probe, t, sub_bits(mih.m))
      found == {p[2] : p \in {q \in mih.tables[t] : \E x \in masks : q[1] = (sub ^^ x)}}
      new == found \ s.seen
      hits == {Hit(key, distance(probe, mih.codes[key])) :
                 key \in {c \in new \cap DOMAIN mih.codes : accepts(filter, c)}}
  IN  [seen |-> s.seen \cup new, heap |-> offer_all(s.heap, k, hits),
       count |-> s.count + Cardinality(masks)]

RECURSIVE bands_from(_, _, _, _, _, _, _)
bands_from(mih, t, r, probe, k, filter, s) ==
  IF t = mih.m THEN s
  ELSE LET rho == r \div mih.m + (IF t < r % mih.m THEN 1 ELSE 0)
       IN  bands_from(mih, t + 1, r, probe, k, filter,
                      enumerate_band(mih, t, rho, probe, k, filter, s))

Full(s, k, r) == Cardinality(s.heap) = k /\ Worst(s.heap).raw_distance <= r

(* Mutant: the search stops as soon as the heap is full. *)
RECURSIVE radius_from_Eager(_, _, _, _, _, _)
radius_from_Eager(mih, r, probe, k, filter, s) ==
  LET after == bands_from(mih, 0, r, probe, k, filter, s)
  IN  IF \/ Cardinality(after.heap) = k
         \/ Cardinality(after.seen) >= Cardinality(DOMAIN mih.codes)
         \/ r = Width
        THEN sorted_ascending(after.heap)
        ELSE radius_from_Eager(mih, r + 1, probe, k, filter, after)

(* Radius r: every code within r of the probe agrees with it in some band  *)
(* up to that band's share of r.  Beyond the mask budget the search falls  *)
(* back to the scan of all codes, unless what it has is already exact.     *)
RECURSIVE radius_from(_, _, _, _, _, _)
radius_from(mih, r, probe, k, filter, s) ==
  LET max_rho == r \div mih.m + (IF r % mih.m > 0 THEN 1 ELSE 0)
      projected == mih.m * cumulative_choose(sub_bits(mih.m), max_rho)
      after == bands_from(mih, 0, r, probe, k, filter, s)
  IN  IF s.count + projected > mih.budget /\ ~Full(s, k, r)
        THEN mih_brute_scan(mih, probe, k, filter)
      ELSE IF \/ Full(after, k, r)
              \/ Cardinality(after.seen) >= Cardinality(DOMAIN mih.codes)
              \/ r = Width
        THEN sorted_ascending(after.heap)
        ELSE radius_from(mih, r + 1, probe, k, filter, after)
knn(mih, probe, k, filter) ==
  radius_from(mih, 0, probe, k, filter, [seen |-> {}, heap |-> {}, count |-> 0])

mih_search(mih, probe, metric, k, filter) ==
  IF probe.kind # "Binary" \/ metric # "Hamming" THEN Refused
  ELSE IF k = 0 \/ DOMAIN mih.codes = {} THEN <<>>
  ELSE knn(mih, probe.bits, k, filter)

(* VectorStore::find_nearest over the index in use.                        *)
find_nearest(is_mih_active, mih, array, probe, model, k) ==
  LET filter == [model_id |-> model, model_version |-> Unset]
      hits == IF is_mih_active
                THEN mih_search(mih, BinaryPayload(probe), "Hamming", k, filter)
                ELSE brute_search(array, BinaryPayload(probe), "Hamming", k, filter)
  IN  IF k = 0 THEN <<>> ELSE hits

--------------------------------------------------------------------------
(* The float lane: a scan of the model's rows in key order that keeps the  *)
(* k best, and the index engine that sorts its slots.  Both order by the   *)
(* distance itself and report it in ten-thousandths.                       *)

Better(nearest, a, b) == IF nearest THEN a < b ELSE a > b

(* The rows of the model that decode as float vectors, by key.             *)
fetch_float_records(rows, model) ==
  SortSeq(SelectSeq(rows, LAMBDA r : r.key.model_id = model /\ r.payload.kind = "Float32"),
          LAMBDA a, b : KeyLess(a.key, b.key))

(* A distance as a hit reports it: in ten-thousandths, of which the index  *)
(* engine drops the fraction and the table scan rounds it, both saturated  *)
(* to the 32 bits of the report.                                           *)
Saturated(n) == Max({-MAX_RAW - 1, Min({MAX_RAW, n})})
TowardsZero(n, d) == IF n < 0 THEN -((-n) \div d) ELSE n \div d
float_to_raw(dist) == Saturated(TowardsZero(dist, Fraction))
RoundedToRaw(dist) ==
  Saturated(IF dist < 0 THEN -((Fraction - 2 * dist) \div (2 * Fraction))
            ELSE (Fraction + 2 * dist) \div (2 * Fraction))

Scored(item, dist) == [item_id |-> item, dist |-> dist]
VectorMatch(scored) == [item_id |-> scored.item_id, distance |-> RoundedToRaw(scored.dist)]

(* Mutant: a row is only kept while there is room. *)
keep_best_First(top, k, nearest, scored) ==
  IF Len(top) >= k THEN top ELSE Append(top, scored)

(* Insertion from the back, past the entries it beats.                     *)
keep_best(top, k, nearest, scored) ==
  LET beaten == {j \in DOMAIN top : \A i \in j..Len(top) :
                   Better(nearest, scored.dist, top[i].dist)}
      at == Len(top) - Cardinality(beaten)
  IN  IF Len(top) >= k /\ beaten = {} THEN top
      ELSE Truncate(SubSeq(top, 1, at) \o <<scored>> \o SubSeq(top, at + 1, Len(top)), k)

float_scan_from_table(rows, probe_dim, model, k, nearest) ==
  FoldLeft(LAMBDA top, r :
             IF r.payload.dim # probe_dim THEN top
             ELSE keep_best(top, k, nearest, Scored(r.key.item_id, r.payload.at)),
           <<>>, fetch_float_records(rows, model))
ScanMatches(rows, probe_dim, model, k, nearest) ==
  IF k = 0 \/ probe_dim = 0 THEN <<>>
  ELSE LET scored == float_scan_from_table(rows, probe_dim, model, k, nearest)
       IN  [i \in DOMAIN scored |-> VectorMatch(scored[i])]
find_nearest_float(rows, probe_dim, model, k) == ScanMatches(rows, probe_dim, model, k, TRUE)
find_farthest_float(rows, probe_dim, model, k) == ScanMatches(rows, probe_dim, model, k, FALSE)

(* FloatBruteForceIndex: all vectors of one dimension.                     *)
float_build(records) ==
  IF records = <<>> THEN [stride |-> 0, slots |-> <<>>, dead |-> {}]
  ELSE IF \E i \in DOMAIN records : \/ records[i].payload.kind # "Float32"
                                    \/ records[i].payload.dim # records[1].payload.dim
    THEN Refused
  ELSE [stride |-> records[1].payload.dim, slots |-> records, dead |-> {}]
float_add(index, key, payload) ==
  IF payload.kind # "Float32" \/ payload.dim # index.stride THEN Refused
  ELSE [index EXCEPT !.slots = Append(@, [key |-> key, payload |-> payload])]
float_remove(index, key) ==
  LET slots == {i \in DOMAIN index.slots : index.slots[i].key = key}
  IN  IF slots = {} THEN index ELSE [index EXCEPT !.dead = @ \cup {Min(slots)}]
search_directed(index, probe_dim, k, filter, nearest) ==
  IF index.stride = 0 THEN <<>>
  ELSE IF probe_dim # index.stride THEN Refused
  ELSE LET live == {i \in DOMAIN index.slots \ index.dead :
                      accepts(filter, index.slots[i].key)}
           before(i, j) ==
             LET a == index.slots[i]
                 b == index.slots[j]
             IN  \/ Better(nearest, a.payload.at, b.payload.at)
                 \/ a.payload.at = b.payload.at /\ KeyLess(a.key, b.key)
           best == Truncate(SetToSortSeq(live, before), k)
       IN  [n \in DOMAIN best |->
              LET slot == index.slots[best[n]] IN Hit(slot.key, float_to_raw(slot.payload.at))]

--------------------------------------------------------------------------
(* Late interaction: per query token its closest document token.           *)

compute_max_sim(query, doc) ==
  IF query = <<>> \/ doc = <<>> THEN 0
  ELSE FoldLeft(LAMBDA total, q :
                  total + Width - Min({distance(q, doc[i]) : i \in DOMAIN doc}),
                0, query)
max_sim_score(query, documents, k) ==
  LET hits == {[item_id |-> d, score |-> compute_max_sim(query, documents[d])] :
                 d \in DOMAIN documents}
      before(a, b) == a.score > b.score \/ (a.score = b.score /\ a.item_id < b.item_id)
  IN  IF k = 0 THEN <<>> ELSE Truncate(SetToSortSeq(hits, before), k)

--------------------------------------------------------------------------
(* Enumerations of distinct item ids, page by page over the ordered rows.  *)

RECURSIVE distinct_ids_from(_, _, _, _)
distinct_ids_from(rows, limit, offset, out) ==
  IF Len(out) >= limit THEN out
  ELSE LET page == SubSeq(rows, offset + 1,
                          IF offset + PAGE_SIZE < Len(rows) THEN offset + PAGE_SIZE ELSE Len(rows))
           taken == FoldLeft(LAMBDA acc, r :
                      IF Len(acc) < limit /\ ~Contains(acc, r.item_id)
                        THEN Append(acc, r.item_id) ELSE acc, out, page)
       IN  IF Len(page) < PAGE_SIZE THEN taken
           ELSE distinct_ids_from(rows, limit, offset + PAGE_SIZE, taken)

recent_item_ids(rows, limit) ==
  LET newer(a, b) == \/ a.filed_at > b.filed_at
                     \/ a.filed_at = b.filed_at /\ a.item_id < b.item_id
  IN  distinct_ids_from(SortSeq(rows, newer), limit, 0, <<>>)
find_by_keyword(rows, matching, limit) ==
  IF matching = {} THEN <<>>
  ELSE distinct_ids_from(SortSeq(SelectSeq(rows, LAMBDA r : r.item_id \in matching),
                                 LAMBDA a, b : a.item_id < b.item_id),
                         limit, 0, <<>>)

--------------------------------------------------------------------------
(* The sidecar: one cell per number, vector or text of the file, so that a *)
(* truncation may fall between any two of them.                            *)

VEC_VERSION == 1
encode_key(k) == <<k.item_id, k.vector_index, k.model_id, k.model_version>>
encode_partitions(partitions) ==
  LET models == SetToSortSeq(DOMAIN partitions, <)
  IN  <<Len(models)>> \o FlattenSeq([i \in DOMAIN models |->
        <<models[i], partitions[models[i]][1], partitions[models[i]][2]>>])
write_sidecar(array) ==
  <<"magic", VEC_VERSION, Len(array.keys), live_count(array), array.dead>>
    \o array.vectors
    \o FlattenSeq([i \in DOMAIN array.keys |-> encode_key(array.keys[i])])
    \o encode_partitions(array.partitions)

(* The partition index may be missing; it may not be cut short.            *)
decode_partitions(cells) ==
  IF cells = <<>> THEN <<>>
  ELSE IF Len(cells) < 1 + 3 * cells[1] THEN Refused
  ELSE [m \in {cells[3 * i - 1] : i \in 1..cells[1]} |->
          LET i == CHOOSE j \in 1..cells[1] : cells[3 * j - 1] = m
          IN  <<cells[3 * i], cells[3 * i + 1]>>]

parse_sidecar(cells) ==
  IF \/ Len(cells) < 5
     \/ cells[1] # "magic"
     \/ cells[2] # VEC_VERSION
     \/ Len(cells) < 5 + cells[3] + 4 * cells[3]
    THEN Refused
  ELSE LET n == cells[3]
           key(i) == LET at == 5 + n + 4 * (i - 1)
                     IN  VectorRecordKey(cells[at + 1], cells[at + 2], cells[at + 3], cells[at + 4])
           partitions == decode_partitions(SubSeq(cells, 6 + 5 * n, Len(cells)))
       IN  IF partitions = Refused THEN Refused
           ELSE [keys |-> [i \in 1..n |-> key(i)], vectors |-> SubSeq(cells, 6, 5 + n),
                 dead |-> cells[5], partitions |-> partitions]
=============================================================================
