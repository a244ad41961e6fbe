----------------------------- MODULE SearchLaws -----------------------------
(***************************************************************************)
(* Filters, recall and vector search, each examined on a bounded set of    *)
(* inputs beside those of Laws.  A module of its own, because filters and  *)
(* the radius loop are RECURSIVE operators and Laws is proved about.       *)
(***************************************************************************)
EXTENDS Laws, Filters, VectorSearch

CONSTANTS
  FilterInputs,    \* [chain, drawer]
  RecallInputs,    \* [db, frame, failed]
  SearchInputs,    \* [records, ops, probe, k, filter, m, budget]
  FloatInputs,     \* [rows, metric, dim, k, built, gone]
  SidecarInputs,   \* [array, cut]: an array, and where its file ends
  ListingInputs    \* [rows, limit]

Filter == Try("filter", FilterInputs)
Recall == Try("recall", RecallInputs)
Search == Try("search", SearchInputs)
FloatSearch == Try("float", FloatInputs)
Reload == Try("sidecar", SidecarInputs)
List == Try("listing", ListingInputs)

(* The inputs of Laws and these side by side.                              *)
SearchNext == Filter \/ Recall \/ Search \/ FloatSearch \/ Reload \/ List
SearchSpec == Init /\ [][Next \/ SearchNext]_input

--------------------------------------------------------------------------
(* Filters: what each one says of a drawer, by the accessors of the        *)
(* bitmaps and the propositional connectives.                              *)

LeafMeans(f, d, names) ==
  LET state == Reads(State, d.adj)
      trust == Reads(Trust, d.adj)
      sensitivity == Reads(AdjectiveSensitivity, d.adj)
      confirmation == Reads(Confirmation, d.prov)
  IN  CASE f.op = "CurrentlyBelieve" -> is_cluster_a(state)
        [] f.op = "UsedToBelieve" -> is_knew_past(state)
        [] f.op = "KnewOnceAndErased" -> is_terminal(state)
        [] f.op = "State" -> state = f.arg
        [] f.op = "StateInCluster" ->
             \/ f.arg = "KnowNow" /\ is_cluster_a(state)
             \/ f.arg = "KnewPast" /\ is_knew_past(state)
             \/ f.arg = "Terminal" /\ is_terminal(state)
        [] f.op = "Trustworthy" -> trust \in 0..3
        [] f.op = "RequiresConfirmation" -> trust \notin 0..3
        [] f.op = "Trust" -> trust = f.arg
        [] f.op = "TrustAtMost" -> trust <= f.arg
        [] f.op = "Sensitivity" -> sensitivity = f.arg
        [] f.op = "SensitivityAtMost" -> sensitivity <= f.arg
        [] f.op = "Exportable" -> Reads(AdjectiveExportability, d.adj) = 32
        [] f.op = "Contained" -> Reads(AdjectiveExportability, d.adj) = 0
        [] f.op = "UserConfirmed" -> confirmation >= 1
        [] f.op = "AutomatedConfirmedOnly" -> confirmation = 2
        [] f.op = "Unconfirmed" -> confirmation = 0
        [] f.op = "SourceType" -> Reads(SourceType, d.prov) = f.arg
        [] f.op = "ConfidenceAtLeast" -> Reads(Confidence, d.prov) >= f.arg
        [] f.op = "Channel" -> Reads(Channel, d.prov) = f.arg
        [] f.op = "CaptureChannel" -> Reads(CaptureChannel, d.op) = f.arg
        [] f.op = "ContentKind" -> Reads(ContentKind, d.op) = f.arg
        [] f.op = "HasFeatureFlag" -> feature_flags(d.op) \cap f.arg # {}
        [] f.op = "ContentMatches" -> f.arg \in d.content
        [] f.op \in StructuralFilters -> structured_leaf(f, d, names)

RECURSIVE Means(_, _, _)
Means(f, d, names) ==
  CASE f.op = "All" -> \A i \in DOMAIN f.arg : Means(f.arg[i], d, names)
    [] f.op = "Any" -> \E i \in DOMAIN f.arg : Means(f.arg[i], d, names)
    [] f.op = "Not" -> ~Means(f.arg[1], d, names)
    [] OTHER -> LeafMeans(f, d, names)

Matches(chain, d, names) ==
  /\ Reads(State, d.adj) # Tombstoned
  /\ \A i \in DOMAIN chain : Means(chain[i], d, names)

(* The chains the three tiers keep apart: a compound filter is of one      *)
(* tier, a negation of the bitmap tier only.  The tiers do not compute     *)
(* what the other compounds say (README, section 6).                       *)
RECURSIVE Separable(_)
Separable(f) ==
  \/ f.op \notin Compound
  \/ ~is_structural_filter(f) /\ ~is_content_filter(f)
  \/ /\ f.op = "All"
     /\ \A i \in DOMAIN f.arg : Separable(f.arg[i])
  \/ /\ f.op = "Any"
     /\ \A i \in DOMAIN f.arg : f.arg[i].op \in StructuralFilters
  \/ /\ f.op = "Any"
     /\ \A i \in DOMAIN f.arg : f.arg[i].op = "ContentMatches"
SeparableChain(chain) == \A i \in DOMAIN chain : Separable(chain[i])

(* No filter is evaluated twice or by the wrong tier: a drawer passes the  *)
(* three tiers iff it satisfies the whole chain with the cautious defaults *)
(* put in where the chain is silent.                                       *)
TiersMeanTheirFilter ==
  Given("filter") =>
    LET d == input.of.drawer
        chain == input.of.chain
        names == d.room :> <<"wing", "room">>
        frame == [filter_chain |-> chain, as_of |-> Unbounded,
                  ordering |-> "ByCaptureTimeDesc"]
        SaysOf(is(_)) == \E i \in DOMAIN chain : is(chain[i])
    IN  SeparableChain(chain) =>
          ((evaluate(frame, <<d>>, <<>>, names) # <<>>) <=>
             /\ Matches(chain, d, names)
             /\ SaysOf(is_bitmap_state_filter) \/ is_cluster_a(Reads(State, d.adj))
             /\ SaysOf(is_bitmap_trust_filter) \/ Reads(Trust, d.adj) \in 0..3
             /\ SaysOf(is_bitmap_sensitivity_filter)
                  \/ is_bulk_exportable(Reads(AdjectiveSensitivity, d.adj)))

DrawerIds(s) == {s[k].id : k \in DOMAIN s}
HandsOut(frame, r, handed, wanted, by_id) ==
  /\ DrawerIds(handed) = DrawerIds(wanted)
  /\ Len(handed) = Len(wanted)
  /\ \A k \in DOMAIN handed :
       /\ frame.hydration = "BitmapOnly" => handed[k].content = {}
       /\ frame.hydration = "Full" => handed[k].content # {}
       /\ \A j \in 1..(k - 1) : handed[j].filed_at >= handed[k].filed_at
  /\ DrawerIds(SelectSeq(by_id.admissible, LAMBDA d : ~d.tombstoned)) = DrawerIds(wanted)
  /\ r.traced \subseteq DrawerIds(wanted)
Wanted(db, chain) ==
  SelectSeq(db.drawers, LAMBDA d : ~d.tombstoned /\ Matches(chain, d, db.names))
Answers(db, frame, failed, r) ==
  IF r.stages \subseteq {"TraceWrite"}
    THEN Len(db.drawers) <= RECALL_CANDIDATE_CAP =>
           HandsOut(frame, r, collect_all(r), Wanted(db, insert_defaults(frame.filter_chain)),
                    get_drawers_matching_frame(db, DrawerIds(db.drawers), frame))
    ELSE collect_all(r) = <<>> /\ r.stages \subseteq failed

(* A recall that reports no degraded stage hands out, over all its pages,  *)
(* each live drawer the frame asks for exactly once, as long as the estate *)
(* fits the scan bound, whether it scanned or pruned by container          *)
(* fingerprints; a recall that lost a read says so; and the by-id load of  *)
(* the same ids agrees with it.                                            *)
RecallIsComplete ==
  Given("recall") =>
    LET i == input.of
    IN  Answers(i.db, i.frame, i.failed, recall(i.db, i.frame, i.failed))

--------------------------------------------------------------------------
(* Vectors.                                                                *)

(* What a sequence of writes leaves in the vectors table.                  *)
TableAfter(records, ops) ==
  FoldLeft(LAMBDA table, op :
             IF op.do = "add" THEN op.key :> op.code @@ table
             ELSE [k \in DOMAIN table \ {op.key} |-> table[k]],
           FoldLeft(LAMBDA table, r : r[1] :> r[2] @@ table, <<>>, records), ops)
Nearest(table, probe, k, filter) ==
  Truncate(SetToSortSeq({Hit(key, distance(probe, table[key])) :
                           key \in {c \in DOMAIN table : accepts(filter, c)}}, HitLess), k)

EnginesAreExact ==
  Given("search") =>
    LET i == input.of
        mih == FoldLeft(LAMBDA ix, op : IF op.do = "add" THEN mih_add(ix, op.key, op.code)
                                        ELSE mih_remove(ix, op.key),
                        mih_build(i.m, i.budget, i.records), i.ops)
        brute == FoldLeft(LAMBDA ix, op : IF op.do = "add" THEN brute_add(ix, op.key, op.code)
                                          ELSE brute_remove(ix, op.key),
                          brute_build(i.records), i.ops)
        table == TableAfter(i.records, i.ops)
        exact == Nearest(table, i.probe, i.k, i.filter)
        doc == [j \in DOMAIN i.records |-> i.records[j][2]]
        best == max_sim_score(doc, 2 :> doc @@ 1 :> Truncate(doc, 1), 1)
    IN  /\ mih_search(mih, BinaryPayload(i.probe), "Hamming", i.k, i.filter) = exact
        /\ brute_search(brute, BinaryPayload(i.probe), "Hamming", i.k, i.filter) = exact
        /\ i.filter.model_version = Unset /\ i.filter.model_id # Unset =>
             \A active \in BOOLEAN :
               find_nearest(active, mih, brute, i.probe, i.filter.model_id, i.k) = exact
        /\ live_count(brute) = Cardinality(DOMAIN table)
        /\ doc # <<>> => best[1].score = Len(doc) * Width

(* What is reported of a distance is it up to an error, unless saturated.  *)
Reports(raw, dist, error) ==
  \/ raw * Fraction - dist \in -error..error
  \/ raw = MAX_RAW /\ dist > raw * Fraction
  \/ raw = -MAX_RAW - 1 /\ dist < raw * Fraction

FloatScanIsExact ==
  Given("float") =>
    LET i == input.of
        of == {r \in {i.rows[j] : j \in DOMAIN i.rows} :
                 /\ r.key.model_id = 1
                 /\ r.payload.kind = "Float32"
                 /\ r.payload.dim = i.dim}
        ranked(rows, nearest) ==
          Truncate(SetToSortSeq(rows, LAMBDA a, b :
            IF a.payload.at = b.payload.at THEN KeyLess(a.key, b.key)
            ELSE Better(nearest, a.payload.at, b.payload.at)), i.k)
        finds(ids, raws, rows, nearest, error) ==
          LET best == ranked(rows, nearest)
          IN  /\ ids = [n \in DOMAIN best |-> best[n].key.item_id]
              /\ \A n \in DOMAIN best :
                   /\ Reports(raws[n], best[n].payload.at, error)
                   /\ \A m \in 1..(n - 1) : ~Better(nearest, raws[n], raws[m])
        scans(found, nearest) ==
          finds([n \in DOMAIN found |-> found[n].item_id],
                [n \in DOMAIN found |-> found[n].distance], of, nearest, Fraction \div 2)
        records == fetch_float_records(i.rows, 1)
        built == float_build(Truncate(records, i.built))
        index == FoldLeft(LAMBDA ix, r : IF ix = Refused THEN Refused
                                         ELSE float_add(ix, r.key, r.payload),
                          built, SubSeq(records, i.built + 1, Len(records)))
        gone == VectorRecordKey(i.gone, 0, 1, 1)
        filter == [model_id |-> Unset, model_version |-> Unset]
    IN  /\ i.metric = "Cosine" =>
             /\ scans(find_nearest_float(i.rows, i.dim, 1, i.k), TRUE)
             /\ scans(find_farthest_float(i.rows, i.dim, 1, i.k), FALSE)
        /\ index # Refused /\ of # {} =>
             \A nearest \in BOOLEAN :
               LET hits == search_directed(float_remove(index, gone), i.dim, i.k, filter, nearest)
               IN  finds([n \in DOMAIN hits |-> hits[n].key.item_id],
                         [n \in DOMAIN hits |-> hits[n].raw_distance],
                         {r \in of : r.key # gone}, nearest, Fraction - 1)

CutSidecarIsRefused ==
  Given("sidecar") =>
    LET written == input.of.array
        read == parse_sidecar(Truncate(write_sidecar(written), input.of.cut))
    IN  read = Refused \/ (/\ read.keys = written.keys
                           /\ read.vectors = written.vectors
                           /\ read.dead = written.dead)

(* After any build followed by additions, replacements and removals, both  *)
(* binary engines return exactly the k nearest vectors of the table, ties  *)
(* by key, with any number of bands and any mask budget, under any filter: *)
(* switching between them never changes an answer.  A document that holds  *)
(* every query token scores the most that late interaction can give.  A    *)
(* sidecar cut off anywhere is refused, or holds all the vectors it was    *)
(* written with: a reload never serves a part of the index.                *)
SearchIsExact == EnginesAreExact /\ CutSidecarIsRefused

ListingsAreComplete ==
  Given("listing") =>
    LET i == input.of
        rows == {i.rows[j] : j \in DOMAIN i.rows}
        newest(id) == Max({r.filed_at : r \in {q \in rows : q.item_id = id}})
        ids == {r.item_id : r \in rows}
    IN  /\ recent_item_ids(i.rows, i.limit) =
             Truncate(SetToSortSeq(ids, LAMBDA a, b :
                        IF newest(a) = newest(b) THEN a < b ELSE newest(a) > newest(b)), i.limit)
        /\ \A matching \in SUBSET ids :
             find_by_keyword(i.rows, matching, i.limit) =
               Truncate(SetToSortSeq(matching, <), i.limit)

(* The float scan, which keeps k rows at a time, returns the k nearest (or *)
(* farthest) rows of the model that have the probe's dimension, and the    *)
(* float index, built of some rows, given the others and relieved of one,  *)
(* the k nearest (or farthest) of those it has left.  Both break ties by   *)
(* key and only when the distances are equal, not when their reports are;  *)
(* a report is within half a ten-thousandth of the distance in the scan    *)
(* and within one in the index, and never contradicts the order.  The      *)
(* paged listings return the first ids of the whole ordered table, each    *)
(* once, however its rows fall on pages.                                   *)
TableScansAreExact == FloatScanIsExact /\ ListingsAreComplete
=============================================================================
