------------------------------ MODULE Filters ------------------------------
(***************************************************************************)
(* What a recall returns: the filter algebra of filter.rs, its evaluation  *)
(* in three tiers (bitmap_evaluator.rs), the candidate scan and pruning of *)
(* Estate::recall and the by-id load (estate_verbs.rs), and the paged      *)
(* stream (recall_stream.rs).                                              *)
(*                                                                         *)
(* A filter is a record with the name of its case and its argument; a      *)
(* chain is a sequence of filters read as a conjunction.  A drawer carries *)
(* its three bitmaps as sets of bits, its content as the set of the texts  *)
(* it contains, its UDC code as a sequence of digits.                      *)
(***************************************************************************)
EXTENDS Bitmaps, Sequences, SequencesExt, TLC

CONSTANTS
  RECALL_CANDIDATE_CAP,  \* rows a recall scans at least
  DEFAULT_PAGE_SIZE      \* rows of a page when the frame names no limit

Nothing == "nothing"   \* a Rust None among strings
Unbounded == -1        \* a limit of None

F(op, arg) == [op |-> op, arg |-> arg]
Compound == {"All", "Any", "Not"}

--------------------------------------------------------------------------
(* The tier a filter belongs to.                                           *)

StateFilters ==
  {"CurrentlyBelieve", "UsedToBelieve", "KnewOnceAndErased", "State",
   "StateInCluster"}
TrustFilters == {"Trustworthy", "RequiresConfirmation", "Trust", "TrustAtMost"}
SensitivityFilters == {"Sensitivity", "SensitivityAtMost"}
StructuralFilters ==
  {"InRoom", "InWing", "LineageID", "CreatedAfter", "CreatedBefore",
   "LatticeAnchor", "LatticeUnder", "WikidataConcept"}
BitmapFilters ==
  StateFilters \cup TrustFilters \cup SensitivityFilters \cup
  {"Exportable", "Contained", "UserConfirmed", "AutomatedConfirmedOnly",
   "Unconfirmed", "SourceType", "ConfidenceAtLeast", "Channel",
   "CaptureChannel", "ContentKind", "HasFeatureFlag"}

(* One of the given cases occurs in f, at any depth.                       *)
RECURSIVE Mentions(_, _)
Mentions(f, ops) ==
  IF f.op \in Compound THEN \E i \in DOMAIN f.arg : Mentions(f.arg[i], ops)
  ELSE f.op \in ops

is_bitmap_state_filter(f) == Mentions(f, StateFilters)
is_bitmap_trust_filter(f) == Mentions(f, TrustFilters)
is_bitmap_sensitivity_filter(f) == Mentions(f, SensitivityFilters)
is_structural_filter(f) == Mentions(f, StructuralFilters)
is_content_filter(f) == Mentions(f, {"ContentMatches"})
filter_is_prunable(f) == Mentions(f, {"HasFeatureFlag"})
chain_has_prunable_filter(chain) ==
  \E i \in DOMAIN chain : filter_is_prunable(chain[i])
chain_has_content_predicate(chain) ==
  \E i \in DOMAIN chain : is_content_filter(chain[i])

(* A chain that says nothing of state, trust or sensitivity gets the       *)
(* cautious default for it.                                                *)
insert_defaults(chain) ==
  LET lacks(is(_)) == ~\E i \in DOMAIN chain : is(chain[i])
      unless(missing, f) == IF missing THEN <<f>> ELSE <<>>
  IN  unless(lacks(is_bitmap_sensitivity_filter), F("SensitivityAtMost", Elevated))
        \o unless(lacks(is_bitmap_trust_filter), F("Trustworthy", 0))
        \o unless(lacks(is_bitmap_state_filter), F("CurrentlyBelieve", 0))
        \o chain

--------------------------------------------------------------------------
(* The bitmap tier.                                                        *)

TRUST_THRESHOLD == 4
PROV_USER_CONFIRMED == 1
ClusterOf(adj) == shift_extract(adj, 4, 0..1)
Clusters == [KnowNow |-> 0, KnewPast |-> 1, Terminal |-> 2]

(* The bits field f has when it holds raw, and a comparison of its value.  *)
Holds(f, bm, raw) == and_mask(bm, FieldBits(f), BitsOf(raw, f.low, f.width))
Compare(f, bm, op, value) == threshold_compare(bm, FieldBits(f), f.low, op, value)

(* A filter of the bitmap tier on the three bitmaps of a row.              *)
bitmap_leaf(f, adj, op, prov) ==
  CASE f.op = "CurrentlyBelieve" -> ClusterOf(adj) = 0
    [] f.op = "UsedToBelieve" -> ClusterOf(adj) = 1
    [] f.op = "KnewOnceAndErased" -> ClusterOf(adj) = 2
    [] f.op = "State" -> Holds(State, adj, f.arg)
    [] f.op = "StateInCluster" -> ClusterOf(adj) = Clusters[f.arg]
    [] f.op = "Trustworthy" -> Compare(Trust, adj, "<", TRUST_THRESHOLD)
    [] f.op = "RequiresConfirmation" -> Compare(Trust, adj, ">=", TRUST_THRESHOLD)
    [] f.op = "Trust" -> Holds(Trust, adj, f.arg)
    [] f.op = "TrustAtMost" -> Compare(Trust, adj, "<=", f.arg)
    [] f.op = "Sensitivity" -> Holds(AdjectiveSensitivity, adj, f.arg)
    [] f.op = "SensitivityAtMost" -> Compare(AdjectiveSensitivity, adj, "<=", f.arg)
    [] f.op = "Exportable" -> Holds(AdjectiveExportability, adj, 32)
    [] f.op = "Contained" -> Holds(AdjectiveExportability, adj, 0)
    [] f.op = "UserConfirmed" -> Compare(Confirmation, prov, ">=", PROV_USER_CONFIRMED)
    [] f.op = "AutomatedConfirmedOnly" -> Holds(Confirmation, prov, 2)
    [] f.op = "Unconfirmed" -> Holds(Confirmation, prov, 0)
    [] f.op = "SourceType" -> Holds(SourceType, prov, f.arg)
    [] f.op = "ConfidenceAtLeast" -> Compare(Confidence, prov, ">=", f.arg)
    [] f.op = "Channel" -> Holds(Channel, prov, f.arg)
    [] f.op = "CaptureChannel" -> Holds(CaptureChannel, op, f.arg)
    [] f.op = "ContentKind" -> Holds(ContentKind, op, f.arg)
    [] f.op = "HasFeatureFlag" -> op \cap f.arg # {}

(* Mutant: a negation is not carried into its child. *)
RECURSIVE evaluate_one_IgnoresNot(_, _, _, _)
evaluate_one_IgnoresNot(f, adj, op, prov) ==
  CASE f.op = "Any" -> \E i \in DOMAIN f.arg :
                         evaluate_one_IgnoresNot(f.arg[i], adj, op, prov)
    [] f.op \in {"All", "Not"} -> \A i \in DOMAIN f.arg :
                         evaluate_one_IgnoresNot(f.arg[i], adj, op, prov)
    [] f.op \in BitmapFilters -> bitmap_leaf(f, adj, op, prov)
    [] OTHER -> TRUE

RECURSIVE evaluate_one(_, _, _, _)
evaluate_one(f, adj, op, prov) ==
  CASE f.op = "All" -> \A i \in DOMAIN f.arg : evaluate_one(f.arg[i], adj, op, prov)
    [] f.op = "Any" -> \E i \in DOMAIN f.arg : evaluate_one(f.arg[i], adj, op, prov)
    [] f.op = "Not" -> ~evaluate_one(f.arg[1], adj, op, prov)
    [] f.op \in BitmapFilters -> bitmap_leaf(f, adj, op, prov)
    [] OTHER -> TRUE

evaluate_bitmap_tier(chain, adj, op, prov) ==
  /\ extract_field(adj, 0, 6) # Tombstoned
  /\ \A i \in DOMAIN chain : evaluate_one(chain[i], adj, op, prov)

--------------------------------------------------------------------------
(* The structured tier: only children that name a structural filter count. *)

structured_leaf(f, d, names) ==
  LET place == IF d.room \in DOMAIN names THEN names[d.room] ELSE <<"", "">>
  IN  CASE f.op = "InWing" -> place[1] = f.arg
        [] f.op = "InRoom" -> place[2] = f.arg
        [] f.op = "LineageID" -> d.lineage = f.arg
        [] f.op = "CreatedAfter" -> d.filed_at > f.arg
        [] f.op = "CreatedBefore" -> d.filed_at < f.arg
        [] f.op = "LatticeAnchor" -> d.udc_code = f.arg
        [] f.op = "LatticeUnder" -> IsPrefix(f.arg, d.udc_code)
        [] f.op = "WikidataConcept" -> d.qid = f.arg \/ f.arg \in d.qids

Structural(fs) == {i \in DOMAIN fs : is_structural_filter(fs[i])}

RECURSIVE evaluate_structured(_, _, _)
evaluate_structured(f, d, names) ==
  CASE f.op = "All" -> \A i \in Structural(f.arg) :
                         evaluate_structured(f.arg[i], d, names)
    [] f.op = "Any" -> \/ Structural(f.arg) = {}
                       \/ \E i \in Structural(f.arg) :
                            evaluate_structured(f.arg[i], d, names)
    [] f.op = "Not" -> \/ ~is_structural_filter(f.arg[1])
                       \/ ~evaluate_structured(f.arg[1], d, names)
    [] f.op \in StructuralFilters -> structured_leaf(f, d, names)
    [] OTHER -> TRUE

(* The content tier, likewise.                                             *)
ContentChildren(fs) == {i \in DOMAIN fs : is_content_filter(fs[i])}

RECURSIVE evaluate_content(_, _)
evaluate_content(f, d) ==
  CASE f.op = "All" -> \A i \in ContentChildren(f.arg) : evaluate_content(f.arg[i], d)
    [] f.op = "Any" -> \/ ContentChildren(f.arg) = {}
                       \/ \E i \in ContentChildren(f.arg) : evaluate_content(f.arg[i], d)
    [] f.op = "Not" -> \/ ~is_content_filter(f.arg[1])
                       \/ ~evaluate_content(f.arg[1], d)
    [] f.op = "ContentMatches" -> f.arg \in d.content
    [] OTHER -> TRUE

--------------------------------------------------------------------------
(* External: AuditLogFold::project_state_at, the bitmaps after the last    *)
(* audited event not later than as_of, if there is one.                    *)
reconstruct_at(events, as_of) ==
  LET past == SelectSeq(events, LAMBDA e : e.hlc <= as_of)
  IN  SubSeq(past, Len(past), Len(past))

sort_drawers(drawers, ordering, names) ==
  LET room(d) == IF d.room \in DOMAIN names THEN d.room ELSE 0
      before(a, b) ==
        CASE ordering = "ByCaptureTimeDesc" ->
               a.filed_at > b.filed_at \/ (a.filed_at = b.filed_at /\ a.id < b.id)
          [] ordering = "ByCaptureTimeAsc" ->
               a.filed_at < b.filed_at \/ (a.filed_at = b.filed_at /\ a.id < b.id)
          [] ordering = "ByRoomAsc" ->
               room(a) < room(b) \/ (room(a) = room(b) /\ a.id < b.id)
  IN  SortSeq(drawers, before)

evaluate(frame, drawers, events, names) ==
  LET chain == insert_defaults(frame.filter_chain)
      bits(d) == IF frame.as_of = Unbounded THEN <<d>>
                 ELSE reconstruct_at(events[d.id], frame.as_of)
      admitted(d) ==
        /\ \E i \in DOMAIN bits(d) :
             evaluate_bitmap_tier(chain, bits(d)[i].adj, bits(d)[i].op, bits(d)[i].prov)
        /\ \A i \in DOMAIN chain : evaluate_structured(chain[i], d, names)
        /\ \A i \in DOMAIN chain : evaluate_content(chain[i], d)
  IN  sort_drawers(SelectSeq(drawers, admitted), frame.ordering, names)

--------------------------------------------------------------------------
(* Pruning by the OR of a container's operational bitmaps.                 *)

RECURSIVE container_provably_excludes(_, _)
container_provably_excludes(f, fp) ==
  CASE f.op = "HasFeatureFlag" -> fp \cap f.arg = {}
    [] f.op = "All" -> \E i \in DOMAIN f.arg : container_provably_excludes(f.arg[i], fp)
    [] f.op = "Any" -> /\ f.arg # <<>>
                       /\ \A i \in DOMAIN f.arg :
                            container_provably_excludes(f.arg[i], fp)
    [] OTHER -> FALSE

container_survives(chain, fp) ==
  ~\E i \in DOMAIN chain : container_provably_excludes(chain[i], fp)

--------------------------------------------------------------------------
(* Estate::recall over an estate db: its drawers in filing order, the      *)
(* room-level fingerprints in order, the wing rollups that exist, the room *)
(* names and the audit events.  failed names the internal reads that fail. *)

Bound(frame) ==
  IF frame.limit > RECALL_CANDIDATE_CAP THEN frame.limit ELSE RECALL_CANDIDATE_CAP
FirstOf(s, n) == SubSeq(s, 1, IF Len(s) < n THEN Len(s) ELSE n)
Blanked(d) == [d EXCEPT !.content = {}]

drawers_in_wing_room(db, entry) ==
  SelectSeq(db.drawers, LAMBDA d : db.names[d.room] = <<entry.wing, entry.room>>
                                     /\ ~d.tombstoned)

pruned_candidates(db, frame, failed) ==
  LET wing_survives(w) ==
        w \in DOMAIN db.wing_fps =>
          container_survives(frame.filter_chain, db.wing_fps[w])
      survivors ==
        SelectSeq(IF "RoomFingerprints" \in failed THEN <<>> ELSE db.room_fps,
                  LAMBDA e : /\ wing_survives(e.wing)
                             /\ container_survives(frame.filter_chain, e.fp))
      rows(e) == IF "RoomDrawerRead" \in failed THEN <<>>
                 ELSE drawers_in_wing_room(db, e)
  IN  [rows |-> FirstOf(FlattenSeq([i \in DOMAIN survivors |-> rows(survivors[i])]),
                        Bound(frame)),
       stages |-> (failed \cap {"RoomFingerprints"})
                    \cup (IF survivors # <<>> THEN failed \cap {"RoomDrawerRead"}
                          ELSE {})]

(* The newest rows first; the bound is applied before the tombstones are   *)
(* dropped, and the content is left out when nobody reads it.              *)
scanned_candidates(db, frame, failed) ==
  LET newest == FirstOf(Reverse(db.drawers), Bound(frame))
      full == chain_has_content_predicate(frame.filter_chain)
                \/ frame.hydration = "Full"
      live == SelectSeq(newest, LAMBDA d : ~d.tombstoned)
  IN  IF "LiveRows" \in failed THEN [rows |-> <<>>, stages |-> {"LiveRows"}]
      ELSE [rows |-> IF full THEN live ELSE [i \in DOMAIN live |-> Blanked(live[i])],
            stages |-> {}]

(* Mutant: a failed read looks like an empty estate. *)
recall_Swallows(db, frame, failed) ==
  LET candidates == IF chain_has_prunable_filter(frame.filter_chain)
                      THEN pruned_candidates(db, frame, failed)
                      ELSE scanned_candidates(db, frame, failed)
  IN  [rows |-> evaluate(frame, candidates.rows, db.events, db.names),
       stages |-> {}, traced |-> {},
       page_size |-> DEFAULT_PAGE_SIZE, hydration |-> frame.hydration]

recall(db, frame, failed) ==
  LET candidates == IF chain_has_prunable_filter(frame.filter_chain)
                      THEN pruned_candidates(db, frame, failed)
                      ELSE scanned_candidates(db, frame, failed)
      read == candidates.stages \cup
                (IF candidates.stages = {} THEN failed \cap {"BitmapEval"} ELSE {})
      filtered == IF read # {} THEN <<>>
                  ELSE evaluate(frame, candidates.rows, db.events, db.names)
      traces == IF frame.trace_limit = Unbounded THEN <<>>
                ELSE FirstOf(filtered, frame.trace_limit)
      written == traces = <<>> \/ "TraceWrite" \notin failed
  IN  [rows |-> filtered,
       stages |-> read \cup (IF written THEN {} ELSE {"TraceWrite"}),
       traced |-> IF written THEN {traces[i].id : i \in DOMAIN traces} ELSE {},
       page_size |-> IF frame.limit = Unbounded THEN DEFAULT_PAGE_SIZE ELSE frame.limit,
       hydration |-> frame.hydration]

get_drawers_matching_frame(db, ids, frame) ==
  LET loaded == SelectSeq(db.drawers, LAMBDA d : d.id \in ids)
      admissible == evaluate(frame, loaded, db.events, db.names)
  IN  [admissible |-> IF frame.hydration = "BitmapOnly"
                        THEN [i \in DOMAIN admissible |-> Blanked(admissible[i])]
                        ELSE admissible,
       loaded_ids |-> {loaded[i].id : i \in DOMAIN loaded}]

--------------------------------------------------------------------------
(* The stream: pages of at least one row, the last one marked.             *)

hydrate(d, level) == IF level = "BitmapOnly" THEN Blanked(d) ELSE d

next_page(stream, offset) ==
  LET size == IF stream.page_size < 1 THEN 1 ELSE stream.page_size
      end == IF offset + size < Len(stream.rows) THEN offset + size
             ELSE Len(stream.rows)
  IN  [rows |-> [i \in 1..(end - offset) |->
                   hydrate(stream.rows[offset + i], stream.hydration)],
       end |-> end, is_last |-> end >= Len(stream.rows)]

RECURSIVE pages_from(_, _)
pages_from(stream, offset) ==
  LET page == next_page(stream, offset)
  IN  IF page.is_last THEN <<page>> ELSE <<page>> \o pages_from(stream, page.end)
collect_all(stream) ==
  LET pages == pages_from(stream, 0)
  IN  FlattenSeq([i \in DOMAIN pages |-> pages[i].rows])
=============================================================================
