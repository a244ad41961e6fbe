------------------------------- MODULE MCLaws -------------------------------
EXTENDS SearchLaws

--------------------------------------------------------------------------
(* Entities: a new one with a value of its own in every argument, and any  *)
(* of the other fields assigned.                                           *)

Numbered ==
  <<"chunkIndex", "filedAt", "eventTime", "tombstonedAt", "provenance",
    "adjectiveBitmap", "operationalBitmap", "provenanceBitmap",
    "candidateState", "order_key", "reward", "score", "firstSeen", "depth",
    "lifecycle", "created_hlc", "created_at", "updated_at", "vector_index",
    "dim", "scale", "filed_at", "start_offset", "length", "hlc",
    "trained_chunk_count", "doc_count", "vocab_size">>
NumberOf(c) == CHOOSE i \in DOMAIN Numbered : Numbered[i] = c

SampleOf(t, c, type) ==
  CASE c = "recalledAt" -> format_iso8601(Time(20000, 123))
    [] c \in {"kind", "kind_id"} -> IF t = "vectors" THEN Binary ELSE 3
    [] t \in DOMAIN CorpusTables /\ type = "timestamp" -> Time(20000, 5000)
    [] type \in {"text", "json", "uuid", "blob"} -> c
    [] OTHER -> NumberOf(c)
Samples(t, fields) ==
  [c \in fields |-> SampleOf(t, c, tables[t].columns[c].type)]

MCEntities ==
  UNION {{[table |-> t,
           entity |-> Samples(t, some \cup more)
                        @@ New(t, Samples(t, Entities[t].given))] :
            some \in SUBSET Entities[t].optional,
            more \in {{}, DOMAIN Entities[t].filled}} : t \in Coded}

(* 1970 to 1973, the last days of 1999 and of February 2000, and the       *)
(* turns of 2099, 2100 (no leap year) and 2101.                            *)
MCTimes ==
  {Time(d, ms) : d \in 0..1100 \cup 10950..11020 \cup 47110..47120
                         \cup 47475..47545 \cup 47840..47850,
                 ms \in {0, 999, 59999, 3600000, Day - 1}}

MCManifests ==
  {[stored |-> s, n |-> n, key |-> k, value |-> v] :
     s \in {<<>>, "estate_uuid" :> Words("imported"),
            "zoom_window_low" :> Digits(7) @@ "estate_name" :> Words("mine")},
     n \in 0..Len(REQUIRED),
     k \in {"estate_name", "estate_uuid", "mining_patterns_hash"},
     v \in {Words("given"), Blank}}

MCFields ==
  UNION {UNION {{[layout |-> l, field |-> f, raw |-> r, bm |-> bm] :
                   r \in Layouts[l][f].legal,
                   bm \in {{}, 0..62, {2 * i : i \in 0..31}}} :
                  f \in DOMAIN Layouts[l]} : l \in DOMAIN Layouts}

--------------------------------------------------------------------------
(* Lanes of at most three hits; a chunk with two vectors, ids in either    *)
(* case, one that is no UUID.                                              *)

Texts == {<<"lower", 1>>, <<"upper", 1>>, <<"lower", 2>>, <<"upper", 3>>, <<"junk", 4>>}
Distinct(s) == \A i, j \in DOMAIN s : i # j => s[i][2] # s[j][2]
Lanes == UNION {[1..n -> Texts] : n \in 0..3}
MCLaneWeight == [BinaryDense |-> 6, Sparse |-> 4]
MCFusions ==
  {[vector |-> v, keyword |-> w, chunks |-> c, limit |-> l] :
     v \in Lanes, w \in {s \in Lanes : Distinct(s)}, c \in {1..3, {1, 3}}, l \in 0..2}

MCSources ==
  {[slot |-> [rows |-> [j \in 1..4 |-> [uuid |-> j, score |-> sc[j]]],
              embeds |-> "vector", fails |-> FALSE],
    csm |-> [u \in {v \in 1..4 : of[v] > 0} |-> of[u]], limit |-> l] :
     sc \in {s \in [1..4 -> 1..3] : s[1] >= s[2] /\ s[2] >= s[3] /\ s[3] >= s[4]},
     of \in [1..4 -> 0..3], l \in 0..2}
  \cup {[slot |-> [rows |-> <<[uuid |-> 1, score |-> 2]>>, embeds |-> e, fails |-> f],
         csm |-> <<1>>, limit |-> 1] :
          e \in {"vector", "empty", "error", "vocab_miss"}, f \in BOOLEAN}

--------------------------------------------------------------------------
(* Texts of at most five sentences of one to four characters, each         *)
(* character different from the others.                                    *)

Cut(lengths) ==
  [j \in DOMAIN lengths |->
     LET before == FoldLeft(+, 0, SubSeq(lengths, 1, j - 1))
     IN  [m \in 1..lengths[j] |-> before + m]]
MCTexts ==
  {[sentences |-> Cut(ls), config |-> ChunkerConfiguration(t, o, r), legacy |-> l, fail |-> f] :
     ls \in UNION {[1..n -> {1, 2, 4}] : n \in 0..5}, t \in {0, 3, 5}, o \in {0, 1, 2, 4},
     r \in {TRUE}, l \in {0, 2}, f \in {0, 2, 4}}
  \cup {[sentences |-> Cut(ls), config |-> ChunkerConfiguration(3, 1, FALSE),
          legacy |-> 0, fail |-> 0] : ls \in UNION {[1..n -> {1, 2, 4}] : n \in 0..3}}

--------------------------------------------------------------------------
(* Three drawers stored in any order, filed at one of two moments, any of  *)
(* them buried, at most one unreadable; two facts in every state.          *)

MCTables ==
  UNION {{[db |-> [k \in 1..3 |->
                    [id |-> p[k], filedAt |-> f[k], tombstonedAt |-> IF b[k] THEN <<9>> ELSE <<>>,
                     decodes |-> k # bad, source |-> IF k = 1 THEN "f" ELSE "g",
                     chunkIndex |-> p[k] % 2, content |-> "text"]],
           limit |-> l,
           facts |-> <<[id |-> 1, filedAt |-> f[1], state |-> s, tombstonedAt |-> <<>>],
                       [id |-> 2, filedAt |-> f[2], state |-> Superseded, tombstonedAt |-> <<7>>]>>] :
            f \in [1..3 -> 1..2], b \in [1..3 -> BOOLEAN], bad \in 0..3,
            l \in {NoLimit, <<0>>, <<2>>}} :
           p \in {<<1, 2, 3>>, <<3, 1, 2>>, <<2, 3, 1>>}, s \in {Active, Accepted, Superseded, Tombstoned}}

(* Captures at both ends of the window and of its buckets, with a time of  *)
(* their own or that of their filing; the first and last bit of a block.   *)
Capture(id, t, own, buried, bits) ==
  [id |-> id, filedAt |-> IF own THEN 1 ELSE t, eventTime |-> IF own THEN <<t>> ELSE <<>>,
   tombstonedAt |-> IF buried THEN <<9>> ELSE <<>>, decodes |-> TRUE, fp |-> bits]
MCWindows ==
  {[db |-> <<Capture(1, t, own, buried, <<<<{63}, {0}, {}, {63}>>>>),
             Capture(2, u, TRUE, FALSE, bits)>>,
    bit |-> bit, seconds |-> s, count |-> c, end |-> 5000] :
     t \in {1999, 2000, 2999, 3000, 5000, 5001}, own \in BOOLEAN, buried \in BOOLEAN,
     u \in {2000, 3999, 5000}, bits \in {<<>>, <<<<{}, {0}, {63}, {}>>>>},
     bit \in {63, 64, 191, 192, 255, 256}, s \in 0..1, c \in {0, 1, 3}}

MCMutations ==
  LET born(t) ==
        [id |-> 1, filedAt |-> 1, eventTime |-> t, tombstonedAt |-> <<>>, content |-> "text",
         parent |-> "p", lineage |-> "l", udc |-> <<6, 1, 3, Dot, 7, 1>>, qid |-> <<>>,
         adjective |-> [state |-> 0], operational |-> [capture_channel |-> 0],
         provenance |-> [channel |-> 0, source_type |-> 0, sensitivity |-> 0], fp |-> <<>>]
      writes ==
        {[op |-> "bitmap", column |-> "adjective", value |-> [state |-> 1]],
         [op |-> "bitmap", column |-> "operational", value |-> [capture_channel |-> 1]],
         [op |-> "bitmap", column |-> "provenance",
          value |-> [channel |-> 1, source_type |-> 0, sensitivity |-> 16]],
         [op |-> "reanchor", lattice |-> <<[udc |-> <<6, 2>>, qid |-> <<"Q1">>]>>, parent |-> "p"],
         [op |-> "reanchor", lattice |-> <<>>, parent |-> "q"],
         [op |-> "expunge", value |-> [state |-> 9], now |-> 5], [op |-> "scrub"], [op |-> "wipe"]}
  IN  {[row |-> born(t), writes |-> ws] :
         t \in {Time(d, ms) : d \in {0, 18261, 18262, 18268, 18269, 18262 + 7 * 255,
                                     18262 + 7 * 256}, ms \in {0, Day - 1}},
         ws \in UNION {[1..n -> writes] : n \in 0..2}}

MCBundles ==
  {[bits |-> 0..1, left |-> 1,
    drawers |-> [k \in 1..3 |-> [id |-> k, room |-> r[k], bits |-> b[k]]]] :
     r \in [1..3 -> {"r1", "r2"}], b \in [1..3 -> SUBSET (0..1)]}

--------------------------------------------------------------------------
(* Drawers for the filters: every state with every trust, and a few of     *)
(* every other field.                                                      *)

Adj(state, sensitivity, export, trust) ==
  Writes(State, state, Writes(AdjectiveSensitivity, sensitivity,
    Writes(AdjectiveExportability, export, Writes(Trust, trust, {}))))
Sample ==
  [id |-> 1, room |-> 1, adj |-> Adj(Active, Normal, 0, 0), op |-> {}, prov |-> {},
   content |-> {"this"}, tombstoned |-> FALSE, lineage |-> "l1", filed_at |-> 5,
   udc_code |-> <<5, 1>>, qid |-> "Q1", qids |-> {"Q2"}]
Drawers ==
  {[Sample EXCEPT !.adj = Adj(s, n, 0, t)] :
     s \in State.legal, t \in {0, 3, 4, 6}, n \in {Normal, Restricted}}
  \cup {[Sample EXCEPT !.adj = Adj(Active, n, e, 0)] :
          n \in AdjectiveSensitivity.legal, e \in {0, 32}}
  \cup {[Sample EXCEPT !.prov = Writes(Confirmation, c, Writes(Confidence, b,
                                  Writes(SourceType, 3, Writes(Channel, ch, {}))))] :
          c \in 0..3, b \in {0, 16, 48}, ch \in {0, 15, 16}}
  \cup {[Sample EXCEPT !.op = Writes(CaptureChannel, c, Writes(ContentKind, k, fl))] :
          c \in {0, 2}, k \in {0, 5}, fl \in SUBSET {12, 14}}
  \cup {[Sample EXCEPT !.filed_at = 9, !.lineage = "l2", !.udc_code = <<5>>,
                       !.qid = Nothing, !.qids = {}, !.content = {"that"}]}

BitmapLeaves ==
  {F(op, 0) : op \in {"CurrentlyBelieve", "UsedToBelieve", "KnewOnceAndErased",
                      "Trustworthy", "RequiresConfirmation", "Exportable",
                      "Contained", "UserConfirmed", "AutomatedConfirmedOnly",
                      "Unconfirmed"}}
  \cup {F("State", s) : s \in State.legal}
  \cup {F("StateInCluster", c) : c \in DOMAIN Clusters}
  \cup {F("Trust", 3), F("TrustAtMost", 3), F("Sensitivity", Restricted),
        F("SensitivityAtMost", Restricted), F("SourceType", 3),
        F("ConfidenceAtLeast", 16), F("Channel", 15), F("CaptureChannel", 2),
        F("ContentKind", 5), F("HasFeatureFlag", {12}), F("HasFeatureFlag", {12, 14})}
OtherLeaves ==
  {F("InWing", "wing"), F("InWing", "other"), F("InRoom", "room"),
   F("LineageID", "l1"), F("CreatedAfter", 5), F("CreatedBefore", 9),
   F("LatticeAnchor", <<5>>), F("LatticeUnder", <<5>>), F("LatticeUnder", <<5, 1>>),
   F("WikidataConcept", "Q2")}
Contents == {F("ContentMatches", "this"), F("ContentMatches", "that")}
Few == {F("UsedToBelieve", 0), F("Exportable", 0), F("Trust", 3),
        F("HasFeatureFlag", {12})}
FewOther == {F("LineageID", "l1"), F("CreatedAfter", 5), F("LatticeUnder", <<5, 1>>)}
MCChains ==
  {<<f>> : f \in BitmapLeaves \cup OtherLeaves \cup Contents}
  \cup {<<F("Not", <<f>>)>> : f \in BitmapLeaves}
  \cup {<<F(op, <<f, g>>)>> : op \in {"All", "Any"}, f, g \in Few}
  \cup {<<F(op, <<f, g>>)>> : op \in {"All", "Any"}, f, g \in FewOther}
  \cup {<<F(op, <<f, g>>)>> : op \in {"All", "Any"}, f, g \in Contents}
  \cup {<<f, g>> : f \in Few, g \in FewOther}
  \cup {<<F("All", <<f, F("Any", <<g, h>>)>>)>> : f \in Few, g, h \in FewOther}
  \cup {<<F("Not", <<F("Any", <<f, g>>)>>)>> : f, g \in Few}
MCFilters == {[chain |-> c, drawer |-> d] : c \in MCChains, d \in Drawers}

--------------------------------------------------------------------------
(* Estates of at most three drawers in two rooms of two wings.             *)

Names == 1 :> <<"w1", "r1">> @@ 2 :> <<"w2", "r2">>
Kinds ==
  {[room |-> 1, op |-> {12}, state |-> Active, tombstoned |-> FALSE],
   [room |-> 2, op |-> {14}, state |-> Active, tombstoned |-> FALSE],
   [room |-> 2, op |-> {12}, state |-> Superseded, tombstoned |-> FALSE],
   [room |-> 1, op |-> {}, state |-> Tombstoned, tombstoned |-> TRUE]}
Made(k, i) ==
  [Sample EXCEPT !.id = i, !.room = k.room, !.op = k.op, !.filed_at = i,
                 !.adj = Adj(k.state, Normal, 0, 0), !.tombstoned = k.tombstoned]
OrOf(drawers, room) ==
  UNION {drawers[i].op : i \in {j \in DOMAIN drawers : drawers[j].room = room}}
Db(kinds) ==
  LET drawers == [i \in DOMAIN kinds |-> Made(kinds[i], i)]
  IN  [drawers |-> drawers, names |-> Names, events |-> <<>>,
       wing_fps |-> "w1" :> OrOf(drawers, 1),
       room_fps |-> <<[wing |-> "w1", room |-> "r1", fp |-> OrOf(drawers, 1)],
                      [wing |-> "w2", room |-> "r2", fp |-> OrOf(drawers, 2)]>>]
Frame(chain, limit, hydration, traces) ==
  [filter_chain |-> chain, limit |-> limit, hydration |-> hydration,
   as_of |-> Unbounded, trace_limit |-> traces, ordering |-> "ByCaptureTimeDesc"]
MCFrames ==
  {Frame(c, 1, "BitmapOnly", 1) :
     c \in {<<F("HasFeatureFlag", {12})>>,
            <<F("Not", <<F("HasFeatureFlag", {12})>>)>>,
            <<F("Any", <<F("HasFeatureFlag", {12}), F("UsedToBelieve", 0)>>)>>}}
  \cup {Frame(<<F("ContentMatches", "this")>>, 0, "Full", Unbounded),
        Frame(<<F("UsedToBelieve", 0)>>, 2, "Structured", 5),
        Frame(<<>>, Unbounded, "Full", 1)}
MCRecalls ==
  {[db |-> Db(ks), frame |-> fr, failed |-> failed] :
     ks \in UNION {[1..n -> Kinds] : n \in 0..3}, fr \in MCFrames,
     failed \in {{}, {"RoomFingerprints"}, {"RoomDrawerRead", "TraceWrite"},
                 {"LiveRows"}, {"BitmapEval"}, {"TraceWrite"}}}

--------------------------------------------------------------------------
(* Vectors of four bits in two or four bands, keys of two models and two   *)
(* versions.                                                               *)

K1 == VectorRecordKey(1, 0, 1, 1)
K2 == VectorRecordKey(2, 0, 2, 1)
K3 == VectorRecordKey(3, 0, 1, 2)
Codes == {{}, {0}, {0, 1}, {0, 2}, {1, 3}, {0, 1, 2, 3}}
FewCodes == {{0}, {1, 3}, {0, 1, 2, 3}}
Put3(a, b, c) == <<<<K1, a>>, <<K2, b>>, <<K3, c>>>>
Add(k, c) == [do |-> "add", key |-> k, code |-> c]
Drop(k) == [do |-> "remove", key |-> k]
Histories == {<<>>, <<Drop(K1)>>, <<Add(K1, {2}), Add(K1, {1, 2})>>,
              <<Drop(K3), Add(K3, {3})>>, <<Add(K2, {0}), Drop(K2), Drop(K2)>>}
Either == [model_id |-> Unset, model_version |-> Unset]
MCSearches ==
  {[records |-> Put3(a, b, c), ops |-> ops, probe |-> p, k |-> k, filter |-> f,
    m |-> m, budget |-> bu] :
     a \in Codes, b, c \in FewCodes, ops \in Histories, p \in {{}, {0, 3}}, k \in {1, 2},
     f \in {Either, [model_id |-> 1, model_version |-> Unset]},
     m \in {2}, bu \in {8, DEFAULT_BUDGET}}
  \cup {[records |-> Truncate(Put3(a, b, {0}), n), ops |-> <<>>, probe |-> {1}, k |-> k,
          filter |-> [model_id |-> 1, model_version |-> 2], m |-> 4, budget |-> DEFAULT_BUDGET] :
          a, b \in Codes, n \in 0..3, k \in {0, 3}}

Row(item, model, dim, at) ==
  [key |-> VectorRecordKey(item, 0, model, 1), payload |-> FloatPayload(dim, at)]
MCFloats ==
  {[rows |-> <<Row(4, 1, 2, a), Row(2, 1, 2, b), Row(3, 1, d, c), Row(1, 2, 2, 0),
               Row(5, 1, 2, e)>>, metric |-> "Cosine", dim |-> 2, k |-> k,
    built |-> n, gone |-> 3] :
     a, b, c, e \in {4, 5, 19}, d \in {2, 3}, k \in {0, 1, 2, 3}, n \in {2, 4}}
  \cup {[rows |-> <<Row(4, 1, 2, a), Row(2, 1, 2, b), Row(3, 1, 2, c)>>, metric |-> "Dot", dim |-> 2,
          k |-> 2, built |-> 1, gone |-> 4] : a, b, c \in {-35, -19, -5, 35}}

MCArrays == {brute_build(<<>>)} \cup
  {[brute_build(Put3(a, {0}, {})) EXCEPT !.dead = d] : a \in FewCodes, d \in {{}, {2}}}
MCSidecars == {[array |-> a, cut |-> n] : a \in MCArrays, n \in 0..28}

MCListings ==
  {[rows |-> [j \in 1..n |-> [item_id |-> items[j], filed_at |-> at[j]]], limit |-> l] :
     n \in {0, 2, 4}, items \in [1..4 -> 1..3], at \in [1..4 -> 1..2], l \in {0, 1, 2, 5}}
===============================================================================
