------------------------------- MODULE Fusion -------------------------------
(* Hybrid recall: the vector lane and the keyword lane fused by reciprocal  *)
(* ranks (hybrid_recall.rs, engine/fusion.rs), and the lanes the director   *)
(* asks for by source: keyword ranking and the dense float lane of every    *)
(* provider slot (corpus.rs).                                               *)
EXTENDS Integers, Sequences, SequencesExt, FiniteSets, FiniteSetsExt, TLC

CONSTANTS
  RRF_K,            \* the smoothing constant of the fusion
  RankScale,        \* a common multiple of RRF_K + rank: scores as integers
  LaneWeight,       \* [{"BinaryDense", "Sparse"} -> Nat], in tenths
  MinCandidates,    \* a lane is asked for at least this many
  Overfetch         \* and for this many times the limit

ASSUME FusionAssumption ==
  /\ RRF_K \in Nat \ {0} /\ RankScale \in Nat \ {0}
  /\ MinCandidates \in Nat \ {0} /\ Overfetch \in Nat \ {0}
  /\ LaneWeight \in [{"BinaryDense", "Sparse"} -> Nat \ {0}]

Missing == 0
Take2(s, n) == SubSeq(s, 1, IF n < Len(s) THEN n ELSE Len(s))

(* The elements of a set in the order of a set of pairs, and the members   *)
(* of a sequence at some of its places.                                    *)
Sorted(S, before) ==
  [i \in 1..Cardinality(S) |->
     CHOOSE x \in S : Cardinality({y \in S : <<y, x>> \in before}) = i - 1]
Ascending(places) == Sorted(places, {p \in places \X places : p[1] < p[2]})
Picked(s, places) ==
  [n \in 1..Cardinality(places) |-> s[Ascending(places)[n]]]

--------------------------------------------------------------------------
(* Ids are texts: a UUID in either case, or something else.                *)

(* External: Uuid::parse_str accepts both cases; to_string writes lower.   *)
Uuid(text) == IF text[1] = "junk" THEN Missing ELSE text[2]
Canonical(text) == <<"lower", text[2]>>

--------------------------------------------------------------------------
(* Reciprocal-rank fusion of [lane -> Seq(<<item, rank>>)].                *)

rrf_term(lane, rank) == LaneWeight[lane] * (RankScale \div (RRF_K + rank))

(* Only the first occurrence of an item in a lane contributes.             *)
LaneScore(lane, list, item) ==
  LET at == {i \in DOMAIN list : list[i][1] = item}
  IN  IF at = {} THEN 0 ELSE rrf_term(lane, list[Min(at)][2])

(* The fused hits: one per item, the larger score first, the smaller id    *)
(* among equals, with the lanes' own scores where they were given.         *)
fused_score(ranked_lists, item) ==
  SumFunctionOnSet([l \in DOMAIN ranked_lists |-> LaneScore(l, ranked_lists[l], item)],
                   DOMAIN ranked_lists)
FusedHit(ranked_lists, lane_scores, item) ==
  [item |-> item, score |-> fused_score(ranked_lists, item),
   per_lane |-> [l \in {m \in DOMAIN lane_scores : item \in DOMAIN lane_scores[m]}
                   |-> lane_scores[l][item]]]
InScoreOrder(hits) ==
  {p \in hits \X hits :
     \/ p[1].score > p[2].score
     \/ p[1].score = p[2].score /\ p[1].item[2] < p[2].item[2]}
fuse(ranked_lists, lane_scores) ==
  LET items == UNION {{ranked_lists[l][i][1] : i \in DOMAIN ranked_lists[l]} :
                        l \in DOMAIN ranked_lists}
      hits == {FusedHit(ranked_lists, lane_scores, x) : x \in items}
  IN  Sorted(hits, InScoreOrder(hits))

(* From scored lists: the place is the rank, the last score of an item     *)
(* that occurs twice is kept.                                              *)
Ranked(list) == [i \in DOMAIN list |-> <<list[i][1], i>>]
Scores(list) ==
  [x \in {list[i][1] : i \in DOMAIN list} |->
     list[Max({i \in DOMAIN list : list[i][1] = x})][2]]
fuse_scored(scored_lists) ==
  fuse([l \in DOMAIN scored_lists |-> Ranked(scored_lists[l])],
       [l \in DOMAIN scored_lists |-> Scores(scored_lists[l])])

(* Mutant: a vector hit keeps the casing it was stored with. *)
vector_ranked_AsStored(hits) == [i \in DOMAIN hits |-> <<hits[i], i>>]

(* The vector lane: a hit that is no UUID is passed over but keeps its     *)
(* rank; ids are rewritten to the canonical form.                          *)
KnownAt(hits) == {i \in DOMAIN hits : Uuid(hits[i]) # Missing}
vector_ranked(hits) ==
  Picked([i \in DOMAIN hits |-> <<Canonical(hits[i]), i>>], KnownAt(hits))

(* The keyword lane drops such hits before it ranks.                       *)
keyword_ranked(hits) ==
  LET known == Picked(hits, KnownAt(hits))
  IN  [i \in DOMAIN known |-> <<Canonical(known[i]), i>>]

candidate_k(limit) == Max({limit * Overfetch, MinCandidates})

(* Both lanes are asked for their candidates, fused and cut to the limit;  *)
(* hits whose chunk the bundle store no longer has are dropped after the   *)
(* cut.  A lane's score is its hit's place here: distance or impact order  *)
(* (both positive: an impact of zero, reported as none, does not occur).   *)
hybrid_recall(vector_hits, keyword_hits, chunks, limit) ==
  LET k == candidate_k(limit)
      ranked == [BinaryDense |-> vector_ranked(Take2(vector_hits, k)),
                 Sparse |-> keyword_ranked(Take2(keyword_hits, k))]
      top == Take2(fuse(ranked, [l \in DOMAIN ranked |-> Scores(ranked[l])]), limit)
  IN  IF limit = 0 THEN <<>>
      ELSE Picked(top, {i \in DOMAIN top : Uuid(top[i].item) \in chunks})

--------------------------------------------------------------------------
(* Sources: the chunks' scores grouped by the source they were ingested    *)
(* under, through the chunk_source_map.                                    *)

by_source(hits, csm, highest) ==
  LET mapped == {i \in DOMAIN hits : hits[i].uuid \in DOMAIN csm}
      scores(s) == {hits[i].score : i \in {j \in mapped : csm[hits[j].uuid] = s}}
  IN  [s \in {csm[hits[i].uuid] : i \in mapped} |->
         IF highest THEN Max(scores(s)) ELSE Min(scores(s))]

InSourceOrder(pairs, descending) ==
  {p \in pairs \X pairs :
     \/ IF descending THEN p[1][2] > p[2][2] ELSE p[1][2] < p[2][2]
     \/ p[1][2] = p[2][2] /\ p[1][1] < p[2][1]}
ranked_sources(scores, limit, descending) ==
  LET pairs == {<<s, scores[s]>> : s \in DOMAIN scores}
  IN  Take2(Sorted(pairs, InSourceOrder(pairs, descending)), limit)

(* hits: the keyword ranking of chunks, best first.                        *)
bm25_top_k_by_source(hits, csm, limit) ==
  IF limit = 0 THEN <<>>
  ELSE ranked_sources(by_source(Take2(hits, limit * Overfetch), csm, TRUE),
                      limit, TRUE)

(* The outcome of the dense float lane of one slot.                        *)
Dark(reason) == [lane |-> reason, hits |-> <<>>]

float_nearest_for_slot(slot, csm, limit, nearest) ==
  LET cut == limit * Overfetch
      matches == Take2(IF nearest THEN slot.rows ELSE Reverse(slot.rows), cut)
      scores == by_source(matches, csm, nearest)
  IN  IF slot.embeds \in {"empty", "error"} THEN Dark("UnavailableProviderOptOut")
      ELSE IF slot.embeds = "vocab_miss" THEN Dark("UnavailableNoVocabHit")
      ELSE IF slot.fails THEN Dark("StoreError")
      ELSE IF matches = <<>> \/ DOMAIN scores = {} THEN Dark("UnavailableNoFloatRows")
      ELSE [lane |-> "Hits", hits |-> ranked_sources(scores, limit, nearest)]

(* One outcome per slot, in slot order; an empty query asks none of them.  *)
float_per_signal(slots, csm, limit, nearest) ==
  [i \in DOMAIN slots |->
     IF limit = 0 THEN Dark("EmptyQuery")
     ELSE float_nearest_for_slot(slots[i], csm, limit, nearest)]
float_nearest(slots, csm, limit) == float_per_signal(slots, csm, limit, TRUE)[1]

=============================================================================
