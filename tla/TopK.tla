-------------------------------- MODULE TopK --------------------------------
(***************************************************************************)
(* Exact top-k retrieval of CorpusKit's keyword lane: the WAND and the     *)
(* Block-Max WAND loops of engine/inverted_index.rs over the posting lists *)
(* that BM25Weighting::build made, with their bounded heap.                *)
(*                                                                         *)
(* Item ids are numbers in the order of their strings, term ids the        *)
(* numbers build_term_id_map assigned.  BM25's float arithmetic ends at    *)
(* build time, so an index is any assignment of quantised impacts to the   *)
(* items of each term.  A cursor only moves forward over its sorted list,  *)
(* so it is the set of postings it has not passed.  The heap array is the  *)
(* set of its entries: its root is the weakest of them.                    *)
(***************************************************************************)
EXTENDS Integers, FiniteSets, FiniteSetsExt, Functions

CONSTANTS
  Terms,       \* term ids, a finite set of naturals
  Items,       \* item ids, a finite set of naturals
  Indexes,     \* the indexes queried: for each term, item -> quantised impact
  Requests,    \* the calls of top_k: query (term -> quantised weight), k, algorithm
  BLOCK_SIZE,  \* postings in a block
  I32_MAX      \* the clamp of a term's upper bound

\* A partial function from S to quantised values.
Quantised(f, S) == DOMAIN f \subseteq S /\ \A x \in DOMAIN f : f[x] \in Nat

ASSUME SetsAssumption ==
  /\ Terms \subseteq Nat /\ Items \subseteq Nat /\ IsFiniteSet(Terms) /\ IsFiniteSet(Items)
  /\ \A p \in Indexes : DOMAIN p = Terms /\ \A t \in Terms : Quantised(p[t], Items)
  /\ \A r \in Requests : /\ Quantised(r.query, Terms)
                         /\ r.k \in Nat /\ r.algorithm \in {"Wand", "BlockMaxWand"}
ASSUME BlockAssumption == BLOCK_SIZE \in Nat \ {0} /\ I32_MAX \in Nat

\* No term's upper bound meets the clamp: WAND may prune by the bounds only then.
Unclamped ==
  \A p \in Indexes, r \in Requests :
    \A t \in DOMAIN r.query : \A i \in DOMAIN p[t] : p[t][i] * r.query[t] <= I32_MAX

VARIABLES
  postings,   \* postings[t]: item -> impact, the index being queried
  query,      \* term -> query_weight, for the query's known terms
  k,          \* how many results the caller wants
  algorithm,
  rest,       \* rest[t]: the items of the postings cursor t has not passed
  heap,       \* the entries <<item, score>> of the TopKHeap
  threshold,
  phase       \* "run" inside the loop, "done" when top_k has returned

vars  == <<postings, query, k, algorithm, rest, heap, threshold, phase>>
input == <<postings, query, k, algorithm>>

(***************************************************************************)
(* The index: InvertedIndex::new                                           *)
(***************************************************************************)

List(t) == DOMAIN postings[t]

\* The largest impact among a term's postings at S.
MaxImpact(t, S) == Max({postings[t][i] : i \in S})

\* block_last_ids: the last item of every BLOCK_SIZE postings, and of the list.
BlockLast(t) ==
  {i \in List(t) : \/ i = Max(List(t))
                   \/ Cardinality({j \in List(t) : j <= i}) % BLOCK_SIZE = 0}

\* The block that ends at `last', an element of BlockLast(t).
Block(t, last) ==
  {i \in List(t) : i <= last /\ \A l \in BlockLast(t) : l < last => l < i}

(***************************************************************************)
(* Cursors                                                                 *)
(***************************************************************************)

\* build_cursors: a cursor at the start of the list of every query term that has
\* postings, with its upper bound clamped to 32 bits.
Cursors == {t \in DOMAIN query : List(t) # {}}
TermUB(t) == Min({MaxImpact(t, List(t)) * query[t], I32_MAX})

Live == {t \in Cursors : rest[t] # {}}
CurrentId(t) == Min(rest[t])

\* The order of the loop's sort: by current id, then by term id.
Before(s, t) ==
  \/ CurrentId(s) < CurrentId(t)
  \/ CurrentId(s) = CurrentId(t) /\ s <= t

\* Mutant: seek passes over the target's own posting.
SeekPast(t, target) == [rest EXCEPT ![t] = {i \in @ : i > target}]

\* seek: to the first posting at or after the target.
Seek(t, target) == [rest EXCEPT ![t] = {i \in @ : i >= target}]

\* find_pivot: the first cursor at which the bounds add up to more than the
\* threshold.
Exceeds(t) ==
  SumFunctionOnSet([s \in Live |-> TermUB(s)], {s \in Live : Before(s, t)}) > threshold
IsPivot(p) == p \in Live /\ Exceeds(p) /\ \A t \in Live : Exceeds(t) => Before(p, t)

\* choose_advance: of the cursors before the pivot that stand on a smaller id,
\* the one with the smallest term id; the first cursor if there is none.
Behind(p) == {t \in Live : CurrentId(t) < CurrentId(p)}
First == CHOOSE t \in Live : \A s \in Live : Before(t, s)
ChooseAdvance(p) == IF Behind(p) # {} THEN Min(Behind(p)) ELSE First

\* compute_block_ub and next_block_target, over the cursors up to the pivot.
\* Appending U+0001 to an id gives a string above it and below every other id:
\* seeking to it is seeking past the id.
Reaches(t, item) == \E l \in BlockLast(t) : l >= item
BlockEnd(t, item) == Min({l \in BlockLast(t) : l >= item})
BlockUB(p) ==
  SumFunctionOnSet([t \in Live |-> IF Reaches(t, CurrentId(p))
                                   THEN MaxImpact(t, Block(t, BlockEnd(t, CurrentId(p)))) * query[t]
                                   ELSE 0],
                   {t \in Live : Before(t, p)})

\* Mutant: the target is the end of the block itself, with no U+0001 appended.
BlockEndTarget(p) ==
  Min({BlockEnd(t, CurrentId(p)) : t \in {s \in Live : Before(s, p) /\ Reaches(s, CurrentId(p))}})

NextBlockTarget(p) ==
  LET ends == {BlockEnd(t, CurrentId(p)) : t \in {s \in Live : Before(s, p) /\ Reaches(s, CurrentId(p))}}
  IN  (IF ends # {} THEN Min(ends) ELSE CurrentId(p)) + 1

(***************************************************************************)
(* TopKHeap                                                                *)
(***************************************************************************)

\* is_weaker, and the root of the heap the sifts maintain.
Weaker(a, b) == a[2] < b[2] \/ (a[2] = b[2] /\ a[1] > b[1])
Root(entries) == CHOOSE e \in entries : \A f \in entries \ {e} : Weaker(e, f)

\* would_enter, for a full heap: a better score, or a tie with a smaller id.
WouldEnter(item, score) ==
  \/ score > threshold
  \/ /\ score = threshold
     /\ \E e \in heap : e[2] = score /\ item < e[1]

\* offer: an entry is added while there is room, then it may replace the root; the
\* threshold is the root's score once the heap is full.
Offer(item, score) ==
  IF Cardinality(heap) < k
  THEN /\ heap' = heap \cup {<<item, score>>}
       /\ threshold' = IF Cardinality(heap) + 1 = k THEN Root(heap')[2] ELSE threshold
  ELSE IF WouldEnter(item, score)
  THEN /\ heap' = (heap \ {Root(heap)}) \cup {<<item, score>>}
       /\ threshold' = Root(heap')[2]
  ELSE UNCHANGED <<heap, threshold>>

(***************************************************************************)
(* top_k                                                                   *)
(***************************************************************************)

Init ==
  /\ postings \in Indexes
  /\ \E r \in Requests : query = r.query /\ k = r.k /\ algorithm = r.algorithm
  /\ rest = [t \in Terms |-> IF t \in DOMAIN query THEN DOMAIN postings[t] ELSE {}]
  /\ heap = {}
  /\ threshold = 0
  /\ phase = "run"

\* k = 0 or a query without a known term returns at once; the loop ends when the
\* cursors are exhausted or no pivot is left.
Return ==
  /\ phase = "run"
  /\ k = 0 \/ ~\E p \in Live : IsPivot(p)
  /\ phase' = "done"
  /\ UNCHANGED <<input, rest, heap, threshold>>

\* Block-Max WAND's refinement passes over blocks that seem unable to win.
Skippable(p) == algorithm = "BlockMaxWand" /\ BlockUB(p) <= threshold

SkipBlock(p) ==
  /\ phase = "run" /\ k > 0
  /\ IsPivot(p) /\ Skippable(p)
  /\ rest' = Seek(ChooseAdvance(p), NextBlockTarget(p))
  /\ UNCHANGED <<input, heap, threshold, phase>>

\* What the cursors of S contribute to an item that is on all their lists.
ScoreOf(item, S) == SumFunctionOnSet([t \in S |-> query[t] * postings[t][item]], S)

\* score_aligned: every cursor on the pivot's item contributes and advances.
Score(p) ==
  /\ phase = "run" /\ k > 0
  /\ IsPivot(p) /\ ~Skippable(p)
  /\ Behind(p) = {}
  /\ LET item == CurrentId(p)
         here == {t \in Live : CurrentId(t) = item}
     IN  /\ Offer(item, ScoreOf(item, here))
         /\ rest' = [t \in Terms |-> IF t \in here THEN rest[t] \ {item} ELSE rest[t]]
  /\ UNCHANGED <<input, phase>>

SeekToPivot(p) ==
  /\ phase = "run" /\ k > 0
  /\ IsPivot(p) /\ ~Skippable(p)
  /\ Behind(p) # {}
  /\ rest' = Seek(ChooseAdvance(p), CurrentId(p))
  /\ UNCHANGED <<input, heap, threshold, phase>>

Next ==
  \/ Return
  \/ \E p \in Terms : SkipBlock(p) \/ Score(p) \/ SeekToPivot(p)

Spec == Init /\ [][Next]_vars /\ WF_vars(Next)

(***************************************************************************)
(* Properties                                                              *)
(***************************************************************************)

\* Cursors stay on their lists and the heap within its capacity.
TypeOK ==
  /\ DOMAIN postings = Terms /\ \A t \in Terms : Quantised(postings[t], Items)
  /\ \E r \in Requests : query = r.query /\ k = r.k /\ algorithm = r.algorithm
  /\ rest \in [Terms -> SUBSET Items] /\ \A t \in Terms : rest[t] \subseteq List(t)
  /\ heap \subseteq Items \X Nat /\ Cardinality(heap) <= k
  /\ threshold \in Nat
  /\ phase \in {"run", "done"}

\* exhaustive_scan: every item of a query term's list, with the sum over the
\* query's terms; and the k best of them, by score, then by smaller id.
TrueScore(i) == ScoreOf(i, {t \in Cursors : i \in List(t)})
Matches == {<<i, TrueScore(i)>> : i \in UNION {List(t) : t \in Cursors}}
ExhaustiveScan == {e \in Matches : Cardinality({f \in Matches : Weaker(e, f)}) < k}

\* Items that no query term gives any weight: the loops look for scores above
\* zero and may or may not report these, the scan does.
Positive(entries) == {e \in entries : e[2] > 0}

\* "WAND and BMW both return the EXACT same top-k as exhaustive DAAT full-scan"
\* (the module comment of inverted_index.rs), for the items that have a score.
ExactTopK == phase = "done" => Positive(heap) = Positive(ExhaustiveScan)

\* The loops for which that is so: WAND, whatever the lists; Block-Max WAND when
\* the query has one term with postings, or two whose lists are one block each.  (With
\* more cursors a skip passes one of them over items that later ones lead to, although
\* no list has a second block.)
ExactWhereItIs ==
  \/ algorithm = "Wand"
  \/ Cardinality(Cursors) <= 1
  \/ /\ Cardinality(Cursors) = 2
     /\ \A t \in Cursors : Cardinality(List(t)) <= BLOCK_SIZE
WandIsExact == ExactWhereItIs => ExactTopK

\* Why it is so: an item that some cursor has passed without its being scored
\* could not displace anything the heap holds now.  Every skipped item scores at
\* most the threshold of a full heap, and on a tie it has the larger id.
Passed(i) == \E t \in Cursors : i \in List(t) \ rest[t]
PassedCannotWin ==
  algorithm = "Wand" =>
    \A e \in Positive(Matches) \ heap :
      Passed(e[1]) => Cardinality(heap) = k /\ \A f \in heap : Weaker(e, f)

\* Whatever Block-Max WAND leaves out, what it reports is real: an item is
\* reported once, it matches the query, and its score is not above its true one.
ReportedIsReal ==
  \A e \in heap :
    /\ \E t \in Cursors : e[1] \in List(t)
    /\ e[2] <= TrueScore(e[1])
    /\ \A f \in heap : e[1] = f[1] => e = f

\* Every query is answered: each turn of the loop moves some cursor.
Terminates == <>(phase = "done")

\* The ranking is the exhaustive scan's: at every turn of the loop what the heap holds is
\* real and nothing a cursor passed could displace it, so that WAND, and Block-Max WAND
\* for one list or two of one block, return exactly the k best (top_k, run_wand, run_bmw).
RankingIsExact ==
  /\ TypeOK
  /\ WandIsExact
  /\ PassedCannotWin
  /\ ReportedIsReal
=============================================================================
