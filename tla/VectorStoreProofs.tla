------------------------- MODULE VectorStoreProofs -------------------------
(***************************************************************************)
(* The resident index of VectorStore is the table, for every set of rows,  *)
(* payloads and threads, in every deployment whose callers keep to what    *)
(* the code bears (Safe).                                                  *)
(***************************************************************************)
EXTENDS VectorStore, TLAPS, FiniteSetTheorems

AllSafe == \A d \in Deployments : Safe(d)

(***************************************************************************)
(* The inductive invariant.  Its parts are stated of a store s and a table *)
(* tab, so that they can be said of the state after a step as well.        *)
(***************************************************************************)

\* The one model version in use.
TheVersion == CHOOSE v \in Versions : TRUE

\* At most one live slot for each row, under the version in use.
Flat(a) ==
  /\ a = [k \in Keys |-> a[k]]
  /\ \A k \in Keys : a[k] = <<>> \/ (k[2] = TheVersion /\ \E v \in Vals : a[k] = <<v>>)

\* What multi-index hashing holds beside a brute-force array.
CodesOf(a) == [k \in Keys |-> IF a[k] = <<>> THEN None ELSE Last(a[k])]

\* The records of a batch are under the version in use, and their rows all different.
Uniform(recs) == \A i \in DOMAIN recs : recs[i] \in Recs /\ recs[i].ver = TheVersion
Apart(recs) == \A i, j \in DOMAIN recs : recs[i].row = recs[j].row => i = j

StoreShape(s) ==
  /\ s \in Stores
  /\ Flat(s.bf) /\ Flat(s.arr) /\ Flat(s.file)
  /\ s.mih = CodesOf(s.bf)
  /\ Uniform(s.pending)

StoreFlags(s) ==
  /\ s.dirty => s.active
  /\ ~s.dirty => s.pending = <<>>
  /\ s.active => May("window") /\ s.built
  /\ ~s.built => s.bf = Empty /\ s.arr = Empty /\ ~s.stale
  /\ ~deploy.sidecar => s.arr = Empty /\ s.file = Empty /\ ~s.stale

\* With a sidecar: the array store has no slot that a replacement would not retire, and the
\* file is behind it only when it is stale.
SidecarInv(s) ==
  deploy.sidecar =>
    /\ s.pending = <<>>
    /\ s.built /\ ~s.stale => s.file = s.arr
    /\ s.built /\ ~s.dirty => LiveKeys(s.arr) \subseteq LiveKeys(s.bf)
    /\ s.built /\ ~s.dirty /\ ~May("sidecars") => s.arr = s.bf
    /\ s.active => LiveKeys(s.arr) \subseteq s.live

CountInv(s) ==
  s.built /\ ~s.dirty /\ ~May("sidecars") =>
    /\ s.count = Cardinality(LiveKeys(s.bf))
    /\ s.count > 0 => s.lane = (s.count >= Threshold)

StoreInv(s) == StoreShape(s) /\ StoreFlags(s) /\ SidecarInv(s) /\ CountInv(s)

\* fetch_all_binary_records of a table.
ArrayOf(tab) ==
  [k \in Keys |-> IF tab[k[1]] # None /\ tab[k[1]].ver = k[2] THEN <<tab[k[1]].val>> ELSE <<>>]

Tables == [Rows -> [ver: Versions, val: Vals] \cup {None}]

\* The content that publish_resident_index builds from.
Held(s) == IF deploy.sidecar THEN s.arr ELSE MergedLast(s.bf, s.pending)

\* A crash may lose the array store, so the file may only lag behind a growing table.
AddsOnly == deploy.sidecar /\ May("crash")
Within(a, tab) == \A k \in Keys : a[k] = <<>> \/ a[k] = ArrayOf(tab)[k]

\* The store has the table's content for the rows in steady.
TableInv(s, tab, steady) ==
  /\ tab \in Tables
  /\ \A r \in Rows : tab[r] # None => tab[r].ver = TheVersion
  /\ s.built => SameOn(steady, Held(s), ArrayOf(tab))
  /\ s.built /\ ~s.dirty => SameOn(steady, s.bf, ArrayOf(tab))
  /\ deploy.sidecar /\ ~s.built /\ ~May("crash") => SameOn(steady, s.file, ArrayOf(tab))
  /\ AddsOnly => Within(s.arr, tab) /\ Within(s.file, tab)

\* Rows whose content in the table is what the index last saw: their latest change did not
\* fail, and no call is between its change of the table and its change of the index.
Changing == {"upsert", "mirror", "tombstone", "rebuild", "reset"}
SteadyOf(th, h) ==
  {r \in Rows : r \notin h /\ \A t \in Threads : th[t].at \in Changing => r \notin th[t].rows}

StepsOf(call) ==
  CASE call = "none"              -> {"idle"}
    [] call \in {"add", "single"} -> {"upsert", "mirror"}
    [] call \in {"one", "all"}    -> {"check", "publish", "erase", "tombstone"}
    [] call = "replace"           -> {"check", "publish", "swap", "rebuild"}
    [] call = "destroy"           -> {"wipe", "reset"}

Frames == [at: Steps, call: Calls, recs: Seq(Recs), todo: Seq(Recs), rows: SUBSET Rows]

CallShape(c) ==
  /\ c \in Frames
  /\ c.at \in StepsOf(c.call)
  /\ c.call = "none" => c = Idle
  /\ Uniform(c.recs) /\ Apart(c.recs)
  /\ c.call = "one" => \A q, r \in c.rows : q = r
  /\ c.call = "replace" => RowsOf(c.recs) \subseteq c.rows
  /\ c.call = "destroy" => c.rows = Rows
  /\ AddsOnly => c.call \in {"none", "add", "single"}

\* What an add has put into the table so far, and what it has still to put there.
StoredIn(x, tab) == tab[x.row] = [ver |-> x.ver, val |-> x.val]
Adding(c, tab) ==
  c.call \in {"add", "single"} =>
    /\ c.rows = RowsOf(c.recs)
    /\ c.recs # <<>>
    /\ c.call = "single" => Len(c.recs) = 1
    /\ Apart(c.todo)
    /\ Range(c.todo) \subseteq Range(c.recs)
    /\ c.at = "upsert" <=> c.todo # <<>>
    /\ \A x \in Range(c.recs) : x \in Range(c.todo) \/ StoredIn(x, tab)
    /\ AddsOnly => \A x \in Range(c.todo) : tab[x.row] = None

Clearing(c, tab) ==
  /\ c.at \in {"tombstone", "reset"} => \A r \in c.rows : tab[r] = None
  /\ c.at = "rebuild" => \A r \in c.rows \ RowsOf(c.recs) : tab[r] = None

\* What the calls rely on in the store: after its check a delete or a replacement finds no
\* deferred record of its rows, and every slot of theirs in both arrays.
Relies(c, s) ==
  /\ c.at \in {"erase", "tombstone", "swap", "rebuild"} =>
       /\ c.rows \cap RowsOf(s.pending) = {}
       /\ \A k \in Keys : k[1] \in c.rows /\ s.arr[k] # <<>> => s.bf[k] # <<>>
  /\ c.call \in {"one", "all"} /\ deploy.sidecar => s.built
  /\ c.call = "single" => ~s.active
  /\ c.call = "replace" /\ deploy.sidecar => ~s.active

CallInv(c, s, tab) == CallShape(c) /\ Adding(c, tab) /\ Clearing(c, tab) /\ Relies(c, s)

ThreadInv(th, s, tab) ==
  /\ th \in [Threads -> Frames]
  /\ \A t \in Threads : CallInv(th[t], s, tab)
  /\ \A t, u \in Threads : t # u => th[t].rows \cap th[u].rows = {}

Erased(r, s, tab) ==
  /\ tab[r] = None
  /\ \A k \in Keys : k[1] = r => s.bf[k] = <<>> /\ s.arr[k] = <<>>
  /\ r \notin RowsOf(s.pending)

GoneInv(g, th, h, s, tab) ==
  /\ g \subseteq Rows
  /\ \A r \in g, t \in Threads : r \notin th[t].rows
  /\ \A r \in g \ h : Erased(r, s, tab)

IInv ==
  /\ deploy \in Deployments /\ Safe(deploy)
  /\ StoreInv(store)
  /\ TableInv(store, table, SteadyOf(thread, hurt))
  /\ ThreadInv(thread, store, table)
  /\ GoneInv(gone, thread, hurt, store, table)
  /\ hurt \subseteq Rows
  /\ calls \in 0 .. MaxCalls
  /\ opens \in 1 .. MaxOpens

(***************************************************************************)
(* Arrays and batches                                                      *)
(***************************************************************************)

\* Every finite set of places in a sequence that is not empty has a last one (Max, used by
\* dedup_last_wins).
LEMMA LastPlace ==
  ASSUME NEW n \in Nat, NEW S \in SUBSET (1 .. n), S # {}
  PROVE  Max(S) \in S /\ \A y \in S : Max(S) >= y
<1> DEFINE D == {n - x : x \in S}
<1>1. D \in SUBSET Nat /\ D # {}
  <2>1. \A x \in S : n - x \in Nat
    OBVIOUS
  <2>2. PICK x \in S : TRUE
    OBVIOUS
  <2>3. n - x \in D
    OBVIOUS
  <2> QED
    BY <2>1, <2>3
<1>2. PICK d \in D : \A e \in D : ~(<<e, d>> \in OpToRel(<, Nat))
  BY <1>1, NatLessThanWellFounded, WFMin
<1>3. PICK x \in S : d = n - x
  OBVIOUS
<1>4. ASSUME NEW y \in S PROVE x >= y
  <2>1. n - y \in D /\ n - y \in Nat /\ d \in Nat /\ x \in Nat /\ y \in Nat
    BY <1>1
  <2>2. ASSUME n - y < d PROVE FALSE
    BY <1>2, <2>1, <2>2 DEF OpToRel
  <2> QED
    BY <1>3, <2>1, <2>2
<1>5. \E z \in S : \A y \in S : z >= y
  BY <1>4
<1> QED
  BY <1>5 DEF Max

\* The empty batch.
LEMMA NoRecords ==
  /\ <<>> \in Seq(Recs) /\ Uniform(<<>>) /\ Apart(<<>>)
  /\ RowsOf(<<>>) = {} /\ KeysOf(<<>>) = {} /\ Range(<<>>) = {}
<1>1. DOMAIN <<>> = {} /\ <<>> \in Seq(Recs)
  OBVIOUS
<1>2. Range(<<>>) = {}
  BY <1>1 DEF Range
<1> QED
  BY <1>1, <1>2 DEF Uniform, Apart, RowsOf, KeysOf

\* The keys of a batch under one version.
LEMMA KeysOfUniform ==
  ASSUME NEW recs \in Seq(Recs), Uniform(recs)
  PROVE  /\ KeysOf(recs) \subseteq Keys
         /\ RowsOf(recs) \subseteq Rows
         /\ \A k \in Keys : k \in KeysOf(recs) <=> k[1] \in RowsOf(recs) /\ k[2] = TheVersion
         /\ \A k : k \in KeysOf(recs) <=> PlacesOf(recs, k) # {}
<1>1. \A i \in DOMAIN recs :
        /\ recs[i].row \in Rows /\ recs[i].ver = TheVersion /\ recs[i].ver \in Versions
        /\ KeyOf(recs[i]) = <<recs[i].row, TheVersion>>
  BY DEF Uniform, Recs, KeyOf
<1>2. KeysOf(recs) = {<<recs[i].row, TheVersion>> : i \in DOMAIN recs}
  BY <1>1 DEF KeysOf, Range
<1>3. RowsOf(recs) = {recs[i].row : i \in DOMAIN recs}
  BY DEF RowsOf, Range
<1>4. KeysOf(recs) \subseteq Keys
  BY <1>1, <1>2 DEF Keys
<1>5. RowsOf(recs) \subseteq Rows
  BY <1>1, <1>3
<1>6. ASSUME NEW k \in Keys
      PROVE  k \in KeysOf(recs) <=> k[1] \in RowsOf(recs) /\ k[2] = TheVersion
  <2>1. k = <<k[1], k[2]>>
    BY DEF Keys
  <2> QED
    BY <2>1, <1>2, <1>3
<1>7. \A k : k \in KeysOf(recs) <=> PlacesOf(recs, k) # {}
  BY <1>1, <1>2 DEF PlacesOf
<1> QED
  BY <1>4, <1>5, <1>6, <1>7

IsLast(recs, k, i) ==
  /\ KeyOf(recs[i]) = k
  /\ \A j \in DOMAIN recs : KeyOf(recs[j]) = k => i >= j

\* What dedup_last_wins and merge_batch_into_snapshot leave under a key.
LEMMA MergedAt ==
  ASSUME NEW a, NEW recs \in Seq(Recs), NEW k \in Keys
  PROVE  /\ PlacesOf(recs, k) = {} => MergedLast(a, recs)[k] = a[k]
         /\ PlacesOf(recs, k) # {} =>
              \E i \in DOMAIN recs : IsLast(recs, k, i) /\ MergedLast(a, recs)[k] = <<recs[i].val>>
<1>1. Len(recs) \in Nat /\ DOMAIN recs = 1 .. Len(recs)
  OBVIOUS
<1>2. PlacesOf(recs, k) \in SUBSET (1 .. Len(recs))
  BY <1>1 DEF PlacesOf
<1>3. MergedLast(a, recs)[k] = IF PlacesOf(recs, k) = {} THEN a[k]
                               ELSE <<recs[Max(PlacesOf(recs, k))].val>>
  BY DEF MergedLast
<1>4. ASSUME PlacesOf(recs, k) # {}
      PROVE  \E i \in DOMAIN recs : IsLast(recs, k, i) /\ MergedLast(a, recs)[k] = <<recs[i].val>>
  <2> DEFINE i == Max(PlacesOf(recs, k))
  <2>1. i \in PlacesOf(recs, k) /\ \A y \in PlacesOf(recs, k) : i >= y
    BY <1>1, <1>2, <1>4, LastPlace
  <2>2. i \in DOMAIN recs /\ KeyOf(recs[i]) = k
    BY <2>1 DEF PlacesOf
  <2>3. \A j \in DOMAIN recs : KeyOf(recs[j]) = k => i >= j
    BY <2>1 DEF PlacesOf
  <2> QED
    BY <1>3, <1>4, <2>2, <2>3 DEF IsLast
<1> QED
  BY <1>3, <1>4

\* Merging nothing changes nothing.
LEMMA MergedNothing ==
  ASSUME NEW a, Flat(a)
  PROVE  MergedLast(a, <<>>) = a
<1>1. \A k \in Keys : PlacesOf(<<>>, k) = {}
  BY DEF PlacesOf
<1>2. a = [k \in Keys |-> a[k]]
  BY DEF Flat
<1> QED
  BY <1>1, <1>2 DEF MergedLast

\* A flat array is an array, and no array is flatter than the empty one.
LEMMA FlatArray ==
  /\ Flat(Empty)
  /\ \A a : Flat(a) => a \in Arrays
<1>1. Flat(Empty)
  BY DEF Flat, Empty
<1>2. ASSUME NEW a, Flat(a) PROVE a \in Arrays
  <2>1. ASSUME NEW k \in Keys PROVE a[k] \in Seq(Vals)
    <3>1. a[k] = <<>> \/ \E v \in Vals : a[k] = <<v>>
      BY <1>2 DEF Flat
    <3>2. <<>> \in Seq(Vals) /\ \A v \in Vals : <<v>> \in Seq(Vals)
      OBVIOUS
    <3> QED
      BY <3>1, <3>2, Zenon
  <2> QED
    BY <1>2, <2>1 DEF Flat, Arrays
<1> QED
  BY <1>1, <1>2

\* A merge into a flat array is flat.
LEMMA MergedFlat ==
  ASSUME NEW a, Flat(a), NEW recs \in Seq(Recs), Uniform(recs)
  PROVE  Flat(MergedLast(a, recs))
<1> DEFINE m == MergedLast(a, recs)
<1>1. m = [k \in Keys |-> m[k]]
  BY DEF MergedLast
<1>2. ASSUME NEW k \in Keys
      PROVE  m[k] = <<>> \/ (k[2] = TheVersion /\ \E v \in Vals : m[k] = <<v>>)
  <2>1. CASE PlacesOf(recs, k) = {}
    BY <2>1, MergedAt DEF Flat
  <2>2. CASE PlacesOf(recs, k) # {}
    <3>1. PICK i \in DOMAIN recs : KeyOf(recs[i]) = k /\ m[k] = <<recs[i].val>>
      BY <2>2, MergedAt DEF IsLast
    <3>2. recs[i] \in Recs /\ recs[i].ver = TheVersion
      BY DEF Uniform
    <3>3. recs[i].val \in Vals /\ k[2] = TheVersion
      BY <3>1, <3>2 DEF Recs, KeyOf
    <3> QED
      BY <3>1, <3>3
  <2> QED
    BY <2>1, <2>2
<1> QED
  BY <1>1, <1>2 DEF Flat

\* In a batch whose rows are all different every record is the last of its key.
LEMMA MergedRecord ==
  ASSUME NEW a, NEW recs \in Seq(Recs), Uniform(recs), Apart(recs), NEW i \in DOMAIN recs
  PROVE  /\ KeyOf(recs[i]) \in Keys
         /\ PlacesOf(recs, KeyOf(recs[i])) = {i}
         /\ MergedLast(a, recs)[KeyOf(recs[i])] = <<recs[i].val>>
<1> DEFINE k == KeyOf(recs[i])
<1>1. k \in Keys
  BY DEF Uniform, Recs, KeyOf, Keys
<1>2. \A j \in DOMAIN recs : KeyOf(recs[j]) = k => j = i
  BY DEF KeyOf, Apart
<1>3. PlacesOf(recs, k) = {i}
  BY <1>2 DEF PlacesOf
<1> HIDE DEF k
<1>4. PlacesOf(recs, k) # {}
  BY <1>3
<1>5. \E j \in DOMAIN recs : KeyOf(recs[j]) = k /\ MergedLast(a, recs)[k] = <<recs[j].val>>
  BY <1>1, <1>4, MergedAt DEF IsLast
<1>6. PICK j \in DOMAIN recs : KeyOf(recs[j]) = k /\ MergedLast(a, recs)[k] = <<recs[j].val>>
  BY <1>5
<1>7. MergedLast(a, recs)[k] = <<recs[i].val>>
  BY <1>2, <1>6
<1> USE DEF k
<1> QED
  BY <1>1, <1>3, <1>7

\* The values that append_batch adds for a key of such a batch.
LEMMA ValsOfApart ==
  ASSUME NEW recs \in Seq(Recs), NEW k
  PROVE  /\ PlacesOf(recs, k) = {} => ValsFor(recs, k) = <<>>
         /\ \A i : PlacesOf(recs, k) = {i} => ValsFor(recs, k) = <<recs[i].val>>
<1>1. ASSUME PlacesOf(recs, k) = {} PROVE ValsFor(recs, k) = <<>>
  <2>1. Cardinality({}) = 0
    BY FS_EmptySet
  <2>2. 1 .. 0 = {}
    OBVIOUS
  <2> QED
    BY <1>1, <2>1, <2>2 DEF ValsFor
<1>2. ASSUME NEW i, PlacesOf(recs, k) = {i} PROVE ValsFor(recs, k) = <<recs[i].val>>
  <2>1. Cardinality({i}) = 1 /\ Cardinality({}) = 0
    BY FS_EmptySet, FS_Singleton
  <2>2. i \in DOMAIN recs /\ i \in Nat
    BY <1>2 DEF PlacesOf
  <2>3. {j \in {i} : j < i} = {}
    BY <2>2
  <2>4. (CHOOSE h \in {i} : Cardinality({j \in {i} : j < h}) = 1 - 1) = i
    BY <2>1, <2>3
  <2>5. ValsFor(recs, k) =
          [n \in 1 .. 1 |-> recs[CHOOSE h \in {i} : Cardinality({j \in {i} : j < h}) = n - 1].val]
    BY <1>2, <2>1 DEF ValsFor
  <2>6. 1 .. 1 = {1}
    OBVIOUS
  <2> DEFINE At(n) == CHOOSE h \in {i} : Cardinality({j \in {i} : j < h}) = n - 1
  <2>7. ValsFor(recs, k) = [n \in {1} |-> recs[At(n)].val] /\ At(1) = i
    BY <2>4, <2>5, <2>6
  <2> HIDE DEF At
  <2>8. ValsFor(recs, k) = [n \in {1} |-> recs[i].val]
    BY <2>7
  <2>9. <<recs[i].val>> = [n \in {1} |-> recs[i].val]
    BY <2>6
  <2> QED
    BY <2>8, <2>9
<1> QED
  BY <1>1, <1>2

\* Retiring the old slots of a batch and appending it is a merge (append_batch and
\* append_deferred after tombstone), if every key of the batch with a slot is retired.
LEMMA AppendedIsMerged ==
  ASSUME NEW a, Flat(a), NEW recs \in Seq(Recs), Uniform(recs), Apart(recs),
         NEW ks, ks \subseteq KeysOf(recs), LiveKeys(a) \cap KeysOf(recs) \subseteq ks
  PROVE  Appended(Tombstone(a, ks), recs) = MergedLast(a, recs)
<1> SUFFICES ASSUME NEW k \in Keys
             PROVE  Tombstone(a, ks)[k] \o ValsFor(recs, k) = MergedLast(a, recs)[k]
  <2>1. MergedLast(a, recs) = [k \in Keys |-> MergedLast(a, recs)[k]]
    BY DEF MergedLast
  <2> QED
    BY <2>1, Zenon DEF Appended
<1>1. Tombstone(a, ks)[k] = IF k \in ks THEN <<>> ELSE a[k]
  BY DEF Tombstone
<1>2. CASE PlacesOf(recs, k) = {}
  <2>1. ValsFor(recs, k) = <<>> /\ MergedLast(a, recs)[k] = a[k]
    BY <1>2, ValsOfApart, MergedAt
  <2>2. k \notin ks
    BY <1>2, KeysOfUniform
  <2>3. a[k] \in Seq(Vals)
    BY FlatArray DEF Arrays
  <2> QED
    BY <1>1, <2>1, <2>2, <2>3
<1>3. CASE PlacesOf(recs, k) # {}
  <2>1. PICK i \in DOMAIN recs : KeyOf(recs[i]) = k
    BY <1>3 DEF PlacesOf
  <2>2. PlacesOf(recs, k) = {i} /\ MergedLast(a, recs)[k] = <<recs[i].val>>
    BY <2>1, MergedRecord
  <2>3. ValsFor(recs, k) = <<recs[i].val>>
    BY <2>2, ValsOfApart
  <2>4. k \in KeysOf(recs)
    BY <1>3, KeysOfUniform
  <2>5. Tombstone(a, ks)[k] = <<>>
    BY <1>1, <2>4 DEF LiveKeys
  <2> QED
    BY <2>2, <2>3, <2>5
<1> QED
  BY <1>2, <1>3

\* Merging two batches in turn is merging their concatenation (the deferred buffer).
LEMMA MergedInTurn ==
  ASSUME NEW a, NEW p \in Seq(Recs), NEW q \in Seq(Recs)
  PROVE  /\ MergedLast(a, p \o q) = MergedLast(MergedLast(a, p), q)
         /\ RowsOf(p \o q) = RowsOf(p) \cup RowsOf(q)
         /\ Uniform(p) /\ Uniform(q) => Uniform(p \o q)
<1> DEFINE pq == p \o q
           n  == Len(p)
<1>1. /\ n \in Nat /\ Len(q) \in Nat /\ DOMAIN p = 1 .. n /\ DOMAIN q = 1 .. Len(q)
      /\ pq \in Seq(Recs) /\ DOMAIN pq = 1 .. n + Len(q)
      /\ \A i \in 1 .. n : pq[i] = p[i]
      /\ \A i \in 1 .. Len(q) : pq[n + i] = q[i]
  OBVIOUS
<1>2. \A i \in DOMAIN pq : i \in DOMAIN p \/ (i - n \in DOMAIN q /\ pq[i] = q[i - n])
  <2> SUFFICES ASSUME NEW i \in DOMAIN pq, ~(i <= n)
               PROVE  i - n \in DOMAIN q /\ pq[i] = q[i - n]
    BY <1>1
  <2>1. i - n \in 1 .. Len(q) /\ n + (i - n) = i
    BY <1>1
  <2> QED
    BY <1>1, <2>1
<1>0. pq \in Seq(Recs)
  BY <1>1
<1> HIDE DEF pq, n
<1>3. ASSUME NEW k \in Keys
      PROVE  MergedLast(a, pq)[k] = MergedLast(MergedLast(a, p), q)[k]
  <2>1. CASE PlacesOf(q, k) # {}
    <3>1. PICK j \in DOMAIN q : IsLast(q, k, j) /\ MergedLast(MergedLast(a, p), q)[k] = <<q[j].val>>
      BY <2>1, MergedAt
    <3>2. n + j \in DOMAIN pq /\ pq[n + j] = q[j]
      BY <1>1
    <3>3. PlacesOf(pq, k) # {}
      BY <3>1, <3>2 DEF PlacesOf, IsLast
    <3>4. PICK i \in DOMAIN pq : IsLast(pq, k, i) /\ MergedLast(a, pq)[k] = <<pq[i].val>>
      BY <1>0, <3>3, MergedAt
    <3>5. i >= n + j
      BY <3>1, <3>2, <3>4 DEF IsLast
    <3>6. i - n \in DOMAIN q /\ pq[i] = q[i - n]
      BY <1>1, <1>2, <3>5
    <3>7. j >= i - n
      BY <3>1, <3>4, <3>6 DEF IsLast
    <3>8. i - n = j
      <4>1. i \in Int /\ j \in Int /\ n \in Int
        BY <1>1
      <4> QED
        BY <3>5, <3>7, <4>1
    <3> QED
      BY <3>1, <3>4, <3>6, <3>8
  <2>2. CASE PlacesOf(q, k) = {}
    <3>0. MergedLast(MergedLast(a, p), q)[k] = MergedLast(a, p)[k]
      BY <2>2, MergedAt
    <3>1. \A h \in DOMAIN pq : KeyOf(pq[h]) = k => h \in DOMAIN p /\ KeyOf(p[h]) = k
      BY <1>1, <1>2, <2>2 DEF PlacesOf
    <3>2. CASE PlacesOf(p, k) = {}
      <4>1. PlacesOf(pq, k) = {}
        BY <3>1, <3>2 DEF PlacesOf
      <4>2. MergedLast(a, pq)[k] = a[k] /\ MergedLast(a, p)[k] = a[k]
        BY <1>1, <3>2, <4>1, MergedAt
      <4> QED
        BY <3>0, <4>2
    <3>3. CASE PlacesOf(p, k) # {}
      <4>1. PICK j \in DOMAIN p : IsLast(p, k, j) /\ MergedLast(a, p)[k] = <<p[j].val>>
        BY <3>3, MergedAt
      <4>2. j \in DOMAIN pq /\ pq[j] = p[j]
        BY <1>1
      <4>3. PlacesOf(pq, k) # {}
        BY <4>1, <4>2 DEF PlacesOf, IsLast
      <4>4. PICK i \in DOMAIN pq : IsLast(pq, k, i) /\ MergedLast(a, pq)[k] = <<pq[i].val>>
        BY <1>0, <4>3, MergedAt
      <4>5. i \in DOMAIN p /\ KeyOf(p[i]) = k /\ pq[i] = p[i]
        BY <1>1, <3>1, <4>4 DEF IsLast
      <4>6. i = j
        BY <1>1, <4>1, <4>2, <4>4, <4>5 DEF IsLast
      <4> QED
        BY <3>0, <4>1, <4>4, <4>5, <4>6
    <3> QED
      BY <3>2, <3>3
  <2> QED
    BY <2>1, <2>2
<1>4. MergedLast(a, pq) = MergedLast(MergedLast(a, p), q)
  <2>1. /\ MergedLast(a, pq) = [k \in Keys |-> MergedLast(a, pq)[k]]
        /\ MergedLast(MergedLast(a, p), q) = [k \in Keys |-> MergedLast(MergedLast(a, p), q)[k]]
    BY DEF MergedLast
  <2> HIDE DEF MergedLast
  <2> QED
    BY <1>3, <2>1, Zenon
<1>5. \A i \in DOMAIN pq : pq[i] \in Range(p) \cup Range(q)
  BY <1>1, <1>2 DEF Range
<1>6. \A i \in DOMAIN p : i \in DOMAIN pq /\ pq[i] = p[i]
  BY <1>1
<1>7. \A i \in DOMAIN q : n + i \in DOMAIN pq /\ pq[n + i] = q[i]
  BY <1>1
<1>8. RowsOf(pq) = RowsOf(p) \cup RowsOf(q)
  <2>1. Range(pq) = Range(p) \cup Range(q)
    BY <1>5, <1>6, <1>7 DEF Range
  <2> QED
    BY <2>1 DEF RowsOf
<1>9. Uniform(p) /\ Uniform(q) => Uniform(pq)
  BY <1>2, <1>6 DEF Uniform
<1> QED
  BY <1>4, <1>8, <1>9 DEF pq

\* The keys are finitely many, and a flat array has as many live slots as live keys.
LEMMA LiveCountFlat ==
  ASSUME NEW a, Flat(a)
  PROVE  /\ IsFiniteSet(LiveKeys(a))
         /\ LiveCount(a) = Cardinality(LiveKeys(a))
         /\ LiveCount(a) \in Nat
<1> DEFINE S == UNION {{<<k, i>> : i \in DOMAIN a[k]} : k \in Keys}
           L == LiveKeys(a)
<1>1. IsFiniteSet(L)
  <2>1. IsFiniteSet(Keys)
    BY VectorAssumption, FS_Product DEF Keys
  <2>2. L \in SUBSET Keys
    BY DEF LiveKeys
  <2> QED
    BY <2>1, <2>2, FS_Subset, Zenon
<1>2. \A k \in Keys : DOMAIN a[k] = IF k \in L THEN {1} ELSE {}
  <2> SUFFICES ASSUME NEW k \in Keys PROVE DOMAIN a[k] = IF k \in L THEN {1} ELSE {}
    OBVIOUS
  <2>1. a[k] = <<>> \/ \E v \in Vals : a[k] = <<v>>
    BY DEF Flat
  <2>2. DOMAIN <<>> = {} /\ \A v \in Vals : DOMAIN <<v>> = {1} /\ <<v>> # <<>>
    OBVIOUS
  <2> QED
    BY <2>1, <2>2, Zenon DEF LiveKeys
<1>3. S = {<<k, 1>> : k \in L}
  <2>1. \A k \in Keys : {<<k, i>> : i \in DOMAIN a[k]} = IF k \in L THEN {<<k, 1>>} ELSE {}
    BY <1>2
  <2>2. L \subseteq Keys
    BY DEF LiveKeys
  <2> QED
    BY <2>1, <2>2
<1> DEFINE f == [k \in L |-> <<k, 1>>]
<1>4. f \in Bijection(L, S)
  <2> HIDE DEF L, S
  <2>1. f \in Injection(L, S)
    BY <1>3 DEF Injection, IsInjective
  <2>2. f \in Surjection(L, S)
    BY <1>3 DEF Surjection
  <2> QED
    BY <2>1, <2>2 DEF Bijection
<1>5. Cardinality(S) = Cardinality(L) /\ Cardinality(L) \in Nat
  <2>1. ExistsBijection(L, S)
    BY <1>4, Zenon DEF ExistsBijection
  <2> QED
    BY <1>1, <2>1, FS_Bijection, FS_CardinalityType, Zenon
<1> QED
  BY <1>1, <1>5 DEF LiveCount

(***************************************************************************)
(* The store as a record                                                   *)
(***************************************************************************)

Fields ==
  {"bf", "mih", "arr", "stale", "file", "count", "lane", "built", "active", "dirty", "live",
   "pending"}

IsStore(s) == s = [f \in Fields |-> s[f]]

\* A store is the record of its fields, and a record with the right fields is a store.
LEMMA StoreFields ==
  ASSUME NEW s
  PROVE  /\ s \in Stores => IsStore(s)
         /\ IsStore(s) =>
              (s \in Stores <=>
                /\ s.bf \in Arrays /\ s.mih \in [Keys -> Vals \cup {None}] /\ s.arr \in Arrays
                /\ s.stale \in BOOLEAN /\ s.file \in Arrays /\ s.count \in Nat
                /\ s.lane \in BOOLEAN /\ s.built \in BOOLEAN /\ s.active \in BOOLEAN
                /\ s.dirty \in BOOLEAN /\ s.live \in SUBSET Keys /\ s.pending \in Seq(Recs))
  BY DEF IsStore, Fields, Stores

\* The codes of a flat array.
LEMMA FlatCodes ==
  ASSUME NEW a, Flat(a)
  PROVE  /\ CodesOf(a) \in [Keys -> Vals \cup {None}]
         /\ \A k \in Keys : (CodesOf(a)[k] = IF a[k] = <<>> THEN None ELSE a[k][1])
<1> SUFFICES ASSUME NEW k \in Keys
             PROVE  /\ CodesOf(a)[k] \in Vals \cup {None}
                    /\ CodesOf(a)[k] = IF a[k] = <<>> THEN None ELSE a[k][1]
  BY DEF CodesOf
<1>1. CodesOf(a)[k] = IF a[k] = <<>> THEN None ELSE Last(a[k])
  BY DEF CodesOf
<1>2. CASE a[k] = <<>>
  BY <1>1, <1>2
<1>3. CASE a[k] # <<>>
  <2>1. PICK v \in Vals : a[k] = <<v>>
    BY <1>3 DEF Flat
  <2>2. Last(<<v>>) = v /\ <<v>>[1] = v
    BY DEF Last
  <2> QED
    BY <1>1, <1>3, <2>1, <2>2
<1> QED
  BY <1>2, <1>3

\* A record of flat arrays, with the codes of the first, has the shape of a store.
LEMMA ShapeFrom ==
  ASSUME NEW u, IsStore(u), Flat(u.bf), Flat(u.arr), Flat(u.file), u.mih = CodesOf(u.bf),
         u.count \in Nat, u.live \in SUBSET Keys, u.pending \in Seq(Recs), Uniform(u.pending),
         u.stale \in BOOLEAN, u.lane \in BOOLEAN, u.built \in BOOLEAN, u.active \in BOOLEAN,
         u.dirty \in BOOLEAN
  PROVE  StoreShape(u)
<1>1. u.bf \in Arrays /\ u.arr \in Arrays /\ u.file \in Arrays
  BY FlatArray
<1>2. u.mih \in [Keys -> Vals \cup {None}]
  BY FlatCodes, Zenon
<1>3. u \in Stores
  BY <1>1, <1>2, StoreFields
<1> QED
  BY <1>3 DEF StoreShape

\* The types of the parts of a store.
LEMMA ShapeGives ==
  ASSUME NEW s, StoreInv(s)
  PROVE  /\ s \in Stores /\ IsStore(s)
         /\ Flat(s.bf) /\ Flat(s.arr) /\ Flat(s.file) /\ s.mih = CodesOf(s.bf)
         /\ s.count \in Nat /\ s.live \in SUBSET Keys /\ s.pending \in Seq(Recs)
         /\ Uniform(s.pending)
         /\ s.stale \in BOOLEAN /\ s.lane \in BOOLEAN /\ s.built \in BOOLEAN
         /\ s.active \in BOOLEAN /\ s.dirty \in BOOLEAN
<1>1. s \in Stores /\ IsStore(s)
  BY StoreFields DEF StoreInv, StoreShape
<1> QED
  BY <1>1, StoreFields DEF StoreInv, StoreShape

\* The constructor's store.
LEMMA UnopenedFields ==
  ASSUME NEW file
  PROVE  /\ IsStore(Unopened(file))
         /\ Unopened(file).bf = Empty /\ Unopened(file).mih = CodesOf(Empty)
         /\ Unopened(file).arr = Empty /\ Unopened(file).stale = FALSE
         /\ Unopened(file).file = file /\ Unopened(file).count = 0
         /\ Unopened(file).lane = FALSE /\ Unopened(file).built = FALSE
         /\ Unopened(file).active = FALSE /\ Unopened(file).dirty = FALSE
         /\ Unopened(file).live = {} /\ Unopened(file).pending = <<>>
<1>1. IsStore(Unopened(file))
  BY DEF IsStore, Fields, Unopened
<1>2. CodesOf(Empty) = [k \in Keys |-> None]
  BY DEF CodesOf, Empty
<1> QED
  BY <1>1, <1>2 DEF Unopened

(***************************************************************************)
(* The table as an array                                                   *)
(***************************************************************************)

\* The table's array is flat, with one live key for each row stored.
LEMMA TableFlat ==
  ASSUME NEW tab \in Tables, \A r \in Rows : tab[r] # None => tab[r].ver = TheVersion
  PROVE  /\ Flat(ArrayOf(tab))
         /\ \A k \in Keys : tab[k[1]] = None => ArrayOf(tab)[k] = <<>>
         /\ Cardinality({r \in Rows : tab[r] # None}) = Cardinality(LiveKeys(ArrayOf(tab)))
<1> DEFINE A == ArrayOf(tab)
           R == {r \in Rows : tab[r] # None}
           L == LiveKeys(A)
<1>1. ASSUME NEW k \in Keys
      PROVE  /\ k[1] \in Rows /\ k[2] \in Versions
             /\ tab[k[1]] = None => A[k] = <<>>
             /\ tab[k[1]] # None /\ k[2] # TheVersion => A[k] = <<>>
             /\ tab[k[1]] # None /\ k[2] = TheVersion =>
                  A[k] = <<tab[k[1]].val>> /\ tab[k[1]].val \in Vals
  <2>1. k[1] \in Rows /\ k[2] \in Versions
    BY DEF Keys
  <2>2. A[k] = IF tab[k[1]] # None /\ tab[k[1]].ver = k[2] THEN <<tab[k[1]].val>> ELSE <<>>
    BY DEF ArrayOf
  <2>3. tab[k[1]] # None => tab[k[1]].ver = TheVersion /\ tab[k[1]].val \in Vals
    BY <2>1 DEF Tables
  <2> QED
    BY <2>1, <2>2, <2>3
<1>2. Flat(A)
  <2>1. A = [k \in Keys |-> A[k]]
    BY DEF ArrayOf
  <2> QED
    BY <1>1, <2>1 DEF Flat
<1>3. \A r \in R : tab[r].ver \in Versions /\ tab[r].ver = TheVersion
  BY DEF Tables
<1> DEFINE f == [r \in R |-> <<r, TheVersion>>]
<1>4. L = {<<r, TheVersion>> : r \in R}
  <2>1. ASSUME NEW k \in L PROVE k \in {<<r, TheVersion>> : r \in R}
    <3>1. k \in Keys /\ A[k] # <<>>
      BY DEF LiveKeys
    <3>2. k = <<k[1], k[2]>>
      BY <3>1 DEF Keys
    <3>3. k[1] \in R /\ k[2] = TheVersion
      BY <1>1, <3>1
    <3> QED
      BY <3>2, <3>3
  <2>2. ASSUME NEW r \in R PROVE <<r, TheVersion>> \in L
    <3>1. <<r, TheVersion>> \in Keys
      BY <1>3 DEF Keys
    <3>2. A[<<r, TheVersion>>] = <<tab[r].val>>
      BY <1>1, <3>1
    <3>3. <<tab[r].val>> # <<>>
      OBVIOUS
    <3> QED
      BY <3>1, <3>2, <3>3 DEF LiveKeys
  <2> QED
    BY <2>1, <2>2
<1>5. f \in Bijection(R, L)
  <2> HIDE DEF L, R
  <2>1. f \in Injection(R, L)
    BY <1>4 DEF Injection, IsInjective
  <2>2. f \in Surjection(R, L)
    BY <1>4 DEF Surjection
  <2> QED
    BY <2>1, <2>2 DEF Bijection
<1>6. Cardinality(L) = Cardinality(R)
  <2>1. IsFiniteSet(R)
    <3>1. R \in SUBSET Rows
      OBVIOUS
    <3> QED
      BY <3>1, VectorAssumption, FS_Subset, Zenon
  <2>2. ExistsBijection(R, L)
    BY <1>5, Zenon DEF ExistsBijection
  <2> QED
    BY <2>1, <2>2, FS_Bijection, Zenon
<1> QED
  BY <1>1, <1>2, <1>6

\* An array within the table with as many live slots as the table has rows is the table
\* (the test by which ensure_index_built_locked trusts the file).
LEMMA FileIsWhole ==
  ASSUME NEW a, Flat(a), NEW tab \in Tables,
         \A r \in Rows : tab[r] # None => tab[r].ver = TheVersion,
         Within(a, tab), LiveCount(a) = Cardinality({r \in Rows : tab[r] # None})
  PROVE  \A k \in Keys : a[k] = ArrayOf(tab)[k]
<1>1. Flat(ArrayOf(tab))
  BY TableFlat
<1>2. LiveKeys(a) \in SUBSET LiveKeys(ArrayOf(tab))
  BY DEF Within, LiveKeys
<1>3. IsFiniteSet(LiveKeys(ArrayOf(tab)))
  BY <1>1, LiveCountFlat
<1>4. Cardinality(LiveKeys(ArrayOf(tab))) = Cardinality(LiveKeys(a))
  <2>1. LiveCount(a) = Cardinality(LiveKeys(a))
    BY LiveCountFlat
  <2>2. Cardinality({r \in Rows : tab[r] # None}) = Cardinality(LiveKeys(ArrayOf(tab)))
    BY TableFlat
  <2> QED
    BY <2>1, <2>2
<1>5. LiveKeys(a) = LiveKeys(ArrayOf(tab))
  BY <1>2, <1>3, <1>4, FS_Subset, Zenon
<1> QED
  BY <1>5 DEF LiveKeys, Within

(***************************************************************************)
(* The locked steps                                                        *)
(***************************************************************************)

\* What a locked step on some rows leaves to the calls on other rows.
Serves(s, u, rows) ==
  /\ s.built => u.built
  /\ RowsOf(u.pending) \subseteq RowsOf(s.pending) \cup rows
  /\ \A k \in Keys :
       k[1] \notin rows /\ (s.arr[k] # <<>> => s.bf[k] # <<>>) /\ u.arr[k] # <<>> =>
         u.bf[k] # <<>>

\* A locked step brings rows in line with the table and leaves the others so.
Kept(s, u, tab, steady, rows) ==
  /\ StoreInv(u)
  /\ TableInv(u, tab, steady \cup rows)
  /\ Serves(s, u, rows)
  /\ \A r \in steady \ rows : Erased(r, s, tab) => Erased(r, u, tab)

\* Doing nothing keeps the store.
LEMMA SameKept ==
  ASSUME NEW s, NEW tab, NEW steady, StoreInv(s), TableInv(s, tab, steady)
  PROVE  Kept(s, s, tab, steady, {})
<1>1. steady \cup {} = steady
  OBVIOUS
<1> QED
  BY <1>1 DEF Kept, Serves

\* rebuild_binary_index_from_table_locked.
LEMMA FromTableFields ==
  ASSUME NEW s, IsStore(s)
  PROVE  LET u == FromTable(s) IN
         /\ IsStore(u)
         /\ u.bf = ArrayOf(table) /\ u.mih = CodesOf(ArrayOf(table))
         /\ u.count = LiveCount(ArrayOf(table)) /\ u.lane = (u.count >= Threshold)
         /\ u.built = TRUE
         /\ u.active = s.active /\ u.dirty = s.dirty /\ u.live = s.live /\ u.pending = s.pending
         /\ deploy.sidecar => u.arr = ArrayOf(table) /\ u.file = ArrayOf(table) /\ u.stale = FALSE
         /\ ~deploy.sidecar => u.arr = s.arr /\ u.file = s.file /\ u.stale = s.stale
<1> DEFINE T == ArrayOf(table)
           n == LiveCount(T)
           u == FromTable(s)
<1>1. TableArray = T
  BY DEF TableArray, ArrayOf
<1> HIDE DEF T, n
<1>2. u = Counted([Indexed(IF deploy.sidecar THEN Persisted(s, T) ELSE s, T) EXCEPT !.built = TRUE], n)
  BY <1>1, Zenon DEF FromTable, n
<1>3. CASE deploy.sidecar
  <2>1. u = Counted([Indexed(Persisted(s, T), T) EXCEPT !.built = TRUE], n)
    BY <1>2, <1>3
  <2> HIDE DEF u
  <2>2. /\ IsStore(u)
         /\ u.bf = T /\ u.mih = CodesOf(T)
         /\ u.count = n /\ u.lane = (n >= Threshold)
         /\ u.built = TRUE
         /\ u.active = s.active /\ u.dirty = s.dirty /\ u.live = s.live /\ u.pending = s.pending
         /\ u.arr = T /\ u.file = T /\ u.stale = FALSE
    BY <2>1 DEF Counted, Indexed, Persisted, IsStore, Fields, CodesOf
  <2> QED
    BY <1>3, <2>2 DEF u, n, T
<1>4. CASE ~deploy.sidecar
  <2>1. u = Counted([Indexed(s, T) EXCEPT !.built = TRUE], n)
    BY <1>2, <1>4
  <2> HIDE DEF u
  <2>2. /\ IsStore(u)
        /\ u.bf = T /\ u.mih = CodesOf(T)
        /\ u.count = n /\ u.lane = (n >= Threshold)
        /\ u.built = TRUE
        /\ u.active = s.active /\ u.dirty = s.dirty /\ u.live = s.live /\ u.pending = s.pending
        /\ u.arr = s.arr /\ u.file = s.file /\ u.stale = s.stale
    BY <2>1 DEF Counted, Indexed, IsStore, Fields, CodesOf
  <2> QED
    BY <1>4, <2>2 DEF u, n, T
<1> QED
  BY <1>3, <1>4

\* The index rebuilt from the table holds the table, for the rows with no deferred record.
LEMMA FromTableKept ==
  ASSUME NEW s, NEW steady, NEW rows, StoreInv(s), TableInv(s, table, steady),
         deploy \in Deployments, rows \cap RowsOf(s.pending) = {}, deploy.sidecar => ~s.active
  PROVE  Kept(s, FromTable(s), table, steady, rows)
<1> DEFINE T == ArrayOf(table)
           u == FromTable(s)
<1>1. IsStore(s) /\ s \in Stores
  BY StoreFields DEF StoreInv, StoreShape
<1>2. /\ IsStore(u)
      /\ u.bf = T /\ u.mih = CodesOf(T)
      /\ u.count = LiveCount(T) /\ u.lane = (u.count >= Threshold)
      /\ u.built = TRUE
      /\ u.active = s.active /\ u.dirty = s.dirty /\ u.live = s.live /\ u.pending = s.pending
      /\ deploy.sidecar => u.arr = T /\ u.file = T /\ u.stale = FALSE
      /\ ~deploy.sidecar => u.arr = s.arr /\ u.file = s.file /\ u.stale = s.stale
  BY <1>1, FromTableFields
<1>3. table \in Tables /\ \A r \in Rows : table[r] # None => table[r].ver = TheVersion
  BY DEF TableInv
<1>4. Flat(T) /\ T \in Arrays /\ CodesOf(T) \in [Keys -> Vals \cup {None}]
  BY <1>3, TableFlat, FlatArray, FlatCodes
<1>5. LiveCount(T) \in Nat /\ LiveCount(T) = Cardinality(LiveKeys(T))
  BY <1>4, LiveCountFlat
<1>6. \A k \in Keys : table[k[1]] = None => T[k] = <<>>
  BY <1>3, TableFlat
<1>7. deploy.sidecar \in BOOLEAN /\ Threshold \in Nat
  BY VectorAssumption
<1> HIDE DEF T, u
<1>8. /\ s.stale \in BOOLEAN /\ s.active \in BOOLEAN /\ s.dirty \in BOOLEAN
      /\ s.live \in SUBSET Keys /\ s.pending \in Seq(Recs)
      /\ Flat(s.arr) /\ Flat(s.file) /\ Uniform(s.pending)
  BY ShapeGives
<1>9. StoreShape(u)
  <2>1. Flat(u.bf) /\ Flat(u.arr) /\ Flat(u.file) /\ u.mih = CodesOf(u.bf)
    BY <1>2, <1>4, <1>7, <1>8
  <2>2. /\ u.count \in Nat /\ u.live \in SUBSET Keys /\ u.pending \in Seq(Recs)
        /\ Uniform(u.pending) /\ u.built \in BOOLEAN /\ u.active \in BOOLEAN /\ u.dirty \in BOOLEAN
    BY <1>2, <1>5, <1>8, Zenon
  <2>3. u.stale \in BOOLEAN
    BY <1>2, <1>8
  <2>4. u.lane \in BOOLEAN
    <3>1. u.lane = (u.count >= Threshold)
      BY <1>2
    <3> QED
      BY <1>7, <2>2, <3>1
  <2> QED
    BY <1>2, <2>1, <2>2, <2>3, <2>4, ShapeFrom
<1>10. StoreFlags(u)
  BY <1>2 DEF StoreInv, StoreFlags
<1>11. SidecarInv(u)
  BY <1>2 DEF StoreInv, SidecarInv
<1>12. CountInv(u)
  BY <1>2, <1>5 DEF CountInv
<1>13. SameOn(steady \cup rows, Held(u), T)
  <2> SUFFICES ASSUME NEW k \in Keys, k[1] \in steady \cup rows
               PROVE  Held(u)[k] = T[k]
    BY DEF SameOn
  <2>1. CASE deploy.sidecar
    BY <2>1, <1>2 DEF Held
  <2>2. CASE ~deploy.sidecar
    <3>1. Held(u) = MergedLast(T, s.pending)
      BY <1>2, <2>2 DEF Held
    <3>2. CASE PlacesOf(s.pending, k) = {}
      BY <1>8, <3>1, <3>2, MergedAt
    <3>3. CASE PlacesOf(s.pending, k) # {}
      <4>1. k[1] \in RowsOf(s.pending)
        BY <1>8, <3>3, KeysOfUniform
      <4>2. k[1] \in steady
        BY <4>1
      <4>3. s.pending # <<>>
        BY <3>3 DEF PlacesOf
      <4>4. s.built
        BY <4>3 DEF StoreInv, StoreFlags
      <4>5. MergedLast(s.bf, s.pending)[k] = T[k]
        BY <2>2, <4>2, <4>4 DEF TableInv, SameOn, Held, T
      <4>6. MergedLast(s.bf, s.pending)[k] = MergedLast(T, s.pending)[k]
        BY <3>3 DEF MergedLast
      <4> QED
        BY <3>1, <4>5, <4>6
    <3> QED
      BY <3>2, <3>3
  <2> QED
    BY <2>1, <2>2
<1>14. TableInv(u, table, steady \cup rows)
  <2>1. Within(T, table)
    BY DEF Within, T
  <2>2. SameOn(steady \cup rows, u.bf, T)
    BY <1>2 DEF SameOn
  <2> QED
    BY <1>2, <1>3, <1>13, <2>1, <2>2 DEF TableInv, T, AddsOnly
<1>15. Serves(s, u, rows)
  <2>1. RowsOf(u.pending) \subseteq RowsOf(s.pending) \cup rows
    BY <1>2
  <2>2. ~deploy.sidecar => s.arr = Empty
    BY DEF StoreInv, StoreFlags
  <2>3. \A k \in Keys : u.arr[k] # <<>> => u.bf[k] # <<>>
    BY <1>2, <2>2 DEF Empty
  <2> QED
    BY <1>2, <2>1, <2>3 DEF Serves
<1>16. ASSUME NEW r, Erased(r, s, table) PROVE Erased(r, u, table)
  <2>1. \A k \in Keys : k[1] = r => T[k] = <<>> /\ s.arr[k] = <<>>
    BY <1>6, <1>16 DEF Erased
  <2> QED
    BY <1>2, <1>16, <2>1 DEF Erased
<1> QED
  BY <1>9, <1>10, <1>11, <1>12, <1>14, <1>15, <1>16 DEF Kept, StoreInv, u

\* ensure_index_built_locked when it trusts the file.
LEMMA FromFileFields ==
  ASSUME NEW s, IsStore(s), ~s.built, deploy.sidecar, LiveCount(s.file) = TableCount
  PROVE  LET u == Ensured(s) IN
         /\ IsStore(u)
         /\ u.bf = s.file /\ u.mih = CodesOf(s.file) /\ u.arr = s.file /\ u.file = s.file
         /\ u.count = LiveCount(s.file) /\ u.lane = (u.count >= Threshold)
         /\ u.built = TRUE /\ u.stale = FALSE
         /\ u.active = s.active /\ u.dirty = s.dirty /\ u.live = s.live /\ u.pending = s.pending
<1> DEFINE u == Ensured(s)
           n == LiveCount(s.file)
<1>1. u = Counted([Indexed([s EXCEPT !.arr = s.file, !.stale = FALSE], s.file)
                     EXCEPT !.built = TRUE], n)
  BY Zenon DEF Ensured
<1> HIDE DEF u, n
<1>2. /\ IsStore(u)
      /\ u.bf = s.file /\ u.mih = CodesOf(s.file) /\ u.arr = s.file /\ u.file = s.file
      /\ u.count = n /\ u.lane = (n >= Threshold)
      /\ u.built = TRUE /\ u.stale = FALSE
      /\ u.active = s.active /\ u.dirty = s.dirty /\ u.live = s.live /\ u.pending = s.pending
  BY <1>1 DEF Counted, Indexed, IsStore, Fields, CodesOf
<1> QED
  BY <1>2 DEF u, n

\* Whichever way the index is built, it holds the table for the steady rows
\* (ensure_index_built_locked).
LEMMA EnsuredKept ==
  ASSUME NEW s, NEW steady, StoreInv(s), TableInv(s, table, steady), deploy \in Deployments
  PROVE  /\ Kept(s, Ensured(s), table, steady, {})
         /\ Ensured(s).built
         /\ Ensured(s).active = s.active /\ Ensured(s).dirty = s.dirty
         /\ Ensured(s).pending = s.pending
         /\ s.built => Ensured(s) = s
<1> DEFINE u == Ensured(s)
<1>0. IsStore(s) /\ s \in Stores
  BY ShapeGives
<1>1. CASE s.built
  <2>1. u = s
    BY <1>1 DEF Ensured
  <2> QED
    BY <1>1, <2>1, SameKept
<1>2. CASE ~s.built /\ ~(deploy.sidecar /\ LiveCount(s.file) = TableCount)
  <2>1. u = FromTable(s)
    BY <1>2 DEF Ensured
  <2>2. ~s.active
    BY <1>2 DEF StoreInv, StoreFlags
  <2>3. Kept(s, u, table, steady, {})
    BY <2>1, <2>2, FromTableKept
  <2> QED
    BY <1>0, <1>2, <2>1, <2>3, FromTableFields
<1>3. CASE ~s.built /\ deploy.sidecar /\ LiveCount(s.file) = TableCount
  <2>1. /\ IsStore(u)
        /\ u.bf = s.file /\ u.mih = CodesOf(s.file) /\ u.arr = s.file /\ u.file = s.file
        /\ u.count = LiveCount(s.file) /\ u.lane = (u.count >= Threshold)
        /\ u.built = TRUE /\ u.stale = FALSE
        /\ u.active = s.active /\ u.dirty = s.dirty /\ u.live = s.live /\ u.pending = s.pending
    BY <1>0, <1>3, FromFileFields
  <2> HIDE DEF u
  <2>2. /\ s.active \in BOOLEAN /\ s.dirty \in BOOLEAN
        /\ s.live \in SUBSET Keys /\ s.pending \in Seq(Recs)
        /\ Flat(s.file) /\ Uniform(s.pending)
    BY ShapeGives
  <2>3. LiveCount(s.file) \in Nat /\ LiveCount(s.file) = Cardinality(LiveKeys(s.file))
    BY <2>2, LiveCountFlat
  <2>4. ~s.active /\ ~s.dirty /\ s.pending = <<>>
    BY <1>3 DEF StoreInv, StoreFlags
  <2>5. StoreShape(u)
    <3>1. Flat(u.bf) /\ Flat(u.arr) /\ Flat(u.file) /\ u.mih = CodesOf(u.bf)
      BY <2>1, <2>2
    <3>2. /\ u.count \in Nat /\ u.live \in SUBSET Keys /\ u.pending \in Seq(Recs)
          /\ Uniform(u.pending) /\ u.built \in BOOLEAN /\ u.active \in BOOLEAN
          /\ u.dirty \in BOOLEAN /\ u.stale \in BOOLEAN
      BY <2>1, <2>2, <2>3, Zenon
    <3>3. u.lane \in BOOLEAN
      <4>1. u.lane = (u.count >= Threshold)
        BY <2>1
      <4> QED
        BY <3>2, <4>1, VectorAssumption
    <3> QED
      BY <2>1, <3>1, <3>2, <3>3, ShapeFrom
  <2>6. StoreFlags(u)
    BY <1>3, <2>1, <2>4 DEF StoreFlags
  <2>7. SidecarInv(u)
    BY <2>1, <2>4 DEF SidecarInv
  <2>8. CountInv(u)
    BY <2>1, <2>3 DEF CountInv
  <2>9. SameOn(steady, s.file, ArrayOf(table))
    <3>1. CASE ~May("crash")
      BY <1>3, <3>1 DEF TableInv
    <3>2. CASE May("crash")
      <4>1. Within(s.file, table) /\ table \in Tables
        BY <1>3, <3>2 DEF TableInv, AddsOnly
      <4>2. \A r \in Rows : table[r] # None => table[r].ver = TheVersion
        BY DEF TableInv
      <4>3. LiveCount(s.file) = Cardinality({r \in Rows : table[r] # None})
        BY <1>3 DEF TableCount
      <4>4. \A k \in Keys : s.file[k] = ArrayOf(table)[k]
        BY <2>2, <4>1, <4>2, <4>3, FileIsWhole
      <4> QED
        BY <4>4 DEF SameOn
    <3> QED
      BY <3>1, <3>2
  <2>10. TableInv(u, table, steady \cup {})
    <3>1. steady \cup {} = steady
      OBVIOUS
    <3>2. Held(u) = s.file
      BY <1>3, <2>1 DEF Held
    <3> QED
      BY <2>1, <2>9, <3>1, <3>2 DEF TableInv
  <2>11. Serves(s, u, {})
    BY <2>1 DEF Serves
  <2>12. ASSUME NEW r \in steady, Erased(r, s, table) PROVE Erased(r, u, table)
    <3>1. \A k \in Keys : k[1] = r => ArrayOf(table)[k] = <<>>
      BY <2>12, TableFlat DEF Erased, TableInv
    <3>2. \A k \in Keys : k[1] = r => s.file[k] = <<>>
      BY <2>9, <3>1 DEF SameOn
    <3> QED
      BY <2>1, <2>12, <3>2 DEF Erased
  <2>13. Kept(s, u, table, steady, {})
    BY <2>5, <2>6, <2>7, <2>8, <2>10, <2>11, <2>12 DEF Kept, StoreInv
  <2> QED
    BY <1>3, <2>1, <2>13 DEF u
<1> QED
  BY <1>1, <1>2, <1>3

\* publish_resident_index.
LEMMA PublishedFields ==
  ASSUME NEW s, IsStore(s)
  PROVE  LET u == Published(s) IN
         /\ IsStore(u)
         /\ s.dirty => /\ u.bf = Held(s) /\ u.mih = CodesOf(Held(s))
                       /\ u.count = LiveCount(Held(s)) /\ u.lane = (u.count >= Threshold)
         /\ ~s.dirty => u.bf = s.bf /\ u.mih = s.mih /\ u.count = s.count /\ u.lane = s.lane
         /\ u.arr = s.arr /\ u.file = s.file /\ u.built = s.built /\ u.stale = s.stale
         /\ u.active = FALSE /\ u.dirty = FALSE /\ u.live = {} /\ u.pending = <<>>
<1> DEFINE u == Published(s)
           h == Held(s)
           n == LiveCount(h)
           closed == [s EXCEPT !.active = FALSE, !.dirty = FALSE, !.live = {}, !.pending = <<>>]
<1>1. u = IF s.dirty THEN Counted(Indexed(closed, h), n) ELSE closed
  BY Zenon DEF Published, Held
<1> HIDE DEF u, h, n
<1>2. CASE s.dirty
  <2>1. u = Counted(Indexed(closed, h), n)
    BY <1>1, <1>2
  <2>2. /\ IsStore(u)
        /\ u.bf = h /\ u.mih = CodesOf(h) /\ u.count = n /\ u.lane = (n >= Threshold)
        /\ u.arr = s.arr /\ u.file = s.file /\ u.built = s.built /\ u.stale = s.stale
        /\ u.active = FALSE /\ u.dirty = FALSE /\ u.live = {} /\ u.pending = <<>>
    BY <2>1 DEF Counted, Indexed, IsStore, Fields, CodesOf
  <2> QED
    BY <1>2, <2>2 DEF u, n, h
<1>3. CASE ~s.dirty
  <2>1. u = closed
    BY <1>1, <1>3
  <2>2. /\ IsStore(u)
        /\ u.bf = s.bf /\ u.mih = s.mih /\ u.count = s.count /\ u.lane = s.lane
        /\ u.arr = s.arr /\ u.file = s.file /\ u.built = s.built /\ u.stale = s.stale
        /\ u.active = FALSE /\ u.dirty = FALSE /\ u.live = {} /\ u.pending = <<>>
    BY <2>1 DEF IsStore, Fields
  <2> QED
    BY <1>3, <2>2 DEF u
<1> QED
  BY <1>2, <1>3

\* The content of a store is flat, and it is the array when nothing is deferred.
LEMMA HeldFlat ==
  ASSUME NEW s, StoreInv(s), deploy \in Deployments
  PROVE  /\ Flat(Held(s))
         /\ ~deploy.sidecar /\ s.pending = <<>> => Held(s) = s.bf
         /\ deploy.sidecar => Held(s) = s.arr
         /\ deploy.sidecar \in BOOLEAN
<1>1. Flat(s.bf) /\ Flat(s.arr) /\ s.pending \in Seq(Recs) /\ Uniform(s.pending)
  BY ShapeGives
<1>2. Flat(MergedLast(s.bf, s.pending))
  BY <1>1, MergedFlat
<1>3. MergedLast(s.bf, <<>>) = s.bf
  BY <1>1, MergedNothing
<1>4. deploy.sidecar \in BOOLEAN
  BY VectorAssumption
<1> QED
  BY <1>1, <1>2, <1>3, <1>4 DEF Held

\* Publishing shows what was held.
LEMMA PublishedKept ==
  ASSUME NEW s, NEW tab, NEW steady, StoreInv(s), TableInv(s, tab, steady),
         deploy \in Deployments
  PROVE  /\ Kept(s, Published(s), tab, steady, {})
         /\ Published(s).active = FALSE /\ Published(s).dirty = FALSE
         /\ Published(s).pending = <<>>
<1> DEFINE u == Published(s)
           h == Held(s)
<1>1. IsStore(s) /\ s \in Stores
  BY ShapeGives
<1>2. /\ IsStore(u)
      /\ s.dirty => /\ u.bf = h /\ u.mih = CodesOf(h)
                    /\ u.count = LiveCount(h) /\ u.lane = (u.count >= Threshold)
      /\ ~s.dirty => u.bf = s.bf /\ u.mih = s.mih /\ u.count = s.count /\ u.lane = s.lane
      /\ u.arr = s.arr /\ u.file = s.file /\ u.built = s.built /\ u.stale = s.stale
      /\ u.active = FALSE /\ u.dirty = FALSE /\ u.live = {} /\ u.pending = <<>>
  BY <1>1, PublishedFields
<1>3. /\ Flat(h)
      /\ ~deploy.sidecar /\ s.pending = <<>> => h = s.bf
      /\ deploy.sidecar => h = s.arr
      /\ deploy.sidecar \in BOOLEAN
  BY HeldFlat
<1>4. LiveCount(h) \in Nat /\ LiveCount(h) = Cardinality(LiveKeys(h))
  BY <1>3, LiveCountFlat
<1> HIDE DEF u, h
<1>5. /\ Flat(s.bf) /\ Flat(s.arr) /\ Flat(s.file) /\ s.mih = CodesOf(s.bf)
      /\ s.count \in Nat /\ s.stale \in BOOLEAN /\ s.lane \in BOOLEAN /\ s.built \in BOOLEAN
      /\ s.dirty \in BOOLEAN
  BY ShapeGives
<1>6. s.dirty => s.built
  BY DEF StoreInv, StoreFlags
<1>7. ~s.dirty => s.pending = <<>>
  BY DEF StoreInv, StoreFlags
<1>8. StoreShape(u)
  <2>1. Flat(u.bf) /\ Flat(u.arr) /\ Flat(u.file) /\ u.mih = CodesOf(u.bf)
    BY <1>2, <1>3, <1>5
  <2>2. u.count \in Nat
    BY <1>2, <1>4, <1>5
  <2>3. u.lane \in BOOLEAN
    <3>1. CASE s.dirty
      <4>1. u.lane = (u.count >= Threshold)
        BY <1>2, <3>1
      <4> QED
        BY <2>2, <4>1, VectorAssumption
    <3>2. CASE ~s.dirty
      BY <1>2, <1>5, <3>2
    <3> QED
      BY <3>1, <3>2
  <2>4. /\ u.live \in SUBSET Keys /\ u.pending \in Seq(Recs) /\ Uniform(u.pending)
        /\ u.built \in BOOLEAN /\ u.active \in BOOLEAN /\ u.dirty \in BOOLEAN
        /\ u.stale \in BOOLEAN
    BY <1>2, <1>5, NoRecords, Zenon
  <2> QED
    BY <1>2, <2>1, <2>2, <2>3, <2>4, ShapeFrom
<1>9. StoreFlags(u)
  BY <1>2, <1>6 DEF StoreInv, StoreFlags
<1>10. SidecarInv(u)
  BY <1>2, <1>3, <1>6 DEF StoreInv, SidecarInv
<1>11. CountInv(u)
  BY <1>2, <1>4, <1>6 DEF StoreInv, CountInv
<1>12. Held(u) = h
  <2>1. StoreInv(u)
    BY <1>8, <1>9, <1>10, <1>11 DEF StoreInv
  <2>2. Held(u) = IF deploy.sidecar THEN u.arr ELSE u.bf
    BY <1>2, <2>1, HeldFlat
  <2> QED
    BY <1>2, <1>3, <1>7, <2>2
<1>13. TableInv(u, tab, steady \cup {})
  <2>1. steady \cup {} = steady
    OBVIOUS
  <2>2. u.built => SameOn(steady, u.bf, ArrayOf(tab))
    <3>1. CASE s.dirty
      BY <1>2, <3>1 DEF TableInv, h
    <3>2. CASE ~s.dirty
      BY <1>2, <3>2 DEF TableInv
    <3> QED
      BY <3>1, <3>2
  <2>3. u.built => SameOn(steady, Held(u), ArrayOf(tab))
    BY <1>2, <1>12 DEF TableInv, h
  <2> QED
    BY <1>2, <2>1, <2>2, <2>3 DEF TableInv
<1>14. Serves(s, u, {})
  <2>1. RowsOf(u.pending) = {}
    BY <1>2 DEF RowsOf, Range
  <2>2. ASSUME NEW k \in Keys, s.arr[k] # <<>> => s.bf[k] # <<>>, u.arr[k] # <<>>
        PROVE  u.bf[k] # <<>>
    <3>1. CASE deploy.sidecar
      BY <1>2, <1>3, <2>2, <3>1
    <3>2. CASE ~deploy.sidecar
      <4>1. s.arr[k] = <<>>
        BY <3>2 DEF StoreInv, StoreFlags, Empty
      <4> QED
        BY <1>2, <2>2, <4>1
    <3> QED
      BY <1>3, <3>1, <3>2
  <2> QED
    BY <1>2, <2>1, <2>2 DEF Serves
<1>15. ASSUME NEW r, Erased(r, s, tab) PROVE Erased(r, u, tab)
  <2>1. ASSUME NEW k \in Keys, k[1] = r PROVE h[k] = <<>>
    <3>1. s.bf[k] = <<>> /\ s.arr[k] = <<>>
      BY <1>15, <2>1 DEF Erased
    <3>2. CASE deploy.sidecar
      BY <1>3, <3>1, <3>2
    <3>3. CASE ~deploy.sidecar
      <4>1. s.pending \in Seq(Recs) /\ Uniform(s.pending)
        BY ShapeGives
      <4>2. k \notin KeysOf(s.pending)
        BY <1>15, <2>1, <4>1, KeysOfUniform DEF Erased
      <4>3. PlacesOf(s.pending, k) = {}
        BY <4>1, <4>2, KeysOfUniform
      <4>4. MergedLast(s.bf, s.pending)[k] = s.bf[k]
        BY <4>1, <4>3, MergedAt
      <4> QED
        BY <3>1, <3>3, <4>4 DEF h, Held
    <3> QED
      BY <1>3, <3>2, <3>3
  <2>2. RowsOf(u.pending) = {}
    BY <1>2 DEF RowsOf, Range
  <2>3. \A k \in Keys : k[1] = r => u.bf[k] = <<>> /\ u.arr[k] = <<>>
    BY <1>2, <1>5, <1>15, <2>1 DEF Erased
  <2> QED
    BY <1>15, <2>2, <2>3 DEF Erased
<1> QED
  BY <1>2, <1>8, <1>9, <1>10, <1>11, <1>13, <1>14, <1>15 DEF Kept, StoreInv, u

\* A merge of records that are in the table brings their rows in line with it.
LEMMA MergedMatches ==
  ASSUME NEW a, Flat(a), NEW recs \in Seq(Recs), Uniform(recs), Apart(recs),
         NEW tab \in Tables, \A r \in Rows : tab[r] # None => tab[r].ver = TheVersion,
         \A x \in Range(recs) : StoredIn(x, tab)
  PROVE  /\ \A k \in Keys : k[1] \notin RowsOf(recs) => MergedLast(a, recs)[k] = a[k]
         /\ \A k \in Keys : k[1] \in RowsOf(recs) => MergedLast(a, recs)[k] = ArrayOf(tab)[k]
         /\ LiveKeys(MergedLast(a, recs)) = LiveKeys(a) \cup KeysOf(recs)
<1> DEFINE m == MergedLast(a, recs)
           T == ArrayOf(tab)
<1>1. ASSUME NEW k \in Keys, k[1] \notin RowsOf(recs) PROVE m[k] = a[k]
  <2>1. PlacesOf(recs, k) = {}
    BY <1>1, KeysOfUniform
  <2> QED
    BY <2>1, MergedAt
<1>2. ASSUME NEW k \in Keys, k \in KeysOf(recs)
      PROVE  m[k] = T[k] /\ m[k] # <<>>
  <2>1. PICK i \in DOMAIN recs : KeyOf(recs[i]) = k
    BY <1>2, KeysOfUniform DEF PlacesOf
  <2>2. m[k] = <<recs[i].val>>
    BY <2>1, MergedRecord
  <2>3. recs[i] \in Range(recs)
    BY DEF Range
  <2>4. tab[recs[i].row] = [ver |-> recs[i].ver, val |-> recs[i].val]
    BY <2>3 DEF StoredIn
  <2>5. k[1] = recs[i].row /\ k[2] = recs[i].ver
    BY <2>1 DEF KeyOf
  <2>6. tab[k[1]] # None
    <3>1. recs[i].ver \in Versions /\ recs[i].val \in Vals
      BY DEF Uniform, Recs
    <3>2. k[1] \in Rows
      BY DEF Keys
    <3>3. Flat(T) /\ (tab[k[1]] = None => T[k] = <<>>)
      BY TableFlat
    <3>4. [ver |-> recs[i].ver, val |-> recs[i].val] # None
      BY <3>1, VectorAssumption
    <3> QED
      BY <2>4, <2>5, <3>4
  <2>7. T[k] = <<tab[k[1]].val>>
    BY <2>4, <2>5, <2>6 DEF ArrayOf
  <2>8. T[k] = <<recs[i].val>>
    BY <2>4, <2>5, <2>7
  <2>9. <<recs[i].val>> # <<>>
    OBVIOUS
  <2> QED
    BY <2>2, <2>8, <2>9
<1>3. ASSUME NEW k \in Keys, k[1] \in RowsOf(recs), k \notin KeysOf(recs)
      PROVE  m[k] = T[k] /\ m[k] = a[k]
  <2>1. k[2] # TheVersion
    BY <1>3, KeysOfUniform
  <2>2. PlacesOf(recs, k) = {}
    BY <1>3, KeysOfUniform
  <2>3. m[k] = a[k]
    BY <2>2, MergedAt
  <2>4. Flat(T)
    BY TableFlat
  <2> HIDE DEF m, T
  <2>5. a[k] = <<>> /\ T[k] = <<>>
    BY <2>1, <2>4 DEF Flat
  <2> QED
    BY <2>3, <2>5
<1>4. LiveKeys(m) = LiveKeys(a) \cup KeysOf(recs)
  <2>1. KeysOf(recs) \subseteq Keys
    BY KeysOfUniform
  <2>2. \A k \in Keys : k \notin KeysOf(recs) => m[k] = a[k]
    BY <1>1, <1>3
  <2> HIDE DEF m
  <2> QED
    BY <1>2, <2>1, <2>2 DEF LiveKeys
<1> QED
  BY <1>1, <1>2, <1>3, <1>4

\* How a merge changes the number of live slots.
LEMMA MergedCount ==
  ASSUME NEW a, Flat(a), NEW recs \in Seq(Recs), Uniform(recs), NEW m, Flat(m),
         LiveKeys(m) = LiveKeys(a) \cup KeysOf(recs)
  PROVE  LET new == Cardinality(KeysOf(recs) \ (KeysOf(recs) \cap LiveKeys(a))) IN
         /\ new \in Nat
         /\ Cardinality(LiveKeys(m)) = Cardinality(LiveKeys(a)) + new
<1> DEFINE A == LiveKeys(a)
           B == KeysOf(recs) \ (KeysOf(recs) \cap A)
<1>1. IsFiniteSet(A) /\ IsFiniteSet(LiveKeys(m))
  BY LiveCountFlat
<1>2. IsFiniteSet(B)
  <2>1. B \in SUBSET LiveKeys(m)
    OBVIOUS
  <2> QED
    BY <1>1, <2>1, FS_Subset, Zenon
<1>3. A \cup B = LiveKeys(m) /\ A \cap B = {}
  OBVIOUS
<1>4. Cardinality(A) \in Nat /\ Cardinality(B) \in Nat
  BY <1>1, <1>2, FS_CardinalityType, Zenon
<1> HIDE DEF A, B
<1>5. Cardinality(A \cup B) = Cardinality(A) + Cardinality(B) - Cardinality(A \cap B)
  BY <1>1, <1>2, FS_Union, Zenon
<1>6. Cardinality(A \cap B) = 0
  BY <1>3, FS_EmptySet, Zenon
<1>7. Cardinality(LiveKeys(m)) = Cardinality(A) + Cardinality(B)
  <2> DEFINE x == Cardinality(A)
             y == Cardinality(B)
             z == Cardinality(A \cap B)
             w == Cardinality(LiveKeys(m))
  <2>1. x \in Nat /\ y \in Nat /\ z = 0 /\ w = x + y - z
    BY <1>3, <1>4, <1>5, <1>6, Zenon
  <2> HIDE DEF x, y, z, w
  <2>2. w = x + y
    BY <2>1
  <2> QED
    BY <2>2 DEF w, x, y
<1> QED
  BY <1>4, <1>7 DEF A, B

\* A locked step that merges a batch into what is held keeps the store.
LEMMA AddedKept ==
  ASSUME NEW s, NEW u, NEW tab, NEW steady, NEW recs \in Seq(Recs),
         Uniform(recs), Apart(recs), \A x \in Range(recs) : StoredIn(x, tab),
         deploy \in Deployments, StoreInv(s), TableInv(s, tab, steady), s.built,
         StoreInv(u), u.built, Held(u) = MergedLast(Held(s), recs),
         \/ u.dirty
         \/ ~s.dirty /\ u.bf = MergedLast(s.bf, recs)
         \/ u.bf = MergedLast(Held(s), recs),
         deploy.sidecar => u.file = u.arr \/ u.file = s.file,
         RowsOf(u.pending) \subseteq RowsOf(s.pending) \cup RowsOf(recs),
         \A k \in Keys : k[1] \notin RowsOf(recs) => u.bf[k] = s.bf[k] \/ u.bf[k] = Held(s)[k]
  PROVE  Kept(s, u, tab, steady, RowsOf(recs))
<1> DEFINE T == ArrayOf(tab)
           R == RowsOf(recs)
<1>1. tab \in Tables /\ \A r \in Rows : tab[r] # None => tab[r].ver = TheVersion
  BY DEF TableInv
<1>2. Flat(s.bf) /\ Flat(s.arr) /\ Flat(Held(s)) /\ deploy.sidecar \in BOOLEAN
  BY ShapeGives, HeldFlat
<1>3. ASSUME NEW a, Flat(a)
      PROVE  /\ SameOn(steady, a, T) => SameOn(steady \cup R, MergedLast(a, recs), T)
             /\ Within(a, tab) => Within(MergedLast(a, recs), tab)
             /\ \A k \in Keys : k[1] \notin R => MergedLast(a, recs)[k] = a[k]
  <2>1. /\ \A k \in Keys : k[1] \notin R => MergedLast(a, recs)[k] = a[k]
        /\ \A k \in Keys : k[1] \in R => MergedLast(a, recs)[k] = T[k]
    BY <1>1, <1>3, MergedMatches
  <2> QED
    BY <2>1 DEF SameOn, Within, T
<1> HIDE DEF T, R
<1>4. deploy.sidecar => u.arr = MergedLast(s.arr, recs)
  BY HeldFlat
<1>5. TableInv(u, tab, steady \cup R)
  <2>1. SameOn(steady \cup R, Held(u), T)
    <3>1. SameOn(steady, Held(s), T)
      BY DEF TableInv, T
    <3> QED
      BY <1>2, <1>3, <3>1
  <2>2. ~u.dirty => SameOn(steady \cup R, u.bf, T)
    <3>1. CASE ~s.dirty /\ u.bf = MergedLast(s.bf, recs)
      <4>1. SameOn(steady, s.bf, T)
        BY <3>1 DEF TableInv, T
      <4> QED
        BY <1>2, <1>3, <3>1, <4>1
    <3>2. CASE u.bf = MergedLast(Held(s), recs)
      BY <2>1, <3>2
    <3> QED
      BY <3>1, <3>2
  <2>3. AddsOnly => Within(u.arr, tab) /\ Within(u.file, tab)
    <3> SUFFICES ASSUME AddsOnly PROVE Within(u.arr, tab) /\ Within(u.file, tab)
      OBVIOUS
    <3>1. deploy.sidecar /\ Within(s.arr, tab) /\ Within(s.file, tab)
      BY DEF AddsOnly, TableInv
    <3>2. Within(u.arr, tab)
      BY <1>2, <1>3, <1>4, <3>1
    <3> QED
      BY <3>1, <3>2
  <2> QED
    BY <1>1, <2>1, <2>2, <2>3 DEF TableInv, T
<1>6. ASSUME NEW k \in Keys, k[1] \notin R
      PROVE  /\ u.arr[k] = s.arr[k]
             /\ (s.arr[k] # <<>> => s.bf[k] # <<>>) /\ u.arr[k] # <<>> => u.bf[k] # <<>>
             /\ s.bf[k] = <<>> /\ s.arr[k] = <<>> /\ k[1] \notin RowsOf(s.pending) => u.bf[k] = <<>>
  <2>1. u.bf[k] = s.bf[k] \/ u.bf[k] = Held(s)[k]
    BY <1>6 DEF R
  <2>2. CASE deploy.sidecar
    <3>1. u.arr[k] = s.arr[k] /\ Held(s) = s.arr
      BY <1>2, <1>3, <1>4, <1>6, <2>2, HeldFlat
    <3> QED
      BY <2>1, <3>1
  <2>3. CASE ~deploy.sidecar
    <3>1. u.arr[k] = <<>> /\ s.arr[k] = <<>>
      BY <2>3 DEF StoreInv, StoreFlags, Empty
    <3>2. s.pending \in Seq(Recs) /\ Uniform(s.pending)
      BY ShapeGives
    <3>3. k[1] \notin RowsOf(s.pending) => Held(s)[k] = s.bf[k]
      <4> SUFFICES ASSUME k[1] \notin RowsOf(s.pending) PROVE Held(s)[k] = s.bf[k]
        OBVIOUS
      <4>1. PlacesOf(s.pending, k) = {}
        BY <3>2, KeysOfUniform
      <4>2. MergedLast(s.bf, s.pending)[k] = s.bf[k]
        BY <3>2, <4>1, MergedAt
      <4> QED
        BY <2>3, <4>2 DEF Held
    <3> QED
      BY <2>1, <3>1, <3>3
  <2> QED
    BY <1>2, <2>2, <2>3
<1>7. Serves(s, u, R)
  BY <1>6 DEF Serves, R
<1>8. ASSUME NEW r \in steady \ R, Erased(r, s, tab) PROVE Erased(r, u, tab)
  <2>1. r \notin RowsOf(u.pending)
    BY <1>8 DEF Erased, R
  <2>2. ASSUME NEW k \in Keys, k[1] = r PROVE u.bf[k] = <<>> /\ u.arr[k] = <<>>
    <3>1. s.bf[k] = <<>> /\ s.arr[k] = <<>> /\ k[1] \notin RowsOf(s.pending)
      BY <1>8, <2>2 DEF Erased
    <3>2. k[1] \notin R
      BY <2>2
    <3> QED
      BY <1>6, <3>1, <3>2
  <2> QED
    BY <1>8, <2>1, <2>2 DEF Erased
<1> QED
  BY <1>5, <1>7, <1>8 DEF Kept, R

\* add_payloads in a deferred window, with a sidecar.
LEMMA StagedSidecar ==
  ASSUME NEW s, IsStore(s), NEW recs, deploy.sidecar
  PROVE  LET u == Staged(s, recs)
             a == Appended(Tombstone(s.arr, Replaced(s, recs)), recs) IN
         /\ IsStore(u)
         /\ u.arr = a /\ u.file = a /\ u.stale = FALSE /\ u.dirty = TRUE
         /\ u.live = s.live \cup KeysOf(recs)
         /\ u.count = s.count + Cardinality(KeysOf(recs) \ s.live)
         /\ u.bf = s.bf /\ u.mih = s.mih /\ u.lane = s.lane /\ u.built = s.built
         /\ u.active = s.active /\ u.pending = s.pending
<1> DEFINE u == Staged(s, recs)
           a == Appended(Tombstone(s.arr, Replaced(s, recs)), recs)
           K == KeysOf(recs)
           n == Cardinality(K \ s.live)
           next == [s EXCEPT !.live = @ \cup K, !.count = @ + n, !.dirty = TRUE,
                             !.pending = IF deploy.sidecar THEN @ ELSE @ \o recs]
<1>1. u = Persisted(next, a)
  BY Zenon DEF Staged
<1> HIDE DEF u, a, n, K
<1>2. next = [s EXCEPT !.live = @ \cup K, !.count = @ + n, !.dirty = TRUE,
                       !.pending = s.pending]
  OBVIOUS
<1> HIDE DEF next
<1>3. /\ IsStore(u)
      /\ u.arr = a /\ u.file = a /\ u.stale = FALSE /\ u.dirty = TRUE
      /\ u.live = s.live \cup K /\ u.count = s.count + n
      /\ u.bf = s.bf /\ u.mih = s.mih /\ u.lane = s.lane /\ u.built = s.built
      /\ u.active = s.active /\ u.pending = s.pending
  BY <1>1, <1>2 DEF Persisted, IsStore, Fields
<1> QED
  BY <1>3 DEF u, a, n, K

\* add_payloads in a deferred window, without one: staged, and flushed at the limit
\* (flush_deferred_pending).
LEMMA StagedMemory ==
  ASSUME NEW s, IsStore(s), NEW recs, ~deploy.sidecar
  PROVE  LET u == Staged(s, recs)
             a == MergedLast(s.bf, s.pending \o recs) IN
         /\ IsStore(u)
         /\ u.arr = s.arr /\ u.file = s.file /\ u.stale = s.stale /\ u.dirty = TRUE
         /\ u.lane = s.lane /\ u.built = s.built /\ u.active = s.active
         /\ \/ /\ u.live = s.live \cup KeysOf(recs)
               /\ u.count = s.count + Cardinality(KeysOf(recs) \ s.live)
               /\ u.bf = s.bf /\ u.mih = s.mih /\ u.pending = s.pending \o recs
            \/ /\ u.live = LiveKeys(a) /\ u.count = LiveCount(a)
               /\ u.bf = a /\ u.mih = CodesOf(a) /\ u.pending = <<>>
<1> DEFINE u == Staged(s, recs)
           p == s.pending \o recs
           K == KeysOf(recs)
           n == Cardinality(K \ s.live)
           next == [s EXCEPT !.live = @ \cup K, !.count = @ + n, !.dirty = TRUE,
                             !.pending = IF deploy.sidecar THEN @ ELSE @ \o recs]
<1>1. u = IF Len(next.pending) > Limit THEN PendingFlushed(next) ELSE next
  BY Zenon DEF Staged
<1>2. next = [s EXCEPT !.live = @ \cup K, !.count = @ + n, !.dirty = TRUE, !.pending = p]
  OBVIOUS
<1> HIDE DEF u, p, n, K, next
<1>3. /\ IsStore(next) /\ next.pending = p /\ next.bf = s.bf
      /\ next.arr = s.arr /\ next.file = s.file /\ next.stale = s.stale /\ next.dirty = TRUE
      /\ next.lane = s.lane /\ next.built = s.built /\ next.active = s.active
      /\ next.live = s.live \cup K /\ next.count = s.count + n /\ next.mih = s.mih
  BY <1>2 DEF IsStore, Fields
<1>4. CASE u = next
  BY <1>3, <1>4 DEF u, p, n, K
<1>5. CASE u = PendingFlushed(next)
  <2> DEFINE a == MergedLast(s.bf, p)
             l == LiveKeys(a)
             c == LiveCount(a)
  <2>1. u = [Indexed(next, a) EXCEPT !.pending = <<>>, !.count = c, !.live = l]
    BY <1>3, <1>5, Zenon DEF PendingFlushed
  <2> HIDE DEF a, l, c
  <2>2. /\ IsStore(u)
        /\ u.arr = s.arr /\ u.file = s.file /\ u.stale = s.stale /\ u.dirty = TRUE
        /\ u.lane = s.lane /\ u.built = s.built /\ u.active = s.active
        /\ u.live = l /\ u.count = c /\ u.bf = a /\ u.mih = CodesOf(a) /\ u.pending = <<>>
    BY <1>3, <2>1 DEF Indexed, IsStore, Fields, CodesOf
  <2> QED
    BY <2>2 DEF u, p, a, l, c
<1> QED
  BY <1>1, <1>4, <1>5

\* add_payloads outside a window.
LEMMA MirroredFields ==
  ASSUME NEW s, IsStore(s), NEW recs
  PROVE  LET u   == Mirrored(s, recs)
             old == KeysOf(recs) \cap LiveKeys(s.bf)
             a   == IF deploy.sidecar THEN Appended(Tombstone(s.arr, old), recs)
                                      ELSE Appended(Tombstone(s.bf, KeysOf(recs)), recs) IN
         /\ IsStore(u)
         /\ u.bf = a /\ u.mih = CodesOf(a)
         /\ u.count = s.count + Cardinality(KeysOf(recs) \ old) /\ u.lane = (u.count >= Threshold)
         /\ deploy.sidecar => u.arr = a /\ u.file = a /\ u.stale = FALSE
         /\ ~deploy.sidecar => u.arr = s.arr /\ u.file = s.file /\ u.stale = s.stale
         /\ u.built = s.built /\ u.active = s.active /\ u.dirty = s.dirty /\ u.live = s.live
         /\ u.pending = s.pending
<1> DEFINE u   == Mirrored(s, recs)
           old == KeysOf(recs) \cap LiveKeys(s.bf)
           a   == IF deploy.sidecar THEN Appended(Tombstone(s.arr, old), recs)
                                    ELSE Appended(Tombstone(s.bf, KeysOf(recs)), recs)
           n   == s.count + Cardinality(KeysOf(recs) \ old)
           next == IF deploy.sidecar THEN Persisted(s, a) ELSE s
<1>1. u = Counted(Indexed(next, a), n)
  BY Zenon DEF Mirrored
<1> HIDE DEF u, a, n
<1>2. CASE deploy.sidecar
  <2>1. u = Counted(Indexed(Persisted(s, a), a), n)
    BY <1>1, <1>2
  <2>2. /\ IsStore(u)
        /\ u.bf = a /\ u.mih = CodesOf(a) /\ u.count = n /\ u.lane = (n >= Threshold)
        /\ u.arr = a /\ u.file = a /\ u.stale = FALSE
        /\ u.built = s.built /\ u.active = s.active /\ u.dirty = s.dirty /\ u.live = s.live
        /\ u.pending = s.pending
    BY <2>1 DEF Counted, Indexed, Persisted, IsStore, Fields, CodesOf
  <2> QED
    BY <1>2, <2>2 DEF u, a, n
<1>3. CASE ~deploy.sidecar
  <2>1. u = Counted(Indexed(s, a), n)
    BY <1>1, <1>3
  <2>2. /\ IsStore(u)
        /\ u.bf = a /\ u.mih = CodesOf(a) /\ u.count = n /\ u.lane = (n >= Threshold)
        /\ u.arr = s.arr /\ u.file = s.file /\ u.stale = s.stale
        /\ u.built = s.built /\ u.active = s.active /\ u.dirty = s.dirty /\ u.live = s.live
        /\ u.pending = s.pending
    BY <2>1 DEF Counted, Indexed, IsStore, Fields, CodesOf
  <2> QED
    BY <1>3, <2>2 DEF u, a, n
<1> QED
  BY <1>2, <1>3

\* add_payloads in a window with a sidecar: the array store has the batch, the indexes wait.
LEMMA StagedSidecarKept ==
  ASSUME NEW s, NEW tab, NEW steady, NEW recs \in Seq(Recs),
         Uniform(recs), Apart(recs), \A x \in Range(recs) : StoredIn(x, tab),
         deploy \in Deployments, StoreInv(s), TableInv(s, tab, steady), s.active,
         deploy.sidecar
  PROVE  Kept(s, Staged(s, recs), tab, steady, RowsOf(recs)) /\ Staged(s, recs).active = s.active
<1> DEFINE u == Staged(s, recs)
           m == MergedLast(s.arr, recs)
           K == KeysOf(recs)
           n == Cardinality(K \ s.live)
<1>1. /\ IsStore(s) /\ Flat(s.bf) /\ Flat(s.arr) /\ s.mih = CodesOf(s.bf)
      /\ s.count \in Nat /\ s.live \in SUBSET Keys /\ s.pending \in Seq(Recs)
      /\ Uniform(s.pending) /\ s.lane \in BOOLEAN /\ s.built \in BOOLEAN /\ s.active \in BOOLEAN
  BY ShapeGives
<1>2. s.built /\ s.pending = <<>> /\ LiveKeys(s.arr) \subseteq s.live /\ May("window")
  BY DEF StoreInv, StoreFlags, SidecarInv
<1>3. tab \in Tables /\ \A r \in Rows : tab[r] # None => tab[r].ver = TheVersion
  BY DEF TableInv
<1>4. K \subseteq Keys
  BY KeysOfUniform
<1>5. Appended(Tombstone(s.arr, Replaced(s, recs)), recs) = m
  <2>1. Replaced(s, recs) \subseteq K
    BY DEF Replaced, Repeated, KeysOf, Range
  <2>2. LiveKeys(s.arr) \cap K \subseteq Replaced(s, recs)
    BY <1>2 DEF Replaced
  <2> QED
    BY <1>1, <2>1, <2>2, AppendedIsMerged
<1>6. /\ IsStore(u)
      /\ u.arr = m /\ u.file = m /\ u.stale = FALSE /\ u.dirty = TRUE
      /\ u.live = s.live \cup K /\ u.count = s.count + n
      /\ u.bf = s.bf /\ u.mih = s.mih /\ u.lane = s.lane /\ u.built = s.built
      /\ u.active = s.active /\ u.pending = s.pending
  BY <1>1, <1>5, StagedSidecar
<1>7. Flat(m)
  BY <1>1, MergedFlat
<1>8. LiveKeys(m) = LiveKeys(s.arr) \cup K
  BY <1>1, <1>3, MergedMatches
<1>9. n \in Nat
  <2>1. IsFiniteSet(LiveKeys(m))
    BY <1>7, LiveCountFlat
  <2>2. K \ s.live \in SUBSET LiveKeys(m)
    BY <1>8
  <2>3. IsFiniteSet(K \ s.live)
    BY <2>1, <2>2, FS_Subset, Zenon
  <2> QED
    BY <2>3, FS_CardinalityType, Zenon
<1> HIDE DEF u, m, K, n
<1>10. StoreShape(u)
  <2>1. Flat(u.bf) /\ Flat(u.arr) /\ Flat(u.file) /\ u.mih = CodesOf(u.bf)
    BY <1>1, <1>6, <1>7
  <2>2. u.count \in Nat /\ u.live \in SUBSET Keys
    BY <1>1, <1>4, <1>6, <1>9
  <2>3. /\ u.pending \in Seq(Recs) /\ Uniform(u.pending) /\ u.stale \in BOOLEAN
        /\ u.lane \in BOOLEAN /\ u.built \in BOOLEAN /\ u.active \in BOOLEAN
        /\ u.dirty \in BOOLEAN
    BY <1>1, <1>6, Zenon
  <2> QED
    BY <1>6, <2>1, <2>2, <2>3, ShapeFrom
<1>11. StoreFlags(u)
  BY <1>2, <1>6 DEF StoreFlags
<1>12. SidecarInv(u)
  BY <1>2, <1>6, <1>8 DEF SidecarInv
<1>13. CountInv(u)
  BY <1>6 DEF CountInv
<1>14. StoreInv(u)
  BY <1>10, <1>11, <1>12, <1>13 DEF StoreInv
<1>15. Held(u) = MergedLast(Held(s), recs)
  BY <1>6 DEF Held, m
<1>16. RowsOf(u.pending) \subseteq RowsOf(s.pending) \cup RowsOf(recs)
  BY <1>6
<1>17. Kept(s, u, tab, steady, RowsOf(recs))
  BY <1>2, <1>6, <1>14, <1>15, <1>16, AddedKept
<1> QED
  BY <1>6, <1>17 DEF u

\* add_payloads in a window without a sidecar: the pending records have the batch, or, past
\* their limit, the indexes.
LEMMA StagedMemoryKept ==
  ASSUME NEW s, NEW tab, NEW steady, NEW recs \in Seq(Recs),
         Uniform(recs), Apart(recs), \A x \in Range(recs) : StoredIn(x, tab),
         deploy \in Deployments, StoreInv(s), TableInv(s, tab, steady), s.active,
         ~deploy.sidecar
  PROVE  Kept(s, Staged(s, recs), tab, steady, RowsOf(recs)) /\ Staged(s, recs).active = s.active
<1> DEFINE u == Staged(s, recs)
           p == s.pending \o recs
           a == MergedLast(s.bf, p)
           K == KeysOf(recs)
           n == Cardinality(K \ s.live)
<1>1. /\ IsStore(s) /\ Flat(s.bf) /\ Flat(s.arr) /\ Flat(s.file) /\ s.mih = CodesOf(s.bf)
      /\ s.count \in Nat /\ s.live \in SUBSET Keys /\ s.pending \in Seq(Recs)
      /\ Uniform(s.pending) /\ s.lane \in BOOLEAN /\ s.built \in BOOLEAN /\ s.active \in BOOLEAN
      /\ s.stale \in BOOLEAN
  BY ShapeGives
<1>2. s.built /\ May("window") /\ s.arr = Empty /\ s.file = Empty /\ ~s.stale
  BY DEF StoreInv, StoreFlags
<1>3. K \subseteq Keys
  BY KeysOfUniform
<1>4. /\ IsStore(u)
      /\ u.arr = s.arr /\ u.file = s.file /\ u.stale = s.stale /\ u.dirty = TRUE
      /\ u.lane = s.lane /\ u.built = s.built /\ u.active = s.active
      /\ \/ /\ u.live = s.live \cup K /\ u.count = s.count + n
            /\ u.bf = s.bf /\ u.mih = s.mih /\ u.pending = p
         \/ /\ u.live = LiveKeys(a) /\ u.count = LiveCount(a)
            /\ u.bf = a /\ u.mih = CodesOf(a) /\ u.pending = <<>>
  BY <1>1, StagedMemory
<1>5. /\ p \in Seq(Recs) /\ Uniform(p)
      /\ RowsOf(p) = RowsOf(s.pending) \cup RowsOf(recs)
      /\ a = MergedLast(MergedLast(s.bf, s.pending), recs)
  BY <1>1, MergedInTurn
<1>6. Flat(a)
  BY <1>1, <1>5, MergedFlat
<1>7. n \in Nat
  <2>1. IsFiniteSet(Keys)
    BY VectorAssumption, FS_Product DEF Keys
  <2>2. K \ s.live \in SUBSET Keys
    BY <1>3
  <2>3. IsFiniteSet(K \ s.live)
    BY <2>1, <2>2, FS_Subset, Zenon
  <2> QED
    BY <2>3, FS_CardinalityType, Zenon
<1>8. LiveCount(a) \in Nat /\ LiveKeys(a) \subseteq Keys
  BY <1>6, LiveCountFlat DEF LiveKeys
<1> HIDE DEF u, p, a, K, n
<1>9. StoreShape(u)
  <2>1. Flat(u.bf) /\ Flat(u.arr) /\ Flat(u.file) /\ u.mih = CodesOf(u.bf)
    BY <1>1, <1>4, <1>6
  <2>2. u.count \in Nat /\ u.live \in SUBSET Keys
    BY <1>1, <1>3, <1>4, <1>7, <1>8
  <2>3. u.pending \in Seq(Recs) /\ Uniform(u.pending)
    BY <1>4, <1>5, NoRecords, Zenon
  <2>4. /\ u.stale \in BOOLEAN /\ u.lane \in BOOLEAN /\ u.built \in BOOLEAN
        /\ u.active \in BOOLEAN /\ u.dirty \in BOOLEAN
    BY <1>1, <1>4, Zenon
  <2> QED
    BY <1>4, <2>1, <2>2, <2>3, <2>4, ShapeFrom
<1>10. StoreFlags(u)
  BY <1>2, <1>4 DEF StoreFlags
<1>11. StoreInv(u)
  BY <1>4, <1>9, <1>10 DEF StoreInv, SidecarInv, CountInv
<1>12. Held(u) = MergedLast(Held(s), recs)
  <2>1. Held(s) = MergedLast(s.bf, s.pending)
    BY DEF Held
  <2>2. Held(u) = MergedLast(u.bf, u.pending)
    BY DEF Held
  <2>3. MergedLast(a, <<>>) = a
    BY <1>6, MergedNothing
  <2>4. MergedLast(u.bf, u.pending) = a
    BY <1>4, <2>3 DEF a
  <2> QED
    BY <1>5, <2>1, <2>2, <2>4
<1>13. RowsOf(u.pending) \subseteq RowsOf(s.pending) \cup RowsOf(recs)
  BY <1>4, <1>5, NoRecords
<1>14. ASSUME NEW k \in Keys, k[1] \notin RowsOf(recs)
       PROVE  u.bf[k] = s.bf[k] \/ u.bf[k] = Held(s)[k]
  <2>1. PlacesOf(recs, k) = {}
    BY <1>14, KeysOfUniform
  <2>2. a[k] = MergedLast(s.bf, s.pending)[k]
    BY <1>5, <2>1, MergedAt
  <2> QED
    BY <1>4, <2>2 DEF Held
<1>15. Kept(s, u, tab, steady, RowsOf(recs))
  BY <1>2, <1>4, <1>11, <1>12, <1>13, <1>14, AddedKept
<1> QED
  BY <1>4, <1>15 DEF u

\* add_payloads outside a window brings the batch's rows in line with the table.
LEMMA MirroredKept ==
  ASSUME NEW s, NEW tab, NEW steady, NEW recs \in Seq(Recs),
         Uniform(recs), Apart(recs), \A x \in Range(recs) : StoredIn(x, tab),
         deploy \in Deployments, StoreInv(s), TableInv(s, tab, steady), s.built, ~s.active
  PROVE  /\ Kept(s, Mirrored(s, recs), tab, steady, RowsOf(recs))
         /\ Mirrored(s, recs).active = s.active
<1> DEFINE u == Mirrored(s, recs)
           K == KeysOf(recs)
           old == K \cap LiveKeys(s.bf)
           h == IF deploy.sidecar THEN s.arr ELSE s.bf
           m == MergedLast(h, recs)
           n == Cardinality(K \ old)
<1>1. /\ IsStore(s) /\ Flat(s.bf) /\ Flat(s.arr) /\ Flat(s.file) /\ s.mih = CodesOf(s.bf)
      /\ s.count \in Nat /\ s.live \in SUBSET Keys /\ s.pending \in Seq(Recs)
      /\ Uniform(s.pending) /\ s.built \in BOOLEAN /\ s.active \in BOOLEAN
      /\ s.stale \in BOOLEAN /\ s.dirty \in BOOLEAN
  BY ShapeGives
<1>2. ~s.dirty /\ s.pending = <<>>
  BY DEF StoreInv, StoreFlags
<1>3. deploy.sidecar \in BOOLEAN /\ Held(s) = h
  BY <1>2, HeldFlat
<1>4. tab \in Tables /\ \A r \in Rows : tab[r] # None => tab[r].ver = TheVersion
  BY DEF TableInv
<1>5. Flat(h) /\ Flat(m)
  <2>1. Flat(h)
    BY <1>1
  <2> QED
    BY <2>1, MergedFlat
<1>6. m = IF deploy.sidecar THEN Appended(Tombstone(s.arr, old), recs)
                            ELSE Appended(Tombstone(s.bf, K), recs)
  <2>1. CASE deploy.sidecar
    <3>1. LiveKeys(s.arr) \cap K \subseteq old
      BY <1>2, <2>1 DEF StoreInv, SidecarInv
    <3>2. Appended(Tombstone(s.arr, old), recs) = MergedLast(s.arr, recs)
      BY <1>1, <3>1, AppendedIsMerged
    <3> QED
      BY <2>1, <3>2
  <2>2. CASE ~deploy.sidecar
    <3>1. Appended(Tombstone(s.bf, K), recs) = MergedLast(s.bf, recs)
      BY <1>1, AppendedIsMerged
    <3> QED
      BY <2>2, <3>1
  <2> QED
    BY <1>3, <2>1, <2>2
<1>7. /\ IsStore(u)
      /\ u.bf = m /\ u.mih = CodesOf(m)
      /\ u.count = s.count + n /\ u.lane = (u.count >= Threshold)
      /\ deploy.sidecar => u.arr = m /\ u.file = m /\ u.stale = FALSE
      /\ ~deploy.sidecar => u.arr = s.arr /\ u.file = s.file /\ u.stale = s.stale
      /\ u.built = s.built /\ u.active = s.active /\ u.dirty = s.dirty /\ u.live = s.live
      /\ u.pending = s.pending
  <2> DEFINE a == IF deploy.sidecar THEN Appended(Tombstone(s.arr, old), recs)
                                    ELSE Appended(Tombstone(s.bf, K), recs)
  <2>1. /\ IsStore(u)
        /\ u.bf = a /\ u.mih = CodesOf(a)
        /\ u.count = s.count + n /\ u.lane = (u.count >= Threshold)
        /\ deploy.sidecar => u.arr = a /\ u.file = a /\ u.stale = FALSE
        /\ ~deploy.sidecar => u.arr = s.arr /\ u.file = s.file /\ u.stale = s.stale
        /\ u.built = s.built /\ u.active = s.active /\ u.dirty = s.dirty /\ u.live = s.live
        /\ u.pending = s.pending
    BY <1>1, MirroredFields, Zenon
  <2>2. a = m
    BY <1>6
  <2> HIDE DEF a, u, m, n
  <2> QED
    BY <2>1, <2>2
<1>8. LiveKeys(m) = LiveKeys(h) \cup K
  BY <1>4, <1>5, MergedMatches
<1>9. n \in Nat
  <2>1. LiveKeys(MergedLast(s.bf, recs)) = LiveKeys(s.bf) \cup K
    BY <1>1, <1>4, MergedMatches
  <2>2. Flat(MergedLast(s.bf, recs))
    BY <1>1, MergedFlat
  <2> QED
    BY <1>1, <2>1, <2>2, MergedCount
<1>10. CountInv(u)
  <2> SUFFICES ASSUME ~May("sidecars")
               PROVE  /\ u.count = Cardinality(LiveKeys(m))
                      /\ u.count > 0 => u.lane = (u.count >= Threshold)
    BY <1>7 DEF CountInv
  <2>1. s.count = Cardinality(LiveKeys(s.bf))
    BY <1>2 DEF StoreInv, CountInv
  <2>2. h = s.bf
    BY <1>2, <1>3 DEF StoreInv, SidecarInv
  <2>3. Cardinality(LiveKeys(m)) = Cardinality(LiveKeys(s.bf)) + n
    BY <1>1, <1>5, <1>8, <2>2, MergedCount
  <2> QED
    BY <1>7, <2>1, <2>3
<1> HIDE DEF u, m, h, n, old, K
<1>11. StoreShape(u)
  <2>1. Flat(u.bf) /\ Flat(u.arr) /\ Flat(u.file) /\ u.mih = CodesOf(u.bf)
    BY <1>1, <1>3, <1>5, <1>7
  <2>2. u.count \in Nat
    BY <1>1, <1>7, <1>9
  <2>3. /\ u.pending \in Seq(Recs) /\ Uniform(u.pending) /\ u.live \in SUBSET Keys
        /\ u.built \in BOOLEAN /\ u.active \in BOOLEAN /\ u.dirty \in BOOLEAN
    BY <1>1, <1>7, Zenon
  <2>4. u.stale \in BOOLEAN
    BY <1>1, <1>3, <1>7
  <2>5. u.lane \in BOOLEAN
    <3>1. u.lane = (u.count >= Threshold)
      BY <1>7
    <3> QED
      BY <2>2, <3>1, VectorAssumption
  <2> QED
    BY <1>7, <2>1, <2>2, <2>3, <2>4, <2>5, ShapeFrom
<1>12. StoreFlags(u)
  BY <1>7 DEF StoreInv, StoreFlags
<1>13. SidecarInv(u)
  BY <1>2, <1>7 DEF SidecarInv
<1>14. StoreInv(u)
  BY <1>10, <1>11, <1>12, <1>13 DEF StoreInv
<1>15. Held(u) = m
  <2>1. Held(u) = IF deploy.sidecar THEN u.arr ELSE u.bf
    BY <1>2, <1>7, <1>14, HeldFlat
  <2> QED
    BY <1>3, <1>7, <2>1
<1>16. ASSUME NEW k \in Keys, k[1] \notin RowsOf(recs)
       PROVE  u.bf[k] = Held(s)[k]
  <2>1. PlacesOf(recs, k) = {}
    BY <1>16, KeysOfUniform
  <2>2. m[k] = h[k]
    BY <2>1, MergedAt DEF m
  <2> QED
    BY <1>3, <1>7, <2>2
<1>17. /\ Held(u) = MergedLast(Held(s), recs) /\ u.bf = MergedLast(Held(s), recs)
       /\ RowsOf(u.pending) \subseteq RowsOf(s.pending) \cup RowsOf(recs)
       /\ deploy.sidecar => u.file = u.arr
  BY <1>3, <1>7, <1>15 DEF m
<1>18. Kept(s, u, tab, steady, RowsOf(recs))
  BY <1>7, <1>14, <1>16, <1>17, AddedKept
<1> QED
  BY <1>7, <1>18 DEF u

\* Setting one key is merging a batch of one.
LEMMA SingleMerge ==
  ASSUME NEW a, Flat(a), NEW recs \in Seq(Recs), Uniform(recs), Apart(recs), Len(recs) = 1
  PROVE  LET k == KeyOf(recs[1]) IN
         /\ k \in Keys /\ KeysOf(recs) = {k}
         /\ [a EXCEPT ![k] = <<recs[1].val>>] = MergedLast(a, recs)
         /\ [CodesOf(a) EXCEPT ![k] = recs[1].val] = CodesOf(MergedLast(a, recs))
<1> DEFINE k == KeyOf(recs[1])
           v == recs[1].val
           m == MergedLast(a, recs)
<1>1. DOMAIN recs = {1}
  OBVIOUS
<1>2. k \in Keys /\ m[k] = <<v>>
  BY <1>1, MergedRecord
<1>3. Range(recs) = {recs[1]}
  BY <1>1 DEF Range
<1>4. KeysOf(recs) = {k}
  BY <1>3 DEF KeysOf
<1>5. ASSUME NEW j \in Keys, j # k PROVE m[j] = a[j]
  <2>1. PlacesOf(recs, j) = {}
    BY <1>4, <1>5, KeysOfUniform
  <2> QED
    BY <2>1, MergedAt
<1>6. m = [j \in Keys |-> m[j]] /\ a = [j \in Keys |-> a[j]]
  BY DEF MergedLast, Flat
<1>7. CodesOf(m) = [j \in Keys |-> CodesOf(m)[j]] /\ CodesOf(a) = [j \in Keys |-> CodesOf(a)[j]]
  BY DEF CodesOf
<1>8. CodesOf(m)[k] = v
  <2>1. CodesOf(m)[k] = IF m[k] = <<>> THEN None ELSE Last(m[k])
    BY <1>2 DEF CodesOf
  <2>2. <<v>> # <<>> /\ Last(<<v>>) = v
    BY DEF Last
  <2> QED
    BY <1>2, <2>1, <2>2
<1>9. ASSUME NEW j \in Keys, j # k PROVE CodesOf(m)[j] = CodesOf(a)[j]
  BY <1>5, <1>9 DEF CodesOf
<1> HIDE DEF m, k, v
<1>10. [a EXCEPT ![k] = <<v>>] = m
  BY <1>2, <1>5, <1>6
<1>11. [CodesOf(a) EXCEPT ![k] = v] = CodesOf(m)
  BY <1>2, <1>7, <1>8, <1>9
<1> QED
  BY <1>2, <1>4, <1>10, <1>11 DEF m, k, v

\* add_payload.
LEMMA SingleFields ==
  ASSUME NEW s, IsStore(s), NEW r
  PROVE  LET u == AddPayload(s, r)
             k == KeyOf(r) IN
         /\ IsStore(u)
         /\ u.bf = [s.bf EXCEPT ![k] = <<r.val>>] /\ u.mih = [s.mih EXCEPT ![k] = r.val]
         /\ u.count = (IF s.bf[k] = <<>> THEN s.count + 1 ELSE s.count)
         /\ u.lane = (u.count >= Threshold)
         /\ deploy.sidecar => u.arr = [s.arr EXCEPT ![k] = <<r.val>>] /\ u.stale = TRUE
         /\ ~deploy.sidecar => u.arr = s.arr /\ u.stale = s.stale
         /\ u.file = s.file /\ u.built = s.built /\ u.active = s.active /\ u.dirty = s.dirty
         /\ u.live = s.live /\ u.pending = s.pending
<1> DEFINE u == AddPayload(s, r)
           k == KeyOf(r)
           v == r.val
           n == IF s.bf[k] = <<>> THEN s.count + 1 ELSE s.count
           b == [s.bf EXCEPT ![k] = <<v>>]
           c == [s.mih EXCEPT ![k] = v]
           a == [s.arr EXCEPT ![k] = <<v>>]
<1>1. u = Counted([(IF deploy.sidecar
                      THEN [s EXCEPT !.arr = [@ EXCEPT ![k] = <<v>>], !.stale = TRUE] ELSE s)
                     EXCEPT !.bf = [@ EXCEPT ![k] = <<v>>], !.mih = [@ EXCEPT ![k] = v]], n)
  BY Zenon DEF AddPayload
<1> HIDE DEF u, n, k, v
<1>2. CASE deploy.sidecar
  <2> DEFINE w == [s EXCEPT !.arr = [@ EXCEPT ![k] = <<v>>], !.stale = TRUE]
  <2>1. u = Counted([w EXCEPT !.bf = [@ EXCEPT ![k] = <<v>>], !.mih = [@ EXCEPT ![k] = v]], n)
    BY <1>1, <1>2
  <2>2. /\ IsStore(w) /\ w.arr = a /\ w.stale = TRUE /\ w.bf = s.bf /\ w.mih = s.mih
        /\ w.file = s.file /\ w.built = s.built /\ w.active = s.active /\ w.dirty = s.dirty
        /\ w.live = s.live /\ w.pending = s.pending
    BY DEF IsStore, Fields
  <2> HIDE DEF w
  <2>3. u = Counted([w EXCEPT !.bf = b, !.mih = c], n)
    BY <2>1, <2>2
  <2> HIDE DEF a, b, c
  <2>4. /\ IsStore(u)
        /\ u.bf = b /\ u.mih = c /\ u.count = n /\ u.lane = (n >= Threshold)
        /\ u.arr = a /\ u.stale = TRUE /\ u.file = s.file /\ u.built = s.built
        /\ u.active = s.active /\ u.dirty = s.dirty /\ u.live = s.live /\ u.pending = s.pending
    BY <2>2, <2>3 DEF Counted, IsStore, Fields
  <2> QED
    BY <1>2, <2>4 DEF u, n, a, b, c, k, v
<1>3. CASE ~deploy.sidecar
  <2>1. u = Counted([s EXCEPT !.bf = [@ EXCEPT ![k] = <<v>>], !.mih = [@ EXCEPT ![k] = v]], n)
    BY <1>1, <1>3
  <2>3. u = Counted([s EXCEPT !.bf = b, !.mih = c], n)
    BY <2>1
  <2> HIDE DEF a, b, c
  <2>4. /\ IsStore(u)
        /\ u.bf = b /\ u.mih = c /\ u.count = n /\ u.lane = (n >= Threshold)
        /\ u.arr = s.arr /\ u.stale = s.stale /\ u.file = s.file /\ u.built = s.built
        /\ u.active = s.active /\ u.dirty = s.dirty /\ u.live = s.live /\ u.pending = s.pending
    BY <2>3 DEF Counted, IsStore, Fields
  <2> QED
    BY <1>3, <2>4 DEF u, n, b, c, k, v
<1> QED
  BY <1>2, <1>3

\* add_payload outside a window brings its row in line with the table.
LEMMA SingleKept ==
  ASSUME NEW s, NEW tab, NEW steady, NEW recs \in Seq(Recs), Len(recs) = 1,
         Uniform(recs), Apart(recs), \A x \in Range(recs) : StoredIn(x, tab),
         deploy \in Deployments, StoreInv(s), TableInv(s, tab, steady), s.built, ~s.active
  PROVE  /\ Kept(s, AddPayload(s, recs[1]), tab, steady, RowsOf(recs))
         /\ AddPayload(s, recs[1]).active = s.active
<1> DEFINE u == AddPayload(s, recs[1])
           k == KeyOf(recs[1])
           m == MergedLast(s.bf, recs)
           w == MergedLast(s.arr, recs)
           n == IF s.bf[k] = <<>> THEN s.count + 1 ELSE s.count
<1>1. /\ IsStore(s) /\ Flat(s.bf) /\ Flat(s.arr) /\ Flat(s.file) /\ s.mih = CodesOf(s.bf)
      /\ s.count \in Nat /\ s.live \in SUBSET Keys /\ s.pending \in Seq(Recs)
      /\ Uniform(s.pending) /\ s.built \in BOOLEAN /\ s.active \in BOOLEAN
      /\ s.stale \in BOOLEAN /\ s.dirty \in BOOLEAN
  BY ShapeGives
<1>2. ~s.dirty /\ s.pending = <<>>
  BY DEF StoreInv, StoreFlags
<1>3. /\ deploy.sidecar \in BOOLEAN
      /\ Held(s) = IF deploy.sidecar THEN s.arr ELSE s.bf
  BY <1>2, HeldFlat
<1>4. tab \in Tables /\ \A r \in Rows : tab[r] # None => tab[r].ver = TheVersion
  BY DEF TableInv
<1>5. /\ k \in Keys /\ KeysOf(recs) = {k}
      /\ [s.bf EXCEPT ![k] = <<recs[1].val>>] = m
      /\ [CodesOf(s.bf) EXCEPT ![k] = recs[1].val] = CodesOf(m)
  BY <1>1, SingleMerge
<1>6. [s.arr EXCEPT ![k] = <<recs[1].val>>] = w
  BY <1>1, SingleMerge
<1>7. /\ IsStore(u)
      /\ u.bf = m /\ u.mih = CodesOf(m) /\ u.count = n /\ u.lane = (u.count >= Threshold)
      /\ deploy.sidecar => u.arr = w /\ u.stale = TRUE
      /\ ~deploy.sidecar => u.arr = s.arr /\ u.stale = s.stale
      /\ u.file = s.file /\ u.built = s.built /\ u.active = s.active /\ u.dirty = s.dirty
      /\ u.live = s.live /\ u.pending = s.pending
  <2>1. /\ IsStore(u)
        /\ u.bf = [s.bf EXCEPT ![k] = <<recs[1].val>>]
        /\ u.mih = [s.mih EXCEPT ![k] = recs[1].val]
        /\ u.count = n /\ u.lane = (u.count >= Threshold)
        /\ deploy.sidecar => u.arr = [s.arr EXCEPT ![k] = <<recs[1].val>>] /\ u.stale = TRUE
        /\ ~deploy.sidecar => u.arr = s.arr /\ u.stale = s.stale
        /\ u.file = s.file /\ u.built = s.built /\ u.active = s.active /\ u.dirty = s.dirty
        /\ u.live = s.live /\ u.pending = s.pending
    BY <1>1, SingleFields, Zenon
  <2>2. [s.mih EXCEPT ![k] = recs[1].val] = CodesOf(m)
    BY <1>1, <1>5, Zenon
  <2> QED
    BY <2>1, <2>2, <1>5, <1>6, Zenon
<1>8. Flat(m) /\ Flat(w)
  BY <1>1, MergedFlat
<1>9. LiveKeys(m) = LiveKeys(s.bf) \cup {k} /\ LiveKeys(w) = LiveKeys(s.arr) \cup {k}
  BY <1>1, <1>4, <1>5, MergedMatches
<1>10. CountInv(u)
  <2> SUFFICES ASSUME ~May("sidecars")
               PROVE  /\ u.count = Cardinality(LiveKeys(m))
                      /\ u.count > 0 => u.lane = (u.count >= Threshold)
    BY <1>7 DEF CountInv
  <2>1. s.count = Cardinality(LiveKeys(s.bf))
    BY <1>2 DEF StoreInv, CountInv
  <2>2. IsFiniteSet(LiveKeys(s.bf))
    BY <1>1, LiveCountFlat
  <2>3. Cardinality(LiveKeys(s.bf) \cup {k}) =
          IF k \in LiveKeys(s.bf) THEN Cardinality(LiveKeys(s.bf))
          ELSE Cardinality(LiveKeys(s.bf)) + 1
    BY <2>2, FS_AddElement, Zenon
  <2>4. k \in LiveKeys(s.bf) <=> s.bf[k] # <<>>
    BY <1>5 DEF LiveKeys
  <2>5. Cardinality(LiveKeys(m)) = n
    BY <1>9, <2>1, <2>3, <2>4, Zenon
  <2> QED
    BY <1>7, <2>5
<1> HIDE DEF u, m, w, k
<1>11. StoreShape(u)
  <2>1. Flat(u.bf) /\ Flat(u.arr) /\ Flat(u.file) /\ u.mih = CodesOf(u.bf)
    BY <1>1, <1>3, <1>7, <1>8
  <2>2. u.count \in Nat
    BY <1>1, <1>7
  <2>3. /\ u.pending \in Seq(Recs) /\ Uniform(u.pending) /\ u.live \in SUBSET Keys
        /\ u.built \in BOOLEAN /\ u.active \in BOOLEAN /\ u.dirty \in BOOLEAN
    BY <1>1, <1>7, Zenon
  <2>4. u.stale \in BOOLEAN
    BY <1>1, <1>3, <1>7
  <2>5. u.lane \in BOOLEAN
    <3>1. u.lane = (u.count >= Threshold)
      BY <1>7
    <3> QED
      BY <2>2, <3>1, VectorAssumption
  <2> QED
    BY <1>7, <2>1, <2>2, <2>3, <2>4, <2>5, ShapeFrom
<1>12. StoreFlags(u)
  BY <1>7 DEF StoreInv, StoreFlags
<1>13. SidecarInv(u)
  <2> SUFFICES ASSUME deploy.sidecar PROVE SidecarInv(u)
    BY DEF SidecarInv
  <2>1. LiveKeys(w) \subseteq LiveKeys(m)
    BY <1>2, <1>9 DEF StoreInv, SidecarInv
  <2>2. ~May("sidecars") => w = m
    BY <1>2 DEF StoreInv, SidecarInv, w, m
  <2> QED
    BY <1>2, <1>7, <2>1, <2>2 DEF SidecarInv
<1>14. StoreInv(u)
  BY <1>10, <1>11, <1>12, <1>13 DEF StoreInv
<1>15. Held(u) = MergedLast(Held(s), recs)
  <2>1. Held(u) = IF deploy.sidecar THEN u.arr ELSE u.bf
    BY <1>2, <1>7, <1>14, HeldFlat
  <2> QED
    BY <1>3, <1>7, <2>1 DEF w, m
<1>16. ASSUME NEW j \in Keys, j[1] \notin RowsOf(recs)
       PROVE  u.bf[j] = s.bf[j]
  <2>1. PlacesOf(recs, j) = {}
    BY <1>16, KeysOfUniform
  <2>2. m[j] = s.bf[j]
    BY <2>1, MergedAt DEF m
  <2> QED
    BY <1>7, <2>2
<1>17. /\ ~s.dirty /\ u.bf = MergedLast(s.bf, recs) /\ u.file = s.file
       /\ RowsOf(u.pending) \subseteq RowsOf(s.pending) \cup RowsOf(recs)
  BY <1>2, <1>7 DEF m
<1>18. Kept(s, u, tab, steady, RowsOf(recs))
  BY <1>7, <1>14, <1>15, <1>16, <1>17, AddedKept
<1> QED
  BY <1>7, <1>18 DEF u

\* add_payloads, in a window or not.
LEMMA AddPayloadsKept ==
  ASSUME NEW s, NEW tab, NEW steady, NEW recs \in Seq(Recs),
         Uniform(recs), Apart(recs), \A x \in Range(recs) : StoredIn(x, tab),
         deploy \in Deployments, StoreInv(s), TableInv(s, tab, steady), s.built
  PROVE  /\ Kept(s, AddPayloads(s, recs), tab, steady, RowsOf(recs))
         /\ AddPayloads(s, recs).active = s.active
<1>1. deploy.sidecar \in BOOLEAN /\ s.active \in BOOLEAN
  BY HeldFlat, ShapeGives
<1>2. CASE s.active /\ deploy.sidecar
  BY <1>2, StagedSidecarKept DEF AddPayloads
<1>3. CASE s.active /\ ~deploy.sidecar
  BY <1>3, StagedMemoryKept DEF AddPayloads
<1>4. CASE ~s.active
  BY <1>4, MirroredKept DEF AddPayloads
<1> QED
  BY <1>1, <1>2, <1>3, <1>4

\* An array without the slots of some rows.
Off(a, rows) == [k \in Keys |-> IF k[1] \in rows THEN <<>> ELSE a[k]]

\* What is left when some rows are taken out of an array.
LEMMA OffArray ==
  ASSUME NEW a, Flat(a), NEW rows
  PROVE  /\ Flat(Off(a, rows))
         /\ \A k \in Keys : k[1] \in rows => Off(a, rows)[k] = <<>>
         /\ \A k \in Keys : k[1] \notin rows => Off(a, rows)[k] = a[k]
         /\ LiveKeys(Off(a, rows)) = {k \in LiveKeys(a) : k[1] \notin rows}
<1> DEFINE o == Off(a, rows)
<1>1. o = [k \in Keys |-> o[k]]
  BY DEF Off
<1>2. /\ \A k \in Keys : k[1] \in rows => o[k] = <<>>
      /\ \A k \in Keys : k[1] \notin rows => o[k] = a[k]
  BY DEF Off
<1> HIDE DEF o
<1>3. Flat(o)
  BY <1>1, <1>2 DEF Flat
<1>4. LiveKeys(o) = {k \in LiveKeys(a) : k[1] \notin rows}
  BY <1>2 DEF LiveKeys
<1> QED
  BY <1>2, <1>3, <1>4 DEF o

\* The store u is s without the keys ks, which the caller counted as n slots.
Deleted(s, u, ks, n) ==
  /\ IsStore(u)
  /\ u.bf = Tombstone(s.bf, ks)
  /\ u.mih = [k \in Keys |-> IF k \in ks THEN None ELSE s.mih[k]]
  /\ u.count = (IF s.count >= n THEN s.count - n ELSE 0)
  /\ u.lane = (u.count >= Threshold)
  /\ deploy.sidecar /\ ks # {} =>
       u.arr = Tombstone(s.arr, ks) /\ u.file = Tombstone(s.arr, ks) /\ u.stale = FALSE
  /\ ~(deploy.sidecar /\ ks # {}) => u.arr = s.arr /\ u.file = s.file /\ u.stale = s.stale
  /\ u.built = s.built /\ u.active = s.active /\ u.dirty = s.dirty
  /\ u.live = s.live /\ u.pending = s.pending

\* The store u is s without the keys dead in its array, and without the keys cut in its indexes.
Struck(s, u, dead, cut) ==
  /\ IsStore(u)
  /\ u.bf = Tombstone(s.bf, cut)
  /\ u.mih = [k \in Keys |-> IF k \in cut THEN None ELSE s.mih[k]]
  /\ deploy.sidecar /\ dead # {} =>
       u.arr = Tombstone(s.arr, dead) /\ u.file = Tombstone(s.arr, dead) /\ u.stale = FALSE
  /\ ~(deploy.sidecar /\ dead # {}) => u.arr = s.arr /\ u.file = s.file /\ u.stale = s.stale
  /\ u.count = s.count /\ u.lane = s.lane
  /\ u.built = s.built /\ u.active = s.active /\ u.dirty = s.dirty
  /\ u.live = s.live /\ u.pending = s.pending

\* The tombstones of a delete.
LEMMA UnslottedFields ==
  ASSUME NEW s, IsStore(s), NEW dead, NEW cut
  PROVE  Struck(s, Unslotted(s, dead, cut), dead, cut)
<1> DEFINE u == Unslotted(s, dead, cut)
           b == Tombstone(s.bf, cut)
           a == Tombstone(s.arr, dead)
           c == [k \in Keys |-> IF k \in cut THEN None ELSE s.mih[k]]
           w == IF deploy.sidecar /\ dead # {} THEN Persisted(s, a) ELSE s
<1>1. u = [w EXCEPT !.bf = Tombstone(@, cut),
                    !.mih = [k \in Keys |-> IF k \in cut THEN None ELSE @[k]]]
  BY Zenon DEF Unslotted
<1> HIDE DEF u, a
<1>2. /\ IsStore(w) /\ w.bf = s.bf /\ w.mih = s.mih
      /\ deploy.sidecar /\ dead # {} => w.arr = a /\ w.file = a /\ w.stale = FALSE
      /\ ~(deploy.sidecar /\ dead # {}) => w.arr = s.arr /\ w.file = s.file /\ w.stale = s.stale
      /\ w.count = s.count /\ w.lane = s.lane
      /\ w.built = s.built /\ w.active = s.active /\ w.dirty = s.dirty
      /\ w.live = s.live /\ w.pending = s.pending
  BY DEF Persisted, IsStore, Fields
<1> HIDE DEF w
<1>3. u = [w EXCEPT !.bf = b, !.mih = c]
  BY <1>1, <1>2
<1> HIDE DEF b, c
<1>4. /\ IsStore(u)
      /\ u.bf = b /\ u.mih = c /\ u.count = w.count /\ u.lane = w.lane
      /\ u.arr = w.arr /\ u.file = w.file /\ u.stale = w.stale
      /\ u.built = w.built /\ u.active = w.active /\ u.dirty = w.dirty
      /\ u.live = w.live /\ u.pending = w.pending
  BY <1>2, <1>3 DEF IsStore, Fields
<1> QED
  BY <1>2, <1>4 DEF Struck, u, a, b, c

\* delete_all_vectors and delete_and_tombstone under the mutex.
LEMMA RemovedFields ==
  ASSUME NEW s, IsStore(s), NEW ks, NEW n
  PROVE  Deleted(s, Removed(s, ks, n), ks, n)
<1> DEFINE u == Removed(s, ks, n)
           m == IF s.count >= n THEN s.count - n ELSE 0
           b == Tombstone(s.bf, ks)
           a == Tombstone(s.arr, ks)
           c == [k \in Keys |-> IF k \in ks THEN None ELSE s.mih[k]]
           w == Unslotted(s, ks, ks)
<1>1. u = Counted(w, m)
  BY Zenon DEF Removed
<1> HIDE DEF u, m
<1>2. Struck(s, w, ks, ks)
  BY UnslottedFields
<1> HIDE DEF w
<1>3. /\ IsStore(w) /\ w.bf = b /\ w.mih = c
      /\ deploy.sidecar /\ ks # {} => w.arr = a /\ w.file = a /\ w.stale = FALSE
      /\ ~(deploy.sidecar /\ ks # {}) => w.arr = s.arr /\ w.file = s.file /\ w.stale = s.stale
      /\ w.built = s.built /\ w.active = s.active /\ w.dirty = s.dirty
      /\ w.live = s.live /\ w.pending = s.pending
  BY <1>2 DEF Struck
<1> HIDE DEF b, c, a
<1>4. /\ IsStore(u)
      /\ u.bf = b /\ u.mih = c /\ u.count = m /\ u.lane = (m >= Threshold)
      /\ u.arr = w.arr /\ u.file = w.file /\ u.stale = w.stale
      /\ u.built = w.built /\ u.active = w.active /\ u.dirty = w.dirty
      /\ u.live = w.live /\ u.pending = w.pending
  BY <1>1, <1>3 DEF Counted, IsStore, Fields
<1>5. Deleted(s, u, ks, n)
  BY <1>3, <1>4 DEF Deleted, m, a, b, c
<1> QED
  BY <1>5 DEF u

\* The live keys of some rows, which the scan of a delete finds.
Found(s, rows) == {k \in LiveKeys(s.bf) : k[1] \in rows}

\* Rows that are out of the table, with no deferred record and no slot the scan would miss.
Removable(s, tab, rows) ==
  /\ \A r \in rows : tab[r] = None
  /\ rows \cap RowsOf(s.pending) = {}
  /\ \A k \in Keys : k[1] \in rows /\ s.arr[k] # <<>> => s.bf[k] # <<>>

\* A delete takes its rows out of every copy of the array.
LEMMA RemovedKept ==
  ASSUME NEW s, NEW tab, NEW steady, NEW rows, deploy \in Deployments,
         StoreInv(s), TableInv(s, tab, steady), s.built, ~AddsOnly, Removable(s, tab, rows)
  PROVE  LET u == Removed(s, Found(s, rows), Cardinality(Found(s, rows))) IN
         /\ Kept(s, u, tab, steady, rows) /\ u.active = s.active
         /\ \A r \in rows : Erased(r, u, tab)
<1> DEFINE ks == Found(s, rows)
           n == Cardinality(ks)
<1>0. /\ ks = {k \in LiveKeys(s.bf) : k[1] \in rows} /\ n = Cardinality(ks)
      /\ \A r \in rows : tab[r] = None
      /\ rows \cap RowsOf(s.pending) = {}
      /\ \A k \in Keys : k[1] \in rows /\ s.arr[k] # <<>> => s.bf[k] # <<>>
  BY DEF Found, Removable
<1> USE <1>0
<1> HIDE DEF ks, n
<1> DEFINE u == Removed(s, ks, n)
           b == Off(s.bf, rows)
           a == Off(s.arr, rows)
           T == ArrayOf(tab)
<1>1. /\ IsStore(s) /\ Flat(s.bf) /\ Flat(s.arr) /\ Flat(s.file) /\ s.mih = CodesOf(s.bf)
      /\ s.count \in Nat /\ s.live \in SUBSET Keys /\ s.pending \in Seq(Recs)
      /\ Uniform(s.pending) /\ s.built \in BOOLEAN /\ s.active \in BOOLEAN
      /\ s.stale \in BOOLEAN /\ s.dirty \in BOOLEAN
  BY ShapeGives
<1>2. deploy.sidecar \in BOOLEAN
  BY HeldFlat
<1>3. /\ Flat(b) /\ \A k \in Keys : k[1] \in rows => b[k] = <<>>
      /\ \A k \in Keys : k[1] \notin rows => b[k] = s.bf[k]
      /\ LiveKeys(b) = {k \in LiveKeys(s.bf) : k[1] \notin rows}
  BY <1>1, OffArray
<1>4. /\ Flat(a) /\ \A k \in Keys : k[1] \in rows => a[k] = <<>>
      /\ \A k \in Keys : k[1] \notin rows => a[k] = s.arr[k]
      /\ LiveKeys(a) = {k \in LiveKeys(s.arr) : k[1] \notin rows}
  BY <1>1, OffArray
<1> HIDE DEF a, b
<1>5. Tombstone(s.bf, ks) = b
  <2>1. \A k \in Keys : b[k] = IF k \in ks THEN <<>> ELSE s.bf[k]
    BY <1>3 DEF LiveKeys
  <2>2. b = [k \in Keys |-> b[k]]
    BY <1>3 DEF Flat
  <2> QED
    BY <2>1, <2>2 DEF Tombstone
<1>6. Tombstone(s.arr, ks) = a
  <2>1. \A k \in Keys : a[k] = IF k \in ks THEN <<>> ELSE s.arr[k]
    BY <1>4 DEF LiveKeys
  <2>2. a = [k \in Keys |-> a[k]]
    BY <1>4 DEF Flat
  <2> QED
    BY <2>1, <2>2 DEF Tombstone
<1>7. ks = {} => a = s.arr /\ b = s.bf
  <2>1. ks = {} => \A k \in Keys : a[k] = s.arr[k] /\ b[k] = s.bf[k]
    BY <1>3, <1>4 DEF LiveKeys
  <2>2. /\ a = [k \in Keys |-> a[k]] /\ s.arr = [k \in Keys |-> s.arr[k]]
        /\ b = [k \in Keys |-> b[k]] /\ s.bf = [k \in Keys |-> s.bf[k]]
    BY <1>1, <1>3, <1>4 DEF Flat
  <2> QED
    BY <2>1, <2>2
<1>8. ~deploy.sidecar => a = s.arr
  <2>1. ~deploy.sidecar => s.arr = Empty
    BY DEF StoreInv, StoreFlags
  <2>2. \A k \in Keys : Empty[k] = <<>>
    BY DEF Empty
  <2>3. a = [k \in Keys |-> a[k]] /\ s.arr = [k \in Keys |-> s.arr[k]]
    BY <1>1, <1>4 DEF Flat
  <2>4. ~deploy.sidecar => \A k \in Keys : a[k] = s.arr[k]
    BY <1>4, <2>1, <2>2
  <2> QED
    BY <2>3, <2>4
<1>9. [k \in Keys |-> IF k \in ks THEN None ELSE s.mih[k]] = CodesOf(b)
  BY <1>1, <1>3 DEF CodesOf, LiveKeys
<1>10. /\ IsStore(u)
       /\ u.bf = b /\ u.mih = CodesOf(b)
       /\ u.count = (IF s.count >= n THEN s.count - n ELSE 0) /\ u.lane = (u.count >= Threshold)
       /\ u.arr = a
       /\ \/ u.file = a /\ u.stale = FALSE
          \/ u.file = s.file /\ u.stale = s.stale /\ a = s.arr
       /\ ~deploy.sidecar => u.file = s.file /\ u.stale = s.stale
       /\ u.built = s.built /\ u.active = s.active /\ u.dirty = s.dirty
       /\ u.live = s.live /\ u.pending = s.pending
  <2>1. Deleted(s, u, ks, n)
    BY <1>1, RemovedFields
  <2> HIDE DEF u
  <2>2. /\ u.arr = a
        /\ \/ u.file = a /\ u.stale = FALSE
           \/ u.file = s.file /\ u.stale = s.stale /\ a = s.arr
    BY <1>2, <1>6, <1>7, <1>8, <2>1, Zenon DEF Deleted
  <2> QED
    BY <1>5, <1>9, <2>1, <2>2, Zenon DEF Deleted
<1> HIDE DEF u
<1>11. n \in Nat /\ Cardinality(LiveKeys(s.bf)) \in Nat /\ n <= Cardinality(LiveKeys(s.bf))
       /\ Cardinality(LiveKeys(b)) = Cardinality(LiveKeys(s.bf)) - n
  <2>1. IsFiniteSet(LiveKeys(s.bf))
    BY <1>1, LiveCountFlat
  <2>2. ks \in SUBSET LiveKeys(s.bf)
    OBVIOUS
  <2>3. IsFiniteSet(ks) /\ Cardinality(ks) <= Cardinality(LiveKeys(s.bf))
    BY <2>1, <2>2, FS_Subset, Zenon
  <2>4. LiveKeys(b) = LiveKeys(s.bf) \ ks /\ LiveKeys(s.bf) \cap ks = ks
    BY <1>3
  <2>5. Cardinality(LiveKeys(s.bf) \ ks)
          = Cardinality(LiveKeys(s.bf)) - Cardinality(LiveKeys(s.bf) \cap ks)
    BY <2>1, FS_Difference, Zenon
  <2>6. Cardinality(ks) \in Nat /\ Cardinality(LiveKeys(s.bf)) \in Nat
    BY <2>1, <2>3, FS_CardinalityType, Zenon
  <2> QED
    BY <2>3, <2>4, <2>5, <2>6
<1>12. StoreShape(u)
  <2>1. Flat(u.bf) /\ Flat(u.arr) /\ Flat(u.file) /\ u.mih = CodesOf(u.bf)
    BY <1>1, <1>3, <1>4, <1>10
  <2>2. u.count \in Nat
    BY <1>1, <1>10, <1>11
  <2>3. /\ u.pending \in Seq(Recs) /\ Uniform(u.pending) /\ u.live \in SUBSET Keys
        /\ u.built \in BOOLEAN /\ u.active \in BOOLEAN /\ u.dirty \in BOOLEAN
    BY <1>1, <1>10, Zenon
  <2>4. u.stale \in BOOLEAN
    BY <1>1, <1>10
  <2>5. u.lane \in BOOLEAN
    <3>1. u.lane = (u.count >= Threshold)
      BY <1>10
    <3> QED
      BY <2>2, <3>1, VectorAssumption
  <2> QED
    BY <1>10, <2>1, <2>2, <2>3, <2>4, <2>5, ShapeFrom
<1>13. StoreFlags(u)
  <2>1. ~deploy.sidecar => u.arr = s.arr
    BY <1>8, <1>10
  <2> QED
    BY <1>10, <2>1 DEF StoreInv, StoreFlags
<1>14. SidecarInv(u)
  <2> SUFFICES ASSUME deploy.sidecar PROVE SidecarInv(u)
    BY DEF SidecarInv
  <2>1. u.built /\ ~u.dirty => LiveKeys(u.arr) \subseteq LiveKeys(u.bf)
    BY <1>3, <1>4, <1>10 DEF StoreInv, SidecarInv
  <2>2. u.built /\ ~u.dirty /\ ~May("sidecars") => u.arr = u.bf
    <3>1. s.arr = s.bf => a = b
      BY DEF a, b
    <3> QED
      BY <1>10, <3>1 DEF StoreInv, SidecarInv
  <2>3. u.active => LiveKeys(u.arr) \subseteq u.live
    BY <1>4, <1>10 DEF StoreInv, SidecarInv
  <2>4. u.pending = <<>> /\ (~u.stale => u.file = u.arr)
    BY <1>10 DEF StoreInv, SidecarInv
  <2> QED
    BY <2>1, <2>2, <2>3, <2>4 DEF SidecarInv
<1>15. CountInv(u)
  <2> SUFFICES ASSUME ~u.dirty, ~May("sidecars")
               PROVE  /\ u.count = Cardinality(LiveKeys(u.bf))
                      /\ u.count > 0 => u.lane = (u.count >= Threshold)
    BY DEF CountInv
  <2>1. s.count = Cardinality(LiveKeys(s.bf))
    BY <1>10 DEF StoreInv, CountInv
  <2> QED
    BY <1>10, <1>11, <2>1
<1>16. StoreInv(u)
  BY <1>12, <1>13, <1>14, <1>15 DEF StoreInv
<1>17. tab \in Tables /\ \A r \in Rows : tab[r] # None => tab[r].ver = TheVersion
  BY DEF TableInv
<1>18. \A k \in Keys : k[1] \in rows => T[k] = <<>>
  BY <1>17, TableFlat
<1>19. ASSUME NEW k \in Keys
       PROVE  /\ k[1] \in rows => Held(u)[k] = <<>>
              /\ k[1] \notin rows => Held(u)[k] = Held(s)[k]
  <2>1. CASE deploy.sidecar
    BY <1>4, <1>10, <2>1 DEF Held
  <2>2. CASE ~deploy.sidecar
    <3>1. Held(u) = MergedLast(b, s.pending) /\ Held(s) = MergedLast(s.bf, s.pending)
      BY <1>10, <2>2 DEF Held
    <3>2. CASE k[1] \in rows
      <4>1. PlacesOf(s.pending, k) = {}
        BY <1>1, <3>2, KeysOfUniform
      <4> QED
        BY <1>1, <1>3, <3>1, <3>2, <4>1, MergedAt
    <3>3. CASE k[1] \notin rows
      BY <1>3, <3>1, <3>3 DEF MergedLast
    <3> QED
      BY <3>2, <3>3
  <2> QED
    BY <1>2, <2>1, <2>2
<1>20. TableInv(u, tab, steady \cup rows)
  <2>1. SameOn(steady, Held(s), T) /\ (~s.dirty => SameOn(steady, s.bf, T))
    BY DEF TableInv
  <2>2. SameOn(steady \cup rows, Held(u), T)
    BY <1>18, <1>19, <2>1 DEF SameOn
  <2>3. ~u.dirty => SameOn(steady \cup rows, u.bf, T)
    BY <1>3, <1>10, <1>18, <2>1 DEF SameOn
  <2> QED
    BY <1>10, <1>17, <2>2, <2>3 DEF TableInv
<1>21. Serves(s, u, rows)
  BY <1>3, <1>4, <1>10 DEF Serves
<1>22. ASSUME NEW r, Erased(r, s, tab) PROVE Erased(r, u, tab)
  BY <1>3, <1>4, <1>10, <1>22 DEF Erased
<1>23. ASSUME NEW r \in rows PROVE Erased(r, u, tab)
  <2>1. r \notin RowsOf(u.pending)
    BY <1>10
  <2> QED
    BY <1>3, <1>4, <1>10, <2>1 DEF Erased
<1> QED
  BY <1>10, <1>16, <1>20, <1>21, <1>22, <1>23 DEF Kept, u, ks, n

\* Two locked steps after each other.
LEMMA KeptTwice ==
  ASSUME NEW s, NEW u, NEW w, NEW tab, NEW steady, NEW rows,
         Kept(s, u, tab, steady, {}), Kept(u, w, tab, steady, rows)
  PROVE  Kept(s, w, tab, steady, rows)
<1>1. Serves(s, w, rows)
  <2>1. s.built => w.built
    BY DEF Kept, Serves
  <2>2. RowsOf(w.pending) \subseteq RowsOf(s.pending) \cup rows
    BY DEF Kept, Serves
  <2>3. \A k \in Keys :
          k[1] \notin rows /\ (s.arr[k] # <<>> => s.bf[k] # <<>>) /\ w.arr[k] # <<>> =>
            w.bf[k] # <<>>
    BY DEF Kept, Serves
  <2> QED
    BY <2>1, <2>2, <2>3 DEF Serves
<1>2. \A r \in steady \ rows : Erased(r, s, tab) => Erased(r, w, tab)
  BY DEF Kept
<1> QED
  BY <1>1, <1>2 DEF Kept

\* flush: the file is written from the array store.
LEMMA FlushedKept ==
  ASSUME NEW s, NEW tab, NEW steady, deploy \in Deployments, s.stale,
         StoreInv(s), TableInv(s, tab, steady)
  PROVE  Kept(s, Persisted(s, s.arr), tab, steady, {}) /\ Persisted(s, s.arr).active = s.active
<1> DEFINE u == Persisted(s, s.arr)
<1>1. /\ IsStore(s) /\ Flat(s.bf) /\ Flat(s.arr) /\ Flat(s.file) /\ s.mih = CodesOf(s.bf)
      /\ s.count \in Nat /\ s.live \in SUBSET Keys /\ s.pending \in Seq(Recs)
      /\ Uniform(s.pending) /\ s.built \in BOOLEAN /\ s.active \in BOOLEAN
      /\ s.lane \in BOOLEAN /\ s.dirty \in BOOLEAN
  BY ShapeGives
<1>2. s.built /\ deploy.sidecar
  BY <1>1, HeldFlat DEF StoreInv, StoreFlags
<1>3. /\ IsStore(u)
      /\ u.arr = s.arr /\ u.file = s.arr /\ u.stale = FALSE
      /\ u.bf = s.bf /\ u.mih = s.mih /\ u.count = s.count /\ u.lane = s.lane
      /\ u.built = s.built /\ u.active = s.active /\ u.dirty = s.dirty /\ u.live = s.live
      /\ u.pending = s.pending
  BY <1>1 DEF Persisted, IsStore, Fields
<1> HIDE DEF u
<1>4. StoreShape(u)
  <2>1. /\ Flat(u.bf) /\ Flat(u.arr) /\ Flat(u.file) /\ u.mih = CodesOf(u.bf)
        /\ u.count \in Nat /\ u.live \in SUBSET Keys /\ u.pending \in Seq(Recs)
        /\ Uniform(u.pending) /\ u.stale \in BOOLEAN /\ u.lane \in BOOLEAN
        /\ u.built \in BOOLEAN /\ u.active \in BOOLEAN /\ u.dirty \in BOOLEAN
    BY <1>1, <1>3, Zenon
  <2> QED
    BY <1>3, <2>1, ShapeFrom
<1>5. StoreFlags(u) /\ SidecarInv(u) /\ CountInv(u)
  BY <1>2, <1>3 DEF StoreInv, StoreFlags, SidecarInv, CountInv
<1>6. Held(u) = Held(s)
  BY <1>2, <1>3 DEF Held
<1>7. steady \cup {} = steady
  OBVIOUS
<1>8. TableInv(u, tab, steady \cup {})
  BY <1>2, <1>3, <1>6, <1>7 DEF TableInv
<1>9. Serves(s, u, {})
  BY <1>3 DEF Serves
<1>10. \A r : Erased(r, s, tab) => Erased(r, u, tab)
  BY <1>3 DEF Erased
<1> QED
  BY <1>3, <1>4, <1>5, <1>8, <1>9, <1>10 DEF Kept, StoreInv, u

\* A window opens on the index as it is.
Opened(s) ==
  [s EXCEPT !.live = LiveKeys(s.bf), !.pending = <<>>, !.dirty = FALSE, !.active = TRUE]

\* begin_deferred_index.
LEMMA OpenedKept ==
  ASSUME NEW s, NEW tab, NEW steady, deploy \in Deployments, s.built, ~s.active, May("window"),
         StoreInv(s), TableInv(s, tab, steady)
  PROVE  Kept(s, Opened(s), tab, steady, {})
<1> DEFINE u == Opened(s)
<1>1. /\ IsStore(s) /\ Flat(s.bf) /\ Flat(s.arr) /\ Flat(s.file) /\ s.mih = CodesOf(s.bf)
      /\ s.count \in Nat /\ s.built \in BOOLEAN /\ s.stale \in BOOLEAN /\ s.lane \in BOOLEAN
  BY ShapeGives
<1>2. ~s.dirty /\ s.pending = <<>>
  BY DEF StoreInv, StoreFlags
<1>3. /\ IsStore(u)
      /\ u.arr = s.arr /\ u.file = s.file /\ u.stale = s.stale
      /\ u.bf = s.bf /\ u.mih = s.mih /\ u.count = s.count /\ u.lane = s.lane
      /\ u.built = s.built /\ u.active = TRUE /\ u.dirty = FALSE /\ u.live = LiveKeys(s.bf)
      /\ u.pending = <<>>
  BY <1>1 DEF Opened, IsStore, Fields
<1> HIDE DEF u
<1>4. StoreShape(u)
  <2>1. /\ Flat(u.bf) /\ Flat(u.arr) /\ Flat(u.file) /\ u.mih = CodesOf(u.bf)
        /\ u.count \in Nat /\ u.pending \in Seq(Recs)
        /\ Uniform(u.pending) /\ u.stale \in BOOLEAN /\ u.lane \in BOOLEAN
        /\ u.built \in BOOLEAN /\ u.active \in BOOLEAN /\ u.dirty \in BOOLEAN
    BY <1>1, <1>3, NoRecords, Zenon
  <2>2. u.live \in SUBSET Keys
    BY <1>3 DEF LiveKeys
  <2> QED
    BY <1>3, <2>1, <2>2, ShapeFrom
<1>5. StoreFlags(u)
  BY <1>2, <1>3 DEF StoreInv, StoreFlags
<1>6. SidecarInv(u) /\ CountInv(u)
  BY <1>2, <1>3 DEF StoreInv, SidecarInv, CountInv
<1>7. Held(u) = Held(s)
  BY <1>2, <1>3 DEF Held
<1>8. steady \cup {} = steady
  OBVIOUS
<1>9. TableInv(u, tab, steady \cup {})
  BY <1>2, <1>3, <1>7, <1>8 DEF TableInv
<1>10. Serves(s, u, {})
  BY <1>2, <1>3 DEF Serves
<1>11. \A r : Erased(r, s, tab) => Erased(r, u, tab)
  BY <1>2, <1>3 DEF Erased
<1> QED
  BY <1>4, <1>5, <1>6, <1>9, <1>10, <1>11 DEF Kept, StoreInv, u

\* The constructor's store, opened on a file, is a store.
LEMMA UnopenedInv ==
  ASSUME NEW file, Flat(file), deploy \in Deployments, ~deploy.sidecar => file = Empty
  PROVE  StoreInv(Unopened(file))
<1> DEFINE u == Unopened(file)
<1>1. /\ IsStore(u)
      /\ u.bf = Empty /\ u.mih = CodesOf(Empty) /\ u.arr = Empty /\ u.stale = FALSE
      /\ u.file = file /\ u.count = 0 /\ u.lane = FALSE /\ u.built = FALSE
      /\ u.active = FALSE /\ u.dirty = FALSE /\ u.live = {} /\ u.pending = <<>>
  BY UnopenedFields
<1> HIDE DEF u
<1>2. StoreShape(u)
  <2>1. /\ Flat(u.bf) /\ Flat(u.arr) /\ Flat(u.file) /\ u.mih = CodesOf(u.bf)
        /\ u.pending \in Seq(Recs) /\ Uniform(u.pending)
        /\ u.stale \in BOOLEAN /\ u.lane \in BOOLEAN
        /\ u.built \in BOOLEAN /\ u.active \in BOOLEAN /\ u.dirty \in BOOLEAN
    BY <1>1, NoRecords, FlatArray, Zenon
  <2>2. u.live \in SUBSET Keys /\ u.count \in Nat
    BY <1>1
  <2> QED
    BY <1>1, <2>1, <2>2, ShapeFrom
<1>3. StoreFlags(u) /\ SidecarInv(u) /\ CountInv(u)
  BY <1>1 DEF StoreFlags, SidecarInv, CountInv
<1> QED
  BY <1>2, <1>3 DEF StoreInv, u

\* The empty array has no live key, and is within every table.
LEMMA EmptyArray ==
  /\ LiveKeys(Empty) = {} /\ Cardinality(LiveKeys(Empty)) = 0
  /\ \A tab : Within(Empty, tab)
  /\ \A k \in Keys : Empty[k] = <<>>
<1>1. \A k \in Keys : Empty[k] = <<>>
  BY DEF Empty
<1>2. LiveKeys(Empty) = {}
  BY <1>1 DEF LiveKeys
<1>3. Cardinality({}) = 0
  BY FS_EmptySet, Zenon
<1>4. \A tab : Within(Empty, tab)
  BY <1>1 DEF Within
<1> QED
  BY <1>1, <1>2, <1>3, <1>4

\* destroy_all_vectors under the mutex: an empty index for an empty table.
LEMMA ResetKept ==
  ASSUME NEW s, NEW tab, NEW steady, steady \subseteq Rows, deploy \in Deployments,
         tab \in Tables, \A r \in Rows : tab[r] = None
  PROVE  LET u == [Unopened(Empty) EXCEPT !.built = TRUE] IN
         /\ Kept(s, u, tab, steady, Rows) /\ ~u.active
         /\ \A r \in Rows : Erased(r, u, tab)
<1> DEFINE u == [Unopened(Empty) EXCEPT !.built = TRUE]
           v == Unopened(Empty)
<1>1. /\ IsStore(v)
      /\ v.bf = Empty /\ v.mih = CodesOf(Empty) /\ v.arr = Empty /\ v.stale = FALSE
      /\ v.file = Empty /\ v.count = 0 /\ v.lane = FALSE /\ v.built = FALSE
      /\ v.active = FALSE /\ v.dirty = FALSE /\ v.live = {} /\ v.pending = <<>>
  BY UnopenedFields
<1>2. u = [v EXCEPT !.built = TRUE]
  OBVIOUS
<1> HIDE DEF u, v
<1>3. /\ IsStore(u)
      /\ u.bf = Empty /\ u.mih = CodesOf(Empty) /\ u.arr = Empty /\ u.stale = FALSE
      /\ u.file = Empty /\ u.count = 0 /\ u.lane = FALSE /\ u.built = TRUE
      /\ u.active = FALSE /\ u.dirty = FALSE /\ u.live = {} /\ u.pending = <<>>
  BY <1>1, <1>2 DEF IsStore, Fields
<1>4. StoreShape(u)
  <2>1. /\ Flat(u.bf) /\ Flat(u.arr) /\ Flat(u.file) /\ u.mih = CodesOf(u.bf)
        /\ u.pending \in Seq(Recs) /\ Uniform(u.pending)
        /\ u.stale \in BOOLEAN /\ u.lane \in BOOLEAN
        /\ u.built \in BOOLEAN /\ u.active \in BOOLEAN /\ u.dirty \in BOOLEAN
    BY <1>3, NoRecords, FlatArray, Zenon
  <2>2. u.live \in SUBSET Keys /\ u.count \in Nat
    BY <1>3
  <2> QED
    BY <1>3, <2>1, <2>2, ShapeFrom
<1>5. StoreFlags(u) /\ SidecarInv(u) /\ CountInv(u)
  BY <1>3, EmptyArray DEF StoreFlags, SidecarInv, CountInv
<1>6. StoreInv(u)
  BY <1>4, <1>5 DEF StoreInv
<1>7. Held(u) = Empty
  BY <1>3, <1>6, HeldFlat
<1>8. \A k \in Keys : ArrayOf(tab)[k] = <<>>
  <2>1. \A k \in Keys : k[1] \in Rows
    BY DEF Keys
  <2> QED
    BY <2>1, TableFlat
<1>9. TableInv(u, tab, steady \cup Rows)
  BY <1>3, <1>7, <1>8, EmptyArray DEF TableInv, SameOn
<1>10. RowsOf(u.pending) = {}
  BY <1>3, NoRecords
<1>11. Serves(s, u, Rows)
  BY <1>3, <1>10, EmptyArray DEF Serves
<1>12. \A r \in Rows : Erased(r, u, tab)
  BY <1>3, <1>10, EmptyArray DEF Erased
<1> QED
  BY <1>3, <1>6, <1>9, <1>11, <1>12 DEF Kept, u

\* The next open finds the table in the file, or a file the table outgrew.
LEMMA ReopenedKept ==
  ASSUME NEW s, NEW tab, NEW steady, NEW wide, deploy \in Deployments,
         StoreInv(s), TableInv(s, tab, steady), wide \subseteq Rows,
         deploy.sidecar => AddsOnly \/ (~s.stale /\ wide \subseteq steady)
  PROVE  /\ StoreInv(Unopened(s.file)) /\ TableInv(Unopened(s.file), tab, wide)
         /\ \A r : Erased(r, s, tab) => Erased(r, Unopened(s.file), tab)
<1> DEFINE u == Unopened(s.file)
<1>1. /\ u.bf = Empty /\ u.arr = Empty /\ u.file = s.file /\ u.built = FALSE
      /\ u.pending = <<>>
  BY UnopenedFields
<1>2. StoreInv(u)
  BY ShapeGives, UnopenedInv DEF StoreInv, StoreFlags
<1> HIDE DEF u
<1>3. deploy.sidecar /\ ~May("crash") => SameOn(wide, s.file, ArrayOf(tab))
  <2> SUFFICES ASSUME deploy.sidecar, ~May("crash") PROVE SameOn(wide, s.file, ArrayOf(tab))
    OBVIOUS
  <2>1. ~s.stale /\ wide \subseteq steady
    BY DEF AddsOnly
  <2>2. SameOn(steady, s.file, ArrayOf(tab))
    <3>1. CASE s.built
      <4>1. s.file = Held(s)
        BY <2>1, <3>1 DEF StoreInv, SidecarInv, Held
      <4> QED
        BY <3>1, <4>1 DEF TableInv
    <3>2. CASE ~s.built
      BY <3>2 DEF TableInv
    <3> QED
      BY <3>1, <3>2
  <2> QED
    BY <2>1, <2>2 DEF SameOn
<1>4. TableInv(u, tab, wide)
  BY <1>1, <1>3, EmptyArray DEF TableInv
<1>5. \A r : Erased(r, s, tab) => Erased(r, u, tab)
  BY <1>1, NoRecords, EmptyArray DEF Erased
<1> QED
  BY <1>2, <1>4, <1>5 DEF u

\* What a failing sidecar write outside a window leaves: the slots of the steady rows, no
\* slot in the array store that the indexes do not hold, and, unless the file is stale, the
\* same slots in it.
Disturbed(s, u, tab, steady) ==
  /\ IsStore(u)
  /\ Flat(u.bf) /\ Flat(u.arr) /\ Flat(u.file) /\ u.mih = CodesOf(u.bf)
  /\ u.stale \in BOOLEAN /\ (~u.stale => u.file = u.arr)
  /\ LiveKeys(u.arr) \subseteq LiveKeys(u.bf)
  /\ \A k \in Keys : k[1] \in steady => u.arr[k] = s.arr[k] /\ u.bf[k] = s.bf[k]
  /\ \A k \in Keys : s.bf[k] = <<>> => u.bf[k] = <<>>
  /\ AddsOnly => Within(u.arr, tab) /\ Within(u.file, tab)
  /\ u.count = s.count /\ u.lane = s.lane /\ u.built = s.built /\ u.active = s.active
  /\ u.dirty = s.dirty /\ u.live = s.live /\ u.pending = s.pending

\* Such a write disturbs no row but the call's own.
LEMMA DisturbedKept ==
  ASSUME NEW s, NEW u, NEW tab, NEW steady, deploy \in Deployments, deploy.sidecar,
         May("sidecars"), s.built, ~s.active, StoreInv(s), TableInv(s, tab, steady),
         Disturbed(s, u, tab, steady)
  PROVE  Kept(s, u, tab, steady, {}) /\ u.active = s.active
<1>1. /\ s.count \in Nat /\ s.live \in SUBSET Keys /\ s.pending \in Seq(Recs)
      /\ Uniform(s.pending) /\ s.built \in BOOLEAN /\ s.active \in BOOLEAN
      /\ s.dirty \in BOOLEAN /\ s.lane \in BOOLEAN
  BY ShapeGives
<1>2. ~s.dirty /\ s.pending = <<>>
  BY DEF StoreInv, StoreFlags
<1>3. /\ IsStore(u)
      /\ Flat(u.bf) /\ Flat(u.arr) /\ Flat(u.file) /\ u.mih = CodesOf(u.bf)
      /\ u.stale \in BOOLEAN /\ (~u.stale => u.file = u.arr)
      /\ LiveKeys(u.arr) \subseteq LiveKeys(u.bf)
      /\ \A k \in Keys : k[1] \in steady => u.arr[k] = s.arr[k] /\ u.bf[k] = s.bf[k]
      /\ \A k \in Keys : s.bf[k] = <<>> => u.bf[k] = <<>>
      /\ AddsOnly => Within(u.arr, tab) /\ Within(u.file, tab)
      /\ u.count = s.count /\ u.lane = s.lane /\ u.built = s.built /\ u.active = s.active
      /\ u.dirty = s.dirty /\ u.live = s.live /\ u.pending = s.pending
  BY DEF Disturbed
<1>4. \A k \in Keys : u.arr[k] # <<>> => u.bf[k] # <<>>
  BY <1>3 DEF LiveKeys
<1>5. StoreShape(u)
  <2>1. /\ u.count \in Nat /\ u.live \in SUBSET Keys /\ u.pending \in Seq(Recs)
        /\ Uniform(u.pending) /\ u.lane \in BOOLEAN
        /\ u.built \in BOOLEAN /\ u.active \in BOOLEAN /\ u.dirty \in BOOLEAN
    BY <1>1, <1>3, Zenon
  <2> QED
    BY <1>3, <2>1, ShapeFrom
<1>6. StoreFlags(u)
  BY <1>2, <1>3 DEF StoreInv, StoreFlags
<1>7. SidecarInv(u) /\ CountInv(u)
  BY <1>2, <1>3 DEF SidecarInv, CountInv
<1>8. steady \cup {} = steady
  OBVIOUS
<1>9. TableInv(u, tab, steady \cup {})
  <2>1. Held(u) = u.arr /\ Held(s) = s.arr
    BY DEF Held
  <2>2. SameOn(steady, s.arr, ArrayOf(tab)) /\ SameOn(steady, s.bf, ArrayOf(tab))
    BY <1>2, <2>1 DEF TableInv
  <2>3. SameOn(steady, u.arr, ArrayOf(tab)) /\ SameOn(steady, u.bf, ArrayOf(tab))
    BY <1>3, <2>2 DEF SameOn
  <2> QED
    BY <1>3, <1>8, <2>1, <2>3 DEF TableInv
<1>10. Serves(s, u, {})
  BY <1>3, <1>4 DEF Serves
<1>11. \A r : Erased(r, s, tab) => Erased(r, u, tab)
  BY <1>3, <1>4 DEF Erased
<1> QED
  BY <1>3, <1>5, <1>6, <1>7, <1>9, <1>10, <1>11 DEF Kept, StoreInv

\* add_payloads whose sidecar write failed has dropped the slots it meant to replace.
LEMMA AppendFailsKept ==
  ASSUME NEW s, NEW tab, NEW steady, NEW recs \in Seq(Recs), Uniform(recs),
         deploy \in Deployments, deploy.sidecar,
         May("sidecars"), s.built, ~s.active, StoreInv(s), TableInv(s, tab, steady),
         \A r \in RowsOf(recs) : r \notin steady
  PROVE  Kept(s, AppendFails(s, recs), tab, steady, {}) /\ AppendFails(s, recs).active = s.active
<1> DEFINE u == AppendFails(s, recs)
           ks == KeysOf(recs) \cap LiveKeys(s.bf)
           a == Tombstone(s.arr, ks)
           d == s.stale \/ ks \cap LiveKeys(s.arr) # {}
<1>1. /\ IsStore(s) /\ Flat(s.bf) /\ Flat(s.arr) /\ Flat(s.file) /\ s.mih = CodesOf(s.bf)
      /\ s.stale \in BOOLEAN
  BY ShapeGives
<1>2. ~s.dirty
  BY DEF StoreInv, StoreFlags
<1>3. u = [[s EXCEPT !.live = s.live] EXCEPT !.arr = a, !.stale = d]
  <2>1. Retired(s, recs) = ks
    BY DEF Retired
  <2>2. Unkeyed(s) = [s EXCEPT !.live = s.live]
    BY DEF Unkeyed
  <2> HIDE DEF ks
  <2>3. u = [[s EXCEPT !.live = s.live] EXCEPT !.arr = Tombstone(@, ks),
                                               !.stale = @ \/ ks \cap LiveKeys(s.arr) # {}]
    BY <2>1, <2>2 DEF AppendFails
  <2> HIDE DEF u
  <2> QED
    BY <1>1, <2>3 DEF IsStore, Fields
<1>4. \A k \in ks : k \in Keys /\ k[1] \notin steady
  BY KeysOfUniform
<1> HIDE DEF ks
<1>5. a = [k \in Keys |-> a[k]] /\ \A k \in Keys : a[k] = IF k \in ks THEN <<>> ELSE s.arr[k]
  BY DEF Tombstone
<1>6. d \in BOOLEAN /\ (~d => a = s.arr)
  <2>1. s.arr = [k \in Keys |-> s.arr[k]]
    BY <1>1 DEF Flat
  <2>2. ~d => \A k \in Keys : a[k] = s.arr[k]
    BY <1>5 DEF LiveKeys
  <2>3. ~d => a = s.arr
    BY <1>5, <2>1, <2>2
  <2> QED
    BY <1>1, <2>3
<1>7. ~d => ~s.stale
  OBVIOUS
<1> HIDE DEF u, a, d
<1>8. /\ IsStore(u)
      /\ u.arr = a /\ u.stale = d /\ u.file = s.file /\ u.bf = s.bf /\ u.mih = s.mih
      /\ u.count = s.count /\ u.lane = s.lane /\ u.built = s.built /\ u.active = s.active
      /\ u.dirty = s.dirty /\ u.live = s.live /\ u.pending = s.pending
  BY <1>1, <1>3 DEF IsStore, Fields
<1>9. Flat(a) /\ LiveKeys(a) \subseteq LiveKeys(s.arr)
  BY <1>1, <1>5 DEF Flat, LiveKeys
<1>10. LiveKeys(u.arr) \subseteq LiveKeys(u.bf)
  BY <1>2, <1>8, <1>9 DEF StoreInv, SidecarInv
<1>11. ~u.stale => u.file = u.arr
  BY <1>6, <1>7, <1>8 DEF StoreInv, SidecarInv
<1>12. AddsOnly => Within(u.arr, tab) /\ Within(u.file, tab)
  BY <1>5, <1>8 DEF TableInv, Within
<1>13. \A k \in Keys : k[1] \in steady => u.arr[k] = s.arr[k]
  BY <1>4, <1>5, <1>8
<1>14. Disturbed(s, u, tab, steady)
  BY <1>1, <1>6, <1>8, <1>9, <1>10, <1>11, <1>12, <1>13 DEF Disturbed
<1>15. Kept(s, u, tab, steady, {}) /\ u.active = s.active
  BY <1>14, DisturbedKept
<1> QED
  BY <1>15 DEF u

\* add_payloads whose compaction's write failed, when the indexes held its rows already.
LEMMA CompactionFailsKept ==
  ASSUME NEW s, NEW tab, NEW steady, NEW recs \in Seq(Recs), Uniform(recs), Apart(recs),
         \A x \in Range(recs) : StoredIn(x, tab), KeysOf(recs) \subseteq LiveKeys(s.bf),
         deploy \in Deployments, deploy.sidecar,
         May("sidecars"), s.built, ~s.active, StoreInv(s), TableInv(s, tab, steady),
         \A r \in RowsOf(recs) : r \notin steady
  PROVE  /\ Kept(s, CompactionFails(s, recs), tab, steady, {})
         /\ CompactionFails(s, recs).active = s.active
<1> DEFINE u == CompactionFails(s, recs)
           m == MergedLast(s.arr, recs)
<1>1. /\ IsStore(s) /\ Flat(s.bf) /\ Flat(s.arr) /\ s.mih = CodesOf(s.bf)
  BY ShapeGives
<1>2. ~s.dirty
  BY DEF StoreInv, StoreFlags
<1>3. LiveKeys(s.arr) \subseteq LiveKeys(s.bf)
  BY <1>2 DEF StoreInv, SidecarInv
<1>4. u = Persisted([s EXCEPT !.live = s.live], m)
  <2>1. Retired(s, recs) = KeysOf(recs) \cap LiveKeys(s.bf)
    BY DEF Retired
  <2>2. Unkeyed(s) = [s EXCEPT !.live = s.live]
    BY DEF Unkeyed
  <2>3. Appended(Tombstone(s.arr, Retired(s, recs)), recs) = m
    BY <1>1, <1>3, <2>1, AppendedIsMerged
  <2> QED
    BY <2>2, <2>3 DEF CompactionFails
<1>5. tab \in Tables /\ \A r \in Rows : tab[r] # None => tab[r].ver = TheVersion
  BY DEF TableInv
<1>6. /\ \A k \in Keys : k[1] \notin RowsOf(recs) => m[k] = s.arr[k]
      /\ \A k \in Keys : k[1] \in RowsOf(recs) => m[k] = ArrayOf(tab)[k]
      /\ LiveKeys(m) = LiveKeys(s.arr) \cup KeysOf(recs)
  BY <1>1, <1>5, MergedMatches
<1>7. Flat(m)
  BY <1>1, MergedFlat
<1> HIDE DEF u, m
<1>8. /\ IsStore(u)
      /\ u.arr = m /\ u.stale = FALSE /\ u.file = m /\ u.bf = s.bf /\ u.mih = s.mih
      /\ u.count = s.count /\ u.lane = s.lane /\ u.built = s.built /\ u.active = s.active
      /\ u.dirty = s.dirty /\ u.live = s.live /\ u.pending = s.pending
  BY <1>1, <1>4 DEF Persisted, IsStore, Fields
<1>9. LiveKeys(u.arr) \subseteq LiveKeys(u.bf)
  BY <1>3, <1>6, <1>8
<1>10. AddsOnly => Within(u.arr, tab) /\ Within(u.file, tab)
  BY <1>6, <1>8 DEF TableInv, Within
<1>11. \A k \in Keys : k[1] \in steady => u.arr[k] = s.arr[k]
  BY <1>6, <1>8
<1>12. Disturbed(s, u, tab, steady)
  BY <1>1, <1>7, <1>8, <1>9, <1>10, <1>11 DEF Disturbed
<1>13. Kept(s, u, tab, steady, {}) /\ u.active = s.active
  BY <1>12, DisturbedKept
<1> QED
  BY <1>13 DEF u

\* The keys of a delete that was cut short: the indexes lost no more than the array store,
\* and that only keys of rows that are not steady.
CutShort(dead, cut, steady) ==
  cut \subseteq dead /\ \A k \in dead : k \in Keys /\ k[1] \notin steady

\* A delete that a failing tombstone or compaction cut short.
LEMMA UnslottedKept ==
  ASSUME NEW s, NEW tab, NEW steady, NEW dead, NEW cut, CutShort(dead, cut, steady),
         deploy \in Deployments, deploy.sidecar,
         May("sidecars"), s.built, ~s.active, StoreInv(s), TableInv(s, tab, steady)
  PROVE  /\ Kept(s, Unslotted(s, dead, cut), tab, steady, {})
         /\ Unslotted(s, dead, cut).active = s.active
<1> DEFINE u == Unslotted(s, dead, cut)
           a == Tombstone(s.arr, dead)
           b == Tombstone(s.bf, cut)
<1>1. /\ IsStore(s) /\ Flat(s.bf) /\ Flat(s.arr) /\ Flat(s.file) /\ s.mih = CodesOf(s.bf)
      /\ s.stale \in BOOLEAN
  BY ShapeGives
<1>2. ~s.dirty /\ cut \subseteq dead /\ \A k \in dead : k \in Keys /\ k[1] \notin steady
  BY DEF StoreInv, StoreFlags, CutShort
<1>3. /\ a = [k \in Keys |-> a[k]] /\ \A k \in Keys : a[k] = IF k \in dead THEN <<>> ELSE s.arr[k]
      /\ b = [k \in Keys |-> b[k]] /\ \A k \in Keys : b[k] = IF k \in cut THEN <<>> ELSE s.bf[k]
  BY DEF Tombstone
<1>4. Struck(s, u, dead, cut)
  BY <1>1, UnslottedFields
<1> HIDE DEF u
<1>5. /\ IsStore(u) /\ u.bf = b
      /\ u.mih = [k \in Keys |-> IF k \in cut THEN None ELSE s.mih[k]]
      /\ dead # {} => u.arr = a /\ u.file = a /\ u.stale = FALSE
      /\ dead = {} => u.arr = s.arr /\ u.file = s.file /\ u.stale = s.stale
      /\ u.count = s.count /\ u.lane = s.lane
      /\ u.built = s.built /\ u.active = s.active /\ u.dirty = s.dirty
      /\ u.live = s.live /\ u.pending = s.pending
  BY <1>4 DEF Struck
<1> HIDE DEF a, b
<1>6. u.mih = CodesOf(u.bf)
  BY <1>1, <1>3, <1>5 DEF CodesOf
<1>7. dead = {} => a = s.arr
  <2>1. s.arr = [k \in Keys |-> s.arr[k]]
    BY <1>1 DEF Flat
  <2> QED
    BY <1>3, <2>1
<1>8. u.arr = a
  BY <1>5, <1>7
<1>9. Flat(a) /\ Flat(b)
  BY <1>1, <1>3 DEF Flat
<1>10. LiveKeys(a) \subseteq LiveKeys(b)
  <2>1. LiveKeys(s.arr) \subseteq LiveKeys(s.bf)
    BY <1>2 DEF StoreInv, SidecarInv
  <2> QED
    BY <1>2, <1>3, <2>1 DEF LiveKeys
<1>11. u.stale \in BOOLEAN /\ (~u.stale => u.file = u.arr) /\ Flat(u.file)
  BY <1>1, <1>5, <1>9 DEF StoreInv, SidecarInv
<1>12. AddsOnly => Within(u.arr, tab) /\ Within(u.file, tab)
  <2>1. AddsOnly => Within(a, tab) /\ Within(s.file, tab)
    BY <1>3 DEF TableInv, Within
  <2> QED
    BY <1>5, <1>8, <2>1
<1>13. \A k \in Keys : k[1] \in steady => u.arr[k] = s.arr[k] /\ u.bf[k] = s.bf[k]
  BY <1>2, <1>3, <1>5, <1>8
<1>14. \A k \in Keys : s.bf[k] = <<>> => u.bf[k] = <<>>
  BY <1>3, <1>5
<1>15. Disturbed(s, u, tab, steady)
  BY <1>5, <1>6, <1>8, <1>9, <1>10, <1>11, <1>12, <1>13, <1>14 DEF Disturbed
<1>16. Kept(s, u, tab, steady, {}) /\ u.active = s.active
  BY <1>15, DisturbedKept
<1> QED
  BY <1>16 DEF u

\* A rebuild whose sidecar write failed has changed the count only.
LEMMA RecountedKept ==
  ASSUME NEW s, NEW tab, NEW steady, NEW n \in Nat, deploy \in Deployments,
         May("sidecars"), StoreInv(s), TableInv(s, tab, steady)
  PROVE  LET u == [s EXCEPT !.count = n] IN
         Kept(s, u, tab, steady, {}) /\ u.active = s.active
<1> DEFINE u == [s EXCEPT !.count = n]
<1>1. /\ IsStore(s) /\ Flat(s.bf) /\ Flat(s.arr) /\ Flat(s.file) /\ s.mih = CodesOf(s.bf)
      /\ s.count \in Nat /\ s.live \in SUBSET Keys /\ s.pending \in Seq(Recs)
      /\ Uniform(s.pending) /\ s.built \in BOOLEAN /\ s.active \in BOOLEAN
      /\ s.stale \in BOOLEAN /\ s.dirty \in BOOLEAN /\ s.lane \in BOOLEAN
  BY ShapeGives
<1>2. /\ IsStore(u)
      /\ u.arr = s.arr /\ u.stale = s.stale /\ u.file = s.file
      /\ u.bf = s.bf /\ u.mih = s.mih /\ u.count = n /\ u.lane = s.lane
      /\ u.built = s.built /\ u.active = s.active /\ u.dirty = s.dirty /\ u.live = s.live
      /\ u.pending = s.pending
  BY <1>1 DEF IsStore, Fields
<1> HIDE DEF u
<1>3. StoreShape(u)
  <2>1. /\ Flat(u.bf) /\ Flat(u.arr) /\ Flat(u.file) /\ u.mih = CodesOf(u.bf)
        /\ u.count \in Nat /\ u.live \in SUBSET Keys /\ u.pending \in Seq(Recs)
        /\ Uniform(u.pending) /\ u.stale \in BOOLEAN /\ u.lane \in BOOLEAN
        /\ u.built \in BOOLEAN /\ u.active \in BOOLEAN /\ u.dirty \in BOOLEAN
    BY <1>1, <1>2, Zenon
  <2> QED
    BY <1>2, <2>1, ShapeFrom
<1>4. StoreFlags(u) /\ SidecarInv(u) /\ CountInv(u)
  BY <1>2 DEF StoreInv, StoreFlags, SidecarInv, CountInv
<1>5. steady \cup {} = steady
  OBVIOUS
<1>6. Held(u) = Held(s)
  BY <1>2 DEF Held
<1>7. TableInv(u, tab, steady \cup {})
  BY <1>2, <1>5, <1>6 DEF TableInv
<1>8. Serves(s, u, {})
  BY <1>2 DEF Serves
<1>9. \A r : Erased(r, s, tab) => Erased(r, u, tab)
  BY <1>2 DEF Erased
<1> QED
  BY <1>2, <1>3, <1>4, <1>7, <1>8, <1>9 DEF Kept, StoreInv, u

(***************************************************************************)
(* The calls                                                               *)
(***************************************************************************)

\* What holds of the parts of the next state holds in the next state.
LEMMA NextState ==
  ASSUME IInv, deploy' = deploy, StoreInv(store'),
         TableInv(store', table', SteadyOf(thread', hurt')),
         ThreadInv(thread', store', table'),
         GoneInv(gone', thread', hurt', store', table'), hurt' \subseteq Rows,
         calls' \in 0 .. MaxCalls, opens' \in 1 .. MaxOpens
  PROVE  IInv'
<1>1. StoreInv(store)'
  BY DEF StoreInv, StoreFlags, SidecarInv, CountInv, May, StoreShape
<1>2. TableInv(store, table, SteadyOf(thread, hurt))'
  BY DEF TableInv, Held, AddsOnly, May, SteadyOf
<1>3. ThreadInv(thread, store, table)'
  BY DEF ThreadInv, CallInv, CallShape, Adding, Clearing, Relies, AddsOnly, May
<1>4. GoneInv(gone, thread, hurt, store, table)'
  BY DEF GoneInv, Erased
<1>5. deploy' \in Deployments /\ Safe(deploy')
  BY DEF IInv
<1> QED
  BY <1>1, <1>2, <1>3, <1>4, <1>5 DEF IInv

\* A thread in no call.
LEMMA IdleInv ==
  /\ Idle \in Frames /\ Idle.rows = {} /\ Idle.at = "idle" /\ Idle.call = "none"
  /\ \A s, tab : CallInv(Idle, s, tab)
<1>1. /\ Idle.rows = {} /\ Idle.at = "idle" /\ Idle.call = "none" /\ Idle.recs = <<>>
      /\ Idle.todo = <<>>
  BY DEF Idle
<1>2. <<>> \in Seq(Recs) /\ Uniform(<<>>) /\ Apart(<<>>)
  BY NoRecords
<1>3. Idle \in Frames
  <2>1. "idle" \in Steps /\ "none" \in Calls /\ {} \in SUBSET Rows
    BY DEF Steps, Calls
  <2> QED
    BY <1>2, <2>1 DEF Idle, Frames
<1>4. StepsOf("none") = {"idle"}
  BY DEF StepsOf
<1>5. CallShape(Idle)
  BY <1>1, <1>2, <1>3, <1>4 DEF CallShape
<1>6. \A s, tab : Adding(Idle, tab) /\ Clearing(Idle, tab) /\ Relies(Idle, s)
  BY <1>1 DEF Adding, Clearing, Relies
<1> QED
  BY <1>1, <1>3, <1>5, <1>6 DEF CallInv

\* A step on some rows leaves a call on other rows as it was.
LEMMA OthersKept ==
  ASSUME NEW c, NEW s, NEW u, NEW tab, NEW next, NEW rows, CallInv(c, s, tab),
         Serves(s, u, rows), c.rows \cap rows = {},
         \A r \in Rows \ rows : next[r] = tab[r],
         u.active => \/ s.active
                     \/ c.call # "single" /\ (deploy.sidecar => c.call # "replace")
  PROVE  CallInv(c, u, next)
<1>1. CallShape(c) /\ c.rows \subseteq Rows /\ c.recs \in Seq(Recs) /\ Uniform(c.recs)
  BY DEF CallInv, CallShape, Frames
<1>2. \A r \in c.rows : next[r] = tab[r]
  BY <1>1
<1>3. Adding(c, next)
  <2> SUFFICES ASSUME c.call \in {"add", "single"} PROVE Adding(c, next)
    BY DEF Adding
  <2>1. \A x \in Range(c.recs) : x.row \in c.rows
    BY DEF CallInv, Adding, RowsOf
  <2>2. \A x \in Range(c.recs) : StoredIn(x, tab) => StoredIn(x, next)
    BY <1>2, <2>1 DEF StoredIn
  <2>3. Range(c.todo) \subseteq Range(c.recs)
    BY DEF CallInv, Adding
  <2>4. \A x \in Range(c.todo) : tab[x.row] = None => next[x.row] = None
    BY <1>2, <2>1, <2>3
  <2> QED
    BY <2>2, <2>4 DEF CallInv, Adding
<1>4. Clearing(c, next)
  BY <1>2 DEF CallInv, Clearing
<1>5. Relies(c, u)
  <2>1. ASSUME c.at \in {"erase", "tombstone", "swap", "rebuild"}
        PROVE  /\ c.rows \cap RowsOf(u.pending) = {}
               /\ \A k \in Keys : k[1] \in c.rows /\ u.arr[k] # <<>> => u.bf[k] # <<>>
    BY <2>1 DEF CallInv, Relies, Serves
  <2> QED
    BY <2>1 DEF CallInv, Relies, Serves
<1> QED
  BY <1>1, <1>3, <1>4, <1>5 DEF CallInv

\* What holds for some steady rows holds for fewer.
LEMMA FewerRows ==
  ASSUME NEW s, NEW tab, NEW wide, NEW rows, rows \subseteq wide, TableInv(s, tab, wide)
  PROVE  TableInv(s, tab, rows)
<1>1. ASSUME NEW a, NEW b, SameOn(wide, a, b) PROVE SameOn(rows, a, b)
  BY <1>1 DEF SameOn
<1> QED
  BY <1>1 DEF TableInv

\* What a thread's step does to the threads: its own call moves on to c.
Moves(t, c) == thread' = [thread EXCEPT ![t] = c]

\* The rows of the calls stay apart when a call gives up rows.
LEMMA ThreadsApart ==
  ASSUME IInv, NEW t \in Threads, NEW c, Moves(t, c), c \in Frames, c.rows \subseteq thread[t].rows
  PROVE  /\ thread' \in [Threads -> Frames] /\ thread'[t] = c
         /\ \A u \in Threads \ {t} : thread'[u] = thread[u]
         /\ \A u \in Threads : thread'[u].rows \subseteq thread[u].rows
         /\ \A u \in Threads \ {t} : thread[u].rows \cap thread[t].rows = {}
         /\ \A u, v \in Threads : u # v => thread'[u].rows \cap thread'[v].rows = {}
<1>1. thread \in [Threads -> Frames]
  BY DEF IInv, ThreadInv
<1>2. /\ thread' \in [Threads -> Frames] /\ thread'[t] = c
      /\ \A u \in Threads \ {t} : thread'[u] = thread[u]
  BY <1>1 DEF Moves
<1>3. \A u \in Threads : thread'[u].rows \subseteq thread[u].rows
  BY <1>2
<1>4. \A u, v \in Threads : u # v => thread[u].rows \cap thread[v].rows = {}
  BY DEF IInv, ThreadInv
<1>5. \A u \in Threads \ {t} : thread[u].rows \cap thread[t].rows = {}
  BY <1>4
<1>6. \A u, v \in Threads : u # v => thread'[u].rows \cap thread'[v].rows = {}
  BY <1>3, <1>4
<1> QED
  BY <1>2, <1>3, <1>5, <1>6

\* A locked step of a thread that changes the store keeps the invariant: it brings rows of
\* its own in line with the table, may acknowledge that some are gone, and gives up its
\* rows only when they are in line or hurt.
LEMMA StoreStep ==
  ASSUME IInv, NEW t \in Threads, NEW c, NEW rows, NEW lost, Moves(t, c), deploy' = deploy,
         table' = table,
         Kept(store, store', table, SteadyOf(thread, hurt), rows), CallInv(c, store', table),
         rows \subseteq thread[t].rows, c.rows \subseteq thread[t].rows, lost \subseteq thread[t].rows,
         lost \cap c.rows = {}, hurt' \subseteq Rows,
         \A r \in Rows \ thread[t].rows : r \in hurt' <=> r \in hurt,
         \A r \in thread[t].rows \ rows :
           r \in hurt' \/ (c.at \in Changing /\ r \in c.rows) \/ r \in SteadyOf(thread, hurt),
         gone' = gone \cup lost, \A r \in lost \ hurt' : Erased(r, store', table),
         store'.active => \/ store.active
                          \/ \A u \in Threads \ {t} :
                               /\ thread[u].call # "single"
                               /\ deploy.sidecar => thread[u].call # "replace",
         calls' = calls, opens' = opens
  PROVE  IInv'
<1> DEFINE S == SteadyOf(thread, hurt)
           N == SteadyOf(thread', hurt')
<1>1. c \in Frames
  BY DEF CallInv, CallShape
<1>2. /\ thread' \in [Threads -> Frames] /\ thread'[t] = c
      /\ \A u \in Threads \ {t} : thread'[u] = thread[u]
      /\ \A u \in Threads : thread'[u].rows \subseteq thread[u].rows
      /\ \A u \in Threads \ {t} : thread[u].rows \cap thread[t].rows = {}
      /\ \A u, v \in Threads : u # v => thread'[u].rows \cap thread'[v].rows = {}
  BY <1>1, ThreadsApart
<1>3. N \subseteq S \cup rows
  <2> SUFFICES ASSUME NEW r \in N, r \notin rows PROVE r \in S
    OBVIOUS
  <2>1. /\ r \in Rows /\ r \notin hurt'
        /\ \A u \in Threads : thread'[u].at \in Changing => r \notin thread'[u].rows
    BY DEF SteadyOf
  <2>2. CASE r \in thread[t].rows
    <3>1. ~(c.at \in Changing /\ r \in c.rows)
      BY <1>2, <2>1
    <3> QED
      BY <2>1, <2>2, <3>1
  <2>3. CASE r \notin thread[t].rows
    <3>1. r \notin hurt
      BY <2>1, <2>3
    <3>2. \A u \in Threads : thread[u].at \in Changing => r \notin thread[u].rows
      BY <1>2, <2>1, <2>3
    <3> QED
      BY <2>1, <3>1, <3>2 DEF SteadyOf
  <2> QED
    BY <2>2, <2>3
<1> HIDE DEF S, N
<1>4. TableInv(store', table', N)
  <2>1. TableInv(store', table, S \cup rows)
    BY DEF Kept, S
  <2>2. TableInv(store', table, N)
    BY <1>3, <2>1, FewerRows
  <2> QED
    BY <2>2
<1>5. ThreadInv(thread', store', table')
  <2>1. ASSUME NEW u \in Threads PROVE CallInv(thread'[u], store', table')
    <3>1. CASE u = t
      BY <1>2, <3>1
    <3>2. CASE u # t
      <4>1. CallInv(thread[u], store, table)
        BY DEF IInv, ThreadInv
      <4>2. thread[u].rows \cap rows = {}
        BY <1>2, <3>2
      <4>3. Serves(store, store', rows)
        BY DEF Kept
      <4>4. CallInv(thread[u], store', table)
        BY <3>2, <4>1, <4>2, <4>3, OthersKept
      <4> QED
        BY <1>2, <3>2, <4>4
    <3> QED
      BY <3>1, <3>2
  <2> QED
    BY <1>2, <2>1 DEF ThreadInv
<1>6. GoneInv(gone', thread', hurt', store', table')
  <2>1. gone \subseteq Rows /\ \A r \in gone, u \in Threads : r \notin thread[u].rows
    BY DEF IInv, GoneInv
  <2>2. thread[t] \in Frames
    BY DEF IInv, ThreadInv
  <2>3. gone' \subseteq Rows
    BY <2>1, <2>2 DEF Frames
  <2>4. \A r \in gone', u \in Threads : r \notin thread'[u].rows
    <3> SUFFICES ASSUME NEW r \in gone', NEW u \in Threads, r \in thread'[u].rows PROVE FALSE
      OBVIOUS
    <3>1. r \in thread[u].rows /\ r \in lost
      BY <1>2, <2>1
    <3>2. u = t
      BY <1>2, <3>1
    <3> QED
      BY <1>2, <3>1, <3>2
  <2>5. ASSUME NEW r \in gone' \ hurt' PROVE Erased(r, store', table')
    <3>1. CASE r \in lost
      BY <2>5, <3>1
    <3>2. CASE r \in gone /\ r \notin lost
      <4>1. r \in Rows /\ \A u \in Threads : r \notin thread[u].rows
        BY <2>1, <3>2
      <4>2. r \notin hurt
        BY <2>5, <4>1
      <4>3. r \in S \ rows
        BY <4>1, <4>2 DEF S, SteadyOf
      <4>4. Erased(r, store, table)
        BY <3>2, <4>2 DEF IInv, GoneInv
      <4> QED
        BY <4>3, <4>4 DEF Kept, S
    <3> QED
      BY <2>5, <3>1, <3>2
  <2> QED
    BY <2>3, <2>4, <2>5 DEF GoneInv
<1>7. StoreInv(store')
  BY DEF Kept
<1>8. calls' \in 0 .. MaxCalls /\ opens' \in 1 .. MaxOpens
  BY DEF IInv
<1> QED
  BY <1>4, <1>5, <1>6, <1>7, <1>8, NextState DEF N

\* A step of a thread that changes the table, on rows of its own, keeps the invariant: the
\* rows it changed are no longer steady.
LEMMA TableStep ==
  ASSUME IInv, NEW t \in Threads, NEW c, Moves(t, c), deploy' = deploy, store' = store,
         table' \in Tables, \A r \in Rows : table'[r] # None => table'[r].ver = TheVersion,
         \A r \in Rows \ thread[t].rows : table'[r] = table[r],
         AddsOnly => \A r \in Rows : table[r] # None => table'[r] = table[r],
         CallInv(c, store, table'), c.rows = thread[t].rows, c.at \in Changing,
         hurt' = hurt, gone' = gone, calls' = calls, opens' = opens
  PROVE  IInv'
<1> DEFINE S == SteadyOf(thread, hurt)
           N == SteadyOf(thread', hurt')
<1>1. c \in Frames
  BY DEF CallInv, CallShape
<1>2. /\ thread' \in [Threads -> Frames] /\ thread'[t] = c
      /\ \A u \in Threads \ {t} : thread'[u] = thread[u]
      /\ \A u \in Threads : thread'[u].rows \subseteq thread[u].rows
      /\ \A u \in Threads \ {t} : thread[u].rows \cap thread[t].rows = {}
      /\ \A u, v \in Threads : u # v => thread'[u].rows \cap thread'[v].rows = {}
  BY <1>1, ThreadsApart
<1>3. N \subseteq S \ thread[t].rows
  BY <1>2 DEF SteadyOf
<1> HIDE DEF S, N
<1>4. table \in Tables
  BY DEF IInv, TableInv
<1>5. ASSUME NEW k \in Keys, k[1] \in Rows, table'[k[1]] = table[k[1]]
      PROVE  ArrayOf(table')[k] = ArrayOf(table)[k]
  BY <1>5 DEF ArrayOf
<1>6. ASSUME NEW a, SameOn(S, a, ArrayOf(table)) PROVE SameOn(N, a, ArrayOf(table'))
  <2>1. \A k \in Keys : k[1] \in Rows
    BY DEF Keys
  <2> QED
    BY <1>3, <1>5, <1>6, <2>1 DEF SameOn
<1>7. ASSUME NEW a, AddsOnly, Within(a, table) PROVE Within(a, table')
  <2> SUFFICES ASSUME NEW k \in Keys, a[k] # <<>> PROVE a[k] = ArrayOf(table')[k]
    BY DEF Within
  <2>1. k[1] \in Rows
    BY DEF Keys
  <2>2. a[k] = ArrayOf(table)[k]
    BY <1>7 DEF Within
  <2>3. table[k[1]] # None
    BY <2>1, <2>2 DEF ArrayOf
  <2>4. table'[k[1]] = table[k[1]]
    BY <1>7, <2>1, <2>3
  <2> QED
    BY <1>5, <2>1, <2>2, <2>4
<1>8. TableInv(store, table, S)
  BY DEF IInv, S
<1>9. TableInv(store', table', N)
  BY <1>6, <1>7, <1>8 DEF TableInv
<1>10. Serves(store, store, thread[t].rows)
  BY DEF Serves
<1>11. ThreadInv(thread', store', table')
  <2>1. ASSUME NEW u \in Threads PROVE CallInv(thread'[u], store', table')
    <3>1. CASE u = t
      BY <1>2, <3>1
    <3>2. CASE u # t
      <4>1. CallInv(thread[u], store, table)
        BY DEF IInv, ThreadInv
      <4>2. thread[u].rows \cap thread[t].rows = {}
        BY <1>2, <3>2
      <4>3. CallInv(thread[u], store, table')
        BY <3>2, <4>1, <4>2, <1>10, OthersKept
      <4> QED
        BY <1>2, <3>2, <4>3
    <3> QED
      BY <3>1, <3>2
  <2> QED
    BY <1>2, <2>1 DEF ThreadInv
<1>12. GoneInv(gone', thread', hurt', store', table')
  <2>1. gone \subseteq Rows /\ \A r \in gone, u \in Threads : r \notin thread[u].rows
    BY DEF IInv, GoneInv
  <2>2. \A r \in gone, u \in Threads : r \notin thread'[u].rows
    BY <1>2, <2>1
  <2>3. ASSUME NEW r \in gone \ hurt PROVE Erased(r, store, table')
    <3>1. table'[r] = table[r]
      BY <2>1
    <3>2. Erased(r, store, table)
      BY DEF IInv, GoneInv
    <3> QED
      BY <3>1, <3>2 DEF Erased
  <2> QED
    BY <2>1, <2>2, <2>3 DEF GoneInv
<1>13. StoreInv(store')
  BY DEF IInv
<1>14. calls' \in 0 .. MaxCalls /\ opens' \in 1 .. MaxOpens /\ hurt' \subseteq Rows
  BY DEF IInv
<1> QED
  BY <1>9, <1>11, <1>12, <1>13, <1>14, NextState DEF N

\* A call begins on rows that no other call works on.
LEMMA StartStep ==
  ASSUME IInv, NEW t \in Threads, NEW at, NEW call, NEW recs, NEW rows,
         Start(t, at, call, recs, rows),
         CallInv([at |-> at, call |-> call, recs |-> recs, todo |-> recs, rows |-> rows],
                 store, table)
  PROVE  IInv'
<1> DEFINE c == [at |-> at, call |-> call, recs |-> recs, todo |-> recs, rows |-> rows]
           S == SteadyOf(thread, hurt)
           N == SteadyOf(thread', hurt')
<1>1. /\ deploy' = deploy /\ store' = store /\ table' = table /\ hurt' = hurt /\ opens' = opens
      /\ calls' = calls + 1 /\ calls < MaxCalls /\ gone' = gone \ rows
      /\ thread' = [thread EXCEPT ![t] = c] /\ thread[t] = Idle
  BY DEF Start
<1>2. c \in Frames /\ c.rows = rows /\ rows \subseteq Rows
  BY DEF CallInv, CallShape, Frames
<1>3. thread \in [Threads -> Frames]
  BY DEF IInv, ThreadInv
<1>4. \A u \in Threads : rows \cap thread[u].rows = {}
  <2>1. ~May("shared")
    BY DEF IInv, Safe, May
  <2> QED
    BY <2>1 DEF Start, Free, Touched
<1>5. CallInv(c, store, table)
  OBVIOUS
<1> HIDE DEF c
<1>6. /\ thread' \in [Threads -> Frames] /\ thread'[t] = c
      /\ \A u \in Threads \ {t} : thread'[u] = thread[u]
  BY <1>1, <1>2, <1>3
<1>7. thread[t].rows = {} /\ thread[t].at = "idle"
  BY <1>1, IdleInv
<1>8. N \subseteq S
  BY <1>1, <1>6, <1>7 DEF SteadyOf
<1> HIDE DEF S, N
<1>9. TableInv(store', table', N)
  <2>1. TableInv(store, table, S)
    BY DEF IInv, S
  <2> QED
    BY <1>1, <1>8, <2>1, FewerRows
<1>10. ThreadInv(thread', store', table')
  <2>1. \A u, v \in Threads : u # v => thread[u].rows \cap thread[v].rows = {}
    BY DEF IInv, ThreadInv
  <2>2. \A u, v \in Threads : u # v => thread'[u].rows \cap thread'[v].rows = {}
    BY <1>2, <1>4, <1>6, <2>1
  <2>3. \A u \in Threads : CallInv(thread[u], store, table)
    BY DEF IInv, ThreadInv
  <2>4. \A u \in Threads : CallInv(thread'[u], store', table')
    BY <1>1, <1>5, <1>6, <2>3
  <2> QED
    BY <1>6, <2>2, <2>4 DEF ThreadInv
<1>11. GoneInv(gone', thread', hurt', store', table')
  <2>1. /\ gone \subseteq Rows /\ \A r \in gone, u \in Threads : r \notin thread[u].rows
        /\ \A r \in gone \ hurt : Erased(r, store, table)
    BY DEF IInv, GoneInv
  <2>2. \A r \in gone', u \in Threads : r \notin thread'[u].rows
    BY <1>1, <1>2, <1>6, <2>1
  <2>3. \A r \in gone' \ hurt' : Erased(r, store', table')
    BY <1>1, <2>1
  <2>4. gone' \subseteq Rows
    BY <1>1, <2>1
  <2> QED
    BY <2>2, <2>3, <2>4 DEF GoneInv
<1>12. calls' \in 0 .. MaxCalls /\ opens' \in 1 .. MaxOpens
  BY <1>1, VectorAssumption DEF IInv
<1>13. StoreInv(store') /\ hurt' \subseteq Rows
  BY <1>1 DEF IInv
<1> QED
  BY <1>1, <1>9, <1>10, <1>11, <1>12, <1>13, NextState DEF N

\* A batch that names as many rows as it has records names each once.
LEMMA CountedApart ==
  ASSUME NEW b \in Seq(Recs), Cardinality(RowsOf(b)) = Len(b)
  PROVE  Apart(b)
<1> DEFINE n == Len(b)
           R == RowsOf(b)
           f == [i \in 1 .. n |-> b[i].row]
<1>1. n \in Nat /\ DOMAIN b = 1 .. n
  OBVIOUS
<1>2. R = {b[i].row : i \in 1 .. n}
  BY <1>1 DEF RowsOf, Range
<1>3. IsFiniteSet(1 .. n) /\ Cardinality(1 .. n) = n
  <2>1. 1 \in Int /\ n \in Int
    BY <1>1
  <2>2. IsFiniteSet(1 .. n) /\ Cardinality(1 .. n) = IF 1 > n THEN 0 ELSE n - 1 + 1
    BY <2>1, FS_Interval, Zenon
  <2> QED
    BY <1>1, <2>2
<1> HIDE DEF n, R
<1>4. f \in Surjection(1 .. n, R)
  BY <1>2 DEF Surjection
<1>5. Cardinality(R) = Cardinality(1 .. n)
  BY <1>3 DEF n, R
<1>6. f \in Injection(1 .. n, R)
  BY <1>3, <1>4, <1>5, FS_SurjSameCardinalityImpliesInj, Zenon
<1>7. \A i, j \in 1 .. n : f[i] = f[j] => i = j
  BY <1>6 DEF Injection, IsInjective
<1> QED
  BY <1>1, <1>7 DEF Apart

\* The batches of a safe deployment.
LEMMA BatchShape ==
  ASSUME IInv, NEW b \in Batches
  PROVE  /\ b \in Seq(Recs) /\ b # <<>> /\ Uniform(b) /\ Apart(b)
         /\ RowsOf(b) \subseteq Rows
<1>1. PICK n \in 1 .. MaxBatch : b \in [1 .. n -> Recs]
  BY DEF Batches
<1>2. n \in Nat /\ n > 0
  BY VectorAssumption
<1>3. b \in Seq(Recs) /\ Len(b) = n /\ DOMAIN b = 1 .. n
  BY <1>1, <1>2
<1>4. ~May("versions") /\ ~May("repeats")
  BY DEF IInv, Safe, May
<1>5. Uniform(b)
  BY <1>1, <1>3, <1>4 DEF Batches, Uniform, TheVersion
<1>6. Cardinality(RowsOf(b)) = Len(b)
  BY <1>4 DEF Batches
<1>7. Apart(b)
  BY <1>3, <1>6, CountedApart
<1>8. RowsOf(b) \subseteq Rows
  BY <1>3, <1>5, KeysOfUniform
<1>9. b # <<>>
  BY <1>2, <1>3
<1> QED
  BY <1>3, <1>5, <1>7, <1>8, <1>9

\* What Safe says of a deployment that the invariant's parts ask about.
LEMMA SafeGives ==
  ASSUME IInv
  PROVE  /\ deploy \in Deployments /\ deploy.sidecar \in BOOLEAN /\ deploy.rows \subseteq Rows
         /\ ~May("mixed")
         /\ AddsOnly => ~May("rewrite") /\ ~May("reindex")
         /\ deploy.sidecar => /\ ~May("early") /\ ~May("midwindow") /\ ~May("compactions")
                              /\ ~(May("window") /\ May("sidecars"))
<1>1. deploy \in Deployments /\ Safe(deploy)
  BY DEF IInv
<1>2. deploy.sidecar \in BOOLEAN /\ deploy.rows \subseteq Rows
  BY <1>1, VectorAssumption
<1> QED
  BY <1>1, <1>2 DEF Safe, May, AddsOnly

\* The frame of a call that begins.
LEMMA FrameFields ==
  ASSUME NEW at \in Steps, NEW call \in Calls, NEW recs \in Seq(Recs), NEW rows \in SUBSET Rows
  PROVE  LET c == [at |-> at, call |-> call, recs |-> recs, todo |-> recs, rows |-> rows] IN
         /\ c \in Frames /\ c.at = at /\ c.call = call /\ c.recs = recs /\ c.todo = recs
         /\ c.rows = rows
  BY DEF Frames

\* add_payloads and add_payload begin.
LEMMA AddBeginsStep ==
  ASSUME IInv, NEW t \in Threads, NEW b \in Batches, NEW call \in {"add", "single"},
         May("rewrite") \/ New(RowsOf(b)), call = "single" => Len(b) = 1 /\ ~store.active,
         Start(t, "upsert", call, b, RowsOf(b))
  PROVE  IInv'
<1> DEFINE c == [at |-> "upsert", call |-> call, recs |-> b, todo |-> b, rows |-> RowsOf(b)]
<1>1. b \in Seq(Recs) /\ b # <<>> /\ Uniform(b) /\ Apart(b) /\ RowsOf(b) \subseteq Rows
  BY BatchShape
<1>2. "upsert" \in Steps /\ call \in Calls
  BY DEF Steps, Calls
<1>3. /\ c \in Frames /\ c.at = "upsert" /\ c.call = call /\ c.recs = b /\ c.todo = b
      /\ c.rows = RowsOf(b)
  BY <1>1, <1>2, FrameFields
<1>4. "upsert" \in StepsOf(call)
  BY DEF StepsOf
<1>5. AddsOnly => \A x \in Range(b) : table[x.row] = None
  BY SafeGives DEF New, RowsOf
<1> HIDE DEF c
<1>6. CallShape(c)
  BY <1>1, <1>3, <1>4 DEF CallShape
<1>7. Adding(c, table)
  BY <1>1, <1>3, <1>5 DEF Adding
<1>8. Clearing(c, table) /\ Relies(c, store)
  BY <1>3 DEF Clearing, Relies
<1>9. CallInv(c, store, table)
  BY <1>6, <1>7, <1>8 DEF CallInv
<1> QED
  BY <1>9, StartStep DEF c

\* delete_vector, delete_payload and delete_all_vectors begin.
LEMMA DeleteBeginsStep ==
  ASSUME IInv, NEW t \in Threads, DeleteBegins(t)
  PROVE  IInv'
<1>1. PICK r \in deploy.rows, call \in {"one", "all"} :
        /\ May("rewrite")
        /\ store.built \/ May("early")
        /\ Start(t, "check", call, <<>>,
                 IF call = "one" THEN {r} ELSE {q \in ModelRows(r.model) : q.item = r.item})
  BY DEF DeleteBegins
<1> DEFINE rows == IF call = "one" THEN {r} ELSE {q \in ModelRows(r.model) : q.item = r.item}
           c == [at |-> "check", call |-> call, recs |-> <<>>, todo |-> <<>>, rows |-> rows]
<1>2. rows \in SUBSET Rows
  BY SafeGives DEF ModelRows
<1>3. call = "one" => \A p, q \in rows : p = q
  OBVIOUS
<1>4. <<>> \in Seq(Recs) /\ Uniform(<<>>) /\ Apart(<<>>)
  BY NoRecords
<1>5. "check" \in Steps /\ call \in Calls
  BY DEF Steps, Calls
<1>6. Start(t, "check", call, <<>>, rows)
  BY <1>1
<1> HIDE DEF rows
<1>7. /\ c \in Frames /\ c.at = "check" /\ c.call = call /\ c.recs = <<>> /\ c.todo = <<>>
      /\ c.rows = rows
  BY <1>2, <1>4, <1>5, FrameFields
<1>8. "check" \in StepsOf(call)
  BY DEF StepsOf
<1>9. ~AddsOnly /\ (deploy.sidecar => store.built)
  BY <1>1, SafeGives
<1> HIDE DEF c
<1>10. CallShape(c)
  BY <1>3, <1>4, <1>7, <1>8, <1>9 DEF CallShape
<1>11. Adding(c, table) /\ Clearing(c, table) /\ Relies(c, store)
  BY <1>7, <1>9 DEF Adding, Clearing, Relies
<1>12. CallInv(c, store, table)
  BY <1>10, <1>11 DEF CallInv
<1> QED
  BY <1>6, <1>12, StartStep DEF c

\* replace_model_vectors begins.
LEMMA ReplaceBeginsStep ==
  ASSUME IInv, NEW t \in Threads, ReplaceBegins(t)
  PROVE  IInv'
<1>1. PICK m \in {r.model : r \in deploy.rows}, b \in Batches \cup {<<>>} :
        /\ May("reindex")
        /\ May("midwindow") \/ ~store.active
        /\ RowsOf(b) \subseteq ModelRows(m)
        /\ Start(t, "check", "replace", b, ModelRows(m))
  BY DEF ReplaceBegins
<1> DEFINE rows == ModelRows(m)
           c == [at |-> "check", call |-> "replace", recs |-> b, todo |-> b, rows |-> rows]
<1>2. rows \in SUBSET Rows
  BY DEF ModelRows
<1>3. b \in Seq(Recs) /\ Uniform(b) /\ Apart(b)
  BY BatchShape, NoRecords
<1>4. "check" \in Steps /\ "replace" \in Calls
  BY DEF Steps, Calls
<1>5. Start(t, "check", "replace", b, rows) /\ RowsOf(b) \subseteq rows
  BY <1>1
<1> HIDE DEF rows
<1>6. /\ c \in Frames /\ c.at = "check" /\ c.call = "replace" /\ c.recs = b /\ c.todo = b
      /\ c.rows = rows
  BY <1>2, <1>3, <1>4, FrameFields
<1>7. "check" \in StepsOf("replace")
  BY DEF StepsOf
<1>8. ~AddsOnly /\ (deploy.sidecar => ~store.active)
  BY <1>1, SafeGives
<1> HIDE DEF c
<1>9. CallShape(c)
  BY <1>3, <1>5, <1>6, <1>7, <1>8 DEF CallShape
<1>10. Adding(c, table) /\ Clearing(c, table) /\ Relies(c, store)
  BY <1>6, <1>8 DEF Adding, Clearing, Relies
<1>11. CallInv(c, store, table)
  BY <1>9, <1>10 DEF CallInv
<1> QED
  BY <1>5, <1>11, StartStep DEF c

\* destroy_all_vectors begins.
LEMMA DestroyBeginsStep ==
  ASSUME IInv, NEW t \in Threads, DestroyBegins(t)
  PROVE  IInv'
<1> DEFINE c == [at |-> "wipe", call |-> "destroy", recs |-> <<>>, todo |-> <<>>, rows |-> Rows]
<1>1. <<>> \in Seq(Recs) /\ Uniform(<<>>) /\ Apart(<<>>)
  BY NoRecords
<1>2. "wipe" \in Steps /\ "destroy" \in Calls /\ Rows \in SUBSET Rows
  BY DEF Steps, Calls
<1>3. Start(t, "wipe", "destroy", <<>>, Rows) /\ May("rewrite")
  BY DEF DestroyBegins
<1>4. /\ c \in Frames /\ c.at = "wipe" /\ c.call = "destroy" /\ c.recs = <<>> /\ c.todo = <<>>
      /\ c.rows = Rows
  BY <1>1, <1>2, FrameFields
<1>5. "wipe" \in StepsOf("destroy")
  BY DEF StepsOf
<1>6. ~AddsOnly
  BY <1>3, SafeGives
<1> HIDE DEF c
<1>7. CallShape(c)
  BY <1>1, <1>4, <1>5, <1>6 DEF CallShape
<1>8. Adding(c, table) /\ Clearing(c, table) /\ Relies(c, store)
  BY <1>4 DEF Adding, Clearing, Relies
<1>9. CallInv(c, store, table)
  BY <1>7, <1>8 DEF CallInv
<1> QED
  BY <1>3, <1>9, StartStep DEF c

\* The step a call is at tells which call it is.
LEMMA CallOf ==
  ASSUME NEW c, CallShape(c)
  PROVE  /\ c.at \in {"upsert", "mirror"} => c.call \in {"add", "single"}
         /\ c.at \in {"check", "publish"} => c.call \in {"one", "all", "replace"}
         /\ c.at \in {"erase", "tombstone"} => c.call \in {"one", "all"}
         /\ c.at \in {"swap", "rebuild"} => c.call = "replace"
         /\ c.at \in {"wipe", "reset"} => c.call = "destroy"
         /\ c.at = "idle" <=> c.call = "none"
<1>1. c.call \in Calls /\ c.at \in StepsOf(c.call)
  BY DEF CallShape, Frames
<1>2. /\ StepsOf("none") = {"idle"}
      /\ StepsOf("add") = {"upsert", "mirror"} /\ StepsOf("single") = {"upsert", "mirror"}
      /\ StepsOf("one") = {"check", "publish", "erase", "tombstone"}
      /\ StepsOf("all") = {"check", "publish", "erase", "tombstone"}
      /\ StepsOf("replace") = {"check", "publish", "swap", "rebuild"}
      /\ StepsOf("destroy") = {"wipe", "reset"}
  BY DEF StepsOf
<1> QED
  BY <1>1, <1>2 DEF Calls

\* The batch without its first record.
LEMMA TailOf ==
  ASSUME NEW q \in Seq(Recs), q # <<>>, Apart(q)
  PROVE  /\ Head(q) \in Recs /\ Head(q) \in Range(q) /\ Tail(q) \in Seq(Recs) /\ Apart(Tail(q))
         /\ Tail(q) = <<>> <=> Len(q) = 1
         /\ Range(q) = {Head(q)} \cup Range(Tail(q))
         /\ \A x \in Range(Tail(q)) : x.row # Head(q).row
<1>1. /\ Head(q) = q[1] /\ 1 \in DOMAIN q /\ Head(q) \in Recs /\ Tail(q) \in Seq(Recs)
      /\ Len(q) \in Nat /\ Len(q) > 0 /\ DOMAIN q = 1 .. Len(q)
      /\ Len(Tail(q)) = Len(q) - 1 /\ DOMAIN Tail(q) = 1 .. (Len(q) - 1)
      /\ \A i \in 1 .. (Len(q) - 1) : Tail(q)[i] = q[i + 1]
  OBVIOUS
<1>2. Tail(q) = <<>> <=> Len(q) = 1
  BY <1>1
<1>3. Apart(Tail(q))
  <2> SUFFICES ASSUME NEW i \in DOMAIN Tail(q), NEW j \in DOMAIN Tail(q),
                      Tail(q)[i].row = Tail(q)[j].row
               PROVE  i = j
    BY DEF Apart
  <2>1. q[i + 1].row = q[j + 1].row /\ i + 1 \in DOMAIN q /\ j + 1 \in DOMAIN q
    BY <1>1
  <2>2. i + 1 = j + 1
    BY <2>1 DEF Apart
  <2> QED
    BY <1>1, <2>2
<1>4. ASSUME NEW x \in Range(Tail(q)) PROVE x \in Range(q) /\ x.row # Head(q).row
  <2>1. PICK i \in DOMAIN Tail(q) : x = Tail(q)[i]
    BY DEF Range
  <2>2. x = q[i + 1] /\ i + 1 \in DOMAIN q /\ i + 1 # 1
    BY <1>1, <2>1
  <2> QED
    BY <1>1, <2>2 DEF Apart, Range
<1>5. ASSUME NEW x \in Range(q), x # Head(q) PROVE x \in Range(Tail(q))
  <2>1. PICK i \in DOMAIN q : x = q[i]
    BY DEF Range
  <2>2. i - 1 \in 1 .. (Len(q) - 1) /\ i - 1 + 1 = i
    BY <1>1, <1>5, <2>1
  <2>3. x = Tail(q)[i - 1]
    BY <1>1, <2>1, <2>2
  <2> QED
    BY <1>1, <2>2, <2>3 DEF Range
<1>6. Head(q) \in Range(q)
  BY <1>1 DEF Range
<1> QED
  BY <1>1, <1>2, <1>3, <1>4, <1>5, <1>6

\* One upsert of an add.
LEMMA UpsertStep ==
  ASSUME IInv, NEW t \in Threads, Upsert(t)
  PROVE  IInv'
<1> DEFINE d == thread[t]
           r == Head(d.todo)
           c == [d EXCEPT !.todo = Tail(d.todo), !.at = IF Len(d.todo) = 1 THEN "mirror" ELSE "upsert"]
<1>1. /\ d \in Frames /\ thread \in [Threads -> Frames] /\ CallInv(d, store, table)
      /\ d.at = "upsert"
  BY DEF IInv, ThreadInv, Upsert
<1>2. d.call \in {"add", "single"}
  BY <1>1, CallOf DEF CallInv
<1>3. /\ d.rows = RowsOf(d.recs) /\ d.recs # <<>> /\ (d.call = "single" => Len(d.recs) = 1)
      /\ Apart(d.todo) /\ Range(d.todo) \subseteq Range(d.recs) /\ d.todo # <<>>
      /\ \A x \in Range(d.recs) : x \in Range(d.todo) \/ StoredIn(x, table)
      /\ AddsOnly => \A x \in Range(d.todo) : table[x.row] = None
  BY <1>1, <1>2 DEF CallInv, Adding
<1>4. /\ d.recs \in Seq(Recs) /\ d.todo \in Seq(Recs) /\ Uniform(d.recs) /\ Apart(d.recs)
      /\ d.rows \subseteq Rows /\ DOMAIN d = {"at", "call", "recs", "todo", "rows"}
  BY <1>1 DEF CallInv, CallShape, Frames
<1>5. Moves(t, c)
  BY <1>1, <1>4 DEF Upsert, Moves
<1>6. /\ c.at \in {"upsert", "mirror"} /\ (c.at = "upsert" <=> Len(d.todo) # 1)
      /\ c.todo = Tail(d.todo) /\ c.recs = d.recs /\ c.call = d.call /\ c.rows = d.rows
  BY <1>1, <1>4
<1>7. /\ r \in Recs /\ r \in Range(d.todo) /\ Tail(d.todo) \in Seq(Recs) /\ Apart(Tail(d.todo))
      /\ (Tail(d.todo) = <<>> <=> Len(d.todo) = 1)
      /\ Range(d.todo) = {r} \cup Range(Tail(d.todo))
      /\ \A x \in Range(Tail(d.todo)) : x.row # r.row
  BY <1>3, <1>4, TailOf
<1>8. c \in Frames
  <2>1. {"upsert", "mirror"} \subseteq Steps
    BY DEF Steps
  <2> QED
    BY <1>1, <1>7, <2>1 DEF Frames
<1>9. /\ deploy' = deploy /\ store' = store /\ hurt' = hurt /\ gone' = gone /\ calls' = calls
      /\ opens' = opens /\ table' = [table EXCEPT ![r.row] = [ver |-> r.ver, val |-> r.val]]
  BY DEF Upsert, Fixed
<1>10. r \in Range(d.recs) /\ r.ver = TheVersion /\ r.row \in d.rows
  <2>1. r \in Range(d.recs)
    BY <1>3, <1>7
  <2> QED
    BY <1>3, <1>4, <2>1 DEF Range, Uniform, RowsOf
<1> HIDE DEF c, d, r
<1>11. /\ table \in Tables /\ \A q \in Rows : table[q] # None => table[q].ver = TheVersion
  BY DEF IInv, TableInv
<1>12. /\ table' \in Tables /\ \A q \in Rows : q # r.row => table'[q] = table[q]
       /\ table'[r.row] = [ver |-> r.ver, val |-> r.val]
  BY <1>4, <1>7, <1>9, <1>10, <1>11 DEF Tables, Recs
<1>13. \A q \in Rows : table'[q] # None => table'[q].ver = TheVersion
  BY <1>10, <1>11, <1>12
<1>14. AddsOnly => \A q \in Rows : table[q] # None => table'[q] = table[q]
  BY <1>3, <1>7, <1>12
<1>15. CallShape(c)
  <2>1. c.at \in StepsOf(c.call)
    BY <1>2, <1>6 DEF StepsOf
  <2> QED
    BY <1>2, <1>4, <1>6, <1>8, <2>1 DEF CallShape
<1>16. Adding(c, table')
  <2>1. \A x \in Range(d.recs) : x.row \in Rows
    BY <1>4 DEF Range, Uniform, Recs
  <2>2. ASSUME NEW x \in Range(d.recs), x \notin Range(Tail(d.todo)) PROVE StoredIn(x, table')
    <3>1. CASE x.row = r.row
      <4>1. x = r
        BY <1>4, <1>10, <3>1 DEF Range, Apart
      <4> QED
        BY <1>12, <4>1 DEF StoredIn
    <3>2. CASE x.row # r.row
      <4>1. StoredIn(x, table)
        BY <1>3, <1>7, <2>2, <3>2
      <4> QED
        BY <1>12, <2>1, <3>2, <4>1 DEF StoredIn
    <3> QED
      BY <3>1, <3>2
  <2>3. AddsOnly => \A x \in Range(Tail(d.todo)) : table'[x.row] = None
    BY <1>3, <1>7, <1>12, <2>1
  <2>4. Range(Tail(d.todo)) \subseteq Range(d.recs)
    BY <1>3, <1>7
  <2> QED
    BY <1>3, <1>6, <1>7, <2>2, <2>3, <2>4 DEF Adding
<1>17. Clearing(c, table') /\ Relies(c, store)
  <2>1. d.call = "single" => ~store.active
    BY <1>1 DEF CallInv, Relies
  <2> QED
    BY <1>2, <1>6, <2>1 DEF Clearing, Relies
<1>18. CallInv(c, store, table')
  BY <1>15, <1>16, <1>17 DEF CallInv
<1>19. c.at \in Changing /\ c.rows = thread[t].rows
  BY <1>6 DEF Changing, d
<1>20. \A q \in Rows \ thread[t].rows : table'[q] = table[q]
  BY <1>10, <1>12 DEF d
<1> QED
  BY <1>5, <1>9, <1>12, <1>13, <1>14, <1>18, <1>19, <1>20, TableStep

\* Before its change of the table a call's rows are steady, or hurt by an earlier one.
LEMMA QuietRows ==
  ASSUME IInv, NEW t \in Threads, thread[t].at \notin Changing
  PROVE  \A r \in thread[t].rows : r \in hurt \/ r \in SteadyOf(thread, hurt)
<1>1. \A u \in Threads \ {t} : thread[u].rows \cap thread[t].rows = {}
  BY DEF IInv, ThreadInv
<1>2. thread[t].rows \subseteq Rows
  BY DEF IInv, ThreadInv, Frames
<1> QED
  BY <1>1, <1>2 DEF SteadyOf

\* The call of a thread.
LEMMA CallGives ==
  ASSUME IInv, NEW t \in Threads
  PROVE  /\ thread \in [Threads -> Frames] /\ thread[t] \in Frames
         /\ CallInv(thread[t], store, table) /\ CallShape(thread[t])
         /\ thread[t].rows \subseteq Rows
         /\ thread[t].recs \in Seq(Recs) /\ Uniform(thread[t].recs) /\ Apart(thread[t].recs)
         /\ StoreInv(store) /\ TableInv(store, table, SteadyOf(thread, hurt))
         /\ table \in Tables /\ \A r \in Rows : table[r] # None => table[r].ver = TheVersion
         /\ hurt \subseteq Rows
<1>1. thread \in [Threads -> Frames] /\ CallInv(thread[t], store, table)
  BY DEF IInv, ThreadInv
<1>2. /\ StoreInv(store) /\ TableInv(store, table, SteadyOf(thread, hurt))
      /\ table \in Tables /\ (\A r \in Rows : table[r] # None => table[r].ver = TheVersion)
      /\ hurt \subseteq Rows
  BY DEF IInv, TableInv
<1>3. CallShape(thread[t])
  BY <1>1 DEF CallInv
<1>4. /\ thread[t] \in Frames /\ thread[t].rows \subseteq Rows /\ thread[t].recs \in Seq(Recs)
      /\ Uniform(thread[t].recs) /\ Apart(thread[t].recs)
  BY <1>3 DEF CallShape, Frames
<1> QED
  BY <1>1, <1>2, <1>3, <1>4

\* A call goes to another of its steps and changes nothing else of its own.
LEMMA GotoMoves ==
  ASSUME NEW d \in Frames, NEW at \in Steps
  PROVE  LET c == [d EXCEPT !.at = at] IN
         /\ c \in Frames /\ c.at = at /\ c.call = d.call /\ c.recs = d.recs
         /\ c.todo = d.todo /\ c.rows = d.rows
  BY DEF Frames

\* add_payload or add_payloads gives up: a table write failed.
LEMMA UpsertFailsStep ==
  ASSUME IInv, NEW t \in Threads, UpsertFails(t)
  PROVE  IInv'
<1>1. /\ Moves(t, Idle) /\ deploy' = deploy /\ table' = table /\ store' = store
      /\ hurt' = hurt \cup thread[t].rows /\ gone' = gone /\ calls' = calls /\ opens' = opens
  BY DEF UpsertFails, ReturnsErr, Returns, Moves, Fixed
<1>2. /\ StoreInv(store) /\ TableInv(store, table, SteadyOf(thread, hurt))
      /\ thread[t].rows \subseteq Rows /\ hurt \subseteq Rows
  BY CallGives
<1>3. Kept(store, store', table, SteadyOf(thread, hurt), {})
  BY <1>1, <1>2, SameKept
<1>4. CallInv(Idle, store', table) /\ Idle.rows = {}
  BY IdleInv
<1>5. hurt' \subseteq Rows /\ \A r \in Rows \ thread[t].rows : r \in hurt' <=> r \in hurt
  BY <1>1, <1>2
<1>6. \A r \in thread[t].rows \ {} : r \in hurt'
  BY <1>1
<1>7. gone' = gone \cup {} /\ (store'.active => store.active)
  BY <1>1
<1> QED
  BY <1>1, <1>3, <1>4, <1>5, <1>6, <1>7, StoreStep

\* replace_model_vectors gives up: its transaction rolls back.
LEMMA SwapFailsStep ==
  ASSUME IInv, NEW t \in Threads, SwapFails(t)
  PROVE  IInv'
<1>1. /\ Moves(t, Idle) /\ deploy' = deploy /\ table' = table /\ store' = store
      /\ hurt' = hurt /\ gone' = gone /\ calls' = calls /\ opens' = opens
      /\ thread[t].at = "swap"
  BY DEF SwapFails, Returns, Moves, Fixed
<1>2. /\ StoreInv(store) /\ TableInv(store, table, SteadyOf(thread, hurt))
      /\ hurt \subseteq Rows
  BY CallGives
<1>3. Kept(store, store', table, SteadyOf(thread, hurt), {})
  BY <1>1, <1>2, SameKept
<1>4. CallInv(Idle, store', table) /\ Idle.rows = {}
  BY IdleInv
<1>5. hurt' \subseteq Rows /\ \A r \in Rows \ thread[t].rows : r \in hurt' <=> r \in hurt
  BY <1>1, <1>2
<1>6. thread[t].at \notin Changing
  BY <1>1 DEF Changing
<1>7. \A r \in thread[t].rows : r \in hurt' \/ r \in SteadyOf(thread, hurt)
  BY <1>1, <1>6, QuietRows
<1>8. gone' = gone \cup {} /\ (store'.active => store.active)
  BY <1>1
<1> QED
  BY <1>1, <1>3, <1>4, <1>5, <1>7, <1>8, StoreStep

\* With no deferred write waiting a delete finds all it has to remove.
LEMMA NothingDeferred ==
  ASSUME NEW s, StoreInv(s), ~s.dirty, deploy \in Deployments
  PROVE  /\ RowsOf(s.pending) = {}
         /\ \A k \in Keys : s.arr[k] # <<>> => s.bf[k] # <<>>
<1>1. RowsOf(s.pending) = {}
  BY NoRecords DEF StoreInv, StoreFlags
<1>2. ASSUME NEW k \in Keys, s.arr[k] # <<>> PROVE s.bf[k] # <<>>
  <2>1. s.arr # Empty
    BY <1>2, EmptyArray
  <2>2. deploy.sidecar /\ s.built
    BY <2>1, HeldFlat, ShapeGives DEF StoreInv, StoreFlags
  <2>3. LiveKeys(s.arr) \subseteq LiveKeys(s.bf)
    BY <2>2 DEF StoreInv, SidecarInv
  <2> QED
    BY <1>2, <2>3 DEF LiveKeys
<1> QED
  BY <1>1, <1>2

\* The frame of a delete or a replacement that goes on, to its publish or past it.
LEMMA CheckedCall ==
  ASSUME IInv, NEW t \in Threads, NEW u, NEW at \in {"publish", "erase", "swap"},
         thread[t].at \in {"check", "publish"},
         at # "publish" => at = IF thread[t].call = "replace" THEN "swap" ELSE "erase",
         at # "publish" => ~u.dirty, StoreInv(u), Serves(store, u, {}),
         u.active => store.active
  PROVE  LET c == [thread[t] EXCEPT !.at = at] IN
         CallInv(c, u, table) /\ c.rows = thread[t].rows /\ c.at = at
<1> DEFINE d == thread[t]
           c == [d EXCEPT !.at = at]
<1>1. d \in Frames /\ CallShape(d) /\ CallInv(d, store, table)
  BY CallGives
<1>2. d.call \in {"one", "all", "replace"}
  BY <1>1, CallOf
<1>3. {"publish", "erase", "swap"} \subseteq Steps
  BY DEF Steps
<1>4. /\ c \in Frames /\ c.at = at /\ c.call = d.call /\ c.recs = d.recs
      /\ c.todo = d.todo /\ c.rows = d.rows
  BY <1>1, <1>3, GotoMoves
<1> HIDE DEF c, d
<1>5. c.at \in StepsOf(c.call)
  <2>1. /\ StepsOf("one") = {"check", "publish", "erase", "tombstone"}
        /\ StepsOf("all") = {"check", "publish", "erase", "tombstone"}
        /\ StepsOf("replace") = {"check", "publish", "swap", "rebuild"}
    BY DEF StepsOf
  <2> QED
    BY <1>2, <1>4, <2>1 DEF d
<1>6. CallShape(c)
  BY <1>1, <1>2, <1>4, <1>5 DEF CallShape
<1>7. Adding(c, table) /\ Clearing(c, table)
  BY <1>2, <1>4 DEF Adding, Clearing
<1>8. Relies(c, u)
  <2>1. ASSUME c.at # "publish"
        PROVE  /\ c.rows \cap RowsOf(u.pending) = {}
               /\ \A k \in Keys : k[1] \in c.rows /\ u.arr[k] # <<>> => u.bf[k] # <<>>
    BY <1>4, <2>1, NothingDeferred, SafeGives
  <2>2. (c.call \in {"one", "all"} /\ deploy.sidecar => u.built)
    BY <1>1, <1>4 DEF CallInv, Relies, Serves
  <2>3. c.call = "replace" /\ deploy.sidecar => ~u.active
    BY <1>1, <1>4 DEF CallInv, Relies
  <2> QED
    BY <1>2, <1>4, <2>1, <2>2, <2>3 DEF Relies
<1> QED
  BY <1>4, <1>6, <1>7, <1>8 DEF CallInv, c, d

\* publish_if_deferred_dirty reads the flag.
LEMMA CheckDirtyStep ==
  ASSUME IInv, NEW t \in Threads, CheckDirty(t)
  PROVE  IInv'
<1> DEFINE at == IF store.dirty THEN "publish"
                 ELSE IF thread[t].call = "replace" THEN "swap" ELSE "erase"
           c == [thread[t] EXCEPT !.at = at]
<1>1. /\ deploy' = deploy /\ table' = table /\ store' = store /\ thread[t].at = "check"
      /\ hurt' = hurt /\ gone' = gone /\ calls' = calls /\ opens' = opens
      /\ thread' = [thread EXCEPT ![t].at = at]
  BY DEF CheckDirty, Goto, Fixed
<1>2. /\ StoreInv(store) /\ TableInv(store, table, SteadyOf(thread, hurt))
      /\ hurt \subseteq Rows
  BY CallGives
<1>3. Moves(t, c)
  BY <1>1 DEF Moves
<1>4. Kept(store, store', table, SteadyOf(thread, hurt), {})
  BY <1>1, <1>2, SameKept
<1>5. /\ at \in {"publish", "erase", "swap"} /\ (at # "publish" => ~store.dirty)
      /\ at # "publish" => at = IF thread[t].call = "replace" THEN "swap" ELSE "erase"
  OBVIOUS
<1>6. Serves(store, store, {})
  BY DEF Serves
<1> HIDE DEF at
<1>7. CallInv(c, store, table) /\ c.rows = thread[t].rows /\ c.at = at
  BY <1>1, <1>2, <1>5, <1>6, CheckedCall
<1>8. CallInv(c, store', table)
  BY <1>1, <1>7
<1> HIDE DEF c
<1>9. hurt' \subseteq Rows /\ \A r \in Rows \ thread[t].rows : r \in hurt' <=> r \in hurt
  BY <1>1, <1>2
<1>10. thread[t].at \notin Changing
  BY <1>1 DEF Changing
<1>11. \A r \in thread[t].rows : r \in hurt' \/ r \in SteadyOf(thread, hurt)
  BY <1>1, <1>10, QuietRows
<1>12. gone' = gone \cup {} /\ (store'.active => store.active)
  BY <1>1
<1> QED
  BY <1>1, <1>3, <1>4, <1>7, <1>8, <1>9, <1>11, <1>12, StoreStep

\* publish_if_deferred_dirty publishes.
LEMMA PublishFirstStep ==
  ASSUME IInv, NEW t \in Threads, PublishFirst(t)
  PROVE  IInv'
<1> DEFINE at == IF thread[t].call = "replace" THEN "swap" ELSE "erase"
           c == [thread[t] EXCEPT !.at = at]
<1>1. /\ deploy' = deploy /\ table' = table /\ store' = Published(store)
      /\ thread[t].at = "publish"
      /\ hurt' = hurt /\ gone' = gone /\ calls' = calls /\ opens' = opens
      /\ thread' = [thread EXCEPT ![t].at = at]
  BY DEF PublishFirst, Goto, Fixed
<1>2. /\ StoreInv(store) /\ TableInv(store, table, SteadyOf(thread, hurt))
      /\ hurt \subseteq Rows /\ deploy \in Deployments
  BY CallGives, SafeGives
<1>3. Moves(t, c)
  BY <1>1 DEF Moves
<1>4. /\ Kept(store, store', table, SteadyOf(thread, hurt), {})
      /\ store'.active = FALSE /\ store'.dirty = FALSE
  BY <1>1, <1>2, PublishedKept
<1>5. at \in {"publish", "erase", "swap"} /\ at = IF thread[t].call = "replace" THEN "swap" ELSE "erase"
  OBVIOUS
<1>6. Serves(store, store', {}) /\ StoreInv(store')
  BY <1>4 DEF Kept
<1> HIDE DEF at
<1>7. CallInv(c, store', table) /\ c.rows = thread[t].rows /\ c.at = at
  BY <1>1, <1>4, <1>5, <1>6, CheckedCall
<1> HIDE DEF c
<1>8. hurt' \subseteq Rows /\ \A r \in Rows \ thread[t].rows : r \in hurt' <=> r \in hurt
  BY <1>1, <1>2
<1>9. thread[t].at \notin Changing
  BY <1>1 DEF Changing
<1>10. \A r \in thread[t].rows : r \in hurt' \/ r \in SteadyOf(thread, hurt)
  BY <1>1, <1>9, QuietRows
<1>11. gone' = gone \cup {} /\ (store'.active => store.active)
  BY <1>1, <1>4
<1> QED
  BY <1>1, <1>3, <1>4, <1>7, <1>8, <1>10, <1>11, StoreStep

\* The delete of the table's rows.
LEMMA EraseStep ==
  ASSUME IInv, NEW t \in Threads, Erase(t)
  PROVE  IInv'
<1> DEFINE d == thread[t]
           c == [d EXCEPT !.at = "tombstone"]
<1>1. /\ deploy' = deploy /\ store' = store /\ hurt' = hurt /\ gone' = gone /\ calls' = calls
      /\ opens' = opens /\ d.at = "erase" /\ thread' = [thread EXCEPT ![t].at = "tombstone"]
      /\ table' = [r \in Rows |-> IF r \in d.rows THEN None ELSE table[r]]
  BY DEF Erase, Goto, Fixed
<1>2. /\ d \in Frames /\ CallInv(d, store, table) /\ CallShape(d) /\ table \in Tables
      /\ \A r \in Rows : table[r] # None => table[r].ver = TheVersion
  BY CallGives
<1>3. Moves(t, c)
  BY <1>1 DEF Moves
<1>4. "tombstone" \in Steps
  BY DEF Steps
<1>5. /\ c \in Frames /\ c.at = "tombstone" /\ c.call = d.call /\ c.recs = d.recs
      /\ c.todo = d.todo /\ c.rows = d.rows
  BY <1>2, <1>4, GotoMoves
<1>6. d.call \in {"one", "all"}
  BY <1>1, <1>2, CallOf
<1> HIDE DEF c, d
<1>7. ~AddsOnly
  BY <1>2, <1>6 DEF CallShape
<1>8. /\ table' \in Tables /\ \A r \in Rows \ d.rows : table'[r] = table[r]
      /\ \A r \in d.rows : r \in Rows /\ table'[r] = None
      /\ \A r \in Rows : table'[r] # None => table'[r].ver = TheVersion
  BY <1>1, <1>2 DEF Tables, Frames
<1>9. CallShape(c)
  <2>1. c.at \in StepsOf(c.call)
    BY <1>5, <1>6 DEF StepsOf
  <2> QED
    BY <1>2, <1>5, <1>6, <2>1 DEF CallShape
<1>10. Adding(c, table') /\ Clearing(c, table')
  BY <1>5, <1>6, <1>8 DEF Adding, Clearing
<1>11. Relies(c, store)
  BY <1>1, <1>2, <1>5, <1>6 DEF CallInv, Relies
<1>12. CallInv(c, store, table')
  BY <1>9, <1>10, <1>11 DEF CallInv
<1>13. c.at \in Changing /\ c.rows = thread[t].rows
  BY <1>5 DEF Changing, d
<1>14. \A r \in Rows \ thread[t].rows : table'[r] = table[r]
  BY <1>8 DEF d
<1> QED
  BY <1>1, <1>3, <1>7, <1>8, <1>12, <1>13, <1>14, TableStep

\* The transaction of replace_model_vectors.
LEMMA SwapStep ==
  ASSUME IInv, NEW t \in Threads, Swap(t)
  PROVE  IInv'
<1> DEFINE d == thread[t]
           b == d.recs
           c == [d EXCEPT !.at = "rebuild"]
           Is(r) == CHOOSE i \in DOMAIN b : b[i].row = r
<1>1. /\ deploy' = deploy /\ store' = store /\ hurt' = hurt /\ gone' = gone /\ calls' = calls
      /\ opens' = opens /\ d.at = "swap" /\ thread' = [thread EXCEPT ![t].at = "rebuild"]
      /\ table' = [r \in Rows |->
                     IF r \notin d.rows THEN table[r]
                     ELSE IF r \in RowsOf(b)
                       THEN [ver |-> b[Is(r)].ver, val |-> b[Is(r)].val]
                       ELSE None]
  BY DEF Swap, Goto, Fixed
<1>2. /\ d \in Frames /\ CallInv(d, store, table) /\ CallShape(d) /\ table \in Tables
      /\ d.recs \in Seq(Recs) /\ Uniform(b) /\ Apart(b) /\ d.rows \subseteq Rows
      /\ \A r \in Rows : table[r] # None => table[r].ver = TheVersion
  BY CallGives
<1>3. Moves(t, c)
  BY <1>1 DEF Moves
<1>4. "rebuild" \in Steps
  BY DEF Steps
<1>5. /\ c \in Frames /\ c.at = "rebuild" /\ c.call = d.call /\ c.recs = d.recs
      /\ c.todo = d.todo /\ c.rows = d.rows
  BY <1>2, <1>4, GotoMoves
<1>6. d.call = "replace"
  BY <1>1, <1>2, CallOf
<1>7. ASSUME NEW r \in RowsOf(b)
      PROVE  /\ [ver |-> b[Is(r)].ver, val |-> b[Is(r)].val] \in [ver: Versions, val: Vals]
             /\ b[Is(r)].ver = TheVersion
  <2>1. \E i \in DOMAIN b : b[i].row = r
    BY DEF RowsOf, Range
  <2>2. Is(r) \in DOMAIN b
    BY <2>1
  <2>3. b[Is(r)] \in Recs /\ b[Is(r)].ver = TheVersion
    BY <1>2, <2>2 DEF Uniform
  <2> QED
    BY <2>3 DEF Recs
<1> HIDE DEF c, d, b, Is
<1>8. ~AddsOnly
  BY <1>2, <1>6 DEF CallShape
<1>9. /\ \A r \in Rows \ d.rows : table'[r] = table[r]
      /\ \A r \in d.rows \ RowsOf(b) : table'[r] = None
      /\ \A r \in d.rows \cap RowsOf(b) : table'[r] = [ver |-> b[Is(r)].ver, val |-> b[Is(r)].val]
      /\ table' = [r \in Rows |-> table'[r]]
  BY <1>1, <1>2
<1>10. ASSUME NEW r \in Rows
       PROVE  /\ table'[r] \in [ver: Versions, val: Vals] \cup {None}
              /\ table'[r] # None => table'[r].ver = TheVersion
  <2>1. CASE r \notin d.rows
    BY <1>2, <1>9, <2>1 DEF Tables
  <2>2. CASE r \in d.rows \ RowsOf(b)
    BY <1>9, <2>2
  <2>3. CASE r \in d.rows \cap RowsOf(b)
    <3> DEFINE x == b[Is(r)]
    <3>1. table'[r] = [ver |-> x.ver, val |-> x.val]
      BY <1>9, <2>3
    <3>2. [ver |-> x.ver, val |-> x.val] \in [ver: Versions, val: Vals] /\ x.ver = TheVersion
      BY <1>7, <2>3
    <3> HIDE DEF x
    <3> QED
      BY <3>1, <3>2
  <2> QED
    BY <2>1, <2>2, <2>3
<1>11. table' \in Tables
  BY <1>9, <1>10 DEF Tables
<1>12. CallShape(c)
  <2>1. c.at \in StepsOf(c.call)
    BY <1>5, <1>6 DEF StepsOf
  <2> QED
    BY <1>2, <1>5, <1>6, <2>1 DEF CallShape
<1>13. Adding(c, table') /\ Clearing(c, table')
  BY <1>5, <1>6, <1>9 DEF Adding, Clearing, b
<1>14. Relies(c, store)
  BY <1>1, <1>2, <1>5, <1>6 DEF CallInv, Relies
<1>15. CallInv(c, store, table')
  BY <1>12, <1>13, <1>14 DEF CallInv
<1>16. c.at \in Changing /\ c.rows = thread[t].rows
  BY <1>5 DEF Changing, d
<1>17. \A r \in Rows \ thread[t].rows : table'[r] = table[r]
  BY <1>9 DEF d
<1> QED
  BY <1>1, <1>3, <1>8, <1>10, <1>11, <1>15, <1>16, <1>17, TableStep

\* destroy_all_vectors empties the table.
LEMMA WipeStep ==
  ASSUME IInv, NEW t \in Threads, Wipe(t)
  PROVE  IInv'
<1> DEFINE d == thread[t]
           c == [d EXCEPT !.at = "reset"]
<1>1. /\ deploy' = deploy /\ store' = store /\ hurt' = hurt /\ gone' = gone /\ calls' = calls
      /\ opens' = opens /\ d.at = "wipe" /\ thread' = [thread EXCEPT ![t].at = "reset"]
      /\ table' = [r \in Rows |-> None]
  BY DEF Wipe, Goto, Fixed
<1>2. d \in Frames /\ CallInv(d, store, table) /\ CallShape(d) /\ d.rows \subseteq Rows
  BY CallGives
<1>3. Moves(t, c)
  BY <1>1 DEF Moves
<1>4. "reset" \in Steps
  BY DEF Steps
<1>5. /\ c \in Frames /\ c.at = "reset" /\ c.call = d.call /\ c.recs = d.recs
      /\ c.todo = d.todo /\ c.rows = d.rows
  BY <1>2, <1>4, GotoMoves
<1>6. d.call = "destroy"
  BY <1>1, <1>2, CallOf
<1> HIDE DEF c, d
<1>7. ~AddsOnly /\ d.rows = Rows
  BY <1>2, <1>6 DEF CallShape
<1>8. table' \in Tables /\ \A r \in Rows : table'[r] = None
  BY <1>1 DEF Tables
<1>9. CallShape(c)
  <2>1. c.at \in StepsOf(c.call)
    BY <1>5, <1>6 DEF StepsOf
  <2> QED
    BY <1>2, <1>5, <1>6, <2>1 DEF CallShape
<1>10. Adding(c, table') /\ Clearing(c, table')
  BY <1>2, <1>5, <1>6, <1>8 DEF Adding, Clearing
<1>11. Relies(c, store)
  BY <1>5, <1>6 DEF Relies
<1>12. CallInv(c, store, table')
  BY <1>9, <1>10, <1>11 DEF CallInv
<1>13. c.at \in Changing /\ c.rows = thread[t].rows
  BY <1>5 DEF Changing, d
<1>14. \A r \in Rows \ thread[t].rows : table'[r] = table[r]
  BY <1>7 DEF d
<1> QED
  BY <1>1, <1>3, <1>7, <1>8, <1>12, <1>13, <1>14, TableStep

\* A call returns Ok: its rows are in line with the table.
LEMMA OkStep ==
  ASSUME IInv, NEW t \in Threads, NEW lost, ReturnsOk(t), Fixed, table' = table,
         Kept(store, store', table, SteadyOf(thread, hurt), thread[t].rows),
         lost \subseteq thread[t].rows, gone' = gone \cup lost,
         \A r \in lost : Erased(r, store', table), store'.active => store.active
  PROVE  IInv'
<1>1. /\ Moves(t, Idle) /\ deploy' = deploy /\ hurt' = hurt \ thread[t].rows
      /\ calls' = calls /\ opens' = opens
  BY DEF ReturnsOk, Returns, Moves, Fixed
<1>2. thread[t].rows \subseteq Rows /\ hurt \subseteq Rows
  BY CallGives
<1>3. CallInv(Idle, store', table) /\ Idle.rows = {}
  BY IdleInv
<1>4. hurt' \subseteq Rows /\ \A r \in Rows \ thread[t].rows : r \in hurt' <=> r \in hurt
  BY <1>1, <1>2
<1>5. lost \cap Idle.rows = {} /\ Idle.rows \subseteq thread[t].rows
  BY <1>3
<1> QED
  BY <1>1, <1>3, <1>4, <1>5, StoreStep

\* A call returns an error: its rows are hurt.
LEMMA ErrStep ==
  ASSUME IInv, NEW t \in Threads, ReturnsErr(t), Fixed, table' = table, gone' = gone,
         Kept(store, store', table, SteadyOf(thread, hurt), {}), store'.active => store.active
  PROVE  IInv'
<1>1. /\ Moves(t, Idle) /\ deploy' = deploy /\ hurt' = hurt \cup thread[t].rows
      /\ calls' = calls /\ opens' = opens
  BY DEF ReturnsErr, Returns, Moves, Fixed
<1>2. thread[t].rows \subseteq Rows /\ hurt \subseteq Rows
  BY CallGives
<1>3. CallInv(Idle, store', table) /\ Idle.rows = {}
  BY IdleInv
<1>4. hurt' \subseteq Rows /\ \A r \in Rows \ thread[t].rows : r \in hurt' <=> r \in hurt
  BY <1>1, <1>2
<1>5. gone' = gone \cup {} /\ Idle.rows \subseteq thread[t].rows
  BY <1>3
<1>6. \A r \in thread[t].rows \ {} : r \in hurt'
  BY <1>1
<1> QED
  BY <1>1, <1>3, <1>4, <1>5, <1>6, StoreStep

\* add_payload and add_payloads under the mutex.
LEMMA MirrorStep ==
  ASSUME IInv, NEW t \in Threads, Mirror(t)
  PROVE  IInv'
<1> DEFINE d == thread[t]
           S == SteadyOf(thread, hurt)
           e == Ensured(store)
<1>1. /\ d \in Frames /\ CallInv(d, store, table) /\ CallShape(d)
      /\ d.recs \in Seq(Recs) /\ Uniform(d.recs) /\ Apart(d.recs)
      /\ StoreInv(store) /\ TableInv(store, table, S)
  BY CallGives
<1>2. d.at = "mirror" /\ d.call \in {"add", "single"}
  BY <1>1, CallOf DEF Mirror
<1>3. deploy \in Deployments
  BY SafeGives
<1>4. /\ Kept(store, e, table, S, {}) /\ e.built /\ e.active = store.active
  BY <1>1, <1>3, EnsuredKept
<1>5. StoreInv(e) /\ TableInv(e, table, S)
  <2>1. S \cup {} = S
    OBVIOUS
  <2> QED
    BY <1>4, <2>1 DEF Kept
<1>6. /\ d.rows = RowsOf(d.recs) /\ (d.call = "single" => Len(d.recs) = 1)
      /\ \A x \in Range(d.recs) : StoredIn(x, table)
  <2>1. d.todo = <<>>
    BY <1>1, <1>2 DEF CallInv, Adding
  <2>2. Range(d.todo) = {}
    BY <2>1, NoRecords
  <2> QED
    BY <1>1, <1>2, <2>2 DEF CallInv, Adding
<1>7. d.call = "single" => ~store.active
  BY <1>1 DEF CallInv, Relies
<1>8. /\ store' = IF d.call = "single" THEN AddPayload(e, d.recs[1]) ELSE AddPayloads(e, d.recs)
      /\ ReturnsOk(t) /\ Fixed /\ table' = table /\ gone' = gone
  BY DEF Mirror
<1> HIDE DEF d, S, e
<1>9. Kept(e, store', table, S, d.rows) /\ store'.active = e.active
  <2>1. CASE d.call = "single"
    BY <1>1, <1>3, <1>4, <1>5, <1>6, <1>7, <1>8, <2>1, SingleKept
  <2>2. CASE d.call # "single"
    BY <1>1, <1>3, <1>4, <1>5, <1>6, <1>8, <2>2, AddPayloadsKept
  <2> QED
    BY <2>1, <2>2
<1>10. Kept(store, store', table, S, d.rows)
  BY <1>4, <1>9, KeptTwice
<1> DEFINE lost == {}
<1>11. gone' = gone \cup lost /\ (store'.active => store.active)
  BY <1>4, <1>8, <1>9
<1>12. ReturnsOk(t) /\ Fixed /\ table' = table
  BY <1>8
<1>13. lost \subseteq thread[t].rows /\ \A r \in lost : Erased(r, store', table)
  OBVIOUS
<1>14. Kept(store, store', table, SteadyOf(thread, hurt), thread[t].rows)
  BY <1>10 DEF d, S
<1> HIDE DEF lost
<1> QED
  BY <1>11, <1>12, <1>13, <1>14, OkStep

\* The live slots of some live keys of a flat array are as many as the keys.
LEMMA SlotsAreKeys ==
  ASSUME NEW a, Flat(a), NEW ks, ks \subseteq LiveKeys(a)
  PROVE  LiveCount([k \in Keys |-> IF k \in ks THEN a[k] ELSE <<>>]) = Cardinality(ks)
<1> DEFINE b == [k \in Keys |-> IF k \in ks THEN a[k] ELSE <<>>]
<1>1. b = [k \in Keys |-> b[k]] /\ \A k \in Keys : b[k] = IF k \in ks THEN a[k] ELSE <<>>
  OBVIOUS
<1> HIDE DEF b
<1>2. Flat(b)
  BY <1>1 DEF Flat
<1>3. LiveKeys(b) = ks
  BY <1>1 DEF LiveKeys
<1>4. LiveCount(b) = Cardinality(LiveKeys(b))
  BY <1>2, LiveCountFlat
<1> QED
  BY <1>3, <1>4 DEF b

\* What the scan of a delete finds is every slot of its rows.
LEMMA ScanIsWhole ==
  ASSUME IInv, NEW t \in Threads, thread[t].at = "tombstone", NEW ks \in Scanned(t)
  PROVE  /\ ks = Found(store, thread[t].rows)
         /\ Slots(ks) = Cardinality(ks)
<1> DEFINE F == {k \in LiveKeys(store.bf) : k[1] \in thread[t].rows}
<1>1. CallShape(thread[t]) /\ StoreInv(store)
  BY CallGives
<1>2. Flat(store.bf)
  BY <1>1, ShapeGives
<1>3. ks = F
  <2>1. CASE thread[t].call = "one" /\ F # {}
    <3>1. PICK k \in F : ks = {k}
      BY <2>1 DEF Scanned
    <3>2. \A p, q \in thread[t].rows : p = q
      BY <1>1, <2>1 DEF CallShape
    <3>3. ASSUME NEW j \in F PROVE j = k
      <4>1. j \in Keys /\ k \in Keys /\ store.bf[j] # <<>> /\ store.bf[k] # <<>>
        BY DEF LiveKeys
      <4>2. j[2] = TheVersion /\ k[2] = TheVersion /\ j[1] = k[1]
        BY <1>2, <3>2, <4>1 DEF Flat
      <4>3. j = <<j[1], j[2]>> /\ k = <<k[1], k[2]>>
        BY <4>1 DEF Keys
      <4> QED
        BY <4>2, <4>3
    <3> QED
      BY <3>1, <3>3
  <2>2. CASE ~(thread[t].call = "one" /\ F # {})
    BY <2>2 DEF Scanned
  <2> QED
    BY <2>1, <2>2
<1>4. ks \subseteq LiveKeys(store.bf)
  BY <1>3
<1>5. Slots(ks) = Cardinality(ks)
  BY <1>2, <1>4, SlotsAreKeys DEF Slots
<1> QED
  BY <1>3, <1>5 DEF Found

\* A delete under the mutex.
LEMMA TombstoneStep ==
  ASSUME IInv, NEW t \in Threads, TombstoneSlots(t)
  PROVE  IInv'
<1> DEFINE d == thread[t]
           S == SteadyOf(thread, hurt)
<1>1. /\ d \in Frames /\ CallInv(d, store, table) /\ CallShape(d)
      /\ StoreInv(store) /\ TableInv(store, table, S)
  BY CallGives
<1>2. d.at = "tombstone" /\ d.call \in {"one", "all"}
  BY <1>1, CallOf DEF TombstoneSlots
<1>3. deploy \in Deployments /\ deploy.sidecar \in BOOLEAN
  BY SafeGives
<1>4. ~AddsOnly
  BY <1>1, <1>2 DEF CallShape
<1>5. /\ \A r \in d.rows : table[r] = None
      /\ d.rows \cap RowsOf(store.pending) = {}
      /\ \A k \in Keys : k[1] \in d.rows /\ store.arr[k] # <<>> => store.bf[k] # <<>>
      /\ deploy.sidecar => store.built
  BY <1>1, <1>2 DEF CallInv, Clearing, Relies
<1>6. ReturnsOk(t) /\ Fixed /\ table' = table /\ gone' = gone \cup d.rows
  BY DEF TombstoneSlots
<1>7. /\ Kept(store, store', table, S, d.rows) /\ store'.active = store.active
      /\ \A r \in d.rows : Erased(r, store', table)
  <2>1. CASE ~store.built
    <3>1. store' = store
      BY <2>1 DEF TombstoneSlots
    <3>2. store.bf = Empty /\ store.arr = Empty /\ ~store.dirty /\ ~store.active
      BY <2>1, <1>1 DEF StoreInv, StoreFlags
    <3>3. RowsOf(store.pending) = {}
      BY <1>1, <1>3, <3>2, NothingDeferred
    <3>4. TableInv(store, table, S \cup d.rows)
      BY <1>1, <1>5, <2>1 DEF TableInv
    <3>5. Serves(store, store, d.rows)
      BY DEF Serves
    <3>6. \A r \in d.rows : Erased(r, store, table)
      BY <1>5, <3>2, <3>3, EmptyArray DEF Erased
    <3>7. Kept(store, store, table, S, d.rows)
      BY <1>1, <3>4, <3>5 DEF Kept
    <3> QED
      BY <3>1, <3>6, <3>7
  <2>2. CASE store.built
    <3>1. PICK ks \in Scanned(t) :
            store' = Removed(store, ks, IF d.call = "one" THEN Cardinality(ks) ELSE Slots(ks))
      BY <2>2 DEF TombstoneSlots
    <3> DEFINE K == Found(store, d.rows)
               n == Cardinality(K)
    <3>2. ks = K /\ Slots(ks) = Cardinality(ks)
      BY <1>2, ScanIsWhole
    <3>3. store' = Removed(store, K, n)
      BY <3>1, <3>2
    <3> HIDE DEF d, S
    <3>4. Removable(store, table, d.rows)
      BY <1>5 DEF Removable
    <3>5. /\ Kept(store, Removed(store, K, n), table, S, d.rows)
          /\ Removed(store, K, n).active = store.active
          /\ \A r \in d.rows : Erased(r, Removed(store, K, n), table)
      BY <1>1, <1>3, <1>4, <2>2, <3>4, RemovedKept
    <3> HIDE DEF K, n
    <3> QED
      BY <3>3, <3>5
  <2> QED
    BY <2>1, <2>2
<1>8. store'.active => store.active
  BY <1>7
<1> QED
  BY <1>6, <1>7, <1>8, OkStep

\* The rebuild of replace_model_vectors.
LEMMA RebuildStep ==
  ASSUME IInv, NEW t \in Threads, Rebuild(t)
  PROVE  IInv'
<1> DEFINE d == thread[t]
           S == SteadyOf(thread, hurt)
           u == FromTable(store)
           lost == d.rows \ RowsOf(d.recs)
           T == ArrayOf(table)
<1>1. /\ d \in Frames /\ CallInv(d, store, table) /\ CallShape(d)
      /\ StoreInv(store) /\ TableInv(store, table, S) /\ d.rows \subseteq Rows
      /\ table \in Tables /\ \A r \in Rows : table[r] # None => table[r].ver = TheVersion
  BY CallGives
<1>2. d.at = "rebuild" /\ d.call = "replace"
  BY <1>1, CallOf DEF Rebuild
<1>3. deploy \in Deployments /\ deploy.sidecar \in BOOLEAN
  BY SafeGives
<1>4. /\ \A r \in lost : table[r] = None
      /\ d.rows \cap RowsOf(store.pending) = {}
      /\ deploy.sidecar => ~store.active
  BY <1>1, <1>2 DEF CallInv, Clearing, Relies
<1>5. ReturnsOk(t) /\ Fixed /\ table' = table /\ gone' = gone \cup lost /\ store' = u
  BY DEF Rebuild
<1>6. Kept(store, u, table, S, d.rows)
  BY <1>1, <1>3, <1>4, FromTableKept
<1>7. /\ u.bf = T /\ u.active = store.active /\ u.pending = store.pending
      /\ deploy.sidecar => u.arr = T
      /\ ~deploy.sidecar => u.arr = store.arr
  BY <1>1, ShapeGives, FromTableFields
<1>8. \A k \in Keys : k[1] \in lost => T[k] = <<>>
  BY <1>1, <1>4, TableFlat
<1>9. ~deploy.sidecar => store.arr = Empty
  BY <1>1 DEF StoreInv, StoreFlags
<1>10. lost \subseteq d.rows
  OBVIOUS
<1> HIDE DEF u, T, S
<1>11. \A r \in lost : Erased(r, u, table)
  <2> SUFFICES ASSUME NEW r \in lost PROVE Erased(r, u, table)
    OBVIOUS
  <2>1. \A k \in Keys : k[1] = r => u.bf[k] = <<>> /\ u.arr[k] = <<>>
    BY <1>3, <1>7, <1>8, <1>9, EmptyArray
  <2>2. r \notin RowsOf(u.pending)
    BY <1>4, <1>7, <1>10
  <2> QED
    BY <1>4, <2>1, <2>2 DEF Erased
<1>12. store'.active => store.active
  BY <1>5, <1>7
<1> HIDE DEF lost
<1>13. /\ Kept(store, store', table, SteadyOf(thread, hurt), thread[t].rows)
       /\ lost \subseteq thread[t].rows /\ \A r \in lost : Erased(r, store', table)
  BY <1>5, <1>6, <1>10, <1>11 DEF S
<1>14. ReturnsOk(t) /\ Fixed /\ table' = table /\ gone' = gone \cup lost
  BY <1>5
<1> QED
  BY <1>12, <1>13, <1>14, OkStep

\* destroy_all_vectors under the mutex.
LEMMA ResetStep ==
  ASSUME IInv, NEW t \in Threads, Reset(t)
  PROVE  IInv'
<1> DEFINE d == thread[t]
           S == SteadyOf(thread, hurt)
           u == [Unopened(Empty) EXCEPT !.built = TRUE]
<1>1. /\ CallInv(d, store, table) /\ CallShape(d) /\ StoreInv(store) /\ table \in Tables
  BY CallGives
<1>2. d.at = "reset" /\ d.call = "destroy"
  BY <1>1, CallOf DEF Reset
<1>3. deploy \in Deployments /\ deploy.sidecar \in BOOLEAN
  BY SafeGives
<1>4. d.rows = Rows /\ \A r \in Rows : table[r] = None
  BY <1>1, <1>2 DEF CallInv, CallShape, Clearing
<1>5. S \subseteq Rows
  BY DEF SteadyOf
<1>6. (IF deploy.sidecar THEN Empty ELSE store.file) = Empty
  BY <1>1, <1>3 DEF StoreInv, StoreFlags
<1>7. /\ ReturnsOk(t) /\ Fixed /\ table' = table /\ gone' = Rows
      /\ store' = [Unopened(IF deploy.sidecar THEN Empty ELSE store.file) EXCEPT !.built = TRUE]
  BY DEF Reset
<1>8. store' = u
  BY <1>6, <1>7
<1>9. Kept(store, u, table, S, Rows) /\ ~u.active /\ \A r \in Rows : Erased(r, u, table)
  BY <1>1, <1>3, <1>4, <1>5, ResetKept
<1>10. gone' = gone \cup Rows
  <2>1. gone \subseteq Rows
    BY DEF IInv, GoneInv
  <2> QED
    BY <1>7, <2>1
<1> HIDE DEF u
<1>11. /\ Kept(store, store', table, SteadyOf(thread, hurt), thread[t].rows)
       /\ Rows \subseteq thread[t].rows /\ (\A r \in Rows : Erased(r, store', table))
       /\ store'.active => store.active
  BY <1>4, <1>8, <1>9
<1>12. ReturnsOk(t) /\ Fixed /\ table' = table
  BY <1>7
<1> QED
  BY <1>10, <1>11, <1>12, OkStep

\* A sidecar write of add_payloads fails.
LEMMA AddFailsStep ==
  ASSUME IInv, NEW t \in Threads, ReturnsErr(t), Fixed, table' = table, gone' = gone,
         May("sidecars"), deploy.sidecar, thread[t].at = "mirror", thread[t].call = "add",
         \/ store' = AppendFails(Ensured(store), thread[t].recs)
         \/ /\ KeysOf(thread[t].recs) \subseteq LiveKeys(Ensured(store).bf)
            /\ store' = CompactionFails(Ensured(store), thread[t].recs)
  PROVE  IInv'
<1> DEFINE d == thread[t]
           S == SteadyOf(thread, hurt)
           e == Ensured(store)
<1>1. /\ CallInv(d, store, table) /\ d.recs \in Seq(Recs) /\ Uniform(d.recs) /\ Apart(d.recs)
      /\ StoreInv(store) /\ TableInv(store, table, S)
  BY CallGives
<1>2. deploy \in Deployments /\ ~May("window")
  BY SafeGives
<1>3. Kept(store, e, table, S, {}) /\ e.built /\ e.active = store.active
  BY <1>1, <1>2, EnsuredKept
<1>4. StoreInv(e) /\ TableInv(e, table, S)
  <2>1. S \cup {} = S
    OBVIOUS
  <2> QED
    BY <1>3, <2>1 DEF Kept
<1>5. ~e.active
  BY <1>2, <1>4 DEF StoreInv, StoreFlags
<1>6. d.rows = RowsOf(d.recs) /\ \A x \in Range(d.recs) : StoredIn(x, table)
  <2>1. d.todo = <<>>
    BY <1>1 DEF CallInv, Adding
  <2>2. Range(d.todo) = {}
    BY <2>1, NoRecords
  <2> QED
    BY <1>1, <2>2 DEF CallInv, Adding
<1>7. \A r \in RowsOf(d.recs) : r \notin S
  <2>1. "mirror" \in Changing
    BY DEF Changing
  <2> QED
    BY <1>6, <2>1 DEF SteadyOf
<1> HIDE DEF d, S, e
<1>8. Kept(e, store', table, S, {}) /\ store'.active = e.active
  <2>1. CASE store' = AppendFails(e, d.recs)
    BY <1>1, <1>2, <1>3, <1>4, <1>5, <1>7, <2>1, AppendFailsKept
  <2>2. CASE KeysOf(d.recs) \subseteq LiveKeys(e.bf) /\ store' = CompactionFails(e, d.recs)
    BY <1>1, <1>2, <1>3, <1>4, <1>5, <1>6, <1>7, <2>2, CompactionFailsKept
  <2> QED
    BY <2>1, <2>2 DEF d, e
<1>9. Kept(store, store', table, S, {})
  BY <1>3, <1>8, KeptTwice
<1>10. Kept(store, store', table, SteadyOf(thread, hurt), {}) /\ (store'.active => store.active)
  BY <1>3, <1>8, <1>9 DEF S
<1> QED
  BY <1>10, ErrStep

\* A tombstone's sidecar write fails, or the compaction's after it.
LEMMA DeleteFailsStep ==
  ASSUME IInv, NEW t \in Threads, ReturnsErr(t), Fixed, table' = table, gone' = gone,
         May("sidecars"), deploy.sidecar, thread[t].at = "tombstone", NEW ks \in Scanned(t),
         NEW cut \in SUBSET ks, NEW k \in ks, NEW dead \in {cut, cut \cup {k}},
         store' = Unslotted(store, dead, cut)
  PROVE  IInv'
<1> DEFINE S == SteadyOf(thread, hurt)
<1>1. CallInv(thread[t], store, table) /\ StoreInv(store) /\ TableInv(store, table, S)
  BY CallGives
<1>2. deploy \in Deployments /\ ~May("window")
  BY SafeGives
<1>3. ~store.active
  BY <1>1, <1>2 DEF StoreInv, StoreFlags
<1>4. ks = Found(store, thread[t].rows)
  BY ScanIsWhole
<1>5. "tombstone" \in Changing
  BY DEF Changing
<1>6. \A j \in dead : j \in Keys /\ j[1] \notin S
  BY <1>4, <1>5 DEF Found, LiveKeys, SteadyOf
<1>7. store.built
  <2>1. CASE ~store.built
    <3>1. store.bf = Empty
      BY <1>1, <2>1 DEF StoreInv, StoreFlags
    <3>2. store.bf[k] # <<>> /\ k \in Keys
      BY <1>4 DEF Found, LiveKeys
    <3> QED
      BY <3>1, <3>2 DEF Empty
  <2> QED
    BY <2>1
<1>8. CutShort(dead, cut, S)
  BY <1>6 DEF CutShort
<1> HIDE DEF S
<1>9. /\ Kept(store, Unslotted(store, dead, cut), table, S, {})
      /\ Unslotted(store, dead, cut).active = store.active
  BY <1>1, <1>2, <1>3, <1>7, <1>8, UnslottedKept
<1>10. Kept(store, store', table, SteadyOf(thread, hurt), {}) /\ (store'.active => store.active)
  BY <1>9 DEF S
<1> QED
  BY <1>10, ErrStep

\* A sidecar write fails.
LEMMA SidecarFailsStep ==
  ASSUME IInv, NEW t \in Threads, SidecarFails(t)
  PROVE  IInv'
<1> DEFINE S == SteadyOf(thread, hurt)
<1>1. /\ StoreInv(store) /\ TableInv(store, table, S)
      /\ table \in Tables /\ \A r \in Rows : table[r] # None => table[r].ver = TheVersion
  BY CallGives
<1>2. /\ May("sidecars") /\ deploy.sidecar
      /\ ReturnsErr(t) /\ Fixed /\ table' = table /\ gone' = gone
  BY DEF SidecarFails
<1>3. deploy \in Deployments /\ ~May("compactions")
  BY <1>2, SafeGives
<1>4. Kept(store, store, table, S, {})
  BY <1>1, SameKept
<1>5. \/ /\ thread[t].at = "mirror" /\ thread[t].call = "add"
         /\ \/ store' = AppendFails(Ensured(store), thread[t].recs)
            \/ /\ KeysOf(thread[t].recs) \subseteq LiveKeys(Ensured(store).bf)
               /\ store' = CompactionFails(Ensured(store), thread[t].recs)
      \/ /\ thread[t].at = "tombstone"
         /\ \E ks \in Scanned(t) : \E cut \in SUBSET ks, k \in ks :
              \E dead \in {cut, cut \cup {k}} : store' = Unslotted(store, dead, cut)
      \/ store' = [store EXCEPT !.count = LiveCount(TableArray)]
      \/ store' = store
  BY <1>3 DEF SidecarFails
<1>6. CASE /\ thread[t].at = "mirror" /\ thread[t].call = "add"
           /\ \/ store' = AppendFails(Ensured(store), thread[t].recs)
              \/ /\ KeysOf(thread[t].recs) \subseteq LiveKeys(Ensured(store).bf)
                 /\ store' = CompactionFails(Ensured(store), thread[t].recs)
  BY <1>2, <1>6, AddFailsStep
<1>7. CASE /\ thread[t].at = "tombstone"
           /\ \E ks \in Scanned(t) : \E cut \in SUBSET ks, k \in ks :
                \E dead \in {cut, cut \cup {k}} : store' = Unslotted(store, dead, cut)
  BY <1>2, <1>7, DeleteFailsStep
<1>8. CASE store' = [store EXCEPT !.count = LiveCount(TableArray)]
  <2> DEFINE n == LiveCount(TableArray)
             u == [store EXCEPT !.count = n]
  <2>1. TableArray = ArrayOf(table)
    BY DEF TableArray, ArrayOf
  <2>2. n \in Nat
    BY <1>1, <2>1, TableFlat, LiveCountFlat
  <2>3. store' = u
    BY <1>8
  <2> HIDE DEF n, S
  <2>4. Kept(store, u, table, S, {}) /\ u.active = store.active
    BY <1>1, <1>2, <1>3, <2>2, RecountedKept
  <2> HIDE DEF u
  <2>5. Kept(store, store', table, SteadyOf(thread, hurt), {}) /\ (store'.active => store.active)
    BY <2>3, <2>4 DEF S
  <2> QED
    BY <1>2, <2>5, ErrStep
<1>9. CASE store' = store
  <2>1. Kept(store, store', table, SteadyOf(thread, hurt), {}) /\ (store'.active => store.active)
    BY <1>4, <1>9
  <2> QED
    BY <1>2, <2>1, ErrStep
<1> QED
  BY <1>5, <1>6, <1>7, <1>8, <1>9

(***************************************************************************)
(* Calls that are one locked step, and the process                         *)
(***************************************************************************)

\* A locked step of a thread in no call.
LEMMA LockedStep ==
  ASSUME IInv, NEW t \in Threads, Locked(t),
         Kept(store, store', table, SteadyOf(thread, hurt), {}),
         store'.active => \/ store.active
                          \/ \A u \in Threads \ {t} :
                               /\ thread[u].call # "single"
                               /\ deploy.sidecar => thread[u].call # "replace"
  PROVE  IInv'
<1> DEFINE none == {}
<1>1. /\ thread[t] = Idle /\ deploy' = deploy /\ table' = table /\ thread' = thread
      /\ hurt' = hurt /\ gone' = gone /\ calls' = calls /\ opens' = opens
  BY DEF Locked
<1>2. thread \in [Threads -> Frames] /\ hurt \subseteq Rows
  BY CallGives
<1>3. Moves(t, Idle)
  BY <1>1, <1>2 DEF Moves
<1>4. CallInv(Idle, store', table) /\ Idle.rows = {}
  BY IdleInv
<1>5. thread[t].rows = none /\ none \cap Idle.rows = {} /\ gone' = gone \cup none
  BY <1>1, <1>4
<1>6. \A r \in none : Erased(r, store', table) /\ FALSE
  OBVIOUS
<1>7. Kept(store, store', table, SteadyOf(thread, hurt), none)
  OBVIOUS
<1>8. hurt' \subseteq Rows /\ \A r \in Rows \ thread[t].rows : r \in hurt' <=> r \in hurt
  BY <1>1, <1>2
<1>9. Idle.rows = none
  BY <1>4
<1> HIDE DEF none
<1>10. \A r \in thread[t].rows \ none : FALSE
  BY <1>5
<1>11. none \subseteq thread[t].rows /\ Idle.rows \subseteq thread[t].rows
  BY <1>5, <1>9
<1> QED
  BY <1>1, <1>3, <1>4, <1>5, <1>6, <1>7, <1>8, <1>10, <1>11, StoreStep

\* begin_deferred_index, publish_resident_index, flush and find_nearest.
LEMMA LockedCalls ==
  ASSUME IInv, NEW t \in Threads,
         BeginDeferred(t) \/ Publish(t) \/ Flush(t) \/ FindNearest(t)
  PROVE  IInv'
<1> DEFINE S == SteadyOf(thread, hurt)
           e == Ensured(store)
<1>1. StoreInv(store) /\ TableInv(store, table, S) /\ deploy \in Deployments
  BY CallGives, SafeGives
<1>2. Kept(store, e, table, S, {}) /\ e.built /\ e.active = store.active
  BY <1>1, EnsuredKept
<1>3. StoreInv(e) /\ TableInv(e, table, S)
  <2>1. S \cup {} = S
    OBVIOUS
  <2> QED
    BY <1>2, <2>1 DEF Kept
<1>4. CASE BeginDeferred(t)
  <2>1. May("window") /\ ~store.active /\ Locked(t) /\ store' = Opened(e)
    BY <1>4 DEF BeginDeferred, Opened
  <2>2. /\ \A u \in Threads : thread[u].call # "single"
        /\ deploy.sidecar => \A u \in Threads : thread[u].call # "replace"
    BY <1>4, SafeGives DEF BeginDeferred, Busy
  <2> HIDE DEF e, S
  <2>3. Kept(e, Opened(e), table, S, {})
    BY <1>1, <1>2, <1>3, <2>1, OpenedKept
  <2>4. Kept(store, store', table, SteadyOf(thread, hurt), {})
    BY <1>2, <2>1, <2>3, KeptTwice DEF S
  <2> QED
    BY <2>1, <2>2, <2>4, LockedStep
<1>5. CASE Publish(t)
  <2>1. Locked(t) /\ store' = Published(store)
    BY <1>5 DEF Publish
  <2>2. Kept(store, store', table, S, {}) /\ store'.active = FALSE
    BY <1>1, <2>1, PublishedKept
  <2> QED
    BY <2>1, <2>2, LockedStep
<1>6. CASE Flush(t)
  <2>1. Locked(t) /\ store' = Persisted(store, store.arr) /\ store.stale
    BY <1>6 DEF Flush
  <2>2. Kept(store, store', table, S, {}) /\ store'.active = store.active
    BY <1>1, <2>1, FlushedKept
  <2> QED
    BY <2>1, <2>2, LockedStep
<1>7. CASE FindNearest(t)
  <2>1. Locked(t) /\ store' = e
    BY <1>7 DEF FindNearest
  <2>2. Kept(store, store', table, S, {}) /\ store'.active = store.active
    BY <1>2, <2>1
  <2> QED
    BY <2>1, <2>2, LockedStep
<1> QED
  BY <1>4, <1>5, <1>6, <1>7

\* The store is opened again with no call under way.
LEMMA ReopenedStep ==
  ASSUME IInv, Reopened, thread' \in [Threads -> Frames], \A t \in Threads : thread'[t] = Idle,
         hurt' = hurt, gone' = gone,
         deploy.sidecar => \/ AddsOnly
                           \/ ~store.stale /\ \A t \in Threads : thread[t] = Idle
  PROVE  IInv'
<1> DEFINE S == SteadyOf(thread, hurt)
           N == SteadyOf(thread', hurt')
           u == Unopened(store.file)
<1>1. StoreInv(store) /\ TableInv(store, table, S) /\ deploy \in Deployments
  BY SafeGives DEF IInv
<1>2. /\ deploy' = deploy /\ table' = table /\ calls' = calls /\ store' = u
      /\ opens' = opens + 1 /\ opens < MaxOpens
  BY DEF Reopened
<1>3. N \subseteq Rows
  BY DEF SteadyOf
<1>4. (\A t \in Threads : thread[t] = Idle) => N \subseteq S
  BY DEF SteadyOf
<1> HIDE DEF N, S
<1>5. deploy.sidecar => AddsOnly \/ (~store.stale /\ N \subseteq S)
  BY <1>4
<1>6. /\ StoreInv(u) /\ TableInv(u, table, N)
      /\ \A r : Erased(r, store, table) => Erased(r, u, table)
  BY <1>1, <1>3, <1>5, ReopenedKept
<1> HIDE DEF u
<1>7. StoreInv(store') /\ TableInv(store', table', N)
  BY <1>2, <1>6
<1>8. ThreadInv(thread', store', table')
  <2>1. \A t \in Threads : thread'[t].rows = {} /\ CallInv(thread'[t], store', table')
    BY IdleInv
  <2> QED
    BY <2>1 DEF ThreadInv
<1>9. GoneInv(gone', thread', hurt', store', table')
  <2>1. gone \subseteq Rows /\ \A r \in gone \ hurt : Erased(r, store, table)
    BY DEF IInv, GoneInv
  <2>2. \A t \in Threads : thread'[t].rows = {}
    BY IdleInv
  <2> QED
    BY <1>2, <1>6, <2>1, <2>2 DEF GoneInv
<1>10. calls' \in 0 .. MaxCalls /\ opens' \in 1 .. MaxOpens /\ hurt' \subseteq Rows
  BY <1>2, VectorAssumption DEF IInv
<1> QED
  BY <1>2, <1>7, <1>8, <1>9, <1>10, NextState DEF N

\* A drop of the flushed store at rest, or a crash of a process that only adds.
LEMMA ProcessStep ==
  ASSUME IInv, Restart \/ Crash
  PROVE  IInv'
<1>1. thread \in [Threads -> Frames]
  BY DEF IInv, ThreadInv
<1>2. CASE Restart
  BY <1>1, <1>2, ReopenedStep DEF Restart
<1>3. CASE Crash
  <2>1. /\ Reopened /\ hurt' = hurt /\ gone' = gone /\ May("crash")
        /\ thread' = [t \in Threads |-> Idle]
    BY <1>3 DEF Crash
  <2>2. thread' \in [Threads -> Frames] /\ \A t \in Threads : thread'[t] = Idle
    BY <2>1, IdleInv
  <2>3. deploy.sidecar => AddsOnly
    BY <2>1 DEF AddsOnly
  <2> QED
    BY <2>1, <2>2, <2>3, ReopenedStep
<1> QED
  BY <1>2, <1>3

(***************************************************************************)
(* The theorems                                                            *)
(***************************************************************************)

\* The first opening of an empty estate.
LEMMA InitInv ==
  ASSUME AllSafe, Init
  PROVE  IInv
<1>1. deploy \in Deployments /\ Safe(deploy) /\ store = Unopened(Empty)
  BY DEF Init, AllSafe
<1>2. table \in Tables /\ \A r \in Rows : table[r] = None
  BY DEF Init, Tables
<1>3. /\ StoreInv(store) /\ store.built = FALSE /\ store.arr = Empty /\ store.file = Empty
  BY <1>1, UnopenedInv, FlatArray, UnopenedFields
<1>4. \A k \in Keys : ArrayOf(table)[k] = <<>>
  <2>1. \A k \in Keys : k[1] \in Rows
    BY DEF Keys
  <2> QED
    BY <1>2, <2>1, TableFlat
<1>5. TableInv(store, table, SteadyOf(thread, hurt))
  BY <1>2, <1>3, <1>4, EmptyArray DEF TableInv, SameOn
<1>6. /\ thread \in [Threads -> Frames] /\ \A t \in Threads : thread[t] = Idle
  BY IdleInv DEF Init
<1>7. ThreadInv(thread, store, table)
  <2>1. \A t \in Threads : thread[t].rows = {} /\ CallInv(thread[t], store, table)
    BY <1>6, IdleInv
  <2> QED
    BY <1>6, <2>1 DEF ThreadInv
<1>8. GoneInv(gone, thread, hurt, store, table)
  BY DEF Init, GoneInv
<1>9. hurt \subseteq Rows /\ calls \in 0 .. MaxCalls /\ opens \in 1 .. MaxOpens
  BY VectorAssumption DEF Init
<1> QED
  BY <1>1, <1>3, <1>5, <1>7, <1>8, <1>9 DEF IInv

\* Every step keeps the invariant.
LEMMA NextInv ==
  ASSUME IInv, [Next]_vars
  PROVE  IInv'
<1>1. CASE UNCHANGED vars
  <2>1. /\ deploy' = deploy /\ table' = table /\ store' = store /\ thread' = thread
        /\ hurt' = hurt /\ gone' = gone /\ calls' = calls /\ opens' = opens
    BY <1>1 DEF vars
  <2> QED
    BY <2>1, NextState DEF IInv
<1>2. ASSUME NEW t \in Threads, AddBegins(t) PROVE IInv'
  <2>1. PICK b \in Batches : /\ May("rewrite") \/ New(RowsOf(b))
                             /\ Start(t, "upsert", "add", b, RowsOf(b))
    BY <1>2 DEF AddBegins
  <2> QED
    BY <2>1, AddBeginsStep
<1>3. ASSUME NEW t \in Threads, SingleBegins(t) PROVE IInv'
  <2>1. PICK b \in Batches : /\ Len(b) = 1 /\ (May("rewrite") \/ New(RowsOf(b)))
                             /\ ~store.active
                             /\ Start(t, "upsert", "single", b, RowsOf(b))
    BY <1>3, SafeGives DEF SingleBegins
  <2> QED
    BY <2>1, AddBeginsStep
<1>4. ASSUME NEW t \in Threads,
             DeleteBegins(t) \/ ReplaceBegins(t) \/ DestroyBegins(t) \/ Upsert(t) \/ UpsertFails(t)
      PROVE  IInv'
  BY <1>4, DeleteBeginsStep, ReplaceBeginsStep, DestroyBeginsStep, UpsertStep, UpsertFailsStep
<1>5. ASSUME NEW t \in Threads,
             Mirror(t) \/ CheckDirty(t) \/ PublishFirst(t) \/ Erase(t) \/ TombstoneSlots(t)
      PROVE  IInv'
  BY <1>5, MirrorStep, CheckDirtyStep, PublishFirstStep, EraseStep, TombstoneStep
<1>6. ASSUME NEW t \in Threads,
             Swap(t) \/ SwapFails(t) \/ Rebuild(t) \/ Wipe(t) \/ Reset(t) \/ SidecarFails(t)
      PROVE  IInv'
  BY <1>6, SwapStep, SwapFailsStep, RebuildStep, WipeStep, ResetStep, SidecarFailsStep
<1>7. ASSUME NEW t \in Threads,
             BeginDeferred(t) \/ Publish(t) \/ Flush(t) \/ FindNearest(t)
      PROVE  IInv'
  BY <1>7, LockedCalls
<1>8. CASE Restart \/ Crash
  BY <1>8, ProcessStep
<1> QED
  BY <1>1, <1>2, <1>3, <1>4, <1>5, <1>6, <1>7, <1>8 DEF Next

\* Settled rows are steady.
LEMMA SettledIsSteady ==
  ASSUME IInv
  PROVE  Settled \subseteq SteadyOf(thread, hurt) /\ TableArray = ArrayOf(table)
<1>1. TableArray = ArrayOf(table)
  BY DEF TableArray, ArrayOf
<1>2. Settled \subseteq SteadyOf(thread, hurt)
  BY DEF Settled, Touched, SteadyOf
<1> QED
  BY <1>1, <1>2

\* The invariant says that both indexes hold the table, and that what publish would build does.
LEMMA SearchesSeeTheTable ==
  ASSUME IInv
  PROVE  ResidentMatchesTable /\ StagedMatchesTable
<1> DEFINE S == SteadyOf(thread, hurt)
           T == ArrayOf(table)
<1>1. Settled \subseteq S /\ TableArray = T
  BY SettledIsSteady
<1>2. /\ StoreInv(store) /\ TableInv(store, table, S) /\ deploy \in Deployments
      /\ table \in Tables /\ \A r \in Rows : table[r] # None => table[r].ver = TheVersion
  BY DEF IInv, TableInv
<1>3. Flat(store.bf) /\ store.mih = CodesOf(store.bf) /\ Flat(T)
  BY <1>2, ShapeGives, TableFlat
<1> HIDE DEF S
<1>4. ASSUME NEW a, SameOn(S, a, T) PROVE SameOn(Settled, a, TableArray)
  BY <1>1, <1>4 DEF SameOn
<1>5. ResidentMatchesTable
  <2> SUFFICES ASSUME store.built, ~store.dirty
               PROVE  /\ SameOn(Settled, store.bf, TableArray)
                      /\ \A k \in Keys : k[1] \in Settled =>
                           store.mih[k] = IF TableArray[k] = <<>> THEN None ELSE TableArray[k][1]
    BY DEF ResidentMatchesTable
  <2>1. SameOn(Settled, store.bf, TableArray)
    BY <1>2, <1>4 DEF TableInv
  <2>2. ASSUME NEW k \in Keys, k[1] \in Settled
        PROVE  store.mih[k] = IF TableArray[k] = <<>> THEN None ELSE TableArray[k][1]
    <3>1. store.bf[k] = TableArray[k]
      BY <2>1, <2>2 DEF SameOn
    <3>2. store.mih[k] = IF store.bf[k] = <<>> THEN None ELSE Last(store.bf[k])
      BY <1>3 DEF CodesOf
    <3>3. store.bf[k] = <<>> \/ \E v \in Vals : store.bf[k] = <<v>>
      BY <1>3 DEF Flat
    <3>4. \A v : Last(<<v>>) = v /\ <<v>>[1] = v
      BY DEF Last
    <3>5. CASE store.bf[k] = <<>>
      BY <3>1, <3>2, <3>5
    <3>6. CASE store.bf[k] # <<>>
      <4>1. PICK v \in Vals : store.bf[k] = <<v>>
        BY <3>3, <3>6
      <4>2. store.mih[k] = v
        BY <3>2, <3>4, <3>6, <4>1
      <4>3. TableArray[k] # <<>> /\ TableArray[k][1] = v
        BY <3>1, <3>6, <4>1
      <4> QED
        BY <4>2, <4>3
    <3> QED
      BY <3>5, <3>6
  <2> QED
    BY <2>1, <2>2
<1>6. StagedMatchesTable
  <2> SUFFICES ASSUME store.built PROVE SameOn(Settled, Snapshot, TableArray)
    BY DEF StagedMatchesTable
  <2>1. SameOn(S, Held(store), T)
    BY <1>2 DEF TableInv
  <2>2. CASE ~deploy.sidecar \/ (deploy.sidecar /\ (store.dirty \/ store.stale))
    <3>1. Snapshot = Held(store)
      BY <2>2 DEF Snapshot, Held
    <3> QED
      BY <1>4, <2>1, <3>1
  <2>3. CASE deploy.sidecar /\ ~(store.dirty \/ store.stale)
    <3>1. store.pending = <<>> /\ SameOn(S, store.bf, T)
      BY <1>2, <2>3 DEF StoreInv, StoreFlags, TableInv
    <3>2. Snapshot = store.bf
      BY <1>3, <2>3, <3>1, MergedNothing DEF Snapshot
    <3> QED
      BY <1>4, <3>1, <3>2
  <2> QED
    BY <1>2, <2>2, <2>3, HeldFlat
<1> QED
  BY <1>5, <1>6

\* A flat array has one slot for a row at most, and the count is the number of its live keys.
LEMMA SlotsAndCount ==
  ASSUME IInv
  PROVE  OneSlotPerRow /\ CountIsExact
<1>1. Flat(store.bf) /\ StoreInv(store)
  BY ShapeGives DEF IInv
<1>2. OneSlotPerRow
  <2> SUFFICES ASSUME NEW r \in Rows
               PROVE  LiveCount([k \in Keys |-> IF k[1] = r THEN store.bf[k] ELSE <<>>]) <= 1
    BY DEF OneSlotPerRow
  <2> DEFINE a == [k \in Keys |-> IF k[1] = r THEN store.bf[k] ELSE <<>>]
             one == {<<r, TheVersion>>}
  <2>1. a = [k \in Keys |-> a[k]]
        /\ \A k \in Keys : a[k] = IF k[1] = r THEN store.bf[k] ELSE <<>>
    OBVIOUS
  <2> HIDE DEF a
  <2>2. Flat(a)
    BY <1>1, <2>1 DEF Flat
  <2>3. LiveKeys(a) \in SUBSET one
    <3> SUFFICES ASSUME NEW k \in LiveKeys(a) PROVE k = <<r, TheVersion>>
      OBVIOUS
    <3>1. k \in Keys /\ a[k] # <<>>
      BY DEF LiveKeys
    <3>2. k[1] = r /\ k[2] = TheVersion
      BY <2>1, <2>2, <3>1 DEF Flat
    <3>3. k = <<k[1], k[2]>>
      BY <3>1 DEF Keys
    <3> QED
      BY <3>2, <3>3
  <2> HIDE DEF one
  <2>4. IsFiniteSet(one) /\ Cardinality(one) = 1
    BY FS_Singleton, Zenon DEF one
  <2>5. Cardinality(LiveKeys(a)) <= Cardinality(one)
    BY <2>3, <2>4, FS_Subset, Zenon
  <2>6. LiveCount(a) = Cardinality(LiveKeys(a))
    BY <2>2, LiveCountFlat
  <2> QED
    BY <2>4, <2>5, <2>6 DEF a
<1>3. CountIsExact
  <2>1. LiveCount(store.bf) = Cardinality(LiveKeys(store.bf))
    BY <1>1, LiveCountFlat
  <2> QED
    BY <1>1, <2>1 DEF StoreInv, CountInv, CountIsExact
<1> QED
  BY <1>2, <1>3

\* The types of the state.
LEMMA TypesHold ==
  ASSUME IInv
  PROVE  TypeOK
<1>1. store \in Stores
  BY ShapeGives DEF IInv
<1>2. thread \in [Threads -> Frames]
  BY DEF IInv, ThreadInv
<1>3. table \in [Rows -> [ver: Versions, val: Vals] \cup {None}]
  BY DEF IInv, TableInv, Tables
<1>4. gone \in SUBSET Rows
  BY DEF IInv, GoneInv
<1> QED
  BY <1>1, <1>2, <1>3, <1>4 DEF IInv, TypeOK, Frames

\* The resident index is the table, in every state and for every number of rows, payloads,
\* threads and calls, while the callers of the store keep to what the code bears: both
\* indexes, what a publish would build, the slots a delete retires and the count that picks
\* the search lane agree with the stored rows (vector_store.rs, resident_store.rs).
THEOREM ResidentIsTheTable ==
  ASSUME AllSafe
  PROVE  Spec => []IndexesMatchTable
<1>1. Init => IInv
  BY InitInv
<1>2. IInv /\ [Next]_vars => IInv'
  BY NextInv
<1>3. IInv => IndexesMatchTable
  BY TypesHold, SearchesSeeTheTable, SlotsAndCount DEF IndexesMatchTable
<1> QED
  BY <1>1, <1>2, <1>3, PTL DEF Spec

\* A vector deleted by a call that returned Ok stays out of the table, both indexes, the array
\* store and the deferred buffer, whatever the other calls, publishes, rebuilds and restarts
\* do, until its row is written again (delete_vector, delete_all_vectors,
\* replace_model_vectors, destroy_all_vectors).
THEOREM DeletedStaysGone ==
  ASSUME AllSafe
  PROVE  Spec => []ErasedIsGone
<1>1. Init => IInv
  BY InitInv
<1>2. IInv /\ [Next]_vars => IInv'
  BY NextInv
<1>3. IInv => ErasedIsGone
  <2> SUFFICES ASSUME IInv, NEW r \in gone \ hurt
               PROVE  /\ table[r] = None
                      /\ \A k \in Keys : k[1] = r => /\ store.bf[k] = <<>>
                                                     /\ store.mih[k] = None
                                                     /\ store.arr[k] = <<>>
                      /\ r \notin RowsOf(store.pending)
    BY DEF ErasedIsGone
  <2>1. Erased(r, store, table)
    BY DEF IInv, GoneInv
  <2>2. store.mih = CodesOf(store.bf)
    BY ShapeGives DEF IInv
  <2>3. \A k \in Keys : store.bf[k] = <<>> => store.mih[k] = None
    BY <2>2 DEF CodesOf
  <2> QED
    BY <2>1, <2>3 DEF Erased
<1> QED
  BY <1>1, <1>2, <1>3, PTL DEF Spec
=============================================================================
