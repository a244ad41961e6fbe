---------------------------- MODULE VectorStore ----------------------------
(***************************************************************************)
(* The binary lane of VectorKit's VectorStore (vector_store.rs and         *)
(* engine/resident_store.rs).                                              *)
(*                                                                         *)
(* The `vectors` table is durable and unique on (item, index, model).      *)
(* Searches never read it: they scan a resident array of slots, kept twice *)
(* (brute force and multi-index hashing), whose key also holds the model   *)
(* version.  With a sidecar, a third copy of the array is written to a     *)
(* `.vec` file, which the next open trusts when it has as many live slots  *)
(* as the table has rows.  A write changes the table first, outside the    *)
(* mutex, and mirrors it into the arrays under the mutex afterwards.  In a *)
(* deferred window add_payloads only stages; publish rebuilds the indexes. *)
(*                                                                         *)
(* Live slots are kept per key, in the order they were appended; dead      *)
(* slots, and the compaction that drops them, have no effect on a search.  *)
(* Sidecar writes are atomic (a temporary file renamed).                   *)
(***************************************************************************)
EXTENDS Integers, FiniteSets, Sequences, SequencesExt

CONSTANTS
  Rows,         \* rows of the table, records with fields item, idx and model
  Versions,     \* model versions
  Vals,         \* payloads
  Threads,      \* callers of one VectorStore
  Deployments,  \* is there a sidecar, the rows in use, and what the callers may do
  Threshold,    \* mih_threshold
  Limit,        \* deferred_pending_limit
  MaxCalls,     \* bound on the calls
  MaxBatch,     \* bound on the records of one call
  MaxOpens,     \* bound on the openings of the store
  None          \* no row, no vector

\* What the callers of a deployment may do, beyond searching and adding new rows
\* from several threads that never work on the same row at the same time.
Liberties ==
  {"window",      \* deferred windows
   "single",      \* add_payload, add_vector
   "mixed",       \* ... while a deferred window is open
   "rewrite",     \* add a row again, delete
   "reindex",     \* replace_model_vectors
   "midwindow",   \* ... while a deferred window is open
   "restart",     \* drop the store at rest, flushed, and open it again
   "early",       \* delete before the store's index is built
   "crash",       \* the process dies at any step
   "upserts",     \* a table write may fail
   "sidecars",    \* a sidecar write may fail, that of a compaction included
   "compactions", \* ... the compaction's also after a batch of rows new to the index
   "shared",      \* threads work on one row at the same time
   "repeats",     \* one batch names a key twice
   "versions"}    \* a row is added again under another model version

\* What the code bears: no row, key or version is used twice at a time and no add_payload
\* runs inside a window; with a sidecar, moreover, nothing is deleted before the index is
\* built, no model is replaced inside a window, a sidecar write does not fail inside one,
\* no compaction fails once a batch has appended rows the index does not hold, and a
\* process that may crash only adds.
Safe(d) ==
  /\ d.may \cap {"shared", "repeats", "versions", "mixed"} = {}
  /\ d.sidecar =>
       /\ d.may \cap {"early", "midwindow", "compactions"} = {}
       /\ ~({"window", "sidecars"} \subseteq d.may)
       /\ "crash" \in d.may => d.may \cap {"rewrite", "reindex"} = {}

Keys == Rows \X Versions
Recs == [row: Rows, ver: Versions, val: Vals]
KeyOf(r) == <<r.row, r.ver>>
RowsOf(recs) == {r.row : r \in Range(recs)}
KeysOf(recs) == {KeyOf(r) : r \in Range(recs)}

ASSUME VectorAssumption ==
  /\ \A r \in Rows : DOMAIN r = {"item", "idx", "model"}
  /\ IsFiniteSet(Rows) /\ IsFiniteSet(Versions)
  /\ Deployments \subseteq [sidecar: BOOLEAN, rows: SUBSET Rows, may: SUBSET Liberties]
  /\ Threshold \in Nat /\ Limit \in Nat
  /\ MaxCalls \in Nat /\ MaxBatch \in Nat /\ MaxOpens \in Nat \ {0}
  /\ None \notin Vals /\ None \notin [ver: Versions, val: Vals]

VARIABLES
  deploy,
  table,    \* durable: the binary rows of `vectors`
  store,    \* HotState, with the resident array store and its file
  thread,   \* the call each thread is in
  hurt,     \* rows whose latest change returned an error
  gone,     \* rows deleted, by a call that returned Ok, with no change begun since
  calls, opens

vars == <<deploy, table, store, thread, hurt, gone, calls, opens>>

Arrays == [Keys -> Seq(Vals)]
Empty  == [k \in Keys |-> <<>>]
Stores ==
  [bf: Arrays, mih: [Keys -> Vals \cup {None}],
   arr: Arrays, stale: BOOLEAN, file: Arrays,  \* ResidentArrayStore: array, is_dirty, .vec
   count: Nat, lane: BOOLEAN, built: BOOLEAN,  \* live_binary_count, is_mih_active
   active: BOOLEAN, dirty: BOOLEAN, live: SUBSET Keys, pending: Seq(Recs)]
Steps == {"idle", "upsert", "mirror", "check", "publish", "erase", "tombstone",
          "swap", "rebuild", "wipe", "reset"}
Calls == {"none", "add", "single", "one", "all", "replace", "destroy"}
Idle == [at |-> "idle", call |-> "none", recs |-> <<>>, todo |-> <<>>, rows |-> {}]

TypeOK ==
  /\ deploy \in Deployments
  /\ table \in [Rows -> [ver: Versions, val: Vals] \cup {None}]
  /\ store \in Stores
  /\ thread \in [Threads -> [at: Steps, call: Calls, recs: Seq(Recs), todo: Seq(Recs),
                             rows: SUBSET Rows]]
  /\ hurt \in SUBSET Rows
  /\ gone \in SUBSET Rows
  /\ calls \in 0 .. MaxCalls
  /\ opens \in 1 .. MaxOpens

\* The constructor: nothing is read before the first call needs the index.
Unopened(file) ==
  [bf |-> Empty, mih |-> [k \in Keys |-> None], arr |-> Empty, stale |-> FALSE,
   file |-> file, count |-> 0, lane |-> FALSE, built |-> FALSE, active |-> FALSE,
   dirty |-> FALSE, live |-> {}, pending |-> <<>>]

Init ==
  /\ deploy \in Deployments
  /\ table = [r \in Rows |-> None]
  /\ store = Unopened(Empty)
  /\ thread = [t \in Threads |-> Idle]
  /\ hurt = {} /\ gone = {} /\ calls = 0 /\ opens = 1

May(x) == x \in deploy.may

(***************************************************************************)
(* The arrays                                                              *)
(***************************************************************************)

LiveKeys(a)  == {k \in Keys : a[k] # <<>>}
LiveCount(a) == Cardinality(UNION {{<<k, i>> : i \in DOMAIN a[k]} : k \in Keys})

\* tombstone, tombstone_deferred, BruteForceIndex::remove
Tombstone(a, ks) == [k \in Keys |-> IF k \in ks THEN <<>> ELSE a[k]]

\* append_batch, append_deferred: repeated keys each get a live slot
PlacesOf(recs, k) == {i \in DOMAIN recs : KeyOf(recs[i]) = k}
ValsFor(recs, k) ==
  LET is == PlacesOf(recs, k)
  IN  [n \in 1 .. Cardinality(is) |->
         recs[CHOOSE i \in is : Cardinality({j \in is : j < i}) = n - 1].val]
Appended(a, recs) == [k \in Keys |-> a[k] \o ValsFor(recs, k)]

\* dedup_last_wins then merge_batch_into_snapshot
MergedLast(a, recs) ==
  [k \in Keys |-> LET is == PlacesOf(recs, k)
                  IN  IF is = {} THEN a[k] ELSE <<recs[Max(is)].val>>]

\* fetch_all_binary_records
TableArray ==
  [k \in Keys |-> IF table[k[1]] # None /\ table[k[1]].ver = k[2]
                    THEN <<table[k[1]].val>> ELSE <<>>]
TableCount == Cardinality({r \in Rows : table[r] # None})

(***************************************************************************)
(* The locked steps, as functions of the store                             *)
(***************************************************************************)

Counted(s, n) == [s EXCEPT !.count = n, !.lane = n >= Threshold]

\* build both indexes: where a key repeats, MIH keeps the last code
Indexed(s, a) ==
  [s EXCEPT !.bf = a, !.mih = [k \in Keys |-> IF a[k] = <<>> THEN None ELSE Last(a[k])]]

Persisted(s, a) == [s EXCEPT !.arr = a, !.file = a, !.stale = FALSE]

\* rebuild_binary_index_from_table_locked
FromTable(s) ==
  Counted([Indexed(IF deploy.sidecar THEN Persisted(s, TableArray) ELSE s, TableArray)
             EXCEPT !.built = TRUE], LiveCount(TableArray))

\* ensure_index_built_locked
Ensured(s) ==
  IF s.built THEN s
  ELSE IF deploy.sidecar /\ LiveCount(s.file) = TableCount
    THEN Counted([Indexed([s EXCEPT !.arr = s.file, !.stale = FALSE], s.file)
                    EXCEPT !.built = TRUE], LiveCount(s.file))
    ELSE FromTable(s)

\* publish_resident_index
Published(s) ==
  LET closed == [s EXCEPT !.active = FALSE, !.dirty = FALSE, !.live = {}, !.pending = <<>>]
      snap   == IF deploy.sidecar THEN s.arr ELSE MergedLast(s.bf, s.pending)
  IN  IF s.dirty THEN Counted(Indexed(closed, snap), LiveCount(snap)) ELSE closed

\* flush_deferred_pending: the window stays open and dirty, the lane is not selected
PendingFlushed(s) ==
  LET snap == MergedLast(s.bf, s.pending)
  IN  [Indexed(s, snap) EXCEPT !.pending = <<>>, !.count = LiveCount(snap),
                               !.live = LiveKeys(snap)]

\* add_payloads in a deferred window.  The live set grows inside the loop, so a key
\* the batch repeats counts as replaced.
Repeated(recs) ==
  {KeyOf(recs[i]) : i \in {j \in DOMAIN recs : \E h \in 1 .. j - 1 : KeyOf(recs[h]) = KeyOf(recs[j])}}
Replaced(s, recs) == (KeysOf(recs) \cap s.live) \cup Repeated(recs)

Staged(s, recs) ==
  LET new  == Cardinality(KeysOf(recs) \ s.live)
      next == [s EXCEPT !.live = @ \cup KeysOf(recs), !.count = @ + new, !.dirty = TRUE,
                        !.pending = IF deploy.sidecar THEN @ ELSE @ \o recs]
  IN  IF deploy.sidecar
        THEN Persisted(next, Appended(Tombstone(s.arr, Replaced(s, recs)), recs))
        ELSE IF Len(next.pending) > Limit THEN PendingFlushed(next) ELSE next

\* Mutant: an immediate batch is appended without retiring the slots it replaces
MirroredBeside(s, recs) ==
  LET snap == Appended(IF deploy.sidecar THEN s.arr ELSE s.bf, recs)
      next == IF deploy.sidecar THEN Persisted(s, snap) ELSE s
  IN  Counted(Indexed(next, snap), s.count + Cardinality(KeysOf(recs)))

\* add_payloads outside one.  Only the in-memory merge replaces every key it is given.
Mirrored(s, recs) ==
  LET old  == KeysOf(recs) \cap LiveKeys(s.bf)
      snap == IF deploy.sidecar THEN Appended(Tombstone(s.arr, old), recs)
                                ELSE Appended(Tombstone(s.bf, KeysOf(recs)), recs)
      next == IF deploy.sidecar THEN Persisted(s, snap) ELSE s
  IN  Counted(Indexed(next, snap), s.count + Cardinality(KeysOf(recs) \ old))

AddPayloads(s, recs) == IF s.active THEN Staged(s, recs) ELSE Mirrored(s, recs)

\* add_payload: both indexes and the array change in memory only, window or not
AddPayload(s, r) ==
  LET k    == KeyOf(r)
      next == IF deploy.sidecar
                THEN [s EXCEPT !.arr = [@ EXCEPT ![k] = <<r.val>>], !.stale = TRUE]
                ELSE s
  IN  Counted([next EXCEPT !.bf = [@ EXCEPT ![k] = <<r.val>>], !.mih = [@ EXCEPT ![k] = r.val]],
              IF s.bf[k] = <<>> THEN s.count + 1 ELSE s.count)

\* The tombstones of a delete: the array store and its file drop the keys in dead, the
\* indexes those in cut.  The array store still holds slots of the keys, live or dead, and
\* rewrites its file.
Unslotted(s, dead, cut) ==
  LET next == IF deploy.sidecar /\ dead # {} THEN Persisted(s, Tombstone(s.arr, dead)) ELSE s
  IN  [next EXCEPT !.bf = Tombstone(@, cut),
                   !.mih = [k \in Keys |-> IF k \in cut THEN None ELSE @[k]]]

\* delete_all_vectors, delete_and_tombstone: ks are the keys the scan of the
\* brute-force array found, n its slots.
Removed(s, ks, n) ==
  Counted(Unslotted(s, ks, ks), IF s.count >= n THEN s.count - n ELSE 0)

(***************************************************************************)
(* The calls                                                               *)
(***************************************************************************)

Touched == UNION {thread[t].rows : t \in Threads}
Free(rows) == May("shared") \/ rows \cap Touched = {}
Busy(call) == \E t \in Threads : thread[t].call = call
ModelRows(m) == {r \in Rows : r.model = m}

Start(t, at, call, recs, rows) ==
  /\ thread[t] = Idle
  /\ calls < MaxCalls
  /\ Free(rows)
  /\ thread' = [thread EXCEPT ![t] = [at |-> at, call |-> call, recs |-> recs, todo |-> recs,
                                      rows |-> rows]]
  /\ calls' = calls + 1
  /\ gone' = gone \ rows
  /\ UNCHANGED <<deploy, table, store, hurt, opens>>

Goto(t, at) == thread' = [thread EXCEPT ![t].at = at]
Returns(t)  == thread' = [thread EXCEPT ![t] = Idle]
ReturnsOk(t) == Returns(t) /\ hurt' = hurt \ thread[t].rows
ReturnsErr(t) == Returns(t) /\ hurt' = hurt \cup thread[t].rows
Fixed == UNCHANGED <<deploy, calls, opens>>

\* The records a call of this deployment may pass.
Batches ==
  LET seqs == UNION {[1 .. n -> Recs] : n \in 1 .. MaxBatch}
  IN  {b \in seqs :
         /\ RowsOf(b) \subseteq deploy.rows
         /\ May("versions") \/ \A i \in DOMAIN b : b[i].ver = CHOOSE v \in Versions : TRUE
         /\ May("repeats") \/ Cardinality(RowsOf(b)) = Len(b)}
New(rows) == \A r \in rows : table[r] = None

\* add_payloads
AddBegins(t) ==
  \E b \in Batches :
    /\ May("rewrite") \/ New(RowsOf(b))
    /\ Start(t, "upsert", "add", b, RowsOf(b))

\* add_payload
SingleBegins(t) ==
  \E b \in Batches :
    /\ May("single") /\ Len(b) = 1
    /\ May("rewrite") \/ New(RowsOf(b))
    /\ May("mixed") \/ ~store.active
    /\ Start(t, "upsert", "single", b, RowsOf(b))

\* delete_vector and delete_payload; delete_all_vectors
DeleteBegins(t) ==
  \E r \in deploy.rows, call \in {"one", "all"} :
    /\ May("rewrite")
    /\ store.built \/ May("early")
    /\ Start(t, "check", call, <<>>,
             IF call = "one" THEN {r} ELSE {q \in ModelRows(r.model) : q.item = r.item})

\* replace_model_vectors
ReplaceBegins(t) ==
  \E m \in {r.model : r \in deploy.rows}, b \in Batches \cup {<<>>} :
    /\ May("reindex")
    /\ May("midwindow") \/ ~store.active
    /\ RowsOf(b) \subseteq ModelRows(m)
    /\ Cardinality(RowsOf(b)) = Len(b)
    /\ Start(t, "check", "replace", b, ModelRows(m))

\* destroy_all_vectors
DestroyBegins(t) ==
  /\ May("rewrite")
  /\ Start(t, "wipe", "destroy", <<>>, Rows)

\* One upsert of add_payload or add_payloads.
Upsert(t) ==
  LET r == Head(thread[t].todo) IN
  /\ thread[t].at = "upsert"
  /\ table' = [table EXCEPT ![r.row] = [ver |-> r.ver, val |-> r.val]]
  /\ thread' = [thread EXCEPT ![t].todo = Tail(@),
                              ![t].at = IF Len(thread[t].todo) = 1 THEN "mirror" ELSE "upsert"]
  /\ UNCHANGED <<store, hurt, gone>> /\ Fixed

UpsertFails(t) ==
  /\ May("upserts")
  /\ thread[t].at = "upsert"
  /\ ReturnsErr(t)
  /\ UNCHANGED <<table, store, gone>> /\ Fixed

Mirror(t) ==
  /\ thread[t].at = "mirror"
  /\ store' = IF thread[t].call = "single" THEN AddPayload(Ensured(store), thread[t].recs[1])
                                          ELSE AddPayloads(Ensured(store), thread[t].recs)
  /\ ReturnsOk(t)
  /\ UNCHANGED <<table, gone>> /\ Fixed

\* Mutant: a delete does not publish the window it may have a record in
CheckNothing(t) ==
  /\ thread[t].at = "check"
  /\ Goto(t, IF thread[t].call = "replace" THEN "swap" ELSE "erase")
  /\ UNCHANGED <<table, store, hurt, gone>> /\ Fixed

\* publish_if_deferred_dirty reads the flag under the mutex and drops the mutex ...
CheckDirty(t) ==
  /\ thread[t].at = "check"
  /\ Goto(t, IF store.dirty THEN "publish"
             ELSE IF thread[t].call = "replace" THEN "swap" ELSE "erase")
  /\ UNCHANGED <<table, store, hurt, gone>> /\ Fixed

\* ... before it publishes.
PublishFirst(t) ==
  /\ thread[t].at = "publish"
  /\ store' = Published(store)
  /\ Goto(t, IF thread[t].call = "replace" THEN "swap" ELSE "erase")
  /\ UNCHANGED <<table, hurt, gone>> /\ Fixed

Erase(t) ==
  /\ thread[t].at = "erase"
  /\ table' = [r \in Rows |-> IF r \in thread[t].rows THEN None ELSE table[r]]
  /\ Goto(t, "tombstone")
  /\ UNCHANGED <<store, hurt, gone>> /\ Fixed

\* The keys the scan of a delete removes: the single delete stops at the first match.
Scanned(t) ==
  LET found == {k \in LiveKeys(store.bf) : k[1] \in thread[t].rows}
  IN  IF thread[t].call = "one" /\ found # {} THEN {{k} : k \in found} ELSE {found}
Slots(ks) == LiveCount([k \in Keys |-> IF k \in ks THEN store.bf[k] ELSE <<>>])

TombstoneSlots(t) ==
  /\ thread[t].at = "tombstone"
  /\ \/ ~store.built /\ UNCHANGED store
     \/ /\ store.built
        /\ \E ks \in Scanned(t) :
             store' = Removed(store, ks, IF thread[t].call = "one" THEN Cardinality(ks)
                                         ELSE Slots(ks))
  /\ gone' = gone \cup thread[t].rows
  /\ ReturnsOk(t)
  /\ UNCHANGED table /\ Fixed

\* The transaction of replace_model_vectors.
Swap(t) ==
  LET b == thread[t].recs IN
  /\ thread[t].at = "swap"
  /\ table' = [r \in Rows |->
                 IF r \notin thread[t].rows THEN table[r]
                 ELSE IF r \in RowsOf(b)
                   THEN LET i == CHOOSE i \in DOMAIN b : b[i].row = r
                        IN  [ver |-> b[i].ver, val |-> b[i].val]
                   ELSE None]
  /\ Goto(t, "rebuild")
  /\ UNCHANGED <<store, hurt, gone>> /\ Fixed

\* It rolls back: neither the table nor the index changes.
SwapFails(t) ==
  /\ May("upserts")
  /\ thread[t].at = "swap"
  /\ Returns(t)
  /\ UNCHANGED <<table, store, hurt, gone>> /\ Fixed

Rebuild(t) ==
  /\ thread[t].at = "rebuild"
  /\ store' = FromTable(store)
  /\ gone' = gone \cup (thread[t].rows \ RowsOf(thread[t].recs))
  /\ ReturnsOk(t)
  /\ UNCHANGED table /\ Fixed

Wipe(t) ==
  /\ thread[t].at = "wipe"
  /\ table' = [r \in Rows |-> None]
  /\ Goto(t, "reset")
  /\ UNCHANGED <<store, hurt, gone>> /\ Fixed

Reset(t) ==
  /\ thread[t].at = "reset"
  /\ store' = [Unopened(IF deploy.sidecar THEN Empty ELSE store.file) EXCEPT !.built = TRUE]
  /\ gone' = Rows
  /\ ReturnsOk(t)
  /\ UNCHANGED table /\ Fixed

\* add_payloads with a sidecar whose write fails: the array store has dropped the slots
\* the batch replaces, a window has lost its live keys (taken out of the state and never
\* put back), and the indexes are as before.
Retired(s, recs) == IF s.active THEN Replaced(s, recs) ELSE KeysOf(recs) \cap LiveKeys(s.bf)
Unkeyed(s) == [s EXCEPT !.live = IF s.active THEN {} ELSE @]
AppendFails(s, recs) ==
  LET ks == Retired(s, recs)
  IN  [Unkeyed(s) EXCEPT !.arr = Tombstone(@, ks), !.stale = @ \/ ks \cap LiveKeys(s.arr) # {}]

\* The write succeeds and enough slots are dead for compact, whose write fails: the array
\* store and its file hold the batch, the indexes do not.  A retry retires what the index
\* holds, so the slots of a row that is new to it stay beside those of the retry.
CompactionFails(s, recs) ==
  Persisted(Unkeyed(s), Appended(Tombstone(s.arr, Retired(s, recs)), recs))

\* A sidecar write fails inside a locked step.  A delete is cut at one of its keys, by the
\* write of its tombstone or by the compaction after it.  The rebuild of a first build
\* leaves nothing that the next one reads.
SidecarFails(t) ==
  LET s == Ensured(store)
      recs == thread[t].recs
  IN
  /\ May("sidecars") /\ deploy.sidecar
  /\ \/ /\ thread[t].at = "mirror"
        /\ ~store.built /\ LiveCount(store.file) # TableCount
        /\ UNCHANGED store
     \/ /\ thread[t].at = "mirror" /\ thread[t].call = "add"
        /\ \/ store' = AppendFails(s, recs)
           \/ /\ May("compactions") \/ KeysOf(recs) \subseteq LiveKeys(s.bf)
              /\ store' = CompactionFails(s, recs)
     \/ /\ thread[t].at = "tombstone"
        /\ \E ks \in Scanned(t) : \E cut \in SUBSET ks, k \in ks :
             /\ k \notin cut
             /\ \E dead \in {cut, cut \cup {k}} : store' = Unslotted(store, dead, cut)
     \/ /\ thread[t].at = "rebuild"
        /\ store' = [store EXCEPT !.count = LiveCount(TableArray)]
     \/ /\ thread[t].at = "reset"
        /\ UNCHANGED store
  /\ ReturnsErr(t)
  /\ UNCHANGED <<table, gone>> /\ Fixed

(***************************************************************************)
(* Calls that are one locked step                                          *)
(***************************************************************************)

Locked(t) ==
  /\ thread[t] = Idle
  /\ UNCHANGED <<deploy, table, thread, hurt, gone, calls, opens>>

\* begin_deferred_index
BeginDeferred(t) ==
  LET s == Ensured(store) IN
  /\ May("window") /\ ~store.active
  /\ May("mixed") \/ ~Busy("single")
  /\ May("midwindow") \/ ~Busy("replace")
  /\ store' = [s EXCEPT !.live = LiveKeys(s.bf), !.pending = <<>>, !.dirty = FALSE,
                        !.active = TRUE]
  /\ Locked(t)

Publish(t) ==
  /\ store.active \/ store.dirty
  /\ store' = Published(store)
  /\ Locked(t)

Flush(t) ==
  /\ store.stale
  /\ store' = Persisted(store, store.arr)
  /\ Locked(t)

\* find_nearest: only its first call changes anything
FindNearest(t) ==
  /\ ~store.built
  /\ store' = Ensured(store)
  /\ Locked(t)

(***************************************************************************)
(* The process                                                             *)
(***************************************************************************)

Reopened ==
  /\ opens < MaxOpens
  /\ opens' = opens + 1
  /\ store' = Unopened(store.file)
  /\ UNCHANGED <<deploy, table, calls>>

Restart ==
  /\ May("restart")
  /\ \A t \in Threads : thread[t] = Idle
  /\ ~store.stale
  /\ Reopened
  /\ UNCHANGED <<thread, hurt, gone>>

\* A call that was cut off is neither acknowledged nor refused.
Crash ==
  /\ May("crash")
  /\ Reopened
  /\ thread' = [t \in Threads |-> Idle]
  /\ UNCHANGED <<hurt, gone>>

Next ==
  \/ \E t \in Threads :
       \/ AddBegins(t) \/ SingleBegins(t) \/ DeleteBegins(t) \/ ReplaceBegins(t)
       \/ DestroyBegins(t) \/ Upsert(t) \/ UpsertFails(t) \/ Mirror(t) \/ CheckDirty(t)
       \/ PublishFirst(t) \/ Erase(t) \/ TombstoneSlots(t) \/ Swap(t) \/ SwapFails(t)
       \/ Rebuild(t) \/ Wipe(t) \/ Reset(t) \/ SidecarFails(t) \/ BeginDeferred(t)
       \/ Publish(t) \/ Flush(t) \/ FindNearest(t)
  \/ Restart
  \/ Crash

Spec == Init /\ [][Next]_vars

(***************************************************************************)
(* What a search sees                                                      *)
(***************************************************************************)

\* Rows no call is working on, and whose latest change did not fail.
Settled == Rows \ (Touched \cup hurt)
SameOn(rows, a, b) == \A k \in Keys : k[1] \in rows => a[k] = b[k]

\* What publish_resident_index would build now.
Snapshot == IF deploy.sidecar /\ (store.dirty \/ store.stale) THEN store.arr
            ELSE MergedLast(store.bf, store.pending)

\* Once the index is built and no deferred write waits, both indexes hold exactly
\* the table's vector for every settled row: find_nearest reads only the indexes,
\* after concurrent adds, deletes, windows, re-embeds, restarts and failed calls.
ResidentMatchesTable ==
  store.built /\ ~store.dirty =>
    /\ SameOn(Settled, store.bf, TableArray)
    /\ \A k \in Keys : k[1] \in Settled =>
         store.mih[k] = IF TableArray[k] = <<>> THEN None ELSE TableArray[k][1]

\* Inside a deferred window nothing acknowledged is lost: what publish would build
\* from the array store, or from the pending records, is the table's content.
StagedMatchesTable == store.built => SameOn(Settled, Snapshot, TableArray)

\* At every instant, also in the middle of another thread's call, a search finds at
\* most one vector of a row, which delete_and_tombstone takes for granted when it
\* stops at the first match.
OneSlotPerRow ==
  \A r \in Rows \ hurt : LiveCount([k \in Keys |-> IF k[1] = r THEN store.bf[k] ELSE <<>>]) <= 1

\* A deleted vector is gone from the table, from both indexes, from the array store
\* and from the deferred buffer, and no publish, rebuild, restart or call on another
\* row brings it back.
ErasedIsGone ==
  \A r \in gone \ hurt :
    /\ table[r] = None
    /\ \A k \in Keys : k[1] = r => /\ store.bf[k] = <<>>
                                   /\ store.mih[k] = None
                                   /\ store.arr[k] = <<>>
    /\ r \notin RowsOf(store.pending)

\* The live count that chooses between the two indexes is the number of live slots
\* whenever no deferred write waits, through every path that adjusts it by hand (a
\* rebuild whose sidecar write fails has already set it to the table's count).
CountIsExact ==
  store.built /\ ~store.dirty /\ ~May("sidecars") =>
    /\ store.count = LiveCount(store.bf)
    /\ store.count > 0 => store.lane = (store.count >= Threshold)

\* The resident index is the table: after any interleaving of adds, deletes, deferred
\* windows, replacements, restarts and failing calls, both search indexes, what a publish
\* would build, the slots a delete retires and the count that picks the search lane all
\* agree with the rows that are stored.
IndexesMatchTable ==
  /\ TypeOK
  /\ ResidentMatchesTable
  /\ StagedMatchesTable
  /\ OneSlotPerRow
  /\ CountIsExact
=============================================================================
