---------------------------- MODULE IngestQueue ----------------------------
(***************************************************************************)
(* The ingest pipeline a Corpus owns (corpus_ingest_queue.rs).             *)
(*                                                                         *)
(* Jobs are rows of queue.sqlite, which every process that has the estate  *)
(* open shares.  A mounted process runs an encode worker and an import     *)
(* worker; each is guarded by a lease per stream.  await_ingest_drain      *)
(* pumps the encode stream from the caller's own thread, without a lease.  *)
(* A drainer claims every new row of its stream (new -> cur), ingests the  *)
(* batch, and replies (cur -> done or blocked).  Rows that a dead drainer  *)
(* left in cur are reset to new at a worker's FIRST acquisition only.      *)
(*                                                                         *)
(* Time is abstracted: a live worker refreshes its lease well inside the   *)
(* lease's time to live, so a lease lapses when its holder is dead, or     *)
(* (fault "slow") while the holder is inside one long batch.  The host     *)
(* calls enqueue, await and drop of one process from one thread.           *)
(***************************************************************************)
EXTENDS Naturals, FiniteSets

CONSTANTS
  Jobs,         \* job ids
  StreamOf,     \* StreamOf[j]: the stream job j is sent on
  Undecodable,  \* jobs whose payload from_job cannot read, sent by another writer
  Procs,        \* processes, each with one Corpus on the estate
  Deployments,  \* who opens the estate, who calls await, whether it is SQLite
                \* (and so leased), what may go wrong, and the jobs sent
  MaxMounts,    \* bound on the mounts of a process
  MaxCrashes,   \* bound on the crashes
  Nobody,       \* no lease file
  Dead          \* the lease names an owner that no longer exists

Streams   == {"encode", "import"}
Kinds     == {"encode", "import", "pump"}
Drainers  == Procs \X Kinds
AllFaults == {"claim", "begin", "ingest", "reply", "reclaim", "slow"}

ASSUME QueueAssumption ==
  /\ StreamOf \in [Jobs -> Streams]
  /\ Undecodable \subseteq Jobs
  /\ Deployments \subseteq [procs: SUBSET Procs, waits: SUBSET Procs, leased: BOOLEAN,
                       faults: SUBSET AllFaults, jobs: SUBSET Jobs]
  /\ MaxMounts \in Nat
  /\ MaxCrashes \in Nat
  /\ Nobody \notin Procs /\ Nobody \notin Drainers /\ Dead \notin Procs /\ Nobody # Dead

VARIABLES
  deploy,    \* the deployment
  status,    \* durable: the state of each job's row
  session,   \* durable: the drainer whose last claim took the row, or Nobody
  ingested,  \* durable: jobs whose ingest returned Ok
  lease,     \* durable: the owner of each stream's lease file
  thread,    \* where each drainer is
  host,      \* what the host thread of each process is doing
  mounted,   \* the processes whose ingest_queue is Some
  mounts,    \* how often each process mounted
  deferred,  \* the processes whose vector store is in deferred-index mode
  pending,   \* pending[p]: jobs whose vectors wait for the next publish
  resident,  \* resident[p]: jobs whose vectors p's resident index holds
  owed,      \* owed[p]: the encode jobs enqueued before p's await began
  crashes

rows  == <<status, session>>
index == <<deferred, pending, resident>>
life  == <<deploy, host, mounted, mounts, owed, crashes>>
vars  == <<rows, ingested, lease, thread, index, life>>

RowStates == {"none", "new", "cur", "done", "blocked"}
Settled   == {"done", "blocked"}
Stages == {"off", "loop", "drain", "decode", "ingest", "reply", "fallback", "verdict"}
Threads ==
  [at: Stages,
   batch: SUBSET Jobs,         \* the jobs of the claim still to be replied
   one: SUBSET Jobs,           \* the job the fallback is about to reply
   verdict: Settled,
   reclaimed: BOOLEAN,         \* reclaimed_on_mount
   publish: BOOLEAN]           \* pending_publish
Off == [at |-> "off", batch |-> {}, one |-> {}, verdict |-> "done",
        reclaimed |-> FALSE, publish |-> FALSE]

TypeOK ==
  /\ deploy \in Deployments
  /\ status \in [Jobs -> RowStates]
  /\ session \in [Jobs -> Drainers \cup {Nobody}]
  /\ ingested \in SUBSET Jobs
  /\ lease \in [Streams -> Procs \cup {Nobody, Dead}]
  /\ thread \in [Drainers -> Threads]
  /\ host \in [Procs -> {"free", "pump", "latch", "publish", "join"}]
  /\ mounted \in SUBSET Procs
  /\ mounts \in [Procs -> 0 .. MaxMounts]
  /\ deferred \in SUBSET Procs
  /\ pending \in [Procs -> SUBSET Jobs]
  /\ resident \in [Procs -> SUBSET Jobs]
  /\ owed \in [Procs -> SUBSET Jobs]
  /\ crashes \in 0 .. MaxCrashes

Init ==
  /\ deploy \in Deployments
  /\ status = [j \in Jobs |-> "none"]
  /\ session = [j \in Jobs |-> Nobody]
  /\ ingested = {}
  /\ lease = [s \in Streams |-> Nobody]
  /\ thread = [d \in Drainers |-> Off]
  /\ host = [p \in Procs |-> "free"]
  /\ mounted = {}
  /\ mounts = [p \in Procs |-> 0]
  /\ deferred = {}
  /\ pending = [p \in Procs |-> {}]
  /\ resident = [p \in Procs |-> {}]
  /\ owed = [p \in Procs |-> {}]
  /\ crashes = 0

\* A worker whose stream gets no job only spins, and is left out.
Workers(p) == {<<p, StreamOf[j]>> : j \in deploy.jobs}

Stream(d) == IF d[2] = "import" THEN "import" ELSE "encode"
InStream(s, x) == {j \in Jobs : StreamOf[j] = s /\ status[j] = x}
Go(d, r) == thread' = [thread EXCEPT ![d] = r]

(***************************************************************************)
(* The host's calls                                                        *)
(***************************************************************************)

\* mount_ingest_queue: nothing when mounted, else both workers start.  The queue
\* of an in-memory estate lives as long as the mount; a second mount would be
\* another queue, and the model follows the first.
Mounted(p) ==
  \/ /\ p \in mounted
     /\ UNCHANGED <<mounted, mounts, thread>>
  \/ /\ p \notin mounted
     /\ mounts[p] < MaxMounts
     /\ deploy.leased \/ mounts[p] = 0
     /\ mounted' = mounted \cup {p}
     /\ mounts' = [mounts EXCEPT ![p] = @ + 1]
     /\ thread' = [d \in Drainers |-> IF d \in Workers(p) THEN [Off EXCEPT !.at = "loop"]
                                       ELSE thread[d]]

Mount(p) ==
  /\ p \in deploy.procs
  /\ host[p] = "free"
  /\ p \notin mounted
  /\ Mounted(p)
  /\ UNCHANGED <<rows, ingested, lease, index, deploy, host, owed, crashes>>

\* enqueue_ingest, enqueue_ingest_batch, enqueue_ingest_batch_import: mount if
\* absent, then write the rows in one transaction.  Empty texts are skipped.
Enqueue(p, J) ==
  /\ p \in deploy.procs
  /\ host[p] = "free"
  /\ J \subseteq deploy.jobs \ Undecodable
  /\ \E s \in Streams : J \subseteq InStream(s, "none")
  /\ Mounted(p)
  /\ status' = [j \in Jobs |-> IF j \in J THEN "new" ELSE status[j]]
  /\ UNCHANGED <<session, ingested, lease, index, deploy, host, owed, crashes>>

\* Another writer of the shared queue sends a row this port cannot decode.
ForeignJob(j) ==
  /\ j \in deploy.jobs \cap Undecodable
  /\ status[j] = "none"
  /\ status' = [status EXCEPT ![j] = "new"]
  /\ UNCHANGED <<session, ingested, lease, thread, index, life>>

\* drop_ingest_queue: take the state, set stop, join both workers.
Drop(p) ==
  /\ host[p] = "free"
  /\ p \in mounted
  /\ mounted' = mounted \ {p}
  /\ host' = [host EXCEPT ![p] = "join"]
  /\ UNCHANGED <<rows, ingested, lease, thread, index, deploy, mounts, owed, crashes>>

DropReturns(p) ==
  /\ host[p] = "join"
  /\ \A s \in Streams : thread[<<p, s>>].at = "off"
  /\ host' = [host EXCEPT ![p] = "free"]
  /\ UNCHANGED <<rows, ingested, lease, thread, index, deploy, mounted, mounts, owed, crashes>>

\* await_ingest_drain: pump until a pass finds nothing, wait until the encode
\* stream has neither new nor cur rows, then publish.
Await(p) ==
  /\ p \in deploy.waits
  /\ host[p] = "free"
  /\ p \in mounted
  /\ host' = [host EXCEPT ![p] = "pump"]
  /\ owed' = [owed EXCEPT ![p] = {j \in Jobs : StreamOf[j] = "encode" /\ status[j] # "none"}]
  /\ Go(<<p, "pump">>, [Off EXCEPT !.at = "drain"])
  /\ UNCHANGED <<rows, ingested, lease, index, deploy, mounted, mounts, crashes>>

\* Mutant: the barrier looks at the new rows only.
LatchPending(p) ==
  /\ host[p] = "latch"
  /\ InStream("encode", "new") = {}
  /\ host' = [host EXCEPT ![p] = "publish"]
  /\ UNCHANGED <<rows, ingested, lease, thread, index, deploy, mounted, mounts, owed, crashes>>

Latch(p) ==
  /\ host[p] = "latch"
  /\ InStream("encode", "new") \cup InStream("encode", "cur") = {}
  /\ host' = [host EXCEPT ![p] = "publish"]
  /\ UNCHANGED <<rows, ingested, lease, thread, index, deploy, mounted, mounts, owed, crashes>>

\* publish_resident_index: the deferred records are merged, the mode ends.
Publish(p) ==
  /\ deferred' = deferred \ {p}
  /\ pending' = [pending EXCEPT ![p] = {}]
  /\ resident' = [resident EXCEPT ![p] = @ \cup pending[p]]

AwaitReturns(p) ==
  /\ host[p] = "publish"
  /\ Publish(p)
  /\ host' = [host EXCEPT ![p] = "free"]
  /\ owed' = [owed EXCEPT ![p] = {}]
  /\ UNCHANGED <<rows, ingested, lease, thread, deploy, mounted, mounts, crashes>>

\* The latch times out: await returns the error and does not publish.
AwaitTimesOut(p) ==
  /\ host[p] = "latch"
  /\ InStream("encode", "new") \cup InStream("encode", "cur") # {}
  /\ host' = [host EXCEPT ![p] = "free"]
  /\ owed' = [owed EXCEPT ![p] = {}]
  /\ UNCHANGED <<rows, ingested, lease, thread, index, deploy, mounted, mounts, crashes>>

(***************************************************************************)
(* The top of a worker's loop: the lease                                   *)
(***************************************************************************)

\* reclaim_in_flight_for_stream: the stream's cur rows are new again.
Reclaimed(s) ==
  [j \in Jobs |-> IF StreamOf[j] = s /\ status[j] = "cur" THEN "new" ELSE status[j]]

\* Mutant: nothing is reclaimed.
AcquireOnly(p, s) ==
  /\ deploy.leased
  /\ thread[<<p, s>>].at = "loop"
  /\ p \in mounted
  /\ lease[s] \in {Nobody, p}
  /\ lease' = [lease EXCEPT ![s] = p]
  /\ Go(<<p, s>>, [thread[<<p, s>>] EXCEPT !.at = "drain", !.reclaimed = TRUE])
  /\ UNCHANGED <<rows, ingested, index, life>>

\* try_acquire takes an absent or stale lease and refreshes an own one; the
\* first time it succeeds after mounting, the stream's cur rows are reclaimed
\* (if that fails it is not tried again).  Otherwise another owner's lease is
\* fresh and the worker stands by.
Acquire(p, s) ==
  /\ deploy.leased
  /\ thread[<<p, s>>].at = "loop"
  /\ p \in mounted
  /\ lease[s] \in {Nobody, p}
  /\ lease' = [lease EXCEPT ![s] = p]
  /\ \/ status' = IF thread[<<p, s>>].reclaimed THEN status ELSE Reclaimed(s)
     \/ "reclaim" \in deploy.faults /\ UNCHANGED status
  /\ Go(<<p, s>>, [thread[<<p, s>>] EXCEPT !.at = "drain", !.reclaimed = TRUE])
  /\ UNCHANGED <<session, ingested, index, life>>

\* An in-memory estate has no lease.
PassUnleased(p, s) ==
  /\ ~deploy.leased
  /\ thread[<<p, s>>].at = "loop"
  /\ p \in mounted
  /\ Go(<<p, s>>, [thread[<<p, s>>] EXCEPT !.at = "drain"])
  /\ UNCHANGED <<rows, ingested, lease, index, life>>

\* stop is set: release the lease and exit, whether or not a publish is due.
Exit(p, s) ==
  /\ thread[<<p, s>>].at = "loop"
  /\ p \notin mounted
  /\ lease' = [lease EXCEPT ![s] = IF @ = p THEN Nobody ELSE @]
  /\ Go(<<p, s>>, Off)
  /\ UNCHANGED <<rows, ingested, index, life>>

(***************************************************************************)
(* One pass of a drainer: drain_with_queue, drain_import_with_queue        *)
(***************************************************************************)

\* The pass is over: the pump starts the next one, a worker goes to the top.
PassDone(d) ==
  IF d[2] = "pump" THEN [Off EXCEPT !.at = "drain"]
  ELSE [thread[d] EXCEPT !.at = "loop", !.batch = {}, !.one = {}, !.publish = (d[2] = "encode")]

\* drain_for_stream: every new row of the stream, under one new session.
Claim(d) ==
  LET new == InStream(Stream(d), "new") IN
  /\ thread[d].at = "drain"
  /\ new # {}
  /\ status' = [j \in Jobs |-> IF j \in new THEN "cur" ELSE status[j]]
  /\ session' = [j \in Jobs |-> IF j \in new THEN d
                                ELSE IF session[j] = d THEN Nobody ELSE session[j]]
  /\ Go(d, [thread[d] EXCEPT !.at = "decode", !.batch = new])
  /\ UNCHANGED <<ingested, lease, index, life>>

\* Nothing to claim.  The encode worker publishes what its burst deferred.
WorkerFindsNone(p, s) ==
  /\ thread[<<p, s>>].at = "drain"
  /\ InStream(s, "new") = {}
  /\ IF thread[<<p, s>>].publish THEN Publish(p) ELSE UNCHANGED index
  /\ Go(<<p, s>>, [thread[<<p, s>>] EXCEPT !.at = "loop", !.publish = FALSE])
  /\ UNCHANGED <<rows, ingested, lease, life>>

PumpFindsNone(p) ==
  /\ thread[<<p, "pump">>].at = "drain"
  /\ InStream("encode", "new") = {}
  /\ Go(<<p, "pump">>, Off)
  /\ host' = [host EXCEPT ![p] = "latch"]
  /\ UNCHANGED <<rows, ingested, lease, index, deploy, mounted, mounts, owed, crashes>>

\* A reply changes a row that is cur, whoever claimed it; its error is ignored.
Replied(J, x) == [j \in Jobs |-> IF j \in J /\ status[j] = "cur" THEN x ELSE status[j]]
LostReplies(J) == IF "reply" \in deploy.faults THEN SUBSET J ELSE {{}}

\* begin_deferred_index on the encode stream, then what cannot be decoded is
\* replied Blocked.
Decode(d) ==
  /\ thread[d].at = "decode"
  /\ deferred' = IF Stream(d) = "encode" THEN deferred \cup {d[1]} ELSE deferred
  /\ \E lost \in LostReplies(thread[d].batch \cap Undecodable) :
       status' = Replied((thread[d].batch \cap Undecodable) \ lost, "blocked")
  /\ Go(d, IF thread[d].batch \subseteq Undecodable THEN PassDone(d)
           ELSE [thread[d] EXCEPT !.at = "ingest", !.batch = @ \ Undecodable])
  /\ UNCHANGED <<session, ingested, lease, pending, resident, life>>

\* The claim fails, or begin_deferred_index does after it: the pass returns the
\* error and what it claimed stays cur.  A worker goes on (and publishes if that
\* is due), await returns the error.
PassFails(d) ==
  /\ \/ "claim" \in deploy.faults /\ thread[d].at = "drain"
     \/ "begin" \in deploy.faults /\ thread[d].at = "decode" /\ Stream(d) = "encode"
  /\ \/ /\ d[2] = "pump"
        /\ Go(d, Off)
        /\ host' = [host EXCEPT ![d[1]] = "free"]
        /\ owed' = [owed EXCEPT ![d[1]] = {}]
        /\ UNCHANGED index
     \/ /\ d[2] # "pump"
        /\ Go(d, [thread[d] EXCEPT !.at = "loop", !.batch = {}, !.publish = FALSE])
        /\ IF thread[d].publish THEN Publish(d[1]) ELSE UNCHANGED index
        /\ UNCHANGED <<host, owed>>
  /\ UNCHANGED <<rows, ingested, lease, deploy, mounted, mounts, crashes>>

\* ingest and ingest_batch add vectors to the process's vector store, deferred
\* or at once; ingest_batch_import adds none.
Stored(d, J) ==
  /\ ingested' = ingested \cup J
  /\ LET p == d[1] IN
       /\ pending' = IF Stream(d) = "encode" /\ p \in deferred
                     THEN [pending EXCEPT ![p] = @ \cup J] ELSE pending
       /\ resident' = IF Stream(d) = "encode" /\ p \notin deferred
                      THEN [resident EXCEPT ![p] = @ \cup J] ELSE resident
  /\ UNCHANGED deferred

IngestBatch(d) ==
  /\ thread[d].at = "ingest"
  /\ Stored(d, thread[d].batch)
  /\ Go(d, [thread[d] EXCEPT !.at = "reply"])
  /\ UNCHANGED <<rows, lease, life>>

\* Mutant: the error is logged and the batch is replied all the same.
IngestBatchFailsQuietly(d) ==
  /\ "ingest" \in deploy.faults
  /\ thread[d].at = "ingest"
  /\ Go(d, [thread[d] EXCEPT !.at = "reply"])
  /\ UNCHANGED <<rows, ingested, lease, index, life>>

IngestBatchFails(d) ==
  /\ "ingest" \in deploy.faults
  /\ thread[d].at = "ingest"
  /\ Go(d, [thread[d] EXCEPT !.at = "fallback"])
  /\ UNCHANGED <<rows, ingested, lease, index, life>>

\* reply_session Done for the cur rows of this claim; when that changes no row
\* or fails, reply_batch for the batch's jobs.
ReplySession(d) ==
  LET mine == {j \in Jobs : status[j] = "cur" /\ session[j] = d} IN
  /\ thread[d].at = "reply"
  /\ \/ status' = Replied(IF mine # {} THEN mine ELSE thread[d].batch, "done")
     \/ /\ "reply" \in deploy.faults
        /\ \E lost \in {{}, thread[d].batch} : status' = Replied(thread[d].batch \ lost, "done")
  /\ Go(d, PassDone(d))
  /\ UNCHANGED <<session, ingested, lease, index, life>>

\* ingest_one_and_reply: some attempt succeeds, or all INGEST_MAX_ATTEMPTS fail.
OneIngested(d, j) ==
  /\ thread[d].at = "fallback"
  /\ j \in thread[d].batch
  /\ Stored(d, {j})
  /\ Go(d, [thread[d] EXCEPT !.at = "verdict", !.one = {j}, !.verdict = "done"])
  /\ UNCHANGED <<rows, lease, life>>

\* Mutant: after the last attempt the job is put back instead of blocked.
OneRequeued(d, j) ==
  /\ "ingest" \in deploy.faults
  /\ thread[d].at = "fallback"
  /\ j \in thread[d].batch
  /\ Go(d, [thread[d] EXCEPT !.at = "verdict", !.one = {j}, !.verdict = "new"])
  /\ UNCHANGED <<rows, ingested, lease, index, life>>

OneGivenUp(d, j) ==
  /\ "ingest" \in deploy.faults
  /\ thread[d].at = "fallback"
  /\ j \in thread[d].batch
  /\ Go(d, [thread[d] EXCEPT !.at = "verdict", !.one = {j}, !.verdict = "blocked"])
  /\ UNCHANGED <<rows, ingested, lease, index, life>>

AfterOne(d) ==
  IF thread[d].batch = thread[d].one THEN PassDone(d)
  ELSE [thread[d] EXCEPT !.at = "fallback", !.batch = @ \ thread[d].one, !.one = {}]

\* Mutant: the row is updated by its id alone.
OneReplyById(d) ==
  /\ thread[d].at = "verdict"
  /\ status' = [j \in Jobs |-> IF j \in thread[d].one THEN thread[d].verdict ELSE status[j]]
  /\ Go(d, AfterOne(d))
  /\ UNCHANGED <<session, ingested, lease, index, life>>

OneReply(d) ==
  /\ thread[d].at = "verdict"
  /\ \E lost \in LostReplies(thread[d].one) :
       status' = Replied(thread[d].one \ lost, thread[d].verdict)
  /\ Go(d, AfterOne(d))
  /\ UNCHANGED <<session, ingested, lease, index, life>>

(***************************************************************************)
(* Time and crashes                                                        *)
(***************************************************************************)

\* The lease of an owner that is gone becomes stale.
LeaseLapses(s) ==
  /\ lease[s] = Dead
  /\ lease' = [lease EXCEPT ![s] = Nobody]
  /\ UNCHANGED <<rows, ingested, thread, index, life>>

\* A batch outlasts the time to live: no heartbeat is sent inside a pass.
LeaseOutlived(p, s) ==
  /\ "slow" \in deploy.faults
  /\ lease[s] = p
  /\ thread[<<p, s>>].at \in {"decode", "ingest", "reply", "fallback", "verdict"}
  /\ lease' = [lease EXCEPT ![s] = Nobody]
  /\ UNCHANGED <<rows, ingested, thread, index, life>>

\* The process dies and its host opens the estate again; the new process has
\* another owner token.  The resident index is rebuilt from the vectors table.
Crash(p) ==
  /\ deploy.leased
  /\ p \in mounted \/ host[p] = "join"
  /\ crashes < MaxCrashes
  /\ crashes' = crashes + 1
  /\ mounted' = mounted \ {p}
  /\ host' = [host EXCEPT ![p] = "free"]
  /\ owed' = [owed EXCEPT ![p] = {}]
  /\ thread' = [d \in Drainers |-> IF d[1] = p THEN Off ELSE thread[d]]
  /\ lease' = [s \in Streams |-> IF lease[s] = p THEN Dead ELSE lease[s]]
  /\ deferred' = deferred \ {p}
  /\ pending' = [pending EXCEPT ![p] = {}]
  /\ resident' = [resident EXCEPT ![p] = {j \in ingested : StreamOf[j] = "encode"}]
  /\ UNCHANGED <<rows, ingested, deploy, mounts>>

WorkerStep(p, s) == Acquire(p, s) \/ PassUnleased(p, s) \/ Exit(p, s) \/ WorkerFindsNone(p, s)
PassStep(d) ==
  \/ Claim(d) \/ Decode(d) \/ PassFails(d)
  \/ IngestBatch(d) \/ IngestBatchFails(d) \/ ReplySession(d) \/ OneReply(d)
  \/ \E j \in Jobs : OneIngested(d, j) \/ OneGivenUp(d, j)
HostReturns(p) == DropReturns(p) \/ Latch(p) \/ AwaitReturns(p) \/ PumpFindsNone(p)

Next ==
  \/ \E p \in Procs :
       \/ Mount(p) \/ Drop(p) \/ Await(p) \/ AwaitTimesOut(p) \/ HostReturns(p) \/ Crash(p)
       \/ \E J \in (SUBSET Jobs) \ {{}} : Enqueue(p, J)
       \/ \E s \in Streams : WorkerStep(p, s) \/ LeaseOutlived(p, s)
  \/ \E d \in Drainers : PassStep(d)
  \/ \E j \in Jobs : ForeignJob(j)
  \/ \E s \in Streams : LeaseLapses(s)

\* Threads that can run do run, and time passes for a stale lease.  Nothing is
\* assumed of the host's calls: it may never enqueue, await, mount or drop.
Fairness ==
  /\ \A p \in Procs, s \in Streams : WF_vars(WorkerStep(p, s))
  /\ \A d \in Drainers : WF_vars(PassStep(d))
  /\ \A p \in Procs : WF_vars(HostReturns(p))
  /\ \A s \in Streams : WF_vars(LeaseLapses(s))

Spec == Init /\ [][Next]_vars /\ Fairness

(***************************************************************************)
(* Properties                                                              *)
(***************************************************************************)

\* At least once: a job is done only if its text was ingested, whichever
\* drainers claimed, reclaimed and replied it.  (The comment on
\* ingest_one_and_reply: "the job is replied Done only AFTER ingest succeeds".)
DoneIsIngested ==
  \A j \in Jobs \ Undecodable : status[j] = "done" => j \in ingested

\* The queue as its users see it: new and cur are one, open.
Outcome == [j \in Jobs |-> IF status[j] \in {"new", "cur"} THEN "open" ELSE status[j]]
Ledger == INSTANCE JobLedger WITH outcome <- Outcome

\* Claims, reclaims, late replies of a drainer whose rows were reclaimed under
\* it, takeovers and crashes are invisible: each step is a submission, an
\* ingest, a first and only terminal reply, or nothing.  (The comment on the
\* pump: "both go through the same claim-then-reply transitions".)
ImplementsLedger == Ledger!LedgerSpec

\* When await_ingest_drain returns Ok in the only process of the estate, every
\* encode job enqueued before has its terminal reply, and the process's own
\* index answers with the ones that are done.  (The comment at its end:
\* "Publish the resident index once so the writes are searchable before this
\* barrier returns -- the bulk caller's searchability contract.")
AwaitPublishes ==
  [][\A p \in Procs : AwaitReturns(p) /\ deploy.procs = {p} =>
       \A j \in owed[p] : /\ status'[j] \in Settled
                          /\ status'[j] = "done" /\ j \notin Undecodable => j \in resident'[p]]_vars

SomeoneMounted == mounted # {}

\* Every open job, claimed by a dead drainer or not, is settled as long as some
\* process keeps the queue mounted.  (The comment in run_ingest_drain_loop on
\* cur rows of a dead drainer: "Reset them to new so this drainer re-processes
\* them.")
EnqueuedSettles ==
  \A j \in Jobs : (status[j] \in {"new", "cur"}) ~> (status[j] \in Settled \/ ~SomeoneMounted)

\* The deployments in which a cur row is stranded only by a crash, and whoever
\* takes the lease afterwards takes it for the first time: no failing store
\* calls but ingest itself, no batch longer than the lease, and no await beside
\* another process.
Recoverable ==
  /\ deploy.faults \subseteq {"ingest"}
  /\ deploy.waits = {} \/ \E p \in Procs : deploy.procs = {p}

\* There every open job is settled, through crashes, takeovers and remounts.
RecoverableSettles ==
  \A j \in Jobs :
    (Recoverable /\ status[j] \in {"new", "cur"}) ~> (status[j] \in Settled \/ ~SomeoneMounted)
=============================================================================
