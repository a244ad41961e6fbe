------------------------- MODULE IngestQueueProofs -------------------------
(***************************************************************************)
(* For any jobs, processes, deployments and bounds: the queue's state is   *)
(* well formed, a job is done only after its text was ingested, the        *)
(* pipeline implements JobLedger, and the await barrier publishes.         *)
(***************************************************************************)
EXTENDS IngestQueue, TLAPS

\* What drainer d is about to reply it has claimed, can decode and, where the
\* reply is done, has ingested; rows still tagged with its session are its own.
Good(d) ==
  /\ \A j \in thread[d].batch : status[j] # "none"
  /\ thread[d].at \in {"off", "loop", "drain"} => thread[d].batch = {}
  /\ thread[d].at # "verdict" => thread[d].one = {}
  /\ thread[d].at \in {"ingest", "reply", "fallback", "verdict"}
       => \A j \in thread[d].batch : j \notin Undecodable
  /\ thread[d].at = "reply" => thread[d].batch \subseteq ingested
  /\ thread[d].at = "verdict" /\ thread[d].verdict = "done" => thread[d].one \subseteq ingested
  /\ thread[d].at \in {"decode", "ingest", "reply"}
       => \A j \in Jobs : session[j] = d /\ status[j] = "cur"
                            => j \in thread[d].batch \cup Undecodable

AllGood == \A d \in Drainers : Good(d)

IInv == TypeOK /\ AllGood /\ DoneIsIngested

-----------------------------------------------------------------------------
(* Threads *)

\* The fields of a well-formed thread.
LEMMA Fields ==
  ASSUME NEW r \in Threads
  PROVE  /\ r.at \in Stages /\ r.batch \in SUBSET Jobs /\ r.one \in SUBSET Jobs
         /\ r.verdict \in Settled /\ r.reclaimed \in BOOLEAN /\ r.publish \in BOOLEAN
  BY DEF Threads

\* A drainer without a thread is a well-formed thread.
LEMMA OffIsThread == Off \in Threads
  BY DEF Off, Threads, Stages, Settled

\* A thread that starts, or starts over, is well formed.
LEMMA StartIsThread == [Off EXCEPT !.at = "loop"] \in Threads /\ [Off EXCEPT !.at = "drain"] \in Threads
  BY DEF Off, Threads, Stages, Settled

\* After a pass the thread is well formed and holds nothing.
LEMMA PassDoneIsThread ==
  ASSUME NEW d \in Drainers, thread[d] \in Threads
  PROVE  /\ PassDone(d) \in Threads
         /\ PassDone(d).at \in {"loop", "drain"}
         /\ PassDone(d).batch = {} /\ PassDone(d).one = {}
<1>1. CASE d[2] = "pump"
  BY <1>1, OffIsThread DEF PassDone, Off, Threads, Stages
<1>2. CASE d[2] # "pump"
  <2>1. (d[2] = "encode") \in BOOLEAN
    OBVIOUS
  <2> QED
    BY <1>2, <2>1 DEF PassDone, Threads, Stages
<1> QED
  BY <1>1, <1>2

\* A drainer's own move keeps all threads well formed.
LEMMA GoType ==
  ASSUME thread \in [Drainers -> Threads], NEW d \in Drainers, NEW r \in Threads, Go(d, r)
  PROVE  thread' \in [Drainers -> Threads]
  BY DEF Go

-----------------------------------------------------------------------------
(* Type correctness *)

\* Mounting starts threads at the top of their loops.
LEMMA MountedType ==
  ASSUME TypeOK, NEW p \in Procs, Mounted(p)
  PROVE  /\ thread' \in [Drainers -> Threads]
         /\ mounted' \in SUBSET Procs
         /\ mounts' \in [Procs -> 0 .. MaxMounts]
  <1>0. thread \in [Drainers -> Threads] /\ mounts \in [Procs -> 0 .. MaxMounts]
        /\ mounted \in SUBSET Procs
    BY DEF TypeOK
  <1>2. [Off EXCEPT !.at = "loop"] \in Threads
    BY StartIsThread
  <1>3. CASE p \in mounted
    BY <1>0, <1>3 DEF Mounted
  <1>4. CASE p \notin mounted
    <2>1. mounts[p] + 1 \in 0 .. MaxMounts
      BY <1>0, <1>4, QueueAssumption DEF Mounted
    <2> QED BY <1>0, <1>2, <1>4, <2>1 DEF Mounted
  <1> QED BY <1>3, <1>4

\* Publishing keeps the index well formed.
LEMMA PublishType ==
  ASSUME TypeOK, NEW p \in Procs, Publish(p)
  PROVE  /\ deferred' \in SUBSET Procs
         /\ pending' \in [Procs -> SUBSET Jobs]
         /\ resident' \in [Procs -> SUBSET Jobs]
  BY DEF TypeOK, Publish

\* The calls of the host keep the state well formed.
LEMMA HostType ==
  ASSUME TypeOK, NEW p \in Procs,
         \/ Mount(p) \/ Drop(p) \/ Await(p) \/ AwaitTimesOut(p) \/ HostReturns(p)
         \/ \E J \in (SUBSET Jobs) \ {{}} : Enqueue(p, J)
  PROVE  TypeOK'
  <1>0. thread \in [Drainers -> Threads]
    BY DEF TypeOK
  <1>d. <<p, "pump">> \in Drainers
    BY DEF Drainers, Kinds
  <1>1. CASE Mount(p)
    <2>1. Mounted(p)
      BY <1>1 DEF Mount
    <2> QED BY <1>1, <2>1, MountedType DEF Mount, TypeOK, rows, index
  <1>2. CASE Drop(p)
    BY <1>2 DEF Drop, TypeOK, rows, index
  <1>3. CASE Await(p)
    <2>2. thread' \in [Drainers -> Threads]
      BY <1>0, <1>3, <1>d, StartIsThread, GoType DEF Await
    <2> QED BY <1>3, <2>2 DEF Await, TypeOK, rows, index
  <1>4. CASE AwaitTimesOut(p)
    BY <1>4 DEF AwaitTimesOut, TypeOK, rows, index
  <1>5. CASE DropReturns(p)
    BY <1>5 DEF DropReturns, TypeOK, rows, index
  <1>6. CASE Latch(p)
    BY <1>6 DEF Latch, TypeOK, rows, index
  <1>7. CASE AwaitReturns(p)
    BY <1>7, PublishType DEF AwaitReturns, TypeOK, rows
  <1>8. CASE PumpFindsNone(p)
    <2>1. thread' \in [Drainers -> Threads]
      BY <1>0, <1>8, <1>d, OffIsThread, GoType DEF PumpFindsNone
    <2> QED BY <1>8, <2>1 DEF PumpFindsNone, TypeOK, rows, index
  <1>9. ASSUME NEW J \in SUBSET Jobs, Enqueue(p, J) PROVE TypeOK'
    <2>1. Mounted(p)
      BY <1>9 DEF Enqueue
    <2>2. status' \in [Jobs -> RowStates]
      BY <1>9 DEF Enqueue, TypeOK, RowStates
    <2> QED BY <1>9, <2>1, <2>2, MountedType DEF Enqueue, TypeOK, index
  <1> QED BY <1>1, <1>2, <1>3, <1>4, <1>5, <1>6, <1>7, <1>8, <1>9 DEF HostReturns

\* So do the workers' lease steps and empty passes,
LEMMA WorkerType ==
  ASSUME TypeOK, NEW p \in Procs, NEW s \in Streams, WorkerStep(p, s) \/ LeaseOutlived(p, s)
  PROVE  TypeOK'
  <1>d. <<p, s>> \in Drainers
    BY DEF Drainers, Kinds, Streams
  <1>0. thread \in [Drainers -> Threads] /\ thread[<<p, s>>] \in Threads
    BY <1>d DEF TypeOK
  <1>s. /\ [thread[<<p, s>>] EXCEPT !.at = "drain"] \in Threads
        /\ [thread[<<p, s>>] EXCEPT !.at = "drain", !.reclaimed = TRUE] \in Threads
        /\ [thread[<<p, s>>] EXCEPT !.at = "loop", !.publish = FALSE] \in Threads
    BY <1>0 DEF Threads, Stages
  <1>1. CASE Acquire(p, s)
    <2>1. thread' \in [Drainers -> Threads]
      BY <1>0, <1>1, <1>d, <1>s, GoType DEF Acquire
    <2>2. status' \in [Jobs -> RowStates]
      BY <1>1 DEF Acquire, Reclaimed, TypeOK, RowStates
    <2> QED BY <1>1, <2>1, <2>2 DEF Acquire, TypeOK, index, life
  <1>2. CASE PassUnleased(p, s)
    <2>1. thread' \in [Drainers -> Threads]
      BY <1>0, <1>2, <1>d, <1>s, GoType DEF PassUnleased
    <2> QED BY <1>2, <2>1 DEF PassUnleased, TypeOK, rows, index, life
  <1>3. CASE Exit(p, s)
    <2>1. thread' \in [Drainers -> Threads]
      BY <1>0, <1>3, <1>d, OffIsThread, GoType DEF Exit
    <2> QED BY <1>3, <2>1 DEF Exit, TypeOK, rows, index, life
  <1>4. CASE WorkerFindsNone(p, s)
    <2>1. thread' \in [Drainers -> Threads]
      BY <1>0, <1>4, <1>d, <1>s, GoType DEF WorkerFindsNone
    <2>2. /\ deferred' \in SUBSET Procs
          /\ pending' \in [Procs -> SUBSET Jobs]
          /\ resident' \in [Procs -> SUBSET Jobs]
      <3>1. CASE Publish(p)
        BY <3>1, PublishType
      <3>2. CASE UNCHANGED index
        BY <3>2 DEF TypeOK, index
      <3> QED BY <1>4, <3>1, <3>2 DEF WorkerFindsNone
    <2> QED BY <1>4, <2>1, <2>2 DEF WorkerFindsNone, TypeOK, rows, life
  <1>5. CASE LeaseOutlived(p, s)
    BY <1>5 DEF LeaseOutlived, TypeOK, rows, index, life
  <1> QED BY <1>1, <1>2, <1>3, <1>4, <1>5 DEF WorkerStep

\* the steps of a pass,
LEMMA PassType ==
  ASSUME TypeOK, NEW d \in Drainers, PassStep(d)
  PROVE  TypeOK'
  <1>0. thread \in [Drainers -> Threads] /\ thread[d] \in Threads /\ d[1] \in Procs
    BY DEF TypeOK, Drainers
  <1>f. thread[d].batch \in SUBSET Jobs /\ thread[d].one \in SUBSET Jobs
        /\ thread[d].verdict \in Settled
    BY <1>0, Fields
  <1>s. ASSUME NEW x \in {"reply", "fallback"}
        PROVE  [thread[d] EXCEPT !.at = x] \in Threads
    BY <1>0 DEF Threads, Stages
  <1>b. ASSUME NEW x \in {"decode", "ingest"}, NEW B \in SUBSET Jobs
        PROVE  [thread[d] EXCEPT !.at = x, !.batch = B] \in Threads
    BY <1>0 DEF Threads, Stages
  <1>r. ASSUME NEW J, NEW x \in Settled
        PROVE  Replied(J, x) \in [Jobs -> RowStates]
    BY DEF Replied, TypeOK, RowStates, Settled
  <1>i. ASSUME NEW J \in SUBSET Jobs, Stored(d, J)
        PROVE  /\ ingested' \in SUBSET Jobs
               /\ deferred' \in SUBSET Procs
               /\ pending' \in [Procs -> SUBSET Jobs]
               /\ resident' \in [Procs -> SUBSET Jobs]
    BY <1>0, <1>i DEF Stored, TypeOK
  <1>p. PassDone(d) \in Threads
    BY <1>0, PassDoneIsThread
  <1>1. CASE Claim(d)
    <2> DEFINE new == InStream(Stream(d), "new")
    <2>0. new \in SUBSET Jobs
      BY DEF InStream
    <2>1. [thread[d] EXCEPT !.at = "decode", !.batch = new] \in Threads
      BY <1>b, <2>0
    <2>2. /\ Go(d, [thread[d] EXCEPT !.at = "decode", !.batch = new])
          /\ status' = [j \in Jobs |-> IF j \in new THEN "cur" ELSE status[j]]
          /\ session' = [j \in Jobs |-> IF j \in new THEN d
                                ELSE IF session[j] = d THEN Nobody ELSE session[j]]
          /\ UNCHANGED <<ingested, lease, index, life>>
      BY <1>1 DEF Claim
    <2>3. thread' \in [Drainers -> Threads]
      BY <1>0, <2>1, <2>2, GoType
    <2>4. status' \in [Jobs -> RowStates]
      BY <2>2 DEF TypeOK, RowStates
    <2>5. session' \in [Jobs -> Drainers \cup {Nobody}]
      BY <2>2 DEF TypeOK
    <2> QED BY <2>2, <2>3, <2>4, <2>5 DEF TypeOK, index, life
  <1>2. CASE Decode(d)
    <2>1. thread[d].batch \ Undecodable \in SUBSET Jobs
      BY <1>f
    <2>2. [thread[d] EXCEPT !.at = "ingest", !.batch = @ \ Undecodable] \in Threads
      BY <1>0, <1>f DEF Threads, Stages
    <2>3. thread' \in [Drainers -> Threads]
      BY <1>0, <1>2, <1>p, <2>2, GoType DEF Decode
    <2>4. status' \in [Jobs -> RowStates]
      BY <1>2, <1>r DEF Decode, Settled
    <2>5. deferred' \in SUBSET Procs
      BY <1>0, <1>2 DEF Decode, TypeOK
    <2> QED BY <1>2, <2>3, <2>4, <2>5 DEF Decode, TypeOK, life
  <1>3. CASE PassFails(d)
    <2>1. [thread[d] EXCEPT !.at = "loop", !.batch = {}, !.publish = FALSE] \in Threads
      BY <1>0 DEF Threads, Stages
    <2>2. thread' \in [Drainers -> Threads]
      BY <1>0, <1>3, <2>1, OffIsThread, GoType DEF PassFails
    <2>3. /\ deferred' \in SUBSET Procs
          /\ pending' \in [Procs -> SUBSET Jobs]
          /\ resident' \in [Procs -> SUBSET Jobs]
      <3>1. CASE Publish(d[1])
        BY <1>0, <3>1, PublishType
      <3>2. CASE UNCHANGED index
        BY <3>2 DEF TypeOK, index
      <3> QED BY <1>3, <3>1, <3>2 DEF PassFails
    <2>4. /\ host' \in [Procs -> {"free", "pump", "latch", "publish", "join"}]
          /\ owed' \in [Procs -> SUBSET Jobs]
      BY <1>0, <1>3 DEF PassFails, TypeOK
    <2> QED BY <1>3, <2>2, <2>3, <2>4 DEF PassFails, TypeOK, rows
  <1>4. CASE IngestBatch(d)
    <2>1. thread' \in [Drainers -> Threads]
      BY <1>0, <1>4, <1>s, GoType DEF IngestBatch
    <2>2. Stored(d, thread[d].batch)
      BY <1>4 DEF IngestBatch
    <2> QED BY <1>4, <1>f, <1>i, <2>1, <2>2 DEF IngestBatch, TypeOK, rows, life
  <1>5. CASE IngestBatchFails(d)
    <2>1. thread' \in [Drainers -> Threads]
      BY <1>0, <1>5, <1>s, GoType DEF IngestBatchFails
    <2> QED BY <1>5, <2>1 DEF IngestBatchFails, TypeOK, rows, index, life
  <1>6. CASE ReplySession(d)
    <2>1. thread' \in [Drainers -> Threads]
      BY <1>0, <1>6, <1>p, GoType DEF ReplySession
    <2>2. status' \in [Jobs -> RowStates]
      BY <1>6, <1>r DEF ReplySession, Settled
    <2> QED BY <1>6, <2>1, <2>2 DEF ReplySession, TypeOK, index, life
  <1>7. CASE OneReply(d)
    <2>1. AfterOne(d) \in Threads
      <3>1. thread[d].batch \ thread[d].one \in SUBSET Jobs
        BY <1>f
      <3>2. [thread[d] EXCEPT !.at = "fallback", !.batch = @ \ thread[d].one, !.one = {}] \in Threads
        BY <1>0, <1>f DEF Threads, Stages
      <3> QED BY <1>p, <3>2 DEF AfterOne
    <2>2. thread' \in [Drainers -> Threads]
      BY <1>0, <1>7, <2>1, GoType DEF OneReply
    <2>3. status' \in [Jobs -> RowStates]
      BY <1>7, <1>r, <1>f DEF OneReply
    <2> QED BY <1>7, <2>2, <2>3 DEF OneReply, TypeOK, index, life
  <1>8. ASSUME NEW j \in Jobs, OneIngested(d, j) PROVE TypeOK'
    <2>1. [thread[d] EXCEPT !.at = "verdict", !.one = {j}, !.verdict = "done"] \in Threads
      BY <1>0 DEF Threads, Stages, Settled
    <2>2. thread' \in [Drainers -> Threads]
      BY <1>0, <1>8, <2>1, GoType DEF OneIngested
    <2>3. Stored(d, {j}) /\ {j} \in SUBSET Jobs
      BY <1>8 DEF OneIngested
    <2> QED BY <1>8, <1>i, <2>2, <2>3 DEF OneIngested, TypeOK, rows, life
  <1>9. ASSUME NEW j \in Jobs, OneGivenUp(d, j) PROVE TypeOK'
    <2>1. [thread[d] EXCEPT !.at = "verdict", !.one = {j}, !.verdict = "blocked"] \in Threads
      BY <1>0 DEF Threads, Stages, Settled
    <2>2. thread' \in [Drainers -> Threads]
      BY <1>0, <1>9, <2>1, GoType DEF OneGivenUp
    <2> QED BY <1>9, <2>2 DEF OneGivenUp, TypeOK, rows, index, life
  <1> QED BY <1>1, <1>2, <1>3, <1>4, <1>5, <1>6, <1>7, <1>8, <1>9 DEF PassStep

\* crashes, other writers and the passage of time.
LEMMA WorldType ==
  ASSUME TypeOK,
         \/ \E p \in Procs : Crash(p)
         \/ \E j \in Jobs : ForeignJob(j)
         \/ \E s \in Streams : LeaseLapses(s)
  PROVE  TypeOK'
  <1>1. ASSUME NEW p \in Procs, Crash(p) PROVE TypeOK'
    <2>1. thread' \in [Drainers -> Threads]
      BY <1>1, OffIsThread DEF Crash, TypeOK
    <2>2. crashes' \in 0 .. MaxCrashes
      BY <1>1, QueueAssumption DEF Crash, TypeOK
    <2>3. resident' \in [Procs -> SUBSET Jobs]
      BY <1>1 DEF Crash, TypeOK
    <2>4. lease' \in [Streams -> Procs \cup {Nobody, Dead}]
      BY <1>1 DEF Crash, TypeOK
    <2> QED BY <1>1, <2>1, <2>2, <2>3, <2>4 DEF Crash, TypeOK, rows
  <1>2. ASSUME NEW j \in Jobs, ForeignJob(j) PROVE TypeOK'
    <2>1. status' \in [Jobs -> RowStates]
      BY <1>2 DEF ForeignJob, TypeOK, RowStates
    <2> QED BY <1>2, <2>1 DEF ForeignJob, TypeOK, index, life
  <1>3. ASSUME NEW s \in Streams, LeaseLapses(s) PROVE TypeOK'
    BY <1>3 DEF LeaseLapses, TypeOK, rows, index, life
  <1> QED BY <1>1, <1>2, <1>3

\* Initially the state is well formed.
LEMMA InitType == Init => TypeOK
  <1> SUFFICES ASSUME Init PROVE TypeOK
    OBVIOUS
  <1>1. thread \in [Drainers -> Threads]
    BY OffIsThread DEF Init
  <1>2. mounts \in [Procs -> 0 .. MaxMounts] /\ crashes \in 0 .. MaxCrashes
    BY QueueAssumption DEF Init
  <1> QED BY <1>1, <1>2 DEF Init, TypeOK, RowStates

\* Every step keeps the state well formed.
LEMMA NextType == TypeOK /\ [Next]_vars => TypeOK'
  <1> SUFFICES ASSUME TypeOK, [Next]_vars PROVE TypeOK'
    OBVIOUS
  <1>1. CASE UNCHANGED vars
    BY <1>1 DEF TypeOK, vars, rows, index, life
  <1>2. CASE Next
    BY <1>2, HostType, WorkerType, PassType, WorldType DEF Next
  <1> QED BY <1>1, <1>2

\* TypeOK is an invariant: the rows, sessions, leases, threads and indexes of
\* the ingest pipeline stay well formed, for any jobs, processes and faults.
THEOREM TypeCorrect == Spec => []TypeOK
  <1>1. Init => TypeOK
    BY InitType
  <1>2. TypeOK /\ [Next]_vars => TypeOK'
    BY NextType
  <1> QED BY <1>1, <1>2, PTL DEF Spec

-----------------------------------------------------------------------------
(* A job is done only after its text was ingested *)

\* What a step may do to a drainer it does not move: rows stay submitted,
\* ingested texts stay ingested, and no row becomes cur in that drainer's name.
Harmless(e) ==
  /\ ingested \subseteq ingested'
  /\ \A j \in Jobs : status[j] # "none" => status'[j] # "none"
  /\ \A j \in Jobs : session'[j] = e /\ status'[j] = "cur" => session[j] = e /\ status[j] = "cur"

\* A drainer that a harmless step does not move stays good.
LEMMA OthersStayGood ==
  ASSUME TypeOK, NEW e \in Drainers, Good(e), Harmless(e), thread'[e] = thread[e]
  PROVE  Good(e)'
  <1>1. thread[e].batch \in SUBSET Jobs /\ thread[e].one \in SUBSET Jobs
    BY Fields DEF TypeOK
  <1> QED BY <1>1 DEF Good, Harmless

\* A drainer that holds no claim is good.
LEMMA RestIsGood ==
  ASSUME NEW e \in Drainers, thread[e].batch = {}, thread[e].one = {},
         thread[e].at \in {"off", "loop", "drain"}
  PROVE  Good(e)
  BY DEF Good

\* The next state's drainer e holds no claim.
Rests(e) == thread'[e].batch = {} /\ thread'[e].one = {} /\ thread'[e].at \in {"off", "loop", "drain"}

\* A step that is harmless to all, settles no row done and leaves each drainer
\* alone or at rest keeps the invariant.
LEMMA QuietStep ==
  ASSUME IInv,
         \A e \in Drainers : Harmless(e) /\ (thread'[e] = thread[e] \/ Rests(e)),
         ingested \subseteq ingested',
         \A j \in Jobs : status'[j] = "done" => status[j] = "done"
  PROVE  AllGood' /\ DoneIsIngested'
  <1>1. ASSUME NEW e \in Drainers PROVE Good(e)'
    <2>1. CASE thread'[e] = thread[e]
      BY <2>1, OthersStayGood DEF IInv, AllGood
    <2>2. CASE Rests(e)
      BY <2>2 DEF Good, Rests
    <2> QED BY <2>1, <2>2
  <1>2. DoneIsIngested'
    BY DEF IInv, DoneIsIngested
  <1> QED BY <1>1, <1>2 DEF AllGood

\* A step that only moves drainer d to rest is quiet for the threads.
LEMMA GoRests ==
  ASSUME TypeOK, NEW d \in Drainers, NEW r \in Threads, Go(d, r),
         r.batch = {}, r.one = {}, r.at \in {"off", "loop", "drain"}
  PROVE  \A e \in Drainers : thread'[e] = thread[e] \/ Rests(e)
  BY DEF TypeOK, Go, Rests

\* Mounting is quiet for the threads.
LEMMA MountedRests ==
  ASSUME TypeOK, NEW p \in Procs, Mounted(p)
  PROVE  \A e \in Drainers : thread'[e] = thread[e] \/ Rests(e)
  <1>1. /\ [Off EXCEPT !.at = "loop"].at = "loop"
        /\ [Off EXCEPT !.at = "loop"].batch = {}
        /\ [Off EXCEPT !.at = "loop"].one = {}
    BY DEF Off
  <1> QED BY <1>1 DEF Mounted, Rests, TypeOK

\* A step that touches neither the rows nor the ingested set is harmless.
LEMMA SameRowsHarmless ==
  ASSUME UNCHANGED <<rows, ingested>>
  PROVE  /\ \A e \in Drainers : Harmless(e)
         /\ ingested \subseteq ingested'
         /\ \A j \in Jobs : status'[j] = "done" => status[j] = "done"
  BY DEF Harmless, rows

\* The host's calls keep the invariant,
LEMMA HostGood ==
  ASSUME IInv, NEW p \in Procs,
         \/ Mount(p) \/ Drop(p) \/ Await(p) \/ AwaitTimesOut(p) \/ HostReturns(p)
         \/ \E J \in (SUBSET Jobs) \ {{}} : Enqueue(p, J)
  PROVE  AllGood' /\ DoneIsIngested'
  <1>0. TypeOK /\ <<p, "pump">> \in Drainers
    BY DEF IInv, Drainers, Kinds
  <1>1. CASE Mount(p)
    <2>1. Mounted(p) /\ UNCHANGED <<rows, ingested>>
      BY <1>1 DEF Mount
    <2> QED BY <1>0, <2>1, MountedRests, SameRowsHarmless, QuietStep
  <1>2. CASE Drop(p) \/ AwaitTimesOut(p) \/ DropReturns(p) \/ Latch(p) \/ AwaitReturns(p)
    <2>1. UNCHANGED <<rows, ingested>> /\ UNCHANGED thread
      BY <1>2 DEF Drop, AwaitTimesOut, DropReturns, Latch, AwaitReturns
    <2> QED BY <2>1, SameRowsHarmless, QuietStep
  <1>3. CASE Await(p)
    <2>1. Go(<<p, "pump">>, [Off EXCEPT !.at = "drain"]) /\ UNCHANGED <<rows, ingested>>
      BY <1>3 DEF Await
    <2>2. /\ [Off EXCEPT !.at = "drain"].at = "drain"
          /\ [Off EXCEPT !.at = "drain"].batch = {}
          /\ [Off EXCEPT !.at = "drain"].one = {}
      BY DEF Off
    <2>3. \A e \in Drainers : thread'[e] = thread[e] \/ Rests(e)
      BY <1>0, <2>1, <2>2, StartIsThread, GoRests
    <2> QED BY <2>1, <2>3, SameRowsHarmless, QuietStep
  <1>4. CASE PumpFindsNone(p)
    <2>1. Go(<<p, "pump">>, Off) /\ UNCHANGED <<rows, ingested>>
      BY <1>4 DEF PumpFindsNone
    <2>2. Off.at = "off" /\ Off.batch = {} /\ Off.one = {}
      BY DEF Off
    <2>3. \A e \in Drainers : thread'[e] = thread[e] \/ Rests(e)
      BY <1>0, <2>1, <2>2, OffIsThread, GoRests
    <2> QED BY <2>1, <2>3, SameRowsHarmless, QuietStep
  <1>5. ASSUME NEW J \in SUBSET Jobs, Enqueue(p, J) PROVE AllGood' /\ DoneIsIngested'
    <2>1. Mounted(p) /\ UNCHANGED <<session, ingested>>
      BY <1>5 DEF Enqueue
    <2>2. status' = [j \in Jobs |-> IF j \in J THEN "new" ELSE status[j]]
      BY <1>5 DEF Enqueue
    <2>3. \A e \in Drainers : Harmless(e)
      BY <2>1, <2>2 DEF Harmless
    <2>4. \A j \in Jobs : status'[j] = "done" => status[j] = "done"
      BY <2>2
    <2> QED BY <1>0, <2>1, <2>3, <2>4, MountedRests, QuietStep
  <1> QED BY <1>1, <1>2, <1>3, <1>4, <1>5 DEF HostReturns

\* and so do the workers' lease steps and empty passes.
LEMMA WorkerGood ==
  ASSUME IInv, NEW p \in Procs, NEW s \in Streams, WorkerStep(p, s) \/ LeaseOutlived(p, s)
  PROVE  AllGood' /\ DoneIsIngested'
  <1> DEFINE d == <<p, s>>
  <1>0. TypeOK /\ d \in Drainers
    BY DEF IInv, Drainers, Kinds, Streams
  <1>t. thread[d] \in Threads
    BY <1>0 DEF TypeOK
  <1>g. thread[d].at \in {"loop", "drain"} => thread[d].batch = {} /\ thread[d].one = {}
    BY <1>0 DEF IInv, AllGood, Good
  <1>s. ASSUME NEW r \in {[thread[d] EXCEPT !.at = "drain"],
                           [thread[d] EXCEPT !.at = "drain", !.reclaimed = TRUE],
                           [thread[d] EXCEPT !.at = "loop", !.publish = FALSE]}
        PROVE  /\ r \in Threads /\ r.batch = thread[d].batch /\ r.one = thread[d].one
               /\ r.at \in {"off", "loop", "drain"}
    BY <1>t DEF Threads, Stages
  <1> HIDE DEF d
  <1>1. CASE Acquire(p, s)
    <2>1. Go(d, [thread[d] EXCEPT !.at = "drain", !.reclaimed = TRUE]) /\ thread[d].at = "loop"
      BY <1>1 DEF Acquire, d
    <2>2. \A e \in Drainers : thread'[e] = thread[e] \/ Rests(e)
      BY <1>0, <1>g, <1>s, <2>1, GoRests
    <2>3. UNCHANGED <<session, ingested>> /\ (status' = status \/ status' = Reclaimed(s))
      BY <1>1 DEF Acquire
    <2>4. \A e \in Drainers : Harmless(e)
      BY <2>3 DEF Harmless, Reclaimed
    <2>5. \A j \in Jobs : status'[j] = "done" => status[j] = "done"
      BY <2>3 DEF Reclaimed
    <2> QED BY <2>2, <2>3, <2>4, <2>5, QuietStep
  <1>2. CASE PassUnleased(p, s)
    <2>1. Go(d, [thread[d] EXCEPT !.at = "drain"]) /\ thread[d].at = "loop"
      BY <1>2 DEF PassUnleased, d
    <2>2. \A e \in Drainers : thread'[e] = thread[e] \/ Rests(e)
      BY <1>0, <1>g, <1>s, <2>1, GoRests
    <2>3. UNCHANGED <<rows, ingested>>
      BY <1>2 DEF PassUnleased
    <2> QED BY <2>2, <2>3, SameRowsHarmless, QuietStep
  <1>3. CASE Exit(p, s)
    <2>1. Go(d, Off) /\ UNCHANGED <<rows, ingested>>
      BY <1>3 DEF Exit, d
    <2>2. Off.at = "off" /\ Off.batch = {} /\ Off.one = {}
      BY DEF Off
    <2>3. \A e \in Drainers : thread'[e] = thread[e] \/ Rests(e)
      BY <1>0, <2>1, <2>2, OffIsThread, GoRests
    <2> QED BY <2>1, <2>3, SameRowsHarmless, QuietStep
  <1>4. CASE WorkerFindsNone(p, s)
    <2>1. Go(d, [thread[d] EXCEPT !.at = "loop", !.publish = FALSE]) /\ thread[d].at = "drain"
      BY <1>4 DEF WorkerFindsNone, d
    <2>2. \A e \in Drainers : thread'[e] = thread[e] \/ Rests(e)
      BY <1>0, <1>g, <1>s, <2>1, GoRests
    <2>3. UNCHANGED <<rows, ingested>>
      BY <1>4 DEF WorkerFindsNone
    <2> QED BY <2>2, <2>3, SameRowsHarmless, QuietStep
  <1>5. CASE LeaseOutlived(p, s)
    <2>1. UNCHANGED <<rows, ingested>> /\ UNCHANGED thread
      BY <1>5 DEF LeaseOutlived
    <2> QED BY <2>1, SameRowsHarmless, QuietStep
  <1> QED BY <1>1, <1>2, <1>3, <1>4, <1>5 DEF WorkerStep

\* So do crashes, other writers and the passage of time.
LEMMA WorldGood ==
  ASSUME IInv,
         \/ \E p \in Procs : Crash(p)
         \/ \E j \in Jobs : ForeignJob(j)
         \/ \E s \in Streams : LeaseLapses(s)
  PROVE  AllGood' /\ DoneIsIngested'
  <1>1. ASSUME NEW p \in Procs, Crash(p) PROVE AllGood' /\ DoneIsIngested'
    <2>1. UNCHANGED <<rows, ingested>>
      BY <1>1 DEF Crash
    <2>2. Off.at = "off" /\ Off.batch = {} /\ Off.one = {}
      BY DEF Off
    <2>3. \A e \in Drainers : thread'[e] = thread[e] \/ Rests(e)
      BY <1>1, <2>2 DEF Crash, Rests
    <2> QED BY <2>1, <2>3, SameRowsHarmless, QuietStep
  <1>2. ASSUME NEW j \in Jobs, ForeignJob(j) PROVE AllGood' /\ DoneIsIngested'
    <2>1. /\ status' = [status EXCEPT ![j] = "new"] /\ UNCHANGED <<session, ingested>>
          /\ UNCHANGED thread /\ status \in [Jobs -> RowStates]
      BY <1>2 DEF ForeignJob, IInv, TypeOK
    <2>2. \A e \in Drainers : Harmless(e)
      BY <2>1 DEF Harmless
    <2>3. \A k \in Jobs : status'[k] = "done" => status[k] = "done"
      BY <2>1
    <2> QED BY <2>1, <2>2, <2>3, QuietStep
  <1>3. ASSUME NEW s \in Streams, LeaseLapses(s) PROVE AllGood' /\ DoneIsIngested'
    <2>1. UNCHANGED <<rows, ingested>> /\ UNCHANGED thread
      BY <1>3 DEF LeaseLapses
    <2> QED BY <2>1, SameRowsHarmless, QuietStep
  <1> QED BY <1>1, <1>2, <1>3

\* A step that replies: the rows of J that are cur get verdict x, and done
\* goes only to what was ingested or has no text.
Replies ==
  \E J \in SUBSET Jobs, x \in Settled :
    /\ x = "done" => J \ Undecodable \subseteq ingested
    /\ status' = Replied(J, x)

\* The three replying steps of a pass reply in this sense.
LEMMA PassReplies ==
  ASSUME IInv, NEW d \in Drainers, Decode(d) \/ ReplySession(d) \/ OneReply(d)
  PROVE  Replies
  <1>0. thread[d] \in Threads /\ Good(d)
    BY DEF IInv, AllGood, TypeOK
  <1>f. thread[d].batch \in SUBSET Jobs /\ thread[d].one \in SUBSET Jobs
        /\ thread[d].verdict \in Settled
    BY <1>0, Fields
  <1>1. CASE Decode(d)
    <2>1. PICK lost \in LostReplies(thread[d].batch \cap Undecodable) :
            status' = Replied((thread[d].batch \cap Undecodable) \ lost, "blocked")
      BY <1>1 DEF Decode
    <2>2. (thread[d].batch \cap Undecodable) \ lost \in SUBSET Jobs
      BY <1>f
    <2> QED BY <2>1, <2>2 DEF Replies, Settled
  <1>2. CASE ReplySession(d)
    <2> DEFINE mine == {j \in Jobs : status[j] = "cur" /\ session[j] = d}
    <2>1. thread[d].at = "reply"
      BY <1>2 DEF ReplySession
    <2>2. thread[d].batch \subseteq ingested
      BY <1>0, <2>1 DEF Good
    <2>3. mine \subseteq thread[d].batch \cup Undecodable
      BY <1>0, <2>1 DEF Good
    <2>4. \E J \in {mine, thread[d].batch, thread[d].batch \ {}, thread[d].batch \ thread[d].batch} :
             status' = Replied(J, "done")
      BY <1>2 DEF ReplySession
    <2>5. \A J \in {mine, thread[d].batch, thread[d].batch \ {}, thread[d].batch \ thread[d].batch} :
             J \in SUBSET Jobs /\ J \ Undecodable \subseteq ingested
      BY <1>f, <2>2, <2>3
    <2> HIDE DEF mine
    <2>6. PICK J \in {mine, thread[d].batch, thread[d].batch \ {}, thread[d].batch \ thread[d].batch} :
             status' = Replied(J, "done")
      BY <2>4
    <2>7. J \in SUBSET Jobs /\ J \ Undecodable \subseteq ingested
      BY <2>5, <2>6
    <2>8. "done" \in Settled
      BY DEF Settled
    <2> QED BY <2>6, <2>7, <2>8 DEF Replies
  <1>3. CASE OneReply(d)
    <2>1. PICK lost \in LostReplies(thread[d].one) :
            status' = Replied(thread[d].one \ lost, thread[d].verdict)
      BY <1>3 DEF OneReply
    <2>2. thread[d].verdict = "done" => thread[d].one \subseteq ingested
      BY <1>0, <1>3 DEF OneReply, Good
    <2>3. thread[d].one \ lost \in SUBSET Jobs
      BY <1>f
    <2> QED BY <1>f, <2>1, <2>2, <2>3 DEF Replies
  <1> QED BY <1>1, <1>2, <1>3

\* A replying step is harmless to everybody and keeps DoneIsIngested.
LEMMA RepliesAreGood ==
  ASSUME IInv, Replies, UNCHANGED <<session, ingested>>
  PROVE  (\A e \in Drainers : Harmless(e)) /\ DoneIsIngested'
  <1>1. PICK J \in SUBSET Jobs, x \in Settled :
          /\ x = "done" => J \ Undecodable \subseteq ingested
          /\ status' = Replied(J, x)
    BY DEF Replies
  <1>2. status \in [Jobs -> RowStates]
    BY DEF IInv, TypeOK
  <1>3. \A j \in Jobs : status'[j] = status[j] \/ (j \in J /\ status[j] = "cur" /\ status'[j] = x)
    BY <1>1 DEF Replied
  <1>4. \A e \in Drainers : Harmless(e)
    BY <1>3 DEF Harmless, Settled
  <1>5. DoneIsIngested'
    BY <1>1, <1>3 DEF IInv, DoneIsIngested
  <1> QED BY <1>4, <1>5

\* A drainer's own move, harmless to the others: it only has to leave the
\* drainer itself good.
LEMMA MoveIsGood ==
  ASSUME IInv, NEW d \in Drainers, NEW r, Go(d, r), Good(d)',
         \A e \in Drainers \ {d} : Harmless(e)
  PROVE  AllGood'
  <1>1. ASSUME NEW e \in Drainers, e # d PROVE Good(e)'
    <2>1. thread'[e] = thread[e]
      BY <1>1 DEF Go, IInv, TypeOK
    <2> QED BY <1>1, <2>1, OthersStayGood DEF IInv, AllGood
  <1> QED BY <1>1 DEF AllGood

\* The steps of a pass keep the invariant.
LEMMA PassGood ==
  ASSUME IInv, NEW d \in Drainers, PassStep(d)
  PROVE  AllGood' /\ DoneIsIngested'
  <1>0. TypeOK /\ thread \in [Drainers -> Threads] /\ thread[d] \in Threads /\ Good(d)
    BY DEF IInv, AllGood, TypeOK
  <1>f. thread[d].batch \in SUBSET Jobs /\ thread[d].one \in SUBSET Jobs
    BY <1>0, Fields
  <1>g. ASSUME NEW r, Go(d, r) PROVE thread'[d] = r
    BY <1>0, <1>g DEF Go
  <1>p. /\ PassDone(d) \in Threads /\ PassDone(d).at \in {"loop", "drain"}
        /\ PassDone(d).batch = {} /\ PassDone(d).one = {}
    BY <1>0, PassDoneIsThread
  <1>i. ASSUME UNCHANGED rows, ingested \subseteq ingested'
        PROVE  (\A e \in Drainers : Harmless(e)) /\ DoneIsIngested'
    BY <1>i DEF Harmless, rows, IInv, DoneIsIngested
  <1>1. CASE Claim(d)
    <2> DEFINE new == InStream(Stream(d), "new")
               r == [thread[d] EXCEPT !.at = "decode", !.batch = new]
    <2>1. /\ Go(d, r) /\ UNCHANGED ingested /\ thread[d].at = "drain"
          /\ status' = [j \in Jobs |-> IF j \in new THEN "cur" ELSE status[j]]
          /\ session' = [j \in Jobs |-> IF j \in new THEN d
                                ELSE IF session[j] = d THEN Nobody ELSE session[j]]
      BY <1>1 DEF Claim
    <2>2. r.at = "decode" /\ r.batch = new /\ r.one = thread[d].one
      BY <1>0 DEF Threads
    <2>3. new \subseteq Jobs
      BY DEF InStream
    <2>4. thread'[d] = r /\ thread[d].one = {}
      BY <1>0, <1>g, <2>1 DEF Good
    <2> HIDE DEF new, r
    <2>5. \A e \in Drainers \ {d} : Harmless(e)
      BY <2>1, QueueAssumption DEF Harmless
    <2>6. Good(d)'
      <3>1. \A j \in new : status'[j] = "cur"
        BY <2>1, <2>3
      <3>2. \A j \in Jobs : session'[j] = d => j \in new
        BY <2>1, QueueAssumption
      <3> QED BY <2>2, <2>3, <2>4, <3>1, <3>2 DEF Good
    <2>7. DoneIsIngested'
      BY <2>1 DEF IInv, DoneIsIngested
    <2> QED BY <2>1, <2>5, <2>6, <2>7, MoveIsGood
  <1>2. CASE Decode(d)
    <2>1. Replies /\ UNCHANGED <<session, ingested>>
      BY <1>2, PassReplies DEF Decode
    <2>2. (\A e \in Drainers : Harmless(e)) /\ DoneIsIngested'
      BY <2>1, RepliesAreGood
    <2>3. PICK r : Go(d, r) /\ r = (IF thread[d].batch \subseteq Undecodable THEN PassDone(d)
                     ELSE [thread[d] EXCEPT !.at = "ingest", !.batch = @ \ Undecodable])
      BY <1>2 DEF Decode
    <2>4. thread'[d] = r /\ thread[d].at = "decode"
      BY <1>2, <1>g, <2>3 DEF Decode
    <2>5. Good(d)'
      <3>1. CASE thread[d].batch \subseteq Undecodable
        BY <1>p, <2>3, <2>4, <3>1 DEF Good
      <3>2. CASE ~(thread[d].batch \subseteq Undecodable)
        <4>1. r.at = "ingest" /\ r.batch = thread[d].batch \ Undecodable /\ r.one = thread[d].one
          BY <1>0, <2>3, <3>2 DEF Threads
        <4>2. Harmless(d) /\ Good(d)
          BY <1>0, <2>2
        <4> QED BY <1>f, <2>4, <4>1, <4>2 DEF Good, Harmless
      <3> QED BY <3>1, <3>2
    <2> QED BY <2>2, <2>3, <2>5, MoveIsGood
  <1>3. CASE PassFails(d)
    <2> DEFINE r == [thread[d] EXCEPT !.at = "loop", !.batch = {}, !.publish = FALSE]
    <2>1. /\ Go(d, Off) \/ Go(d, r)
          /\ thread[d].at \in {"drain", "decode"} /\ UNCHANGED <<rows, ingested>>
      BY <1>3 DEF PassFails
    <2>2. r \in Threads /\ r.at = "loop" /\ r.batch = {} /\ r.one = thread[d].one
      BY <1>0 DEF Threads, Stages
    <2>3. Off.at = "off" /\ Off.batch = {} /\ Off.one = {}
      BY DEF Off
    <2>4. thread[d].one = {}
      BY <1>0, <2>1 DEF Good
    <2> HIDE DEF r
    <2>5. \A e \in Drainers : thread'[e] = thread[e] \/ Rests(e)
      BY <1>0, <2>1, <2>2, <2>3, <2>4, OffIsThread, GoRests
    <2> QED BY <2>1, <2>5, SameRowsHarmless, QuietStep
  <1>4. CASE IngestBatch(d)
    <2> DEFINE r == [thread[d] EXCEPT !.at = "reply"]
    <2>1. /\ Go(d, r) /\ thread[d].at = "ingest" /\ UNCHANGED rows
          /\ ingested' = ingested \cup thread[d].batch
      BY <1>4 DEF IngestBatch, Stored
    <2>2. r.at = "reply" /\ r.batch = thread[d].batch /\ r.one = thread[d].one
      BY <1>0 DEF Threads
    <2>3. thread'[d] = r
      BY <1>g, <2>1
    <2> HIDE DEF r
    <2>4. (\A e \in Drainers : Harmless(e)) /\ DoneIsIngested'
      BY <1>i, <2>1
    <2>5. Good(d)'
      BY <1>0, <1>f, <2>1, <2>2, <2>3 DEF Good, rows
    <2> QED BY <2>1, <2>4, <2>5, MoveIsGood
  <1>5. CASE IngestBatchFails(d)
    <2> DEFINE r == [thread[d] EXCEPT !.at = "fallback"]
    <2>1. Go(d, r) /\ thread[d].at = "ingest" /\ UNCHANGED <<rows, ingested>>
      BY <1>5 DEF IngestBatchFails
    <2>2. r.at = "fallback" /\ r.batch = thread[d].batch /\ r.one = thread[d].one
      BY <1>0 DEF Threads
    <2>3. thread'[d] = r
      BY <1>g, <2>1
    <2> HIDE DEF r
    <2>4. (\A e \in Drainers : Harmless(e)) /\ DoneIsIngested'
      BY <1>i, <2>1
    <2>5. Good(d)'
      BY <1>0, <1>f, <2>1, <2>2, <2>3 DEF Good, rows
    <2> QED BY <2>1, <2>4, <2>5, MoveIsGood
  <1>6. CASE ReplySession(d)
    <2>1. Replies /\ UNCHANGED <<session, ingested>> /\ Go(d, PassDone(d))
      BY <1>6, PassReplies DEF ReplySession
    <2>2. (\A e \in Drainers : Harmless(e)) /\ DoneIsIngested'
      BY <2>1, RepliesAreGood
    <2>3. Good(d)'
      BY <1>g, <1>p, <2>1 DEF Good
    <2> QED BY <2>1, <2>2, <2>3, MoveIsGood
  <1>7. CASE OneReply(d)
    <2> DEFINE r == [thread[d] EXCEPT !.at = "fallback", !.batch = @ \ thread[d].one, !.one = {}]
    <2>1. /\ Replies /\ UNCHANGED <<session, ingested>> /\ Go(d, AfterOne(d))
          /\ thread[d].at = "verdict"
      BY <1>7, PassReplies DEF OneReply
    <2>2. (\A e \in Drainers : Harmless(e)) /\ DoneIsIngested'
      BY <2>1, RepliesAreGood
    <2>3. r.at = "fallback" /\ r.batch = thread[d].batch \ thread[d].one /\ r.one = {}
      BY <1>0 DEF Threads
    <2>4. AfterOne(d) \in {PassDone(d), r}
      BY DEF AfterOne
    <2> HIDE DEF r
    <2>5. thread'[d] \in {PassDone(d), r}
      BY <1>g, <2>1, <2>4
    <2>6. Good(d)'
      <3>1. CASE thread'[d] = PassDone(d)
        BY <1>p, <3>1 DEF Good
      <3>2. CASE thread'[d] = r
        BY <1>0, <1>f, <2>1, <2>2, <2>3, <3>2 DEF Good, Harmless
      <3> QED BY <2>5, <3>1, <3>2
    <2> QED BY <2>1, <2>2, <2>6, MoveIsGood
  <1>8. ASSUME NEW j \in Jobs, OneIngested(d, j) \/ OneGivenUp(d, j)
        PROVE  AllGood' /\ DoneIsIngested'
    <2>1. PICK v \in Settled :
            /\ Go(d, [thread[d] EXCEPT !.at = "verdict", !.one = {j}, !.verdict = v])
            /\ v = "done" => j \in ingested'
      BY <1>8 DEF OneIngested, OneGivenUp, Stored, Settled
    <2>2. /\ UNCHANGED rows /\ ingested \subseteq ingested'
          /\ thread[d].at = "fallback" /\ j \in thread[d].batch
      BY <1>8 DEF OneIngested, OneGivenUp, Stored
    <2> DEFINE r == [thread[d] EXCEPT !.at = "verdict", !.one = {j}, !.verdict = v]
    <2>3. r.at = "verdict" /\ r.batch = thread[d].batch /\ r.one = {j} /\ r.verdict = v
      BY <1>0 DEF Threads
    <2>4. Go(d, r)
      BY <2>1
    <2>5. thread'[d] = r
      BY <1>g, <2>4
    <2> HIDE DEF r
    <2>6. (\A e \in Drainers : Harmless(e)) /\ DoneIsIngested'
      BY <1>i, <2>2
    <2>7. Good(d)'
      BY <1>0, <1>f, <2>1, <2>2, <2>3, <2>5 DEF Good, rows
    <2> QED BY <2>4, <2>6, <2>7, MoveIsGood
  <1> QED BY <1>1, <1>2, <1>3, <1>4, <1>5, <1>6, <1>7, <1>8 DEF PassStep

\* Every step keeps the inductive invariant.
LEMMA NextGood == IInv /\ [Next]_vars => IInv'
  <1> SUFFICES ASSUME IInv, [Next]_vars PROVE IInv'
    OBVIOUS
  <1>1. TypeOK'
    BY NextType DEF IInv
  <1>2. CASE UNCHANGED vars
    BY <1>1, <1>2, SameRowsHarmless, QuietStep DEF IInv, vars
  <1>3. CASE Next
    BY <1>1, <1>3, HostGood, WorkerGood, PassGood, WorldGood DEF Next, IInv
  <1> QED BY <1>2, <1>3

\* The inductive invariant holds initially.
LEMMA InitGood == Init => IInv
  <1> SUFFICES ASSUME Init PROVE IInv
    OBVIOUS
  <1>1. TypeOK
    BY InitType
  <1>2. Off.at = "off" /\ Off.batch = {} /\ Off.one = {}
    BY DEF Off
  <1>3. \A d \in Drainers : thread[d] = Off
    BY DEF Init
  <1>4. AllGood
    BY <1>2, <1>3, RestIsGood DEF AllGood
  <1>5. DoneIsIngested
    BY DEF Init, DoneIsIngested
  <1> QED BY <1>1, <1>4, <1>5 DEF IInv

\* DoneIsIngested is an invariant: whichever drainers claimed, reclaimed and
\* replied a job, and whatever failed in between, the queue calls it done only
\* after an ingest of its text returned Ok.
THEOREM DoneOnlyAfterIngest == Spec => []DoneIsIngested
  <1>1. Init => IInv
    BY InitGood
  <1>2. IInv /\ [Next]_vars => IInv'
    BY NextGood
  <1>3. IInv => DoneIsIngested
    BY DEF IInv
  <1> QED BY <1>1, <1>2, <1>3, PTL DEF Spec

-----------------------------------------------------------------------------
(* The pipeline implements the ledger *)

\* A step that changes no row's outcome is invisible.
LEMMA Invisible ==
  ASSUME UNCHANGED ingested,
         \A j \in Jobs : \/ status'[j] = status[j]
                         \/ (status[j] \in {"new", "cur"} /\ status'[j] \in {"new", "cur"})
  PROVE  UNCHANGED <<Outcome, ingested>>
  <1>1. Outcome' = Outcome
    BY DEF Outcome
  <1> QED BY <1>1

\* Sending rows submits them.
LEMMA SendSubmits ==
  ASSUME TypeOK, NEW J \in SUBSET Jobs, \A j \in J : status[j] = "none",
         \A j \in Jobs : status'[j] = IF j \in J THEN "new" ELSE status[j],
         UNCHANGED ingested
  PROVE  Ledger!Submit(J)
  <1>1. \A j \in J : Outcome[j] = "none"
    BY DEF Outcome
  <1>2. Outcome' = [j \in Jobs |-> IF j \in J THEN "open" ELSE Outcome[j]]
    BY DEF Outcome
  <1> QED BY <1>1, <1>2 DEF Ledger!Submit

\* Ingesting submitted jobs is an Ingest of the ledger.
LEMMA StoreIngests ==
  ASSUME NEW J \in SUBSET Jobs, \A j \in J : status[j] # "none",
         UNCHANGED status, ingested' = ingested \cup J
  PROVE  Ledger!Ingest(J)
  <1>1. \A j \in J : Outcome[j] # "none"
    BY DEF Outcome
  <1>2. Outcome' = Outcome
    BY DEF Outcome
  <1> QED BY <1>1, <1>2 DEF Ledger!Ingest

\* A replying step settles the rows that are still cur.
LEMMA ReplySettles ==
  ASSUME TypeOK, Replies, UNCHANGED ingested
  PROVE  \E J \in SUBSET Jobs : \E x \in {"done", "blocked"} : Ledger!Settle(J, x)
  <1>1. PICK J \in SUBSET Jobs, x \in Settled :
          /\ x = "done" => J \ Undecodable \subseteq ingested
          /\ status' = Replied(J, x)
    BY DEF Replies
  <1> DEFINE K == {j \in J : status[j] = "cur"}
  <1>2. \A j \in K : Outcome[j] = "open"
    BY DEF Outcome
  <1>3. Outcome' = [j \in Jobs |-> IF j \in K THEN x ELSE Outcome[j]]
    BY <1>1 DEF Outcome, Replied, Settled
  <1>4. K \in SUBSET Jobs /\ K \subseteq J
    OBVIOUS
  <1> HIDE DEF K
  <1>5. Ledger!Settle(K, x)
    BY <1>1, <1>2, <1>3, <1>4 DEF Ledger!Settle, Settled
  <1> QED BY <1>4, <1>5 DEF Settled

\* Every step is a step of the ledger or invisible in it.
LEMMA StepRefines ==
  ASSUME IInv, [Next]_vars
  PROVE  [Ledger!LedgerNext]_<<Outcome, ingested>>
  <1>0. TypeOK
    BY DEF IInv
  <1>q. ASSUME UNCHANGED <<rows, ingested>> PROVE UNCHANGED <<Outcome, ingested>>
    BY <1>q, Invisible DEF rows
  <1>1. CASE UNCHANGED vars
    BY <1>1, <1>q DEF vars
  <1>2. ASSUME NEW p \in Procs,
               \/ Mount(p) \/ Drop(p) \/ Await(p) \/ AwaitTimesOut(p) \/ HostReturns(p)
               \/ Crash(p)
        PROVE  UNCHANGED <<Outcome, ingested>>
    <2>1. UNCHANGED <<rows, ingested>>
      BY <1>2 DEF Mount, Drop, Await, AwaitTimesOut, HostReturns, Crash, DropReturns, Latch,
                  AwaitReturns, PumpFindsNone
    <2> QED BY <1>q, <2>1
  <1>3. ASSUME NEW p \in Procs, NEW J \in SUBSET Jobs, Enqueue(p, J)
        PROVE  Ledger!Submit(J)
    <2>1. \A j \in J : status[j] = "none"
      BY <1>3 DEF Enqueue, InStream
    <2>2. \A j \in Jobs : status'[j] = IF j \in J THEN "new" ELSE status[j]
      BY <1>3 DEF Enqueue
    <2>3. UNCHANGED ingested
      BY <1>3 DEF Enqueue
    <2> QED BY <1>0, <2>1, <2>2, <2>3, SendSubmits
  <1>4. ASSUME NEW p \in Procs, NEW s \in Streams, WorkerStep(p, s) \/ LeaseOutlived(p, s)
        PROVE  UNCHANGED <<Outcome, ingested>>
    <2>1. CASE Acquire(p, s)
      <3>1. UNCHANGED ingested /\ (status' = status \/ status' = Reclaimed(s))
        BY <2>1 DEF Acquire
      <3>2. \A j \in Jobs : \/ status'[j] = status[j]
                            \/ (status[j] \in {"new", "cur"} /\ status'[j] \in {"new", "cur"})
        BY <3>1 DEF Reclaimed
      <3> QED BY <3>1, <3>2, Invisible
    <2>2. CASE PassUnleased(p, s) \/ Exit(p, s) \/ WorkerFindsNone(p, s) \/ LeaseOutlived(p, s)
      <3>1. UNCHANGED <<rows, ingested>>
        BY <2>2 DEF PassUnleased, Exit, WorkerFindsNone, LeaseOutlived
      <3> QED BY <1>q, <3>1
    <2> QED BY <1>4, <2>1, <2>2 DEF WorkerStep
  <1>5. ASSUME NEW d \in Drainers, PassStep(d)
        PROVE  [Ledger!LedgerNext]_<<Outcome, ingested>>
    <2>0. thread[d] \in Threads /\ Good(d)
      BY DEF IInv, AllGood, TypeOK
    <2>f. thread[d].batch \in SUBSET Jobs
      BY <2>0, Fields
    <2>b. \A j \in thread[d].batch : status[j] # "none"
      BY <2>0 DEF Good
    <2>1. CASE Claim(d)
      <3>1. /\ UNCHANGED ingested
            /\ status' = [j \in Jobs |-> IF j \in InStream(Stream(d), "new") THEN "cur" ELSE status[j]]
        BY <2>1 DEF Claim
      <3>2. \A j \in Jobs : \/ status'[j] = status[j]
                            \/ (status[j] \in {"new", "cur"} /\ status'[j] \in {"new", "cur"})
        BY <3>1 DEF InStream
      <3> QED BY <3>1, <3>2, Invisible
    <2>2. CASE Decode(d) \/ ReplySession(d) \/ OneReply(d)
      <3>1. UNCHANGED ingested
        BY <2>2 DEF Decode, ReplySession, OneReply
      <3>2. Replies
        BY <2>2, PassReplies
      <3> QED BY <1>0, <3>1, <3>2, ReplySettles DEF Ledger!LedgerNext
    <2>3. CASE PassFails(d) \/ IngestBatchFails(d)
      <3>1. UNCHANGED <<rows, ingested>>
        BY <2>3 DEF PassFails, IngestBatchFails
      <3> QED BY <1>q, <3>1
    <2>4. CASE IngestBatch(d)
      <3>1. UNCHANGED status /\ ingested' = ingested \cup thread[d].batch
        BY <2>4 DEF IngestBatch, Stored, rows
      <3>2. Ledger!Ingest(thread[d].batch)
        BY <2>b, <2>f, <3>1, StoreIngests
      <3> QED BY <2>f, <3>2 DEF Ledger!LedgerNext
    <2>5. ASSUME NEW j \in Jobs, OneIngested(d, j)
          PROVE  [Ledger!LedgerNext]_<<Outcome, ingested>>
      <3>1. UNCHANGED status /\ ingested' = ingested \cup {j} /\ j \in thread[d].batch
        BY <2>5 DEF OneIngested, Stored, rows
      <3>2. {j} \in SUBSET Jobs /\ \A k \in {j} : status[k] # "none"
        BY <2>b, <3>1
      <3>3. Ledger!Ingest({j})
        BY <3>1, <3>2, StoreIngests
      <3> QED BY <3>2, <3>3 DEF Ledger!LedgerNext
    <2>6. ASSUME NEW j \in Jobs, OneGivenUp(d, j)
          PROVE  UNCHANGED <<Outcome, ingested>>
      <3>1. UNCHANGED <<rows, ingested>>
        BY <2>6 DEF OneGivenUp
      <3> QED BY <1>q, <3>1
    <2> QED BY <1>5, <2>1, <2>2, <2>3, <2>4, <2>5, <2>6 DEF PassStep
  <1>6. ASSUME NEW j \in Jobs, ForeignJob(j) PROVE Ledger!Submit({j})
    <2>1. /\ UNCHANGED ingested /\ status[j] = "none" /\ status' = [status EXCEPT ![j] = "new"]
          /\ status \in [Jobs -> RowStates]
      BY <1>0, <1>6 DEF ForeignJob, TypeOK
    <2>2. \A k \in Jobs : status'[k] = IF k \in {j} THEN "new" ELSE status[k]
      BY <2>1
    <2>3. {j} \in SUBSET Jobs /\ \A k \in {j} : status[k] = "none"
      BY <2>1
    <2> QED BY <1>0, <2>1, <2>2, <2>3, SendSubmits
  <1>7. ASSUME NEW s \in Streams, LeaseLapses(s) PROVE UNCHANGED <<Outcome, ingested>>
    <2>1. UNCHANGED <<rows, ingested>>
      BY <1>7 DEF LeaseLapses
    <2> QED BY <1>q, <2>1
  <1>8. CASE Next
    <2>1. \A J \in SUBSET Jobs : Ledger!Submit(J) => Ledger!LedgerNext
      BY DEF Ledger!LedgerNext
    <2>2. \A j \in Jobs : {j} \in SUBSET Jobs
      OBVIOUS
    <2> QED BY <1>2, <1>3, <1>4, <1>5, <1>6, <1>7, <1>8, <2>1, <2>2 DEF Next
  <1> QED BY <1>1, <1>8

\* The queue starts as an empty ledger.
LEMMA InitRefines == Init => Ledger!LedgerInit
  BY DEF Init, Outcome, Ledger!LedgerInit

\* The pipeline implements the ledger: claims, reclaims, takeovers, late
\* replies and crashes are invisible to whoever enqueues, and each job gets at
\* most one terminal reply, which it keeps.
THEOREM PipelineImplementsLedger == Spec => ImplementsLedger
  <1>1. Init => IInv
    BY InitGood
  <1>2. IInv /\ [Next]_vars => IInv'
    BY NextGood
  <1>3. Init => Ledger!LedgerInit
    BY InitRefines
  <1>4. IInv /\ [Next]_vars => [Ledger!LedgerNext]_<<Outcome, ingested>>
    BY StepRefines
  <1> QED BY <1>1, <1>2, <1>3, <1>4, PTL DEF Spec, ImplementsLedger, Ledger!LedgerSpec

-----------------------------------------------------------------------------
(* await_ingest_drain keeps its promise *)

\* A drainer only claims rows of its own stream.
OwnStream == \A d \in Drainers : \A j \in thread[d].batch : StreamOf[j] = Stream(d)

\* Only the processes that open the estate mount the queue and run drainers.
OnlyOpeners ==
  /\ mounted \subseteq deploy.procs
  /\ \A d \in Drainers : d[1] \notin deploy.procs => thread[d].at = "off"

\* What an await waits for are submitted encode jobs, and past the latch they
\* are settled.
OwedJobs ==
  \A p \in Procs : \A j \in owed[p] :
    /\ StreamOf[j] = "encode"
    /\ status[j] # "none"
    /\ host[p] = "publish" => status[j] \in Settled

\* In the only process of an estate the encode jobs that were ingested are in
\* the resident index or wait for the next publish.
Reaches(p) ==
  \A j \in ingested : StreamOf[j] = "encode" => j \in pending[p] \cup resident[p]

SoleReaches == \A p \in Procs : deploy.procs = {p} => Reaches(p)

AwaitInv == OwnStream /\ OnlyOpeners /\ OwedJobs /\ SoleReaches

\* Rows stay submitted and settled rows keep their outcome: so does the ledger.
LEMMA RowsMoveOn ==
  ASSUME IInv, [Next]_vars
  PROVE  \A j \in Jobs : /\ status[j] # "none" => status'[j] # "none"
                         /\ status[j] \in Settled => status'[j] = status[j]
<1>0. /\ \A j \in Jobs : Outcome[j] = IF status[j] \in {"new", "cur"} THEN "open" ELSE status[j]
      /\ \A j \in Jobs : Outcome'[j] = IF status'[j] \in {"new", "cur"} THEN "open" ELSE status'[j]
  BY DEF Outcome
<1>1. [Ledger!LedgerNext]_<<Outcome, ingested>>
  BY StepRefines
<1>2. \A j \in Jobs : /\ Outcome[j] # "none" => Outcome'[j] # "none"
                      /\ Outcome[j] \in Settled => Outcome'[j] = Outcome[j]
  <2>1. CASE Outcome' = Outcome
    BY <2>1
  <2>2. ASSUME NEW J \in SUBSET Jobs, Ledger!Submit(J) PROVE <1>2
    BY <2>2 DEF Ledger!Submit, Settled
  <2>3. ASSUME NEW J \in SUBSET Jobs, Ledger!Ingest(J) PROVE <1>2
    BY <2>3 DEF Ledger!Ingest
  <2>4. ASSUME NEW J \in SUBSET Jobs, NEW x \in {"done", "blocked"}, Ledger!Settle(J, x) PROVE <1>2
    BY <2>4 DEF Ledger!Settle, Settled
  <2> QED BY <1>1, <2>1, <2>2, <2>3, <2>4 DEF Ledger!LedgerNext
<1> QED BY <1>0, <1>2 DEF Settled

\* How a step may move drainer e: it claims only new rows of its stream, and it
\* starts only in a process that has the estate open.
MovesWell(e) ==
  /\ thread'[e].batch \subseteq thread[e].batch \cup InStream(Stream(e), "new")
  /\ thread[e].at = "off" /\ thread'[e].at # "off" => e[1] \in mounted \cup deploy.procs

\* A step that moves one running drainer, to a claim of its stream or less, moves
\* all drainers well.
LEMMA OneMovesWell ==
  ASSUME TypeOK, NEW d \in Drainers, NEW r, Go(d, r),
         r.batch \subseteq thread[d].batch \cup InStream(Stream(d), "new"),
         thread[d].at # "off" \/ r.at = "off" \/ d[1] \in mounted \cup deploy.procs
  PROVE  \A e \in Drainers : MovesWell(e)
<1>1. \A e \in Drainers : thread'[e] = IF e = d THEN r ELSE thread[e]
  BY DEF TypeOK, Go
<1> QED BY <1>1 DEF MovesWell

\* Drainers that a step leaves alone move well.
LEMMA StillMovesWell ==
  ASSUME UNCHANGED thread
  PROVE  \A e \in Drainers : MovesWell(e)
BY DEF MovesWell

\* The host's calls move the drainers well,
LEMMA HostMovesWell ==
  ASSUME IInv, NEW p \in Procs,
         \/ Mount(p) \/ Drop(p) \/ Await(p) \/ AwaitTimesOut(p) \/ HostReturns(p) \/ Crash(p)
         \/ \E J \in (SUBSET Jobs) \ {{}} : Enqueue(p, J)
  PROVE  \A e \in Drainers : MovesWell(e)
<1>0. TypeOK /\ <<p, "pump">> \in Drainers
  BY DEF IInv, Drainers, Kinds
<1>o. /\ Off.at = "off" /\ Off.batch = {}
      /\ [Off EXCEPT !.at = "loop"].batch = {} /\ [Off EXCEPT !.at = "drain"].batch = {}
  BY DEF Off
<1>1. ASSUME Mounted(p), p \in deploy.procs PROVE \A e \in Drainers : MovesWell(e)
  <2>1. CASE UNCHANGED thread
    BY <2>1, StillMovesWell
  <2>2. CASE thread' = [d \in Drainers |-> IF d \in Workers(p) THEN [Off EXCEPT !.at = "loop"]
                                       ELSE thread[d]]
    <3>1. \A e \in Workers(p) : e[1] = p
      BY DEF Workers
    <3> QED BY <1>1, <1>o, <2>2, <3>1 DEF MovesWell
  <2> QED BY <1>1, <2>1, <2>2 DEF Mounted
<1>2. CASE Mount(p)
  BY <1>1, <1>2 DEF Mount
<1>3. ASSUME NEW J \in SUBSET Jobs, Enqueue(p, J) PROVE \A e \in Drainers : MovesWell(e)
  BY <1>1, <1>3 DEF Enqueue
<1>4. CASE Drop(p) \/ AwaitTimesOut(p) \/ DropReturns(p) \/ Latch(p) \/ AwaitReturns(p)
  <2>1. UNCHANGED thread
    BY <1>4 DEF Drop, AwaitTimesOut, DropReturns, Latch, AwaitReturns
  <2> QED BY <2>1, StillMovesWell
<1>5. CASE Await(p)
  <2>1. Go(<<p, "pump">>, [Off EXCEPT !.at = "drain"]) /\ p \in mounted
    BY <1>5 DEF Await
  <2> QED BY <1>0, <1>o, <2>1, OneMovesWell
<1>6. CASE PumpFindsNone(p)
  <2>1. Go(<<p, "pump">>, Off)
    BY <1>6 DEF PumpFindsNone
  <2> QED BY <1>0, <1>o, <2>1, OneMovesWell
<1>7. CASE Crash(p)
  <2>1. thread' = [d \in Drainers |-> IF d[1] = p THEN Off ELSE thread[d]]
    BY <1>7 DEF Crash
  <2> QED BY <1>o, <2>1 DEF MovesWell
<1> QED BY <1>2, <1>3, <1>4, <1>5, <1>6, <1>7 DEF HostReturns

\* and so do the workers at the top of their loops
LEMMA WorkerMovesWell ==
  ASSUME IInv, NEW p \in Procs, NEW s \in Streams, WorkerStep(p, s) \/ LeaseOutlived(p, s)
  PROVE  \A e \in Drainers : MovesWell(e)
<1>0. TypeOK /\ <<p, s>> \in Drainers /\ thread[<<p, s>>] \in Threads
  BY DEF IInv, TypeOK, Drainers, Kinds, Streams
<1>1. CASE Acquire(p, s)
  <2>1. /\ Go(<<p, s>>, [thread[<<p, s>>] EXCEPT !.at = "drain", !.reclaimed = TRUE])
        /\ thread[<<p, s>>].at = "loop"
    BY <1>1 DEF Acquire
  <2>2. [thread[<<p, s>>] EXCEPT !.at = "drain", !.reclaimed = TRUE].batch = thread[<<p, s>>].batch
    BY <1>0 DEF Threads
  <2> QED BY <1>0, <2>1, <2>2, OneMovesWell
<1>2. CASE PassUnleased(p, s)
  <2>1. /\ Go(<<p, s>>, [thread[<<p, s>>] EXCEPT !.at = "drain"])
        /\ thread[<<p, s>>].at = "loop"
    BY <1>2 DEF PassUnleased
  <2>2. [thread[<<p, s>>] EXCEPT !.at = "drain"].batch = thread[<<p, s>>].batch
    BY <1>0 DEF Threads
  <2> QED BY <1>0, <2>1, <2>2, OneMovesWell
<1>3. CASE Exit(p, s)
  <2>1. Go(<<p, s>>, Off) /\ Off.batch = {} /\ Off.at = "off"
    BY <1>3 DEF Exit, Off
  <2> QED BY <1>0, <2>1, OneMovesWell
<1>4. CASE WorkerFindsNone(p, s)
  <2>1. /\ Go(<<p, s>>, [thread[<<p, s>>] EXCEPT !.at = "loop", !.publish = FALSE])
        /\ thread[<<p, s>>].at = "drain"
    BY <1>4 DEF WorkerFindsNone
  <2>2. [thread[<<p, s>>] EXCEPT !.at = "loop", !.publish = FALSE].batch = thread[<<p, s>>].batch
    BY <1>0 DEF Threads
  <2> QED BY <1>0, <2>1, <2>2, OneMovesWell
<1>5. CASE LeaseOutlived(p, s)
  BY <1>5, StillMovesWell DEF LeaseOutlived
<1> QED BY <1>1, <1>2, <1>3, <1>4, <1>5 DEF WorkerStep

\* and every drainer in its pass.
LEMMA PassMovesWell ==
  ASSUME IInv, NEW d \in Drainers, PassStep(d)
  PROVE  /\ \A e \in Drainers : MovesWell(e)
         /\ thread[d].at # "off"
<1>0. TypeOK /\ thread[d] \in Threads
  BY DEF IInv, TypeOK
<1>o. Off.at = "off" /\ Off.batch = {}
  BY DEF Off
<1>p. PassDone(d).batch = {}
  BY <1>0, PassDoneIsThread
<1>n. thread[d].at # "off"
  BY DEF PassStep, Claim, Decode, PassFails, IngestBatch, IngestBatchFails, ReplySession, OneReply,
         OneIngested, OneGivenUp
<1>1. PICK r : Go(d, r) /\ r.batch \subseteq thread[d].batch \cup InStream(Stream(d), "new")
  <2>1. CASE Claim(d)
    <3>1. [thread[d] EXCEPT !.at = "decode", !.batch = InStream(Stream(d), "new")].batch
            = InStream(Stream(d), "new")
      BY <1>0 DEF Threads
    <3> QED BY <2>1, <3>1 DEF Claim
  <2>2. CASE Decode(d)
    <3>1. [thread[d] EXCEPT !.at = "ingest", !.batch = @ \ Undecodable].batch \subseteq thread[d].batch
      BY <1>0 DEF Threads
    <3> QED BY <1>p, <2>2, <3>1 DEF Decode
  <2>3. CASE PassFails(d)
    <3>1. [thread[d] EXCEPT !.at = "loop", !.batch = {}, !.publish = FALSE].batch = {}
      BY <1>0 DEF Threads
    <3> QED BY <1>o, <2>3, <3>1 DEF PassFails
  <2>4. CASE IngestBatch(d)
    <3>1. [thread[d] EXCEPT !.at = "reply"].batch = thread[d].batch
      BY <1>0 DEF Threads
    <3> QED BY <2>4, <3>1 DEF IngestBatch
  <2>5. CASE IngestBatchFails(d)
    <3>1. [thread[d] EXCEPT !.at = "fallback"].batch = thread[d].batch
      BY <1>0 DEF Threads
    <3> QED BY <2>5, <3>1 DEF IngestBatchFails
  <2>6. CASE ReplySession(d)
    BY <1>p, <2>6 DEF ReplySession
  <2>7. CASE OneReply(d)
    <3>1. [thread[d] EXCEPT !.at = "fallback", !.batch = @ \ thread[d].one, !.one = {}].batch
            \subseteq thread[d].batch
      BY <1>0 DEF Threads
    <3>2. AfterOne(d).batch \subseteq thread[d].batch
      BY <1>p, <3>1 DEF AfterOne
    <3> QED BY <2>7, <3>2 DEF OneReply
  <2>8. ASSUME NEW j \in Jobs, OneIngested(d, j) \/ OneGivenUp(d, j)
        PROVE  \E r : Go(d, r) /\ r.batch \subseteq thread[d].batch \cup InStream(Stream(d), "new")
    <3>1. /\ [thread[d] EXCEPT !.at = "verdict", !.one = {j}, !.verdict = "done"].batch = thread[d].batch
          /\ [thread[d] EXCEPT !.at = "verdict", !.one = {j}, !.verdict = "blocked"].batch = thread[d].batch
      BY <1>0 DEF Threads
    <3> QED BY <2>8, <3>1 DEF OneIngested, OneGivenUp
  <2> QED BY <2>1, <2>2, <2>3, <2>4, <2>5, <2>6, <2>7, <2>8 DEF PassStep
<1> QED BY <1>0, <1>1, <1>n, OneMovesWell

\* Every step moves the drainers well, keeps the deployment, and mounts the
\* queue only in a process that has the estate open.
LEMMA StepMovesWell ==
  ASSUME IInv, [Next]_vars
  PROVE  /\ \A e \in Drainers : MovesWell(e)
         /\ deploy' = deploy
         /\ mounted' \subseteq mounted \cup deploy.procs
<1>1. \A e \in Drainers : MovesWell(e)
  <2>1. CASE UNCHANGED vars
    BY <2>1, StillMovesWell DEF vars
  <2>2. ASSUME NEW j \in Jobs, ForeignJob(j) PROVE UNCHANGED thread
    BY <2>2 DEF ForeignJob
  <2>3. ASSUME NEW s \in Streams, LeaseLapses(s) PROVE UNCHANGED thread
    BY <2>3 DEF LeaseLapses
  <2>4. CASE Next
    BY <2>2, <2>3, <2>4, StillMovesWell, HostMovesWell, WorkerMovesWell, PassMovesWell DEF Next
  <2> QED BY <2>1, <2>4
<1>2. deploy' = deploy /\ mounted' \subseteq mounted \cup deploy.procs
  <2>1. CASE UNCHANGED vars
    BY <2>1 DEF vars, life
  <2>2. ASSUME NEW p \in Procs,
               \/ Mount(p) \/ Drop(p) \/ Await(p) \/ AwaitTimesOut(p) \/ HostReturns(p) \/ Crash(p)
               \/ \E J \in (SUBSET Jobs) \ {{}} : Enqueue(p, J)
        PROVE  <1>2
    BY <2>2 DEF Mount, Mounted, Drop, Await, AwaitTimesOut, HostReturns, Crash, Enqueue, DropReturns,
                Latch, AwaitReturns, PumpFindsNone
  <2>3. ASSUME NEW p \in Procs, NEW s \in Streams, WorkerStep(p, s) \/ LeaseOutlived(p, s)
        PROVE  <1>2
    BY <2>3 DEF WorkerStep, Acquire, PassUnleased, Exit, WorkerFindsNone, LeaseOutlived, life
  <2>4. ASSUME NEW d \in Drainers, PassStep(d) PROVE <1>2
    BY <2>4 DEF PassStep, Claim, Decode, PassFails, IngestBatch, IngestBatchFails, ReplySession,
                OneReply, OneIngested, OneGivenUp, life
  <2>5. ASSUME NEW j \in Jobs, ForeignJob(j) PROVE <1>2
    BY <2>5 DEF ForeignJob, life
  <2>6. ASSUME NEW s \in Streams, LeaseLapses(s) PROVE <1>2
    BY <2>6 DEF LeaseLapses, life
  <2> QED BY <2>1, <2>2, <2>3, <2>4, <2>5, <2>6 DEF Next
<1> QED BY <1>1, <1>2

\* What a step may do to an await of p: nothing, begin or end it, or pass the
\* latch when the encode stream has neither new nor cur rows.
AwaitsWell(p) ==
  \/ owed'[p] = {}
  \/ /\ owed'[p] = {j \in Jobs : StreamOf[j] = "encode" /\ status[j] # "none"}
     /\ host'[p] # "publish"
  \/ /\ owed'[p] = owed[p]
     /\ \/ host'[p] = host[p] \/ host'[p] # "publish"
        \/ InStream("encode", "new") \cup InStream("encode", "cur") = {}

\* Every step treats every await so.
LEMMA StepAwaitsWell ==
  ASSUME IInv, [Next]_vars, NEW p \in Procs
  PROVE  AwaitsWell(p)
<1>0. host \in [Procs -> {"free", "pump", "latch", "publish", "join"}] /\ owed \in [Procs -> SUBSET Jobs]
  BY DEF IInv, TypeOK
<1>1. CASE UNCHANGED <<host, owed>>
  BY <1>1 DEF AwaitsWell
<1>2. CASE UNCHANGED vars
  BY <1>1, <1>2 DEF vars, life
<1>3. ASSUME NEW q \in Procs, Mount(q) \/ \E J \in (SUBSET Jobs) \ {{}} : Enqueue(q, J)
      PROVE  AwaitsWell(p)
  BY <1>1, <1>3 DEF Mount, Enqueue
<1>4. ASSUME NEW q \in Procs, NEW h, h # "publish", host' = [host EXCEPT ![q] = h],
             owed' = owed \/ owed' = [owed EXCEPT ![q] = {}]
      PROVE  AwaitsWell(p)
  BY <1>0, <1>4 DEF AwaitsWell
<1>5. ASSUME NEW q \in Procs, Drop(q) \/ AwaitTimesOut(q) \/ DropReturns(q) \/ AwaitReturns(q)
                              \/ PumpFindsNone(q) \/ Crash(q)
      PROVE  AwaitsWell(p)
  <2>1. \E h : /\ h # "publish" /\ host' = [host EXCEPT ![q] = h]
               /\ owed' = owed \/ owed' = [owed EXCEPT ![q] = {}]
    BY <1>5 DEF Drop, AwaitTimesOut, DropReturns, AwaitReturns, PumpFindsNone, Crash
  <2> QED BY <1>4, <2>1
<1>6. ASSUME NEW q \in Procs, Await(q) PROVE AwaitsWell(p)
  BY <1>0, <1>6 DEF Await, AwaitsWell
<1>7. ASSUME NEW q \in Procs, Latch(q) PROVE AwaitsWell(p)
  BY <1>0, <1>7 DEF Latch, AwaitsWell
<1>8. ASSUME NEW q \in Procs, NEW s \in Streams, WorkerStep(q, s) \/ LeaseOutlived(q, s)
      PROVE  AwaitsWell(p)
  BY <1>1, <1>8 DEF WorkerStep, Acquire, PassUnleased, Exit, WorkerFindsNone, LeaseOutlived, life
<1>9. ASSUME NEW d \in Drainers, PassStep(d) PROVE AwaitsWell(p)
  <2>1. CASE PassFails(d)
    <3>1. d[1] \in Procs
      BY DEF Drainers
    <3>2. CASE UNCHANGED <<host, owed>>
      BY <1>1, <3>2
    <3>3. CASE host' = [host EXCEPT ![d[1]] = "free"] /\ owed' = [owed EXCEPT ![d[1]] = {}]
      BY <1>4, <3>1, <3>3
    <3> QED BY <2>1, <3>2, <3>3 DEF PassFails
  <2>2. CASE ~PassFails(d)
    BY <1>1, <1>9, <2>2 DEF PassStep, Claim, Decode, IngestBatch, IngestBatchFails, ReplySession,
                            OneReply, OneIngested, OneGivenUp, life
  <2> QED BY <2>1, <2>2
<1>10. ASSUME NEW j \in Jobs, ForeignJob(j) PROVE AwaitsWell(p)
  BY <1>1, <1>10 DEF ForeignJob, life
<1>11. ASSUME NEW s \in Streams, LeaseLapses(s) PROVE AwaitsWell(p)
  BY <1>1, <1>11 DEF LeaseLapses, life
<1> QED BY <1>2, <1>3, <1>5, <1>6, <1>7, <1>8, <1>9, <1>10, <1>11 DEF Next, HostReturns

\* What an await waits for stays submitted, and settled once past the latch.
LEMMA OwedKept ==
  ASSUME IInv, OwedJobs, [Next]_vars
  PROVE  OwedJobs'
<1> SUFFICES ASSUME NEW p \in Procs, NEW j \in owed'[p]
             PROVE  /\ StreamOf[j] = "encode"
                    /\ status'[j] # "none"
                    /\ host'[p] = "publish" => status'[j] \in Settled
  BY DEF OwedJobs
<1>0. AwaitsWell(p) /\ owed[p] \in SUBSET Jobs /\ status \in [Jobs -> RowStates]
  BY StepAwaitsWell DEF IInv, TypeOK
<1>1. \A k \in Jobs : /\ status[k] # "none" => status'[k] # "none"
                      /\ status[k] \in Settled => status'[k] = status[k]
  BY RowsMoveOn
<1>2. CASE /\ owed'[p] = {k \in Jobs : StreamOf[k] = "encode" /\ status[k] # "none"}
           /\ host'[p] # "publish"
  BY <1>1, <1>2
<1>3. CASE owed'[p] = owed[p] /\ (host'[p] = host[p] \/ host'[p] # "publish")
  BY <1>0, <1>1, <1>3 DEF OwedJobs
<1>4. CASE owed'[p] = owed[p] /\ InStream("encode", "new") \cup InStream("encode", "cur") = {}
  <2>1. j \in Jobs /\ StreamOf[j] = "encode" /\ status[j] # "none"
    BY <1>0, <1>4 DEF OwedJobs
  <2>2. status[j] \in Settled
    BY <1>0, <1>4, <2>1 DEF InStream, RowStates, Settled
  <2> QED BY <1>1, <2>1, <2>2
<1> QED BY <1>0, <1>2, <1>3, <1>4 DEF AwaitsWell

\* A publish, or a step that leaves the index alone, loses no ingested job.
LEMMA PublishReaches ==
  ASSUME TypeOK, UNCHANGED ingested, NEW p \in Procs, Reaches(p), NEW q \in Procs,
         UNCHANGED index \/ UNCHANGED <<pending, resident>> \/ Publish(q)
  PROVE  Reaches(p)'
<1>1. pending \in [Procs -> SUBSET Jobs] /\ resident \in [Procs -> SUBSET Jobs]
  BY DEF TypeOK
<1> QED BY <1>1 DEF Publish, Reaches, index

\* An ingest by a drainer of p itself reaches p's index.
LEMMA StoredReaches ==
  ASSUME TypeOK, NEW p \in Procs, Reaches(p), NEW d \in Drainers, d[1] = p,
         NEW J \in SUBSET Jobs, \A j \in J : StreamOf[j] = Stream(d), Stored(d, J)
  PROVE  Reaches(p)'
<1>1. pending \in [Procs -> SUBSET Jobs] /\ resident \in [Procs -> SUBSET Jobs]
  BY DEF TypeOK
<1>2. /\ ingested' = ingested \cup J
      /\ pending' = IF Stream(d) = "encode" /\ p \in deferred
                    THEN [pending EXCEPT ![p] = @ \cup J] ELSE pending
      /\ resident' = IF Stream(d) = "encode" /\ p \notin deferred
                     THEN [resident EXCEPT ![p] = @ \cup J] ELSE resident
  BY DEF Stored
<1>3. /\ pending[p] \subseteq pending'[p] /\ resident[p] \subseteq resident'[p]
      /\ Stream(d) = "encode" => J \subseteq pending'[p] \cup resident'[p]
  BY <1>1, <1>2
<1> QED BY <1>2, <1>3 DEF Reaches

\* In the only process of an estate every step leaves the ingested encode jobs
\* within the resident index or waiting for it.
LEMMA SoleReachesKept ==
  ASSUME IInv, AwaitInv, [Next]_vars, NEW p \in Procs, deploy.procs = {p}
  PROVE  Reaches(p)'
<1>0. TypeOK /\ Reaches(p)
  BY DEF IInv, AwaitInv, SoleReaches
<1>1. CASE UNCHANGED <<ingested, index>>
  BY <1>0, <1>1, PublishReaches
<1>2. CASE UNCHANGED vars
  BY <1>1, <1>2 DEF vars
<1>3. ASSUME NEW q \in Procs,
             \/ Mount(q) \/ Drop(q) \/ Await(q) \/ AwaitTimesOut(q) \/ HostReturns(q)
             \/ \E J \in (SUBSET Jobs) \ {{}} : Enqueue(q, J)
      PROVE  Reaches(p)'
  <2>1. UNCHANGED ingested /\ (UNCHANGED index \/ Publish(q))
    BY <1>3 DEF Mount, Drop, Await, AwaitTimesOut, HostReturns, Enqueue, DropReturns, Latch,
                AwaitReturns, PumpFindsNone
  <2> QED BY <1>0, <2>1, PublishReaches
<1>4. ASSUME NEW q \in Procs, Crash(q) PROVE Reaches(p)'
  <2>1. /\ pending \in [Procs -> SUBSET Jobs] /\ resident \in [Procs -> SUBSET Jobs]
        /\ pending' = [pending EXCEPT ![q] = {}]
        /\ resident' = [resident EXCEPT ![q] = {j \in ingested : StreamOf[j] = "encode"}]
        /\ ingested' = ingested
    BY <1>0, <1>4 DEF TypeOK, Crash
  <2> QED BY <1>0, <2>1 DEF Reaches
<1>5. ASSUME NEW q \in Procs, NEW s \in Streams, WorkerStep(q, s) \/ LeaseOutlived(q, s)
      PROVE  Reaches(p)'
  <2>1. UNCHANGED ingested /\ (UNCHANGED index \/ Publish(q))
    BY <1>5 DEF WorkerStep, Acquire, PassUnleased, Exit, WorkerFindsNone, LeaseOutlived
  <2> QED BY <1>0, <2>1, PublishReaches
<1>6. ASSUME NEW d \in Drainers, PassStep(d) PROVE Reaches(p)'
  <2>0. d[1] \in Procs /\ thread[d] \in Threads
    BY <1>0 DEF Drainers, TypeOK
  <2>1. d[1] = p
    <3>1. thread[d].at # "off"
      BY <1>6, PassMovesWell
    <3> QED BY <3>1 DEF AwaitInv, OnlyOpeners
  <2>2. thread[d].batch \in SUBSET Jobs /\ \A j \in thread[d].batch : StreamOf[j] = Stream(d)
    BY <2>0, Fields DEF AwaitInv, OwnStream
  <2>3. CASE IngestBatch(d)
    BY <1>0, <2>1, <2>2, <2>3, StoredReaches DEF IngestBatch
  <2>4. ASSUME NEW j \in Jobs, OneIngested(d, j) PROVE Reaches(p)'
    <3>1. j \in thread[d].batch /\ Stored(d, {j})
      BY <2>4 DEF OneIngested
    <3>2. {j} \in SUBSET Jobs /\ \A k \in {j} : StreamOf[k] = Stream(d)
      BY <2>2, <3>1
    <3> QED BY <1>0, <2>1, <3>1, <3>2, StoredReaches
  <2>5. CASE Decode(d)
    BY <1>0, <2>5, PublishReaches DEF Decode
  <2>6. CASE PassFails(d)
    <3>1. UNCHANGED ingested /\ (UNCHANGED index \/ Publish(d[1]))
      BY <2>6 DEF PassFails
    <3> QED BY <1>0, <2>0, <3>1, PublishReaches
  <2>7. CASE Claim(d) \/ IngestBatchFails(d) \/ ReplySession(d) \/ OneReply(d)
    BY <1>1, <2>7 DEF Claim, IngestBatchFails, ReplySession, OneReply
  <2>8. ASSUME NEW j \in Jobs, OneGivenUp(d, j) PROVE Reaches(p)'
    BY <1>1, <2>8 DEF OneGivenUp
  <2> QED BY <1>6, <2>3, <2>4, <2>5, <2>6, <2>7, <2>8 DEF PassStep
<1>7. ASSUME NEW j \in Jobs, ForeignJob(j) PROVE Reaches(p)'
  BY <1>1, <1>7 DEF ForeignJob
<1>8. ASSUME NEW s \in Streams, LeaseLapses(s) PROVE Reaches(p)'
  BY <1>1, <1>8 DEF LeaseLapses
<1> QED BY <1>2, <1>3, <1>4, <1>5, <1>6, <1>7, <1>8 DEF Next

\* Every step keeps what the barrier rests on.
LEMMA AwaitKept == IInv /\ AwaitInv /\ [Next]_vars => AwaitInv'
<1> SUFFICES ASSUME IInv, AwaitInv, [Next]_vars PROVE AwaitInv'
  OBVIOUS
<1>1. /\ \A e \in Drainers : MovesWell(e)
      /\ deploy' = deploy
      /\ mounted' \subseteq mounted \cup deploy.procs
  BY StepMovesWell
<1>2. OwnStream'
  <2> SUFFICES ASSUME NEW d \in Drainers, NEW j \in thread'[d].batch PROVE StreamOf[j] = Stream(d)
    BY DEF OwnStream, Stream
  <2> QED BY <1>1 DEF AwaitInv, OwnStream, MovesWell, InStream
<1>3. OnlyOpeners'
  BY <1>1 DEF AwaitInv, OnlyOpeners, MovesWell
<1>4. OwedJobs'
  BY OwedKept DEF AwaitInv
<1>5. SoleReaches'
  BY <1>1, SoleReachesKept DEF SoleReaches
<1> QED BY <1>2, <1>3, <1>4, <1>5 DEF AwaitInv

\* It holds before anything happens.
LEMMA AwaitStarts == Init => AwaitInv
<1> SUFFICES ASSUME Init PROVE AwaitInv
  OBVIOUS
<1>1. Off.at = "off" /\ Off.batch = {}
  BY DEF Off
<1>2. \A d \in Drainers : thread[d] = Off
  BY DEF Init
<1>3. OwnStream /\ OnlyOpeners
  BY <1>1, <1>2 DEF OwnStream, OnlyOpeners, Init
<1>4. OwedJobs /\ SoleReaches
  BY DEF OwedJobs, SoleReaches, Reaches, Init
<1> QED BY <1>3, <1>4 DEF AwaitInv

\* The step by which the barrier returns Ok finds every owed job settled, and
\* puts the done ones within the resident index.
LEMMA ReturnPublishes ==
  ASSUME IInv, AwaitInv, NEW p \in Procs, AwaitReturns(p), deploy.procs = {p}, NEW j \in owed[p]
  PROVE  /\ status'[j] \in Settled
         /\ status'[j] = "done" /\ j \notin Undecodable => j \in resident'[p]
<1>0. /\ owed[p] \in SUBSET Jobs /\ pending \in [Procs -> SUBSET Jobs]
      /\ resident \in [Procs -> SUBSET Jobs]
  BY DEF IInv, TypeOK
<1>1. host[p] = "publish" /\ status' = status /\ Publish(p)
  BY DEF AwaitReturns, rows
<1>2. status[j] \in Settled /\ StreamOf[j] = "encode"
  BY <1>1 DEF AwaitInv, OwedJobs
<1>3. resident'[p] = resident[p] \cup pending[p]
  BY <1>0, <1>1 DEF Publish
<1>4. ASSUME status[j] = "done", j \notin Undecodable PROVE j \in resident'[p]
  <2>1. j \in ingested
    BY <1>0, <1>4 DEF IInv, DoneIsIngested
  <2> QED BY <1>2, <1>3, <2>1 DEF AwaitInv, SoleReaches, Reaches
<1> QED BY <1>1, <1>2, <1>4

\* AwaitPublishes holds for any jobs, deployments and faults: when
\* await_ingest_drain returns Ok in the only process of an estate, every encode
\* job enqueued before has its terminal reply and the done ones are searchable,
\* whatever the workers beside the pump claimed, lost or published meanwhile.
THEOREM AwaitKeepsItsPromise == Spec => AwaitPublishes
<1>1. Init => IInv /\ AwaitInv
  BY InitGood, AwaitStarts
<1>2. IInv /\ AwaitInv /\ [Next]_vars => (IInv /\ AwaitInv)'
  BY NextGood, AwaitKept
<1>3. IInv /\ AwaitInv /\ [Next]_vars =>
        [\A p \in Procs : AwaitReturns(p) /\ deploy.procs = {p} =>
           \A j \in owed[p] : /\ status'[j] \in Settled
                              /\ status'[j] = "done" /\ j \notin Undecodable => j \in resident'[p]]_vars
  BY ReturnPublishes
<1> QED BY <1>1, <1>2, <1>3, PTL DEF Spec, AwaitPublishes
=============================================================================
