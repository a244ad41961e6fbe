--------------------------- MODULE MCIngestQueue ---------------------------
(* Encode jobs (one of them undecodable) and an import job; one or two processes. *)
EXTENDS IngestQueue, TLC

CONSTANTS p1, p2, e1, e2, x1, i1

MCStreamOf == (e1 :> "encode") @@ (e2 :> "encode") @@ (x1 :> "encode") @@ (i1 :> "import")

Deployment(procs, waits, leased, faults, jobs) ==
  [procs |-> procs, waits |-> waits, leased |-> leased, faults |-> faults, jobs |-> jobs]

\* The only process, awaiting; an in-memory estate with both streams; a process
\* and its standby on each stream; one process in which anything may fail.
MCDeployments ==
  {Deployment({p1}, {p1}, TRUE, {"ingest"}, {e1, e2}),
   Deployment({p1}, {p1}, FALSE, {"ingest"}, {e1, i1}),
   Deployment({p1, p2}, {}, TRUE, {}, {e1}),
   Deployment({p1, p2}, {}, TRUE, {"ingest"}, {i1}),
   Deployment({p1}, {p1}, TRUE, {"claim", "begin", "reply", "reclaim", "slow"}, {e1, x1})}

\* A process that drains under the lease beside one whose host awaits.
MCTwoHosts == {Deployment({p1, p2}, {p2}, TRUE, {}, {e1})}
=============================================================================
