----------------------------- MODULE JobLedger -----------------------------
(***************************************************************************)
(* What the ingest queue promises about a job, whoever drains it: a        *)
(* submitted job is open until it gets one terminal reply, which it keeps, *)
(* and it is replied done only after its text was ingested (perhaps more   *)
(* than once).  Claims, sessions, leases, processes and crashes are not    *)
(* visible here.                                                           *)
(***************************************************************************)
CONSTANTS
  Jobs,
  Undecodable   \* jobs without a text to ingest

VARIABLES
  outcome,   \* outcome[j]: none before it is submitted, then open, then final
  ingested   \* the jobs whose text is in the corpus

Outcomes == {"none", "open", "done", "blocked"}

LedgerInit ==
  /\ outcome = [j \in Jobs |-> "none"]
  /\ ingested = {}

Submit(J) ==
  /\ \A j \in J : outcome[j] = "none"
  /\ outcome' = [j \in Jobs |-> IF j \in J THEN "open" ELSE outcome[j]]
  /\ UNCHANGED ingested

Ingest(J) ==
  /\ \A j \in J : outcome[j] # "none"
  /\ ingested' = ingested \cup J
  /\ UNCHANGED outcome

Settle(J, x) ==
  /\ x \in {"done", "blocked"}
  /\ \A j \in J : outcome[j] = "open"
  /\ x = "done" => J \ Undecodable \subseteq ingested
  /\ outcome' = [j \in Jobs |-> IF j \in J THEN x ELSE outcome[j]]
  /\ UNCHANGED ingested

LedgerNext ==
  \E J \in SUBSET Jobs : Submit(J) \/ Ingest(J) \/ \E x \in {"done", "blocked"} : Settle(J, x)

LedgerSpec == LedgerInit /\ [][LedgerNext]_<<outcome, ingested>>
=============================================================================
