---------------------------- MODULE RecallTraces ----------------------------
(***************************************************************************)
(* Recall traces: what a recall handed out, marked used when the caller    *)
(* used it, pruned when old (drawer_store_inmemory.rs).                    *)
(***************************************************************************)
EXTENDS StorageCalls

CONSTANTS
  Targets,       \* rows that are recalled
  MaxTime        \* bound: the clock

VARIABLES
  traces,        \* id -> [target, at, used]
  clock,
  settled        \* traces a completed marking was to cover

traceVars == <<traces, clock, settled>>

TracesInit == traces = <<>> /\ clock = 1 /\ settled = {}

Fresh == Max({0} \cup DOMAIN traces \cup settled) + 1
recall_trace_since(since) == {t \in DOMAIN traces : traces[t].at >= since}
recent_recall_traces(since, now) ==
  {t \in recall_trace_since(since) : traces[t].at <= now}
count_recall_traces == Cardinality(DOMAIN traces)

(* A recall inserts its traces one by one and stops at the first failure.  *)
insert_recall_traces(c, targets) ==
  /\ Begin(c, [op |-> "insert_traces", at |-> "insert", todo |-> targets, now |-> clock])
  /\ UNCHANGED traceVars
InsertTrace(c) ==
  LET call == calls[c]
  IN  /\ At(c, "insert_traces", "insert")
      /\ traces' = WithRow(traces, Fresh, [target |-> Head(call.todo), at |-> call.now,
                                           used |-> FALSE])
      /\ UNCHANGED <<clock, settled>>
      /\ IF Len(call.todo) = 1 THEN End(c)
         ELSE Continue(c, [call EXCEPT !.todo = Tail(@)])

(* Mutant: a row that is used already ends the marking. *)
still_unused_Stops(window) ==
  LET rows == Ordered(window)
      used == {i \in DOMAIN rows : traces[rows[i]].used}
  IN  IF used = {} THEN rows ELSE SubSeq(rows, 1, Min(used) - 1)

still_unused(window) == Ordered({t \in window : ~traces[t].used})

(* Marking reads the target's traces of a window, then updates those that  *)
(* are unused one by one.                                                  *)
mark_recall_traces_used(c, target, since) ==
  /\ Begin(c, [op |-> "mark", at |-> "query", target |-> target, since |-> since,
               now |-> clock, todo |-> <<>>, window |-> {}])
  /\ UNCHANGED traceVars
QueryWindow(c) ==
  LET call == calls[c]
      window == {t \in recent_recall_traces(call.since, call.now) :
                   traces[t].target = call.target}
      rows == still_unused(window)
  IN  /\ At(c, "mark", "query")
      /\ UNCHANGED <<traces, clock>>
      /\ IF rows = <<>> THEN settled' = settled \cup window /\ End(c)
         ELSE /\ UNCHANGED settled
              /\ Continue(c, [call EXCEPT !.at = "update", !.todo = rows, !.window = window])
mark_recall_trace_used(c, id) ==
  /\ Begin(c, [op |-> "mark_one", at |-> "read", id |-> id])
  /\ UNCHANGED traceVars
ReadTrace(c) ==
  LET id == calls[c].id
  IN  /\ At(c, "mark_one", "read")
      /\ IF id \notin DOMAIN traces THEN End(c)
         ELSE IF traces[id].used THEN End(c)
         ELSE Continue(c, [op |-> "mark", at |-> "update", todo |-> <<id>>, window |-> {id}])
      /\ UNCHANGED traceVars
UpdateTrace(c) ==
  LET call == calls[c]
      id == Head(call.todo)
  IN  /\ At(c, "mark", "update")
      /\ traces' = IF id \in DOMAIN traces THEN [traces EXCEPT ![id].used = TRUE] ELSE traces
      /\ UNCHANGED clock
      /\ IF Len(call.todo) = 1
           THEN settled' = settled \cup call.window /\ End(c)
           ELSE UNCHANGED settled /\ Continue(c, [call EXCEPT !.todo = Tail(@)])

prune_recall_traces(c, cutoff) ==
  /\ Begin(c, [op |-> "prune", at |-> "delete", cutoff |-> cutoff])
  /\ UNCHANGED traceVars
DeleteTraces(c) ==
  /\ At(c, "prune", "delete")
  /\ traces' = [t \in recall_trace_since(calls[c].cutoff) |-> traces[t]]
  /\ UNCHANGED <<clock, settled>>
  /\ End(c)

Tick ==
  /\ clock < MaxTime
  /\ clock' = clock + 1
  /\ UNCHANGED <<traces, settled, callVars>>

TracesNext ==
  \/ Tick
  \/ \E c \in Callers :
       \/ \E s, t \in Targets : insert_recall_traces(c, <<s, t>>)
       \/ InsertTrace(c)
       \/ \E t \in Targets, since \in 1..clock : mark_recall_traces_used(c, t, since)
       \/ \E id \in 1..Fresh : mark_recall_trace_used(c, id)
       \/ QueryWindow(c) \/ ReadTrace(c) \/ UpdateTrace(c)
       \/ \E cutoff \in 1..clock : prune_recall_traces(c, cutoff)
       \/ DeleteTraces(c)
       \/ Fail(c) /\ UNCHANGED traceVars

--------------------------------------------------------------------------
(* A marking that was completed has marked every trace of its target in    *)
(* its window, those that an earlier marking cut short had left too; a     *)
(* used trace never becomes unused, and nothing but its age removes one.   *)
Settles ==
  /\ \A t \in settled' \cap DOMAIN traces' : traces'[t].used
  /\ \A t \in DOMAIN traces \cap DOMAIN traces' :
       /\ traces[t].used => traces'[t].used
       /\ traces'[t].at = traces[t].at /\ traces'[t].target = traces[t].target
  /\ \A t \in DOMAIN traces \ DOMAIN traces' :
       \A kept \in DOMAIN traces' : traces[t].at < traces'[kept].at
TracesSettle == [][Settles]_<<callVars, traceVars>>
=============================================================================
