------------------------------- MODULE Estate -------------------------------
(***************************************************************************)
(* The drawers of a LocusKit estate (estate_verbs.rs over                  *)
(* drawer_store_inmemory.rs, the core every backend shares), with what is  *)
(* derived from them: the audit log, the erasure ledger, the supersedes    *)
(* tunnels, the container fingerprints recall prunes with, and the Merkle  *)
(* roots snapshots attest.                                                 *)
(*                                                                         *)
(* Every change passes the substrate's audit gate, an automaton over row   *)
(* states and verbs that lives outside the repository; it is a parameter   *)
(* here, constrained by what the repository's tests pin.  Calls are        *)
(* serialised above this layer (the coordinator's mutex), so one call runs *)
(* at a time; it is split where the process may die or a store call fail:  *)
(* one step per transaction or per write that no transaction covers.       *)
(*                                                                         *)
(* A drawer is its state, its other bitmap fields as a set of marks, its   *)
(* feature flags, its room and whether its text is stored.  The audit      *)
(* events of a row are known by the bitmaps of the latest one and by       *)
(* whether one closes an expunge; a Merkle root by the drawers below it    *)
(* whose text it commits to.                                               *)
(***************************************************************************)
EXTENDS Integers, FiniteSets

CONSTANTS
  Drawers,      \* drawer ids, each used by one capture
  Lineages, Rooms, Wings,
  WingOf,       \* the wing of each room
  Flags,        \* feature flags (operational bitmap)
  Frames,       \* capture frames: lineage, room, flags and marks
  Chains,       \* filter chains of recalls that can prune, as sets of clauses
  Admits,       \* the automaton's pairs of state and verb
  Deployments,  \* bounds on captures and calls, the marks in use, what may happen
  Whole,        \* the estate's root node
  None          \* no drawer

\* Beyond capture, withdraw, contest, resolve, reject, accept, expunge and revival.
Liberties ==
  {"supersede",  \* MutationKind::Supersede by hand
   "wipe",       \* wipe_all_content
   "reanchor",   \* move a drawer to another room
   "contested",  \* capture into a lineage whose head is contested
   "revive",     \* revive a withdrawn drawer whose lineage has a living one
   "accepted",   \* expunge a lineage with an accepted sibling
   "crash",      \* the process dies between two writes
   "fails",      \* a store call fails, and the call with it
   "ignored",    \* a ledger insert, a sibling's event or a rollup fails, and the call goes on
   "kept"}       \* so does the update that erases a sibling

RowStates == {"active", "contested", "accepted", "superseded", "withdrawn", "rejected",
              "tombstoned"}
\* The state each verb leads to.
Target == [contest |-> "contested", resolveContest |-> "active", reject |-> "rejected",
           promote |-> "accepted", supersede |-> "superseded", observe |-> "active",
           retract |-> "withdrawn", tombstone |-> "tombstoned", mutate |-> "active"]
Verbs  == DOMAIN Target
Marks  == {"canonical", "secret", "public", "confirmed"}
Nodes  == Rooms \cup Wings \cup {Whole}

\* Legal and illegal pairs the repository's tests pin.
Pinned ==
  {<<"active", "contest">>, <<"contested", "resolveContest">>, <<"contested", "reject">>,
   <<"active", "promote">>, <<"active", "supersede">>, <<"active", "retract">>,
   <<"active", "tombstone">>, <<"active", "mutate">>, <<"superseded", "tombstone">>,
   <<"withdrawn", "observe">>, <<"superseded", "observe">>}
Barred ==
  {<<"contested", "supersede">>, <<"accepted", "tombstone">>, <<"accepted", "reject">>,
   <<"accepted", "observe">>, <<"active", "reject">>, <<"rejected", "observe">>}
    \cup ({"tombstoned"} \X Verbs)
    \cup ((RowStates \ {"active"}) \X {"mutate"})
    \cup ((RowStates \ {"active"}) \X {"promote"})

\* What the theorems ask of the gate beyond the pairs the tests pin: it tombstones
\* every row but an accepted one, contests only the living, and lets a withdrawn row
\* be revived or erased only.
GateIsKnown ==
  /\ \A s \in RowStates \ {"accepted", "tombstoned"} : <<s, "tombstone">> \in Admits
  /\ \A s \in RowStates \ {"active", "contested"} : <<s, "contest">> \notin Admits
  /\ <<"withdrawn", "reject">> \notin Admits /\ <<"withdrawn", "supersede">> \notin Admits

ASSUME EstateAssumption ==
  /\ WingOf \in [Rooms -> Wings]
  /\ IsFiniteSet(Drawers) /\ None \notin Drawers
  /\ Frames \subseteq [lineage: Lineages, room: Rooms, flags: SUBSET Flags, marks: SUBSET Marks]
  /\ Chains \subseteq SUBSET [not: BOOLEAN, any: SUBSET SUBSET Flags]
  /\ Admits \subseteq RowStates \X Verbs
  /\ Pinned \subseteq Admits /\ Barred \cap Admits = {}
  /\ Deployments \subseteq [drawers: Nat, marks: SUBSET Marks, may: SUBSET Liberties,
                            calls: Nat]

\* Node ids are unique over the tree.
ASSUME NodesAssumption == Rooms \cap Wings = {} /\ Whole \notin Rooms \cup Wings

VARIABLES
  deploy,
  rows,      \* drawers
  audit,     \* audit events, per row
  tunnels,   \* supersedes tunnels, successor first
  ledger,    \* erasure_ledger
  fps,       \* container_fingerprints: the rows listed and their flags
  roots,     \* nodes.merkle_root
  call,      \* the call under way
  held,      \* expunges whose event the caller still has to seal
  acked,     \* drawers whose capture returned Ok
  gone,      \* drawers retracted or erased by a call that returned Ok, and not revived
  calls

vars == <<deploy, rows, audit, tunnels, ledger, fps, roots, call, held, acked, gone, calls>>

Row   == [state: RowStates, marks: SUBSET Marks, flags: SUBSET Flags, room: Rooms,
          lineage: Lineages, text: BOOLEAN]
\* An absent row is no row.
ASSUME NoneAssumption == None \notin Row
Snap(r) == [state |-> r.state, marks |-> r.marks]
Fresh == [state |-> "none", marks |-> {}, closed |-> FALSE]
Steps == {"idle", "tunnel", "supersede", "or_room", "or_wing", "record", "scrub", "seal_sibling",
          "seal", "roll_room", "roll_wing", "roll_estate"}
Idle  == [at |-> "idle", op |-> "none", d |-> None, other |-> None, todo |-> {}, chain |-> {},
          rooms |-> {}, room |-> None]

TypeOK ==
  /\ deploy \in Deployments
  /\ rows \in [Drawers -> Row \cup {None}]
  /\ audit \in [Drawers -> [state: RowStates \cup {"none"}, marks: SUBSET Marks, closed: BOOLEAN]]
  /\ tunnels \in SUBSET (Drawers \X Drawers)
  /\ ledger \in SUBSET Drawers
  /\ fps \in [listed: SUBSET (Rooms \cup Wings), flags: [Rooms \cup Wings -> SUBSET Flags]]
  /\ roots \in [Nodes -> SUBSET Drawers]
  /\ call \in [at: Steps, op: {"none", "capture", "withdraw", "expunge", "unsealed", "rollup"},
               d: Drawers \cup {None}, other: Drawers \cup {None}, todo: SUBSET Drawers,
               chain: SUBSET Drawers, rooms: SUBSET Rooms, room: Rooms \cup {None}]
  /\ held \in SUBSET Drawers
  /\ acked \in SUBSET Drawers
  /\ gone \in SUBSET Drawers
  /\ calls \in 0 .. deploy.calls

Init ==
  /\ deploy \in Deployments
  /\ rows = [d \in Drawers |-> None]
  /\ audit = [d \in Drawers |-> Fresh]
  /\ tunnels = {} /\ ledger = {}
  /\ fps = [listed |-> {}, flags |-> [c \in Rooms \cup Wings |-> {}]]
  /\ roots = [n \in Nodes |-> {}]
  /\ call = Idle
  /\ held = {} /\ acked = {} /\ gone = {} /\ calls = 0

May(x) == x \in deploy.may

(***************************************************************************)
(* Rows and the gate                                                       *)
(***************************************************************************)

Stored     == {d \in Drawers : rows[d] # None}
Chain(l)   == {d \in Stored : rows[d].lineage = l}          \* lineage_chain
Buried(d)  == rows[d].state = "tombstoned"                  \* and tombstonedAt is set
Admitted(d, v) == <<rows[d].state, v>> \in Admits

\* find_active_predecessor: raw state below 3, so not an accepted row.
Predecessors(l) == {d \in Chain(l) : rows[d].state \in {"active", "contested"}}
\* living_successor_in_lineage: cluster A
LivingBeside(d) ==
  {e \in Chain(rows[d].lineage) \ {d} : rows[e].state \in {"active", "contested", "accepted"}}

\* The field combination the gate refuses (I-22).
Forbidden(marks) == {"secret", "public"} \subseteq marks

Logged(r)  == [state |-> r.state, marks |-> r.marks, closed |-> FALSE]
\* Row and audit event in one transaction.
Write(d, r) ==
  /\ rows' = [rows EXCEPT ![d] = r]
  /\ audit' = [audit EXCEPT ![d] = Logged(r)]
\* mutate_state
MutateState(d, v) == Write(d, [rows[d] EXCEPT !.state = Target[v]])

Begin ==
  /\ call.at = "idle"
  /\ calls < deploy.calls
  /\ calls' = calls + 1
Go(step) == call' = [call EXCEPT !.at = step]
\* The call returns an error.
GiveUp == call' = Idle

(***************************************************************************)
(* Capture: the row, then for a successor the tunnel and the predecessor's *)
(* state, then the container fingerprints                                  *)
(***************************************************************************)

Captured(f) == [state |-> "active", marks |-> f.marks, flags |-> f.flags, room |-> f.room,
                lineage |-> f.lineage, text |-> TRUE]

Capture(d, f) ==
  /\ Begin
  /\ audit[d] = Fresh
  /\ Cardinality({e \in Drawers : audit[e] # Fresh}) < deploy.drawers
  /\ ~Forbidden(f.marks)
  /\ Write(d, Captured(f))
  /\ \/ /\ Predecessors(f.lineage) = {}
        /\ call' = [Idle EXCEPT !.at = "or_room", !.op = "capture", !.d = d]
     \/ \E p \in Predecessors(f.lineage) :
          /\ rows[p].state = "active" \/ May("contested")
          /\ call' = [Idle EXCEPT !.at = "tunnel", !.op = "capture", !.d = d, !.other = p]
  /\ UNCHANGED <<deploy, tunnels, ledger, fps, roots, held, acked, gone>>

AddTunnel ==
  /\ call.at = "tunnel"
  /\ tunnels' = tunnels \cup {<<call.d, call.other>>}
  /\ Go("supersede")
  /\ UNCHANGED <<deploy, rows, audit, ledger, fps, roots, held, acked, gone, calls>>

\* The compensating delete, which may fail as well.
AddTunnelFails ==
  /\ call.at = "tunnel"
  /\ May("fails")
  /\ rows' \in {rows, [rows EXCEPT ![call.d] = None]}
  /\ GiveUp
  /\ UNCHANGED <<deploy, audit, tunnels, ledger, fps, roots, held, acked, gone, calls>>

SupersedePrior ==
  /\ call.at = "supersede"
  /\ Admitted(call.other, "supersede")
  /\ MutateState(call.other, "supersede")
  /\ Go("or_room")
  /\ UNCHANGED <<deploy, tunnels, ledger, fps, roots, held, acked, gone, calls>>

\* The gate refuses the predecessor's state, or the transaction fails.
SupersedePriorFails ==
  /\ call.at = "supersede"
  /\ ~Admitted(call.other, "supersede") \/ May("fails")
  /\ GiveUp
  /\ UNCHANGED <<deploy, rows, audit, tunnels, ledger, fps, roots, held, acked, gone, calls>>

\* Mutant: the aggregate is written for the first drawer only.
OredFirst(c, d) ==
  IF c \in fps.listed THEN fps
  ELSE [listed |-> fps.listed \cup {c}, flags |-> [fps.flags EXCEPT ![c] = rows[d].flags]]
\* or_into
OredIn(c, d) ==
  [listed |-> fps.listed \cup {c}, flags |-> [fps.flags EXCEPT ![c] = @ \cup rows[d].flags]]

OrRoom ==
  /\ call.at = "or_room"
  /\ fps' = OredIn(rows[call.d].room, call.d)
  /\ Go("or_wing")
  /\ UNCHANGED <<deploy, rows, audit, tunnels, ledger, roots, held, acked, gone, calls>>

OrWing ==
  /\ call.at = "or_wing"
  /\ fps' = OredIn(WingOf[rows[call.d].room], call.d)
  /\ acked' = acked \cup {call.d}
  /\ call' = Idle
  /\ UNCHANGED <<deploy, rows, audit, tunnels, ledger, roots, held, gone, calls>>

OrFails ==
  /\ call.at \in {"or_room", "or_wing"}
  /\ May("fails")
  /\ GiveUp
  /\ UNCHANGED <<deploy, rows, audit, tunnels, ledger, fps, roots, held, acked, gone, calls>>

(***************************************************************************)
(* One-transaction changes.  A refusal by the gate or a failing            *)
(* transaction changes nothing.                                            *)
(***************************************************************************)

\* Mutant: without the look for a living successor.
RevivableAlways(d) == rows[d].state \in {"withdrawn", "superseded"}
\* A superseded row may reclaim its lineage's head only when nobody lives there; a
\* withdrawn one always.
Revivable(d) ==
  \/ rows[d].state = "withdrawn" /\ (LivingBeside(d) = {} \/ May("revive"))
  \/ rows[d].state = "superseded" /\ LivingBeside(d) = {}

KindAllows(d, v) ==
  CASE v = "resolveContest" -> rows[d].state = "contested"
    [] v = "promote"        -> "canonical" \in rows[d].marks
    [] v = "observe"        -> Revivable(d)
    [] v = "supersede"      -> May("supersede")
    [] OTHER                -> TRUE

Mutate(d, v) ==
  /\ Begin
  /\ rows[d] # None
  /\ Admitted(d, v)
  /\ KindAllows(d, v)
  /\ MutateState(d, v)
  /\ gone' = IF v = "observe" THEN gone \ {d} ELSE gone
  /\ UNCHANGED <<deploy, tunnels, ledger, fps, roots, call, held, acked>>

\* gated_column_write: confirm, and the correction of sensitivity, trust or exportability
Correct(d, marks) ==
  /\ Begin
  /\ rows[d] # None
  /\ Admitted(d, "mutate")
  /\ ~Forbidden(marks)
  /\ \E m \in deploy.marks :
       \/ marks = rows[d].marks \cup {m}
       \/ m # "confirmed" /\ marks = rows[d].marks \ {m}
  /\ Write(d, [rows[d] EXCEPT !.marks = marks])
  /\ UNCHANGED <<deploy, tunnels, ledger, fps, roots, call, held, acked, gone>>

\* The row moves; its audit event, appended afterwards, repeats the bitmaps.
Reanchor(d, r) ==
  /\ Begin
  /\ May("reanchor")
  /\ rows[d] # None
  /\ Admitted(d, "mutate")
  /\ rows' = [rows EXCEPT ![d].room = r]
  /\ UNCHANGED <<deploy, audit, tunnels, ledger, fps, roots, call, held, acked, gone>>

WipeAllContent ==
  /\ Begin
  /\ May("wipe")
  /\ rows' = [d \in Drawers |-> IF d \in Stored THEN [rows[d] EXCEPT !.text = FALSE] ELSE None]
  /\ UNCHANGED <<deploy, audit, tunnels, ledger, fps, roots, call, held, acked, gone>>

(***************************************************************************)
(* Withdraw and expunge, with the rollups they end in                      *)
(***************************************************************************)

Withdraw(d) ==
  /\ Begin
  /\ rows[d] # None
  /\ Admitted(d, "retract")
  /\ MutateState(d, "retract")
  /\ call' = [Idle EXCEPT !.at = "roll_room", !.op = "withdraw", !.d = d, !.chain = {d},
                          !.rooms = {rows[d].room}]
  /\ UNCHANGED <<deploy, tunnels, ledger, fps, roots, held, acked, gone>>

\* Mutant: the state flips and the text stays.
ErasedInName(d) == [rows[d] EXCEPT !.state = "tombstoned"]
Erased(d) == [rows[d] EXCEPT !.state = "tombstoned", !.text = FALSE]
\* The rooms rolled up afterwards, read before the first write.
AffectedRooms(ds) == {rows[e].room : e \in ds}

\* The drawer itself: the row is updated outside any transaction, its event comes last.
Expunge(d, op) ==
  /\ Begin
  /\ rows[d] # None
  /\ Admitted(d, "tombstone")
  /\ LET chain == Chain(rows[d].lineage) IN
       /\ May("accepted") \/ \A e \in chain : rows[e].state # "accepted"
       /\ call' = [Idle EXCEPT !.at = "record", !.op = op, !.d = d, !.other = d, !.chain = chain,
                               !.todo = chain \ {d}, !.rooms = AffectedRooms(chain)]
  /\ rows' = [rows EXCEPT ![d] = Erased(d)]
  /\ UNCHANGED <<deploy, audit, tunnels, ledger, fps, roots, held, acked, gone>>

\* The erasure ledger takes every member of the chain; a failing insert is ignored.
Record ==
  /\ call.at = "record"
  /\ \/ ledger' = ledger \cup {call.other}
     \/ May("ignored") /\ ledger' = ledger
  /\ Go("scrub")
  /\ UNCHANGED <<deploy, rows, audit, tunnels, fps, roots, held, acked, gone, calls>>

\* A sibling: an already tombstoned one is scrubbed again, one the gate refuses is kept.
Scrub ==
  /\ call.at = "scrub"
  /\ \E s \in call.todo :
       LET refused == ~Buried(s) /\ ~Admitted(s, "tombstone")
           sealing == ~Buried(s) /\ ~refused /\ call.op = "expunge"
       IN  /\ rows' = IF refused THEN rows ELSE [rows EXCEPT ![s] = Erased(s)]
           /\ call' = [call EXCEPT !.at = IF sealing THEN "seal_sibling" ELSE "record",
                                   !.todo = @ \ {s}, !.other = s]
  /\ UNCHANGED <<deploy, audit, tunnels, ledger, fps, roots, held, acked, gone, calls>>

\* The ignored failure of that update: the loop goes on as if it had happened.
ScrubFails ==
  /\ call.at = "scrub"
  /\ May("kept")
  /\ \E s \in call.todo :
       call' = [call EXCEPT !.todo = @ \ {s}, !.other = s,
                  !.at = IF Admitted(s, "tombstone") /\ call.op = "expunge"
                           THEN "seal_sibling" ELSE "record"]
  /\ UNCHANGED <<deploy, rows, audit, tunnels, ledger, fps, roots, held, acked, gone, calls>>

\* A failing read of a sibling: of its state, and the sibling is passed over unrecorded, or
\* of its other columns, and the call fails.
ScrubReadFails ==
  /\ call.at = "scrub"
  /\ \E s \in call.todo :
       \/ May("ignored") /\ call' = [call EXCEPT !.todo = @ \ {s}]
       \/ May("fails") /\ ~Buried(s) /\ GiveUp
  /\ UNCHANGED <<deploy, rows, audit, tunnels, ledger, fps, roots, held, acked, gone, calls>>

\* The event the gate made of a row: tombstoned, the other fields as they were.
Sealed(d) == [state |-> "tombstoned", marks |-> rows[d].marks, closed |-> TRUE]
SealRow(d) == audit' = [audit EXCEPT ![d] = Sealed(d)]

SealSibling ==
  /\ call.at = "seal_sibling"
  /\ \/ SealRow(call.other)
     \/ May("ignored") /\ UNCHANGED audit
  /\ Go("record")
  /\ UNCHANGED <<deploy, rows, tunnels, ledger, fps, roots, held, acked, gone, calls>>

ScrubEnds ==
  /\ call.at = "scrub" /\ call.todo = {}
  /\ Go(IF call.op = "expunge" THEN "seal" ELSE "roll_room")
  /\ UNCHANGED <<deploy, rows, audit, tunnels, ledger, fps, roots, held, acked, gone, calls>>

SealHead ==
  /\ call.at = "seal"
  /\ \/ SealRow(call.d) /\ Go("roll_room")
     \/ May("fails") /\ GiveUp /\ UNCHANGED audit
  /\ UNCHANGED <<deploy, rows, tunnels, ledger, fps, roots, held, acked, gone, calls>>

(***************************************************************************)
(* rollup_merkle_roots: room, wing, estate                                 *)
(***************************************************************************)

\* compute_room_merkle_root
Committed(r) ==
  {d \in Stored : rows[d].room = r /\ rows[d].state \notin {"tombstoned", "withdrawn"}}
\* compute_estate_or_wing_merkle_root
Below(w) == UNION {roots[r] : r \in {x \in Rooms : WingOf[x] = w}}

RollRoom ==
  /\ call.at = "roll_room"
  /\ \E r \in call.rooms :
       /\ roots' = [roots EXCEPT ![r] = Committed(r)]
       /\ call' = [call EXCEPT !.at = "roll_wing", !.rooms = @ \ {r}, !.room = r]
  /\ UNCHANGED <<deploy, rows, audit, tunnels, ledger, fps, held, acked, gone, calls>>

RollWing ==
  /\ call.at = "roll_wing"
  /\ roots' = [roots EXCEPT ![WingOf[call.room]] = Below(WingOf[call.room])]
  /\ Go("roll_estate")
  /\ UNCHANGED <<deploy, rows, audit, tunnels, ledger, fps, held, acked, gone, calls>>

RollEstate ==
  /\ call.at = "roll_estate"
  /\ roots' = [roots EXCEPT ![Whole] = UNION {roots[w] : w \in Wings}]
  /\ Go("roll_room")
  /\ UNCHANGED <<deploy, rows, audit, tunnels, ledger, fps, held, acked, gone, calls>>

\* withdraw and expunge ignore a failing rollup and go on; the queue's rollup stops.
RollFails ==
  /\ call.at \in {"roll_room", "roll_wing", "roll_estate"}
  /\ \/ call.op = "rollup" /\ May("fails") /\ GiveUp
     \/ /\ call.op # "rollup" /\ May("ignored")
        /\ \/ call.at # "roll_room" /\ Go("roll_room")
           \/ /\ call.at = "roll_room"
              /\ \E r \in call.rooms : call' = [call EXCEPT !.rooms = @ \ {r}]
  /\ UNCHANGED <<deploy, rows, audit, tunnels, ledger, fps, roots, held, acked, gone, calls>>

\* The call returns Ok; expunge(seal_audit: false) hands its event to the caller.
Return ==
  /\ call.at = "roll_room" /\ call.rooms = {}
  /\ gone' = gone \cup {d \in call.chain : rows[d].state \in {"tombstoned", "withdrawn"}}
  /\ held' = IF call.op = "unsealed" THEN held \cup {call.d} ELSE held
  /\ call' = Idle
  /\ UNCHANGED <<deploy, rows, audit, tunnels, ledger, fps, roots, acked, calls>>

\* rollup_rooms_for_drawers, by the drain worker, off the capture path
RollupRooms(ds) ==
  /\ Begin
  /\ ds # {}
  /\ call' = [Idle EXCEPT !.at = "roll_room", !.op = "rollup", !.rooms = AffectedRooms(ds)]
  /\ UNCHANGED <<deploy, rows, audit, tunnels, ledger, fps, roots, held, acked, gone>>

\* The nodes a recomputation has written: a wing after its rooms, the estate last.
WrittenUpTo(done) ==
  /\ \A r \in Rooms : WingOf[r] \in done => r \in done
  /\ Whole \in done => Wings \subseteq done

\* recompute_all_merkle_roots, also the first thing create_snapshot does; cut short by a
\* crash or a failing write, it leaves the rest of the nodes as they were.
RecomputeAll ==
  /\ Begin
  /\ \E done \in SUBSET Nodes :
       /\ done = Nodes \/ (WrittenUpTo(done) /\ deploy.may \cap {"crash", "fails"} # {})
       /\ roots' = [n \in Nodes |->
                      IF n \in done
                        THEN UNION {Committed(r) : r \in {x \in Rooms : n \in {x, WingOf[x], Whole}}}
                        ELSE roots[n]]
  /\ UNCHANGED <<deploy, rows, audit, tunnels, ledger, fps, call, held, acked, gone>>

(***************************************************************************)
(* Sealing a split expunge, the sweep after a crash, and opening           *)
(***************************************************************************)

\* seal_expunge_audit when the caller's own deletes succeeded, seal_expunge_orphan_audit
\* when they did not
SealExpunge(d) ==
  /\ Begin
  /\ d \in held
  /\ SealRow(d)
  /\ held' = held \ {d}
  /\ UNCHANGED <<deploy, rows, tunnels, ledger, fps, roots, call, acked, gone>>

\* tombstoned_rows_without_expunge_audit
Orphans == {d \in Stored : Buried(d) /\ ~audit[d].closed}

\* seal_expunge_orphan_for_sweep
Sweep(d) ==
  /\ Begin
  /\ d \in Orphans
  /\ SealRow(d)
  /\ UNCHANGED <<deploy, rows, tunnels, ledger, fps, roots, call, held, acked, gone>>

\* rebuild_container_fingerprints: rooms with a drawer that is not tombstoned, and their wings
Rebuilt ==
  LET live  == {d \in Stored : ~Buried(d)}
      full  == AffectedRooms(live)
      inRoom == [r \in Rooms |->
                   IF r \in full THEN UNION {rows[d].flags : d \in {e \in live : rows[e].room = r}}
                                 ELSE fps.flags[r]]
      listed == fps.listed \cup full
  IN [listed |-> listed \cup {WingOf[r] : r \in full},
      flags  |-> [c \in Rooms \cup Wings |->
                    IF c \in Rooms THEN inRoom[c]
                    ELSE IF c \in {WingOf[r] : r \in full}
                      THEN UNION {inRoom[r] : r \in {x \in listed \cap Rooms : WingOf[x] = c}}
                      ELSE fps.flags[c]]]

\* The process dies, or closes the estate at rest, and opens it again.
Reopen ==
  /\ calls < deploy.calls
  /\ calls' = calls + 1
  /\ May("crash") \/ (call.at = "idle" /\ held = {})
  /\ call' = Idle
  /\ held' = {}
  /\ fps' = Rebuilt
  /\ UNCHANGED <<deploy, rows, audit, tunnels, ledger, roots, acked, gone>>

(***************************************************************************)
(* Recall with set-bit filters.  A clause is a disjunction of flag masks   *)
(* (Any of HasFeatureFlag), possibly negated; a chain is a conjunction.    *)
(***************************************************************************)

\* evaluate_one
Matches(d, q) == q.not # (\E m \in q.any : rows[d].flags \cap m # {})
\* container_provably_excludes
Excludes(flags, q) == ~q.not /\ q.any # {} /\ \A m \in q.any : flags \cap m = {}
\* container_survives
Survives(c, chain) == \A q \in chain : ~Excludes(fps.flags[c], q)
\* The pruning path: an unlisted room is not visited, an unlisted wing does not prune.
Candidates(chain) ==
  {d \in Stored :
     /\ ~Buried(d)
     /\ rows[d].room \in fps.listed
     /\ Survives(rows[d].room, chain)
     /\ WingOf[rows[d].room] \in fps.listed => Survives(WingOf[rows[d].room], chain)}

Mutations == {"contest", "resolveContest", "reject", "promote", "supersede", "observe"}

Next ==
  \/ \E d \in Drawers, f \in Frames : Capture(d, f)
  \/ AddTunnel \/ AddTunnelFails \/ SupersedePrior \/ SupersedePriorFails
  \/ OrRoom \/ OrWing \/ OrFails
  \/ \E d \in Drawers, v \in Mutations : Mutate(d, v)
  \/ \E d \in Drawers, marks \in SUBSET Marks : Correct(d, marks)
  \/ \E d \in Drawers, r \in Rooms : Reanchor(d, r)
  \/ WipeAllContent
  \/ \E d \in Drawers : Withdraw(d) \/ SealExpunge(d) \/ Sweep(d)
  \/ \E d \in Drawers, op \in {"expunge", "unsealed"} : Expunge(d, op)
  \/ Record \/ Scrub \/ ScrubFails \/ ScrubReadFails
  \/ SealSibling \/ ScrubEnds \/ SealHead
  \/ RollRoom \/ RollWing \/ RollEstate \/ RollFails \/ Return
  \/ \E ds \in SUBSET Stored : RollupRooms(ds)
  \/ RecomputeAll
  \/ Reopen

Spec == Init /\ [][Next]_vars

(***************************************************************************)
(* Properties                                                              *)
(***************************************************************************)

\* Pruned recall returns every captured drawer that its chain admits.
MissesNothing ==
  \A chain \in Chains, d \in acked :
    rows[d] # None /\ ~Buried(d) /\ (\A q \in chain : Matches(d, q)) => d \in Candidates(chain)

\* Recall that prunes containers misses nothing (add_drawer's or_in, the rebuild on open),
\* while no drawer changes rooms: reanchor does not touch the fingerprints.
PrunedRecallIsComplete == ~May("reanchor") => MissesNothing

\* No lineage has two heads between calls: a capture supersedes the active drawer it
\* follows, and revival refuses a superseded one that has a living successor.
OneLivingHead ==
  call.at = "idle" /\ deploy.may \cap {"crash", "fails"} = {} =>
    \A l \in Lineages : Cardinality(Predecessors(l)) <= 1

\* A drawer a capture superseded has a successor: the tunnel and the successor's row are
\* there before its state flips, whatever fails and whenever the process dies
\* (add_drawer_with_cascade).
SupersededHasHeir ==
  ~May("supersede") =>
    \A p \in Stored :
      rows[p].state = "superseded" =>
        \E n \in Stored : <<n, p>> \in tunnels /\ rows[n].lineage = rows[p].lineage

\* A row the ledger names holds no text.
LedgerHoldsNoText == \A d \in ledger : rows[d] # None => ~rows[d].text

\* What the erasure ledger names holds no text (expunge_gated), even after a crash, unless
\* the update that erases a sibling fails: expunge ignores that.
LedgerIsTrue == ~May("kept") => LedgerHoldsNoText

\* A row whose bitmaps are not those of its latest audit event is one the recovery sweep
\* finds: expunge writes the row before the event, and nothing else leaves the two apart
\* but a sibling's update that fails.
UnauditedIsSwept ==
  ~May("kept") =>
    \A d \in Stored :
      Snap(rows[d]) # [state |-> audit[d].state, marks |-> audit[d].marks] => d \in Orphans

\* No Merkle root commits to what a call that returned took away.
NothingGoneIsAttested == \A d \in gone, n \in Nodes : d \notin roots[n]

\* Once withdraw or expunge has returned, no Merkle root, of a room, a wing or the estate,
\* commits to the text it took away, while rollups succeed and no drawer changes rooms.
RetractedNotAttested == deploy.may \cap {"ignored", "reanchor"} = {} => NothingGoneIsAttested

\* The sweep's rows are those of expunges cut short: without a crash or a failing call,
\* every tombstoned row between calls has its event, or the caller is about to seal it.
OrphansAreCutShort ==
  call.at = "idle" /\ deploy.may \cap {"crash", "fails", "ignored", "kept"} = {} =>
    Orphans \subseteq held

\* A lineage is a chain with one living end: captures, revivals and supersessions, cut
\* short or not, leave no lineage with two heads and no superseded drawer without the
\* successor and the tunnel that explain it (add_drawer_with_cascade, the revive verb of mutate).
LineageIsSound == OneLivingHead /\ SupersededHasHeir

\* What the records say of a drawer is so: the erasure ledger names no row that still has
\* its text, a row that differs from its last audit event is one the sweep will find, and
\* no Merkle root commits to what withdraw or expunge took away.
RecordsAreTrue ==
  /\ TypeOK
  /\ LedgerIsTrue
  /\ UnauditedIsSwept
  /\ RetractedNotAttested
=============================================================================
