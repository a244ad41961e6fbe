---------------------------- MODULE EstateProofs ----------------------------
(***************************************************************************)
(* Theorems about Estate, for any drawers, lineages, rooms, wings, flags,  *)
(* frames, chains and deployments, and any gate that honours what the      *)
(* repository's tests pin.                                                 *)
(***************************************************************************)
EXTENDS Estate, FiniteSetTheorems, TLAPS

(***************************************************************************)
(* The shape of a state: what the call under way relies on, and that a     *)
(* drawer without an audit event has left no trace.                        *)
(***************************************************************************)

Superseding == {"tunnel", "supersede"}
Expunging   == {"record", "scrub", "seal_sibling", "seal"}

CallShape ==
  /\ call.at = "idle" => call = Idle
  /\ call.at \in Superseding =>
       /\ call.op = "capture"
       /\ call.d \in Stored /\ call.other \in Stored /\ call.d # call.other
       /\ rows[call.d].lineage = rows[call.other].lineage
       /\ rows[call.other].state \in {"active", "contested"}
  /\ call.at \in {"or_room", "or_wing"} => call.d \in Stored
  /\ call.at \in Expunging => call.d \in Stored /\ Buried(call.d) /\ call.other \in Stored
  /\ call.op = "unsealed" => call.d \in Stored /\ Buried(call.d)
  /\ call.at = "roll_wing" => call.room \in Rooms
  /\ call.todo \subseteq Stored /\ call.chain \subseteq Stored

Traceless(d) ==
  /\ d \notin ledger /\ d \notin held /\ d \notin acked /\ d \notin gone
  /\ \A n \in Nodes : d \notin roots[n]
  /\ \A p \in Drawers : <<d, p>> \notin tunnels

Traces ==
  /\ \A d \in Drawers : audit[d] = Fresh => rows[d] = None /\ Traceless(d)
  /\ call.at = "tunnel" => Traceless(call.d)
  /\ \A d \in held : rows[d] # None /\ Buried(d)

Shape == TypeOK /\ CallShape /\ Traces

(***************************************************************************)
(* Erasure ledger, audit and Merkle roots                                  *)
(***************************************************************************)

\* No expunge of a lineage with an accepted sibling.
NoAcceptedSibling == \A p \in Deployments : "accepted" \notin p.may

LedgerInv ==
  ~May("kept") =>
    /\ LedgerHoldsNoText
    /\ call.at \in {"record", "seal_sibling"} => ~rows[call.other].text
    /\ call.at \in Expunging => \A s \in call.todo : rows[s].state # "accepted"

Audited(d) == rows[d].state = audit[d].state /\ rows[d].marks = audit[d].marks

AuditInv ==
  ~May("kept") =>
    /\ \A d \in Stored : Audited(d) \/ (Buried(d) /\ ~audit[d].closed)
    /\ \A d \in Stored : audit[d].closed => Buried(d)
    /\ call.at = "seal_sibling" => Buried(call.other)

Out(d) == rows[d].state \in {"tombstoned", "withdrawn"}

GoneOut == \A d \in gone : rows[d] # None /\ Out(d)

\* A room's root commits to drawers of the room, a wing's to drawers of its rooms.
AtHome ==
  /\ \A r \in Rooms : \A d \in roots[r] : rows[d] # None /\ rows[d].room = r
  /\ \A w \in Wings : \A d \in roots[w] : rows[d] # None /\ WingOf[rows[d].room] = w

\* How far the rollups have taken drawer d off the roots.
Rolling(d) ==
  \/ rows[d].room \in call.rooms
  \/ /\ call.at = "roll_wing" /\ call.room = rows[d].room
     /\ \A r \in Rooms : d \notin roots[r]
  \/ call.at = "roll_estate" /\ \A n \in Rooms \cup Wings : d \notin roots[n]
  \/ \A n \in Nodes : d \notin roots[n]

ChainRolling ==
  /\ call.at \in Expunging => \A d \in call.chain : rows[d].room \in call.rooms
  /\ \A d \in call.chain : Out(d) => Rolling(d)

Settled == deploy.may \cap {"ignored", "reanchor"} = {}

RootsInv ==
  /\ GoneOut
  /\ Settled => NothingGoneIsAttested /\ AtHome /\ ChainRolling

(***************************************************************************)
(* Fingerprints and lineages                                               *)
(***************************************************************************)

Covered(d, c) == rows[d].flags \subseteq fps.flags[c]

PruneInv ==
  ~May("reanchor") =>
    /\ \A d \in acked : rows[d] # None /\ ~Buried(d) =>
         /\ rows[d].room \in fps.listed
         /\ Covered(d, rows[d].room) /\ Covered(d, WingOf[rows[d].room])
    /\ call.at = "or_wing" => rows[call.d].room \in fps.listed /\ Covered(call.d, rows[call.d].room)

\* Deployments that never revive a withdrawn drawer beside a living one nor capture after a
\* contested head, unless they may crash or fail.
HeadsInOrder ==
  \A p \in Deployments :
    p.may \cap {"crash", "fails"} = {} => p.may \cap {"contested", "revive"} = {}

Living(d) == rows[d].state \in {"active", "contested"}

HeadsInv ==
  deploy.may \cap {"crash", "fails"} = {} =>
    /\ call.at \in Superseding => rows[call.other].state = "active"
    /\ \A d, e \in Stored :
         rows[d].lineage = rows[e].lineage /\ Living(d) /\ Living(e) =>
           d = e \/ (call.at \in Superseding /\ d \in {call.d, call.other} /\ e \in {call.d, call.other})

HeirsInv ==
  /\ SupersededHasHeir
  /\ call.at = "supersede" => <<call.d, call.other>> \in tunnels

(***************************************************************************)
(* Type correctness                                                        *)
(***************************************************************************)

CallType ==
  [at: Steps, op: {"none", "capture", "withdraw", "expunge", "unsealed", "rollup"},
   d: Drawers \cup {None}, other: Drawers \cup {None}, todo: SUBSET Drawers,
   chain: SUBSET Drawers, rooms: SUBSET Rooms, room: Rooms \cup {None}]

AuditType == [state: RowStates \cup {"none"}, marks: SUBSET Marks, closed: BOOLEAN]

\* A stored drawer has a row.
LEMMA StoredRows == TypeOK => \A d \in Stored : d \in Drawers /\ rows[d] # None /\ rows[d] \in Row
  BY DEF TypeOK, Stored

\* No call is a call.
LEMMA IdleType == Idle \in CallType
  BY DEF Idle, CallType, Steps

\* A row and its audit event, written together, are well formed.
LEMMA WriteType ==
  ASSUME TypeOK, NEW d \in Drawers, NEW r \in Row, Write(d, r)
  PROVE  /\ rows' \in [Drawers -> Row \cup {None}]
         /\ audit' \in [Drawers -> AuditType]
  <1>1. Logged(r) \in AuditType
    BY DEF Logged, AuditType, Row
  <1> QED BY <1>1 DEF Write, TypeOK, AuditType

\* So are they after a change of state,
LEMMA MutateStateType ==
  ASSUME TypeOK, NEW d \in Stored, NEW v \in Verbs, MutateState(d, v)
  PROVE  /\ rows' \in [Drawers -> Row \cup {None}]
         /\ audit' \in [Drawers -> AuditType]
  <1>1. Target[v] \in RowStates
    BY DEF Verbs, Target, RowStates
  <1>2. [rows[d] EXCEPT !.state = Target[v]] \in Row
    BY <1>1, StoredRows DEF Row
  <1> QED BY <1>2, WriteType, StoredRows DEF MutateState

\* and after the closing event of an expunge.
LEMMA SealType ==
  ASSUME TypeOK, NEW d \in Stored, SealRow(d)
  PROVE  audit' \in [Drawers -> AuditType]
  <1>1. Sealed(d) \in AuditType
    BY StoredRows DEF Sealed, AuditType, Row, RowStates
  <1> QED BY <1>1 DEF SealRow, TypeOK, AuditType

\* A new call is counted within its bound.
LEMMA BeginType ==
  ASSUME TypeOK, Begin, deploy' = deploy
  PROVE  calls' \in 0 .. deploy'.calls /\ deploy' \in Deployments
  <1>1. deploy.calls \in Nat
    BY EstateAssumption DEF TypeOK
  <1> QED BY <1>1 DEF Begin, TypeOK

\* An erased row is a row.
LEMMA ErasedType == TypeOK => \A d \in Stored : Erased(d) \in Row
  BY StoredRows DEF Erased, Row, RowStates

\* or_into leaves a well-formed table of fingerprints.
LEMMA OredInType ==
  ASSUME TypeOK, NEW d \in Stored, NEW c \in Rooms \cup Wings
  PROVE  OredIn(c, d) \in [listed: SUBSET (Rooms \cup Wings), flags: [Rooms \cup Wings -> SUBSET Flags]]
  <1>1. rows[d].flags \in SUBSET Flags
    BY StoredRows DEF Row
  <1> QED BY <1>1 DEF OredIn, TypeOK

\* The rooms of stored drawers are rooms.
LEMMA AffectedRoomsType == TypeOK => \A ds \in SUBSET Stored : AffectedRooms(ds) \in SUBSET Rooms
  BY StoredRows DEF AffectedRooms, Row

\* So does the rebuild on opening.
LEMMA RebuiltType ==
  ASSUME TypeOK
  PROVE  Rebuilt \in [listed: SUBSET (Rooms \cup Wings), flags: [Rooms \cup Wings -> SUBSET Flags]]
  <1> DEFINE live == {d \in Stored : ~Buried(d)}
             full == AffectedRooms(live)
             inRoom == [r \in Rooms |->
                   IF r \in full THEN UNION {rows[d].flags : d \in {e \in live : rows[e].room = r}}
                                 ELSE fps.flags[r]]
             listed == fps.listed \cup full
             wings == {WingOf[r] : r \in full}
  <1>1. full \in SUBSET Rooms
    BY AffectedRoomsType
  <1>2. wings \in SUBSET Wings
    BY <1>1, EstateAssumption
  <1>3. fps.listed \in SUBSET (Rooms \cup Wings) /\ fps.flags \in [Rooms \cup Wings -> SUBSET Flags]
    BY DEF TypeOK
  <1>4. \A d \in live : rows[d].flags \in SUBSET Flags
    BY StoredRows DEF Row
  <1>5. inRoom \in [Rooms -> SUBSET Flags]
    BY <1>3, <1>4
  <1>6. \A c \in Rooms \cup Wings :
          (IF c \in Rooms THEN inRoom[c]
           ELSE IF c \in wings THEN UNION {inRoom[r] : r \in {x \in listed \cap Rooms : WingOf[x] = c}}
           ELSE fps.flags[c]) \in SUBSET Flags
    <2> HIDE DEF inRoom, wings, listed
    <2> QED BY <1>3, <1>5
  <1>7. Rebuilt = [listed |-> listed \cup wings,
                   flags |-> [c \in Rooms \cup Wings |->
                      IF c \in Rooms THEN inRoom[c]
                      ELSE IF c \in wings
                        THEN UNION {inRoom[r] : r \in {x \in listed \cap Rooms : WingOf[x] = c}}
                      ELSE fps.flags[c]]]
    BY DEF Rebuilt
  <1>8. listed \cup wings \in SUBSET (Rooms \cup Wings)
    BY <1>1, <1>2, <1>3
  <1> HIDE DEF inRoom, wings, listed
  <1> QED BY <1>6, <1>7, <1>8

\* A root commits to drawers.
LEMMA CommittedType == \A r : Committed(r) \subseteq Stored /\ Stored \subseteq Drawers
  BY DEF Committed, Stored

\* Capture and its steps keep the state well formed.
LEMMA CaptureType ==
  ASSUME Shape,
         \/ \E d \in Drawers, f \in Frames : Capture(d, f)
         \/ AddTunnel \/ AddTunnelFails \/ SupersedePrior \/ SupersedePriorFails
         \/ OrRoom \/ OrWing \/ OrFails
  PROVE  TypeOK'
  <1> USE DEF Shape
  <1>c. call \in CallType
    BY DEF TypeOK, CallType
  <1>g. \A s \in Steps : [call EXCEPT !.at = s] \in CallType
    BY <1>c DEF CallType
  <1>1. ASSUME NEW d \in Drawers, NEW f \in Frames, Capture(d, f) PROVE TypeOK'
    <2>1. Captured(f) \in Row
      BY EstateAssumption DEF Captured, Row, RowStates
    <2>2. call' \in CallType
      <3>1. [Idle EXCEPT !.at = "or_room", !.op = "capture", !.d = d] \in CallType
        BY IdleType DEF CallType, Steps
      <3>2. \A p \in Drawers :
              [Idle EXCEPT !.at = "tunnel", !.op = "capture", !.d = d, !.other = p] \in CallType
        BY IdleType DEF CallType, Steps
      <3> QED BY <1>1, <3>1, <3>2 DEF Capture, Predecessors, Chain, Stored
    <2>3. rows' \in [Drawers -> Row \cup {None}] /\ audit' \in [Drawers -> AuditType]
      BY <1>1, <2>1, WriteType DEF Capture
    <2>4. calls' \in 0 .. deploy'.calls /\ deploy' \in Deployments
      BY <1>1, BeginType DEF Capture
    <2> QED BY <1>1, <2>2, <2>3, <2>4 DEF Capture, TypeOK, CallType, AuditType
  <1>2. CASE AddTunnel
    <2>1. call' \in CallType
      BY <1>2, <1>g DEF AddTunnel, Go, Steps
    <2>2. tunnels' \in SUBSET (Drawers \X Drawers)
      BY <1>2, StoredRows DEF AddTunnel, CallShape, Superseding, TypeOK
    <2> QED BY <1>2, <2>1, <2>2 DEF AddTunnel, TypeOK, CallType
  <1>3. CASE AddTunnelFails
    BY <1>3, IdleType DEF AddTunnelFails, GiveUp, TypeOK, CallType
  <1>4. CASE SupersedePrior
    <2>1. call' \in CallType
      BY <1>4, <1>g DEF SupersedePrior, Go, Steps
    <2>2. rows' \in [Drawers -> Row \cup {None}] /\ audit' \in [Drawers -> AuditType]
      BY <1>4, MutateStateType DEF SupersedePrior, CallShape, Superseding, Verbs, Target
    <2> QED BY <1>4, <2>1, <2>2 DEF SupersedePrior, TypeOK, CallType, AuditType
  <1>5. CASE SupersedePriorFails
    BY <1>5, IdleType DEF SupersedePriorFails, GiveUp, TypeOK, CallType
  <1>6. CASE OrRoom
    <2>1. call' \in CallType
      BY <1>6, <1>g DEF OrRoom, Go, Steps
    <2>2. call.d \in Stored /\ rows[call.d].room \in Rooms \cup Wings
      BY <1>6, StoredRows DEF OrRoom, CallShape, Row
    <2> QED BY <1>6, <2>1, <2>2, OredInType DEF OrRoom, TypeOK, CallType
  <1>7. CASE OrWing
    <2>2. call.d \in Stored /\ WingOf[rows[call.d].room] \in Rooms \cup Wings
      BY <1>7, StoredRows, EstateAssumption DEF OrWing, CallShape, Row
    <2>3. fps' \in [listed: SUBSET (Rooms \cup Wings), flags: [Rooms \cup Wings -> SUBSET Flags]]
      BY <1>7, <2>2, OredInType DEF OrWing
    <2>4. acked' \in SUBSET Drawers
      BY <1>7, <2>2, StoredRows DEF OrWing, TypeOK
    <2> QED BY <1>7, <2>3, <2>4, IdleType DEF OrWing, TypeOK, CallType
  <1>8. CASE OrFails
    BY <1>8, IdleType DEF OrFails, GiveUp, TypeOK, CallType
  <1> QED BY <1>1, <1>2, <1>3, <1>4, <1>5, <1>6, <1>7, <1>8

\* So do the calls of one transaction,
LEMMA MutateType ==
  ASSUME Shape,
         \/ \E d \in Drawers, v \in Mutations : Mutate(d, v)
         \/ \E d \in Drawers, marks \in SUBSET Marks : Correct(d, marks)
         \/ \E d \in Drawers, r \in Rooms : Reanchor(d, r)
         \/ WipeAllContent
         \/ \E d \in Drawers : Withdraw(d) \/ SealExpunge(d) \/ Sweep(d)
         \/ \E d \in Drawers, op \in {"expunge", "unsealed"} : Expunge(d, op)
  PROVE  TypeOK'
  <1> USE DEF Shape
  <1>s. \A d \in Drawers : rows[d] # None => d \in Stored
    BY DEF Stored
  <1>r. \A d \in Stored : rows[d] \in Row /\ d \in Drawers
    BY StoredRows
  <1>1. ASSUME NEW d \in Drawers, NEW v \in Mutations, Mutate(d, v) PROVE TypeOK'
    <2>1. v \in Verbs
      BY DEF Mutations, Verbs, Target
    <2>2. rows' \in [Drawers -> Row \cup {None}] /\ audit' \in [Drawers -> AuditType]
      BY <1>1, <1>s, <2>1, MutateStateType DEF Mutate
    <2>3. calls' \in 0 .. deploy'.calls /\ deploy' \in Deployments
      BY <1>1, BeginType DEF Mutate
    <2> QED BY <1>1, <2>2, <2>3 DEF Mutate, TypeOK, AuditType
  <1>2. ASSUME NEW d \in Drawers, NEW marks \in SUBSET Marks, Correct(d, marks) PROVE TypeOK'
    <2>1. [rows[d] EXCEPT !.marks = marks] \in Row
      BY <1>2, <1>s, <1>r DEF Correct, Row
    <2>2. rows' \in [Drawers -> Row \cup {None}] /\ audit' \in [Drawers -> AuditType]
      BY <1>2, <2>1, WriteType DEF Correct
    <2>3. calls' \in 0 .. deploy'.calls /\ deploy' \in Deployments
      BY <1>2, BeginType DEF Correct
    <2> QED BY <1>2, <2>2, <2>3 DEF Correct, TypeOK, AuditType
  <1>3. ASSUME NEW d \in Drawers, NEW r \in Rooms, Reanchor(d, r) PROVE TypeOK'
    <2>1. [rows[d] EXCEPT !.room = r] \in Row
      BY <1>3, <1>s, <1>r DEF Reanchor, Row
    <2>2. rows' \in [Drawers -> Row \cup {None}]
      BY <1>3, <2>1 DEF Reanchor, TypeOK
    <2>3. calls' \in 0 .. deploy'.calls /\ deploy' \in Deployments
      BY <1>3, BeginType DEF Reanchor
    <2> QED BY <1>3, <2>2, <2>3 DEF Reanchor, TypeOK
  <1>4. CASE WipeAllContent
    <2>1. \A d \in Stored : [rows[d] EXCEPT !.text = FALSE] \in Row
      BY <1>r DEF Row
    <2>2. rows' \in [Drawers -> Row \cup {None}]
      BY <1>4, <2>1 DEF WipeAllContent
    <2>3. calls' \in 0 .. deploy'.calls /\ deploy' \in Deployments
      BY <1>4, BeginType DEF WipeAllContent
    <2> QED BY <1>4, <2>2, <2>3 DEF WipeAllContent, TypeOK
  <1>5. ASSUME NEW d \in Drawers, Withdraw(d) PROVE TypeOK'
    <2>1. rows' \in [Drawers -> Row \cup {None}] /\ audit' \in [Drawers -> AuditType]
      BY <1>5, <1>s, MutateStateType DEF Withdraw, Verbs, Target
    <2>2. rows[d].room \in Rooms
      BY <1>5, <1>s, <1>r DEF Withdraw, Row
    <2>3. call' \in CallType
      BY <1>5, <2>2, IdleType DEF Withdraw, CallType, Steps
    <2>4. calls' \in 0 .. deploy'.calls /\ deploy' \in Deployments
      BY <1>5, BeginType DEF Withdraw
    <2> QED BY <1>5, <2>1, <2>3, <2>4 DEF Withdraw, TypeOK, AuditType, CallType
  <1>6. ASSUME NEW d \in Drawers, SealExpunge(d) PROVE TypeOK'
    <2>1. audit' \in [Drawers -> AuditType]
      BY <1>6, <1>s, SealType DEF SealExpunge, Traces
    <2>2. calls' \in 0 .. deploy'.calls /\ deploy' \in Deployments
      BY <1>6, BeginType DEF SealExpunge
    <2> QED BY <1>6, <2>1, <2>2 DEF SealExpunge, TypeOK, AuditType
  <1>7. ASSUME NEW d \in Drawers, Sweep(d) PROVE TypeOK'
    <2>1. audit' \in [Drawers -> AuditType]
      BY <1>7, SealType DEF Sweep, Orphans
    <2>2. calls' \in 0 .. deploy'.calls /\ deploy' \in Deployments
      BY <1>7, BeginType DEF Sweep
    <2> QED BY <1>7, <2>1, <2>2 DEF Sweep, TypeOK, AuditType
  <1>8. ASSUME NEW d \in Drawers, NEW op \in {"expunge", "unsealed"}, Expunge(d, op) PROVE TypeOK'
    <2> DEFINE chain == Chain(rows[d].lineage)
    <2>1. chain \in SUBSET Drawers /\ AffectedRooms(chain) \in SUBSET Rooms
      BY AffectedRoomsType DEF Chain, Stored
    <2>2. rows' \in [Drawers -> Row \cup {None}]
      BY <1>8, <1>s, ErasedType DEF Expunge, TypeOK
    <2>3. call' = [Idle EXCEPT !.at = "record", !.op = op, !.d = d, !.other = d, !.chain = chain,
                               !.todo = chain \ {d}, !.rooms = AffectedRooms(chain)]
      BY <1>8 DEF Expunge
    <2>4. call' \in CallType
      <3> HIDE DEF chain
      <3> QED BY <2>1, <2>3, IdleType DEF CallType, Steps
    <2>5. calls' \in 0 .. deploy'.calls /\ deploy' \in Deployments
      BY <1>8, BeginType DEF Expunge
    <2> QED BY <1>8, <2>2, <2>4, <2>5 DEF Expunge, TypeOK, CallType
  <1> QED BY <1>1, <1>2, <1>3, <1>4, <1>5, <1>6, <1>7, <1>8

\* What Scrub does to sibling s, and what its ignored failure does.
Passed(s) ==
  \E a \in {"seal_sibling", "record"} :
    call' = [call EXCEPT !.at = a, !.todo = @ \ {s}, !.other = s]

Scrubbed(s) ==
  /\ Passed(s)
  /\ \/ rows' = rows /\ call'.at = "record" /\ ~Buried(s) /\ ~Admitted(s, "tombstone")
     \/ rows' = [rows EXCEPT ![s] = Erased(s)] /\ (call'.at = "record" \/ ~Buried(s))

LEMMA ScrubStep ==
  ASSUME TypeOK, Scrub
  PROVE  \E s \in call.todo : Scrubbed(s)
  <1> DEFINE at(s) == IF ~Buried(s) /\ ~(~Buried(s) /\ ~Admitted(s, "tombstone"))
                           /\ call.op = "expunge" THEN "seal_sibling" ELSE "record"
  <1>1. PICK s \in call.todo :
          /\ rows' = IF ~Buried(s) /\ ~Admitted(s, "tombstone") THEN rows
                     ELSE [rows EXCEPT ![s] = Erased(s)]
          /\ call' = [call EXCEPT !.at = at(s), !.todo = @ \ {s}, !.other = s]
    BY DEF Scrub
  <1>2. at(s) \in {"seal_sibling", "record"}
        /\ (at(s) = "record" \/ (~Buried(s) /\ Admitted(s, "tombstone")))
    OBVIOUS
  <1> HIDE DEF at
  <1>3. call'.at = at(s)
    BY <1>1 DEF TypeOK
  <1>4. Passed(s)
    BY <1>1, <1>2 DEF Passed
  <1> QED BY <1>1, <1>2, <1>3, <1>4 DEF Scrubbed

LEMMA ScrubFailsStep ==
  ASSUME ScrubFails
  PROVE  \E s \in call.todo : Passed(s)
  <1> DEFINE at(s) == IF Admitted(s, "tombstone") /\ call.op = "expunge"
                        THEN "seal_sibling" ELSE "record"
  <1>1. PICK s \in call.todo : call' = [call EXCEPT !.todo = @ \ {s}, !.other = s, !.at = at(s)]
    BY DEF ScrubFails
  <1>2. at(s) \in {"seal_sibling", "record"}
    OBVIOUS
  <1> HIDE DEF at
  <1>3. [call EXCEPT !.todo = @ \ {s}, !.other = s, !.at = at(s)]
          = [call EXCEPT !.at = at(s), !.todo = @ \ {s}, !.other = s]
    OBVIOUS
  <1> QED BY <1>1, <1>2, <1>3 DEF Passed

\* and the steps of an expunge,
LEMMA ExpungeType ==
  ASSUME Shape,
         \/ Record \/ Scrub \/ ScrubFails \/ ScrubReadFails
         \/ SealSibling \/ ScrubEnds \/ SealHead
  PROVE  TypeOK'
  <1> USE DEF Shape
  <1>c. call \in CallType
    BY DEF TypeOK, CallType
  <1>g. \A s \in Steps : [call EXCEPT !.at = s] \in CallType
    BY <1>c DEF CallType
  <1>s. call.todo \subseteq Stored
    BY DEF CallShape
  <1>t. \A s \in call.todo, a \in Steps :
          /\ [call EXCEPT !.at = a, !.todo = @ \ {s}, !.other = s] \in CallType
          /\ [call EXCEPT !.todo = @ \ {s}] \in CallType
    BY <1>c DEF CallType, CallShape
  <1>1. CASE Record
    <2>1. call.other \in Drawers
      BY <1>1, StoredRows DEF Record, CallShape, Expunging
    <2>2. call' \in CallType
      BY <1>1, <1>g DEF Record, Go, Steps
    <2> QED BY <1>1, <2>1, <2>2 DEF Record, TypeOK, CallType
  <1>2. CASE Scrub
    <2>1. PICK s \in call.todo : Scrubbed(s)
      BY <1>2, ScrubStep
    <2>2. call' \in CallType
      BY <2>1, <1>t DEF Scrubbed, Passed, Steps
    <2>3. rows' \in [Drawers -> Row \cup {None}]
      BY <2>1, <1>s, ErasedType DEF Scrubbed, TypeOK
    <2> QED BY <1>2, <2>2, <2>3 DEF Scrub, TypeOK, CallType
  <1>3. CASE ScrubFails
    <2>1. PICK s \in call.todo : Passed(s)
      BY <1>3, ScrubFailsStep
    <2>2. call' \in CallType
      BY <2>1, <1>t DEF Passed, Steps
    <2> QED BY <1>3, <2>2 DEF ScrubFails, TypeOK, CallType
  <1>4. CASE ScrubReadFails
    <2>1. call' \in CallType
      BY <1>4, <1>t, IdleType DEF ScrubReadFails, GiveUp, Steps
    <2> QED BY <1>4, <2>1 DEF ScrubReadFails, TypeOK, CallType
  <1>5. CASE SealSibling
    <2>1. call.other \in Stored
      BY <1>5 DEF SealSibling, CallShape, Expunging
    <2>2. audit' \in [Drawers -> AuditType]
      BY <1>5, <2>1, SealType DEF SealSibling, TypeOK, AuditType
    <2>3. call' \in CallType
      BY <1>5, <1>g DEF SealSibling, Go, Steps
    <2> QED BY <1>5, <2>2, <2>3 DEF SealSibling, TypeOK, CallType, AuditType
  <1>6. CASE ScrubEnds
    <2>1. call' \in CallType
      BY <1>6, <1>g DEF ScrubEnds, Go, Steps
    <2> QED BY <1>6, <2>1 DEF ScrubEnds, TypeOK, CallType
  <1>7. CASE SealHead
    <2>1. call.d \in Stored
      BY <1>7 DEF SealHead, CallShape, Expunging
    <2>2. audit' \in [Drawers -> AuditType]
      BY <1>7, <2>1, SealType DEF SealHead, TypeOK, AuditType
    <2>3. call' \in CallType
      BY <1>7, <1>g, IdleType DEF SealHead, Go, GiveUp, Steps
    <2> QED BY <1>7, <2>2, <2>3 DEF SealHead, TypeOK, CallType, AuditType
  <1> QED BY <1>1, <1>2, <1>3, <1>4, <1>5, <1>6, <1>7

\* the rollups and the reopening.
LEMMA RollType ==
  ASSUME Shape,
         \/ RollRoom \/ RollWing \/ RollEstate \/ RollFails \/ Return
         \/ \E ds \in SUBSET Stored : RollupRooms(ds)
         \/ RecomputeAll \/ Reopen
  PROVE  TypeOK'
  <1> USE DEF Shape
  <1>c. call \in CallType
    BY DEF TypeOK, CallType
  <1>g. \A s \in Steps : [call EXCEPT !.at = s] \in CallType
    BY <1>c DEF CallType
  <1>r. roots \in [Nodes -> SUBSET Drawers]
    BY DEF TypeOK
  <1>1. CASE RollRoom
    <2>1. PICK r \in call.rooms :
            /\ roots' = [roots EXCEPT ![r] = Committed(r)]
            /\ call' = [call EXCEPT !.at = "roll_wing", !.rooms = @ \ {r}, !.room = r]
      BY <1>1 DEF RollRoom
    <2>2. r \in Rooms
      BY <1>c DEF CallType
    <2>3. call' \in CallType
      BY <1>c, <2>1, <2>2 DEF CallType, Steps
    <2>4. roots' \in [Nodes -> SUBSET Drawers]
      BY <1>r, <2>1, CommittedType
    <2> QED BY <1>1, <2>3, <2>4 DEF RollRoom, TypeOK, CallType
  <1>2. CASE RollWing
    <2>1. \A r \in Rooms : roots[r] \in SUBSET Drawers
      BY <1>r DEF Nodes
    <2>2. Below(WingOf[call.room]) \in SUBSET Drawers
      BY <2>1 DEF Below
    <2>3. roots' \in [Nodes -> SUBSET Drawers]
      BY <1>2, <1>r, <2>2 DEF RollWing
    <2>4. call' \in CallType
      BY <1>2, <1>g DEF RollWing, Go, Steps
    <2> QED BY <1>2, <2>3, <2>4 DEF RollWing, TypeOK, CallType
  <1>3. CASE RollEstate
    <2>1. UNION {roots[w] : w \in Wings} \in SUBSET Drawers
      BY <1>r DEF Nodes
    <2>3. roots' \in [Nodes -> SUBSET Drawers]
      BY <1>3, <1>r, <2>1 DEF RollEstate
    <2>4. call' \in CallType
      BY <1>3, <1>g DEF RollEstate, Go, Steps
    <2> QED BY <1>3, <2>3, <2>4 DEF RollEstate, TypeOK, CallType
  <1>4. CASE RollFails
    <2>1. \A r \in call.rooms : [call EXCEPT !.rooms = @ \ {r}] \in CallType
      BY <1>c DEF CallType
    <2>2. call' \in CallType
      BY <1>4, <1>g, <2>1, IdleType DEF RollFails, Go, GiveUp, Steps
    <2> QED BY <1>4, <2>2 DEF RollFails, TypeOK, CallType
  <1>5. CASE Return
    <2>1. call.chain \in SUBSET Drawers
      BY <1>c DEF CallType
    <2>2. gone' \in SUBSET Drawers
      BY <1>5, <2>1 DEF Return, TypeOK
    <2>3. held' \in SUBSET Drawers
      BY <1>5, StoredRows DEF Return, TypeOK, CallShape
    <2> QED BY <1>5, <2>2, <2>3, IdleType DEF Return, TypeOK, CallType
  <1>6. ASSUME NEW ds \in SUBSET Stored, RollupRooms(ds) PROVE TypeOK'
    <2>1. AffectedRooms(ds) \in SUBSET Rooms
      BY AffectedRoomsType
    <2>2. call' \in CallType
      BY <1>6, <2>1, IdleType DEF RollupRooms, CallType, Steps
    <2>3. calls' \in 0 .. deploy'.calls /\ deploy' \in Deployments
      BY <1>6, BeginType DEF RollupRooms
    <2> QED BY <1>6, <2>2, <2>3 DEF RollupRooms, TypeOK, CallType
  <1>7. CASE RecomputeAll
    <2>1. \A n : UNION {Committed(r) : r \in {x \in Rooms : n \in {x, WingOf[x], Whole}}}
                   \in SUBSET Drawers
      BY CommittedType
    <2>2. roots' \in [Nodes -> SUBSET Drawers]
      BY <1>7, <1>r, <2>1 DEF RecomputeAll
    <2>3. calls' \in 0 .. deploy'.calls /\ deploy' \in Deployments
      BY <1>7, BeginType DEF RecomputeAll
    <2> QED BY <1>7, <2>2, <2>3 DEF RecomputeAll, TypeOK
  <1>8. CASE Reopen
    <2>1. calls' \in 0 .. deploy'.calls /\ deploy' \in Deployments
      <3>1. deploy.calls \in Nat
        BY EstateAssumption DEF TypeOK
      <3> QED BY <1>8, <3>1 DEF Reopen, TypeOK
    <2>2. fps' \in [listed: SUBSET (Rooms \cup Wings), flags: [Rooms \cup Wings -> SUBSET Flags]]
      BY <1>8, RebuiltType DEF Reopen
    <2> QED BY <1>8, <2>1, <2>2, IdleType DEF Reopen, TypeOK, CallType
  <1> QED BY <1>1, <1>2, <1>3, <1>4, <1>5, <1>6, <1>7, <1>8

\* Every step keeps the state well formed.
LEMMA StepType == Shape /\ [Next]_vars => TypeOK'
  <1> SUFFICES ASSUME Shape, [Next]_vars PROVE TypeOK'
    OBVIOUS
  <1>1. CASE UNCHANGED vars
    BY <1>1 DEF Shape, TypeOK, vars
  <1>2. CASE Next
    BY <1>2, CaptureType, MutateType, ExpungeType, RollType DEF Next
  <1> QED BY <1>1, <1>2

(***************************************************************************)
(* What a step may do to a row                                             *)
(***************************************************************************)

\* The drawer keeps its lineage, its flags and, unless it may be moved, its room; erased
\* text and a tombstone stay.
SameDrawer(d) ==
  /\ rows'[d].lineage = rows[d].lineage /\ rows'[d].flags = rows[d].flags
  /\ rows'[d].text => rows[d].text
  /\ rows[d].state = "tombstoned" => rows'[d].state = "tombstoned"
  /\ May("reanchor") \/ rows'[d].room = rows[d].room

\* A row goes only by the compensating delete of its own capture, and comes only by capture.
RowKept(d) ==
  /\ rows[d] # None /\ rows'[d] # None => SameDrawer(d)
  /\ rows[d] # None /\ rows'[d] = None =>
       call.at = "tunnel" /\ d = call.d /\ call' = Idle /\ UNCHANGED <<audit, tunnels>>
  /\ rows[d] = None /\ rows'[d] # None =>
       /\ call.at = "idle" /\ audit[d] = Fresh /\ audit'[d] # Fresh
       /\ rows'[d].state = "active" /\ UNCHANGED tunnels

\* The gate refuses every verb on a tombstoned row.
LEMMA TombstoneIsFinal ==
  ASSUME NEW d, NEW v \in Verbs, Admitted(d, v)
  PROVE  rows[d].state # "tombstoned"
  BY EstateAssumption DEF Admitted, Barred

\* A row that is replaced by one of the same drawer is the only one that changes.
LEMMA ReplacedRow ==
  ASSUME TypeOK, NEW d \in Stored, NEW r \in Row, rows' = [rows EXCEPT ![d] = r],
         /\ r.lineage = rows[d].lineage /\ r.flags = rows[d].flags
         /\ r.text => rows[d].text
         /\ rows[d].state = "tombstoned" => r.state = "tombstoned"
         /\ May("reanchor") \/ r.room = rows[d].room
  PROVE  \A e \in Drawers : RowKept(e)
  <1>1. rows'[d] = r /\ rows[d] # None /\ r # None
    BY StoredRows, NoneAssumption DEF TypeOK
  <1>2. \A e \in Drawers : e # d => rows'[e] = rows[e]
    BY DEF TypeOK
  <1> QED BY <1>1, <1>2 DEF RowKept, SameDrawer

\* A change of state is such a replacement.
LEMMA MutateKept ==
  ASSUME TypeOK, NEW d \in Stored, NEW v \in Verbs, Admitted(d, v), MutateState(d, v)
  PROVE  \A e \in Drawers : RowKept(e)
  <1>0. rows[d] \in Row
    BY StoredRows
  <1>1. Target[v] \in RowStates
    BY DEF Verbs, Target, RowStates
  <1> DEFINE r == [rows[d] EXCEPT !.state = Target[v]]
  <1>2. r \in Row /\ r.lineage = rows[d].lineage /\ r.flags = rows[d].flags
         /\ r.text = rows[d].text /\ r.room = rows[d].room
    BY <1>0, <1>1 DEF Row
  <1>3. rows' = [rows EXCEPT ![d] = r]
    BY DEF MutateState, Write
  <1>4. rows[d].state # "tombstoned"
    BY TombstoneIsFinal
  <1> HIDE DEF r
  <1> QED BY <1>2, <1>3, <1>4, ReplacedRow

\* So is erasure.
LEMMA ErasedKept ==
  ASSUME TypeOK, NEW d \in Stored, rows' = [rows EXCEPT ![d] = Erased(d)]
  PROVE  /\ \A e \in Drawers : RowKept(e)
         /\ rows'[d] # None /\ rows'[d].state = "tombstoned" /\ ~rows'[d].text
         /\ rows'[d].marks = rows[d].marks
         /\ \A e \in Drawers : e # d => rows'[e] = rows[e]
  <1>0. rows[d] \in Row /\ d \in Drawers
    BY StoredRows
  <1>2. /\ Erased(d) \in Row /\ Erased(d).lineage = rows[d].lineage
        /\ Erased(d).flags = rows[d].flags /\ Erased(d).text = FALSE
        /\ Erased(d).room = rows[d].room /\ Erased(d).state = "tombstoned"
        /\ Erased(d).marks = rows[d].marks
    BY <1>0 DEF Row, Erased, RowStates
  <1>3. \A e \in Drawers : RowKept(e)
    BY <1>2, ReplacedRow
  <1>4. rows'[d] = Erased(d) /\ Erased(d) # None
    BY <1>0, <1>2, NoneAssumption DEF TypeOK
  <1>5. \A e \in Drawers : e # d => rows'[e] = rows[e]
    BY DEF TypeOK
  <1> QED BY <1>2, <1>3, <1>4, <1>5

\* Every step keeps every row that way.
LEMMA RowsKept == Shape /\ [Next]_vars => \A d \in Drawers : RowKept(d)
  <1> SUFFICES ASSUME Shape, [Next]_vars PROVE \A d \in Drawers : RowKept(d)
    OBVIOUS
  <1> USE DEF Shape
  <1>u. ASSUME rows' = rows PROVE \A d \in Drawers : RowKept(d)
    BY <1>u DEF RowKept, SameDrawer
  <1>s. \A d \in Drawers : rows[d] # None => d \in Stored
    BY DEF Stored
  <1>1. ASSUME NEW d \in Drawers, NEW f \in Frames, Capture(d, f) PROVE \A e \in Drawers : RowKept(e)
    <2>1. rows[d] = None /\ call.at = "idle" /\ audit[d] = Fresh /\ tunnels' = tunnels
      BY <1>1 DEF Capture, Traces, Begin
    <2>2. rows'[d] = Captured(f) /\ \A e \in Drawers : e # d => rows'[e] = rows[e]
      BY <1>1 DEF Capture, Write, TypeOK
    <2>3. rows'[d].state = "active"
      BY <2>2 DEF Captured
    <2>4. audit'[d] # Fresh
      BY <1>1 DEF Capture, Write, TypeOK, Logged, Captured, Fresh
    <2> QED BY <2>1, <2>2, <2>3, <2>4 DEF RowKept, SameDrawer
  <1>2. CASE AddTunnelFails
    BY <1>2 DEF AddTunnelFails, GiveUp, RowKept, SameDrawer, TypeOK
  <1>3. CASE SupersedePrior
    BY <1>3, MutateKept DEF SupersedePrior, CallShape, Superseding, Verbs, Target
  <1>4. ASSUME NEW d \in Drawers, NEW v \in Mutations, Mutate(d, v) PROVE \A e \in Drawers : RowKept(e)
    <2>1. v \in Verbs
      BY DEF Mutations, Verbs, Target
    <2> QED BY <1>4, <1>s, <2>1, MutateKept DEF Mutate
  <1>5. ASSUME NEW d \in Drawers, NEW marks \in SUBSET Marks, Correct(d, marks)
        PROVE \A e \in Drawers : RowKept(e)
    <2> DEFINE r == [rows[d] EXCEPT !.marks = marks]
    <2>1. d \in Stored /\ rows[d] \in Row
      BY <1>5, <1>s, StoredRows DEF Correct
    <2>2. r \in Row /\ r.lineage = rows[d].lineage /\ r.flags = rows[d].flags
           /\ r.text = rows[d].text /\ r.room = rows[d].room /\ r.state = rows[d].state
      BY <2>1 DEF Row
    <2>3. rows' = [rows EXCEPT ![d] = r]
      BY <1>5 DEF Correct, Write
    <2> HIDE DEF r
    <2> QED BY <2>1, <2>2, <2>3, ReplacedRow
  <1>6. ASSUME NEW d \in Drawers, NEW room \in Rooms, Reanchor(d, room)
        PROVE \A e \in Drawers : RowKept(e)
    <2> DEFINE r == [rows[d] EXCEPT !.room = room]
    <2>1. d \in Stored /\ rows[d] \in Row /\ May("reanchor")
      BY <1>6, <1>s, StoredRows DEF Reanchor
    <2>2. r \in Row /\ r.lineage = rows[d].lineage /\ r.flags = rows[d].flags
           /\ r.text = rows[d].text /\ r.state = rows[d].state
      BY <2>1 DEF Row
    <2>3. rows' = [rows EXCEPT ![d] = r]
      BY <1>6 DEF Reanchor
    <2> HIDE DEF r
    <2> QED BY <2>1, <2>2, <2>3, ReplacedRow
  <1>7. CASE WipeAllContent
    <2>1. \A d \in Stored : /\ rows'[d] = [rows[d] EXCEPT !.text = FALSE] /\ rows[d] \in Row
                            /\ rows[d] # None
      BY <1>7, StoredRows DEF WipeAllContent
    <2>2. \A d \in Stored : SameDrawer(d)
      BY <2>1 DEF SameDrawer, Row
    <2>3. \A d \in Drawers : rows[d] = None => rows'[d] = None
      BY <1>7 DEF WipeAllContent, Stored
    <2>4. \A d \in Stored : rows'[d] # None
      <3>1. \A d \in Stored : rows'[d] \in Row
        BY <2>1 DEF Row
      <3> QED BY <3>1, NoneAssumption
    <2> QED BY <2>2, <2>3, <2>4, <1>s DEF RowKept
  <1>8. ASSUME NEW d \in Drawers, Withdraw(d) PROVE \A e \in Drawers : RowKept(e)
    BY <1>8, <1>s, MutateKept DEF Withdraw, Verbs, Target
  <1>9. ASSUME NEW d \in Drawers, NEW op, Expunge(d, op) PROVE \A e \in Drawers : RowKept(e)
    BY <1>9, <1>s, ErasedKept DEF Expunge
  <1>10. CASE Scrub
    <2>1. PICK s \in call.todo : Scrubbed(s)
      BY <1>10, ScrubStep
    <2>2. s \in Stored
      BY DEF CallShape
    <2> QED BY <2>1, <2>2, <1>u, ErasedKept DEF Scrubbed
  <1>11. CASE AddTunnel \/ SupersedePriorFails \/ OrRoom \/ OrWing \/ OrFails
              \/ (\E d \in Drawers : SealExpunge(d) \/ Sweep(d))
              \/ Record \/ ScrubFails \/ ScrubReadFails \/ SealSibling \/ ScrubEnds \/ SealHead
    BY <1>11, <1>u DEF AddTunnel, SupersedePriorFails, OrRoom, OrWing, OrFails, SealExpunge, Sweep,
                       Record, ScrubFails, ScrubReadFails, SealSibling, ScrubEnds, SealHead
  <1>12. CASE RollRoom \/ RollWing \/ RollEstate \/ RollFails \/ Return
              \/ (\E ds \in SUBSET Stored : RollupRooms(ds)) \/ RecomputeAll \/ Reopen
              \/ UNCHANGED vars
    BY <1>12, <1>u DEF RollRoom, RollWing, RollEstate, RollFails, Return, RollupRooms, RecomputeAll,
                       Reopen, vars
  <1> QED
    BY <1>1, <1>2, <1>3, <1>4, <1>5, <1>6, <1>7, <1>8, <1>9, <1>10, <1>11, <1>12 DEF Next

(***************************************************************************)
(* Shape is an invariant                                                   *)
(***************************************************************************)

\* The steps that go on with a call.
GoesOn ==
  \/ \E d \in Drawers, f \in Frames : Capture(d, f)
  \/ AddTunnel \/ SupersedePrior \/ OrRoom
  \/ \E d \in Drawers : Withdraw(d)
  \/ \E d \in Drawers, op \in {"expunge", "unsealed"} : Expunge(d, op)
  \/ Record \/ Scrub \/ ScrubFails \/ ScrubReadFails \/ SealSibling \/ ScrubEnds \/ SealHead
  \/ RollRoom \/ RollWing \/ RollEstate \/ RollFails
  \/ \E ds \in SUBSET Stored : RollupRooms(ds)

\* Every other step leaves no call under way.
LEMMA EndsOrGoesOn == CallShape /\ Next => GoesOn \/ call' = Idle
  <1> SUFFICES ASSUME CallShape, Next, ~GoesOn PROVE call' = Idle
    OBVIOUS
  <1>1. CASE AddTunnelFails \/ SupersedePriorFails \/ OrWing \/ OrFails \/ Return \/ Reopen
    BY <1>1 DEF AddTunnelFails, SupersedePriorFails, OrWing, OrFails, Return, Reopen, GiveUp
  <1>2. CASE \/ \E d \in Drawers, v \in Mutations : Mutate(d, v)
             \/ \E d \in Drawers, marks \in SUBSET Marks : Correct(d, marks)
             \/ \E d \in Drawers, r \in Rooms : Reanchor(d, r)
             \/ WipeAllContent
             \/ \E d \in Drawers : SealExpunge(d) \/ Sweep(d)
             \/ RecomputeAll
    BY <1>2 DEF Mutate, Correct, Reanchor, WipeAllContent, SealExpunge, Sweep, RecomputeAll,
                Begin, CallShape
  <1> QED BY <1>1, <1>2 DEF Next, GoesOn

\* A call that begins or goes on finds its drawers stored.
LEMMA CallShapeKept == Shape /\ [Next]_vars => CallShape'
  <1> SUFFICES ASSUME Shape, [Next]_vars PROVE CallShape'
    OBVIOUS
  <1> USE DEF Shape
  <1>i. CASE call' = Idle
    BY <1>i DEF CallShape, Idle, Superseding, Expunging
  <1>u. CASE UNCHANGED vars
    BY <1>u DEF CallShape, vars, Stored, Buried
  <1>c. call \in CallType
    BY DEF TypeOK, CallType
  <1>k. ASSUME call' # Idle
        PROVE  \A d \in Stored : /\ d \in Stored' /\ rows'[d].lineage = rows[d].lineage
                                 /\ Buried(d) => Buried(d)'
    BY <1>k, RowsKept, StoredRows DEF RowKept, SameDrawer, Stored, Buried
  <1>1. ASSUME NEW d \in Drawers, NEW f \in Frames, Capture(d, f) PROVE CallShape'
    <2>1. CASE call' = [Idle EXCEPT !.at = "or_room", !.op = "capture", !.d = d]
      <3>1. Captured(f) \in Row
        BY EstateAssumption DEF Captured, Row, RowStates
      <3>2. rows'[d] # None
        BY <1>1, <3>1, NoneAssumption DEF Capture, Write, TypeOK
      <3> QED BY <2>1, <3>2 DEF CallShape, Idle, Superseding, Expunging, Stored
    <2>2. ASSUME NEW p \in Predecessors(f.lineage),
                 call' = [Idle EXCEPT !.at = "tunnel", !.op = "capture", !.d = d, !.other = p]
          PROVE CallShape'
      <3>0. Captured(f) \in Row /\ Captured(f).lineage = f.lineage
        BY EstateAssumption DEF Captured, Row, RowStates
      <3>1. rows'[d] # None /\ rows'[d].lineage = f.lineage
        BY <1>1, <3>0, NoneAssumption DEF Capture, Write, TypeOK
      <3>2. rows[d] = None
        BY <1>1 DEF Capture, Traces
      <3>3. p \in Drawers /\ rows[p] # None /\ rows[p].lineage = f.lineage
            /\ rows[p].state \in {"active", "contested"}
        BY DEF Predecessors, Chain, Stored
      <3>4. p # d /\ rows'[p] = rows[p]
        BY <1>1, <3>2, <3>3 DEF Capture, Write, TypeOK
      <3>5. /\ call'.at = "tunnel" /\ call'.op = "capture" /\ call'.d = d /\ call'.other = p
            /\ call'.todo = {} /\ call'.chain = {}
        BY <2>2 DEF Idle
      <3> QED BY <3>1, <3>3, <3>4, <3>5 DEF CallShape, Superseding, Expunging, Stored
    <2> QED BY <1>1, <2>1, <2>2 DEF Capture
  <1>2. CASE AddTunnel
    <2>1. /\ call'.at = "supersede" /\ call'.d = call.d /\ call'.other = call.other
          /\ call'.op = call.op /\ call'.todo = call.todo /\ call'.chain = call.chain
          /\ call.at = "tunnel" /\ rows' = rows
      BY <1>2, <1>c DEF AddTunnel, Go, CallType
    <2> QED BY <2>1 DEF CallShape, Superseding, Expunging, Stored, Buried
  <1>3. CASE SupersedePrior
    <2>1. /\ call'.at = "or_room" /\ call'.d = call.d /\ call'.other = call.other
          /\ call'.op = call.op /\ call'.todo = call.todo /\ call'.chain = call.chain
          /\ call.at = "supersede"
      BY <1>3, <1>c DEF SupersedePrior, Go, CallType
    <2>2. call' # Idle
      BY <2>1 DEF Idle
    <2> QED BY <2>1, <2>2, <1>k DEF CallShape, Superseding, Expunging
  <1>4. CASE OrRoom
    <2>1. /\ call'.at = "or_wing" /\ call'.d = call.d
          /\ call'.op = call.op /\ call'.todo = call.todo /\ call'.chain = call.chain
          /\ call.at = "or_room" /\ rows' = rows
      BY <1>4, <1>c DEF OrRoom, Go, CallType
    <2> QED BY <2>1 DEF CallShape, Superseding, Expunging, Stored, Buried
  <1>5. ASSUME NEW d \in Drawers, Withdraw(d) PROVE CallShape'
    <2>1. /\ call'.at = "roll_room" /\ call'.op = "withdraw" /\ call'.todo = {} /\ call'.chain = {d}
      BY <1>5 DEF Withdraw, Idle
    <2>2. call' # Idle /\ d \in Stored
      BY <1>5, <2>1 DEF Idle, Withdraw, Stored
    <2> QED BY <2>1, <2>2, <1>k DEF CallShape, Superseding, Expunging
  <1>6. ASSUME NEW d \in Drawers, NEW op \in {"expunge", "unsealed"}, Expunge(d, op) PROVE CallShape'
    <2> DEFINE chain == Chain(rows[d].lineage)
    <2>1. call' = [Idle EXCEPT !.at = "record", !.op = op, !.d = d, !.other = d, !.chain = chain,
                               !.todo = chain \ {d}, !.rooms = AffectedRooms(chain)]
      BY <1>6 DEF Expunge
    <2>2. chain \subseteq Stored /\ d \in Stored
      BY <1>6 DEF Chain, Expunge, Stored
    <2>3. rows'[d].state = "tombstoned"
      BY <1>6, <2>2, ErasedKept DEF Expunge
    <2> HIDE DEF chain
    <2>4. /\ call'.at = "record" /\ call'.op = op /\ call'.d = d /\ call'.other = d
          /\ call'.chain = chain /\ call'.todo = chain \ {d}
      BY <2>1 DEF Idle
    <2>5. call' # Idle
      BY <2>4 DEF Idle
    <2> QED BY <2>2, <2>3, <2>4, <2>5, <1>k DEF CallShape, Superseding, Expunging, Buried
  <1>7. CASE Scrub \/ ScrubFails
    <2>1. PICK s \in call.todo : Passed(s)
      BY <1>7, ScrubStep, ScrubFailsStep DEF Scrubbed
    <2>2. /\ call'.at \in {"seal_sibling", "record"} /\ call'.op = call.op /\ call'.d = call.d
          /\ call'.other = s /\ call'.chain = call.chain /\ call'.todo = call.todo \ {s}
          /\ call.at = "scrub"
      BY <1>7, <1>c, <2>1 DEF Passed, CallType, Scrub, ScrubFails
    <2>3. call' # Idle
      BY <2>2 DEF Idle
    <2>4. call.d \in Stored /\ Buried(call.d) /\ call.todo \subseteq Stored /\ call.chain \subseteq Stored
      BY <2>2 DEF CallShape, Expunging
    <2> QED BY <2>2, <2>3, <2>4, <1>k DEF CallShape, Superseding, Expunging
  <1>8. CASE Record \/ ScrubReadFails \/ SealSibling \/ ScrubEnds \/ SealHead
    <2>0. rows' = rows /\ call.at \in Expunging
      BY <1>8 DEF Record, ScrubReadFails, SealSibling, ScrubEnds, SealHead, Expunging
    <2>1. CASE call' # Idle
      <3> DEFINE Ahead ==
            /\ call'.at \in Expunging \cup {"roll_room"} /\ call'.op = call.op /\ call'.d = call.d
            /\ call'.other = call.other /\ call'.chain = call.chain /\ call'.todo \subseteq call.todo
      <3>1. Ahead
        <4>1. ASSUME NEW a \in Expunging \cup {"roll_room"}, call' = [call EXCEPT !.at = a]
              PROVE  Ahead
          BY <4>1, <1>c DEF CallType
        <4>2. ASSUME NEW s, call' = [call EXCEPT !.todo = @ \ {s}]
              PROVE  Ahead
          BY <4>2, <1>c, <2>0 DEF CallType
        <4> HIDE DEF Ahead
        <4> QED BY <1>8, <2>1, <4>1, <4>2 DEF Record, ScrubReadFails, SealSibling, ScrubEnds, SealHead,
                                        Go, GiveUp, Expunging
      <3> QED BY <2>0, <3>1 DEF CallShape, Superseding, Expunging, Stored, Buried
    <2> QED BY <2>1, <1>i
  <1>9. CASE RollRoom \/ RollWing \/ RollEstate \/ RollFails
    <2>0. rows' = rows
      BY <1>9 DEF RollRoom, RollWing, RollEstate, RollFails
    <2>1. CASE RollRoom
      <3>1. PICK r \in call.rooms : call' = [call EXCEPT !.at = "roll_wing", !.rooms = @ \ {r}, !.room = r]
        BY <2>1 DEF RollRoom
      <3>2. /\ call'.at = "roll_wing" /\ call'.op = call.op /\ call'.d = call.d /\ call'.room = r
            /\ call'.chain = call.chain /\ call'.todo = call.todo /\ r \in Rooms
        BY <3>1, <1>c DEF CallType
      <3> QED BY <2>0, <3>2 DEF CallShape, Superseding, Expunging, Stored, Buried
    <2>2. ASSUME NEW a \in {"roll_room", "roll_estate"}, call' = [call EXCEPT !.at = a] PROVE CallShape'
      <3>1. /\ call'.at = a /\ call'.op = call.op /\ call'.d = call.d
            /\ call'.chain = call.chain /\ call'.todo = call.todo
        BY <2>2, <1>c DEF CallType
      <3> QED BY <2>0, <3>1 DEF CallShape, Superseding, Expunging, Stored, Buried
    <2>3. ASSUME NEW r, call' = [call EXCEPT !.rooms = @ \ {r}], call.at = "roll_room" PROVE CallShape'
      <3>1. /\ call'.at = "roll_room" /\ call'.op = call.op /\ call'.d = call.d
            /\ call'.chain = call.chain /\ call'.todo = call.todo
        BY <2>3, <1>c DEF CallType
      <3> QED BY <2>0, <3>1 DEF CallShape, Superseding, Expunging, Stored, Buried
    <2> QED BY <1>9, <1>i, <2>1, <2>2, <2>3 DEF RollWing, RollEstate, RollFails, Go, GiveUp
  <1>10. ASSUME NEW ds \in SUBSET Stored, RollupRooms(ds) PROVE CallShape'
    <2>1. /\ call'.at = "roll_room" /\ call'.op = "rollup" /\ call'.todo = {} /\ call'.chain = {}
      BY <1>10 DEF RollupRooms, Idle
    <2> QED BY <2>1 DEF CallShape, Superseding, Expunging
  <1> QED
    BY <1>i, <1>u, <1>1, <1>2, <1>3, <1>4, <1>5, <1>6, <1>7, <1>8, <1>9, <1>10, EndsOrGoesOn
    DEF GoesOn

\* An audit event is never taken back.
LEMMA AuditGrows == Shape /\ [Next]_vars => \A d \in Drawers : audit'[d] = Fresh => audit[d] = Fresh
  <1> SUFFICES ASSUME Shape, [Next]_vars
               PROVE  \A d \in Drawers : audit'[d] = Fresh => audit[d] = Fresh
    OBVIOUS
  <1> USE DEF Shape
  <1>w. ASSUME NEW d, NEW x, x # Fresh, audit' = [audit EXCEPT ![d] = x]
        PROVE  \A e \in Drawers : audit'[e] = Fresh => audit[e] = Fresh
    BY <1>w DEF TypeOK
  <1>l. \A r \in Row : Logged(r) # Fresh
    BY DEF Logged, Fresh, Row, RowStates
  <1>s. \A d : Sealed(d) # Fresh
    BY DEF Sealed, Fresh
  <1>t. \A d \in Stored, v \in Verbs :
          [rows[d] EXCEPT !.state = Target[v]] \in Row
    <2>1. \A v \in Verbs : Target[v] \in RowStates
      BY DEF Verbs, Target, RowStates
    <2> QED BY <2>1, StoredRows DEF Row
  <1>1. ASSUME NEW d \in Drawers, NEW f \in Frames, Capture(d, f)
        PROVE  \A e \in Drawers : audit'[e] = Fresh => audit[e] = Fresh
    <2>1. Captured(f) \in Row
      BY EstateAssumption DEF Captured, Row, RowStates
    <2> QED BY <1>1, <2>1, <1>w, <1>l DEF Capture, Write
  <1>2. CASE SupersedePrior
    BY <1>2, <1>w, <1>l, <1>t
    DEF SupersedePrior, MutateState, Write, CallShape, Superseding, Verbs, Target
  <1>3. ASSUME NEW d \in Drawers, NEW v \in Mutations, Mutate(d, v)
        PROVE  \A e \in Drawers : audit'[e] = Fresh => audit[e] = Fresh
    <2>1. v \in Verbs /\ d \in Stored
      BY <1>3 DEF Mutate, Mutations, Verbs, Target, Stored
    <2> QED BY <1>3, <2>1, <1>w, <1>l, <1>t DEF Mutate, MutateState, Write
  <1>4. ASSUME NEW d \in Drawers, NEW marks \in SUBSET Marks, Correct(d, marks)
        PROVE  \A e \in Drawers : audit'[e] = Fresh => audit[e] = Fresh
    <2>1. [rows[d] EXCEPT !.marks = marks] \in Row
      BY <1>4, StoredRows DEF Correct, Row, Stored
    <2> QED BY <1>4, <2>1, <1>w, <1>l DEF Correct, Write
  <1>5. ASSUME NEW d \in Drawers, Withdraw(d)
        PROVE  \A e \in Drawers : audit'[e] = Fresh => audit[e] = Fresh
    <2>1. "retract" \in Verbs /\ d \in Stored
      BY <1>5 DEF Withdraw, Verbs, Target, Stored
    <2> QED BY <1>5, <2>1, <1>w, <1>l, <1>t DEF Withdraw, MutateState, Write
  <1>6. CASE (\E d \in Drawers : SealExpunge(d) \/ Sweep(d)) \/ SealSibling \/ SealHead
    BY <1>6, <1>w, <1>s DEF SealExpunge, Sweep, SealSibling, SealHead, SealRow
  <1>7. CASE audit' = audit
    BY <1>7
  <1>8. CASE AddTunnel \/ AddTunnelFails \/ SupersedePriorFails \/ OrRoom \/ OrWing \/ OrFails
              \/ (\E d \in Drawers, r \in Rooms : Reanchor(d, r)) \/ WipeAllContent
              \/ (\E d \in Drawers, op \in {"expunge", "unsealed"} : Expunge(d, op))
              \/ Record \/ Scrub \/ ScrubFails \/ ScrubReadFails \/ ScrubEnds
    BY <1>8, <1>7 DEF AddTunnel, AddTunnelFails, SupersedePriorFails, OrRoom, OrWing, OrFails,
                      Reanchor, WipeAllContent, Expunge, Record, Scrub, ScrubFails,
                      ScrubReadFails, ScrubEnds
  <1>9. CASE RollRoom \/ RollWing \/ RollEstate \/ RollFails \/ Return
              \/ (\E ds \in SUBSET Stored : RollupRooms(ds)) \/ RecomputeAll \/ Reopen
              \/ UNCHANGED vars
    BY <1>9, <1>7 DEF RollRoom, RollWing, RollEstate, RollFails, Return, RollupRooms, RecomputeAll,
                       Reopen, vars
  <1> QED BY <1>1, <1>2, <1>3, <1>4, <1>5, <1>6, <1>8, <1>9 DEF Next

\* The ledger, the lists of the call's outcomes, the roots and the tunnels take in stored
\* drawers only.
LEMMA TracesGrow ==
  Shape /\ [Next]_vars => \A d \in Drawers \ Stored : Traceless(d) => Traceless(d)'
  <1> SUFFICES ASSUME Shape, [Next]_vars, NEW d \in Drawers \ Stored, Traceless(d)
               PROVE  Traceless(d)'
    OBVIOUS
  <1> USE DEF Shape
  <1>r. roots \in [Nodes -> SUBSET Drawers] /\ \A n \in Nodes : d \notin roots[n]
    BY DEF TypeOK, Traceless
  <1>o. ASSUME UNCHANGED <<ledger, held, acked, gone, tunnels>>, \A n \in Nodes : d \notin roots'[n]
        PROVE  Traceless(d)'
    BY <1>o DEF Traceless
  <1>c. \A r : d \notin Committed(r)
    BY DEF Committed
  <1>1. CASE AddTunnel
    BY <1>1 DEF AddTunnel, Traceless, CallShape, Superseding
  <1>2. CASE OrWing
    BY <1>2 DEF OrWing, Traceless, CallShape
  <1>3. CASE \/ \E e \in Drawers, v \in Mutations : Mutate(e, v)
             \/ \E e \in Drawers : SealExpunge(e)
    BY <1>3 DEF Mutate, SealExpunge, Traceless
  <1>4. CASE Record
    BY <1>4 DEF Record, Traceless, CallShape, Expunging
  <1>5. CASE Return
    BY <1>5 DEF Return, Traceless, CallShape
  <1>6. CASE Reopen
    BY <1>6 DEF Reopen, Traceless
  <1>7. CASE RollRoom
    BY <1>7, <1>r, <1>o, <1>c DEF RollRoom
  <1>8. CASE RollWing
    <2>1. d \notin Below(WingOf[call.room])
      BY <1>r DEF Below, Nodes
    <2> QED BY <1>8, <1>r, <1>o, <2>1 DEF RollWing
  <1>9. CASE RollEstate
    <2>1. d \notin UNION {roots[w] : w \in Wings}
      BY <1>r DEF Nodes
    <2> QED BY <1>9, <1>r, <1>o, <2>1 DEF RollEstate
  <1>10. CASE RecomputeAll
    <2>1. \A n : d \notin UNION {Committed(r) : r \in {x \in Rooms : n \in {x, WingOf[x], Whole}}}
      BY <1>c
    <2>2. \A n \in Nodes : d \notin roots'[n]
      BY <1>10, <1>r, <2>1 DEF RecomputeAll
    <2> QED BY <1>10, <1>o, <2>2 DEF RecomputeAll
  <1>11. CASE UNCHANGED <<ledger, held, acked, gone, tunnels, roots>>
    BY <1>11 DEF Traceless
  <1>12. CASE (\E e \in Drawers, f \in Frames : Capture(e, f)) \/ AddTunnelFails \/ SupersedePrior
              \/ SupersedePriorFails \/ OrRoom \/ OrFails
              \/ (\E e \in Drawers, marks \in SUBSET Marks : Correct(e, marks))
              \/ (\E e \in Drawers, r \in Rooms : Reanchor(e, r)) \/ WipeAllContent
              \/ (\E e \in Drawers : Withdraw(e) \/ Sweep(e))
    BY <1>11, <1>12 DEF Capture, AddTunnelFails, SupersedePrior, SupersedePriorFails, OrRoom, OrFails,
                        Correct, Reanchor, WipeAllContent, Withdraw, Sweep
  <1>13. CASE (\E e \in Drawers, op \in {"expunge", "unsealed"} : Expunge(e, op))
              \/ Scrub \/ ScrubFails \/ ScrubReadFails \/ SealSibling \/ ScrubEnds \/ SealHead
              \/ RollFails \/ (\E ds \in SUBSET Stored : RollupRooms(ds)) \/ UNCHANGED vars
    BY <1>11, <1>13 DEF Expunge, Scrub, ScrubFails, ScrubReadFails, SealSibling, ScrubEnds, SealHead,
                        RollFails, RollupRooms, vars
  <1> QED BY <1>1, <1>2, <1>3, <1>4, <1>5, <1>6, <1>7, <1>8, <1>9, <1>10, <1>12, <1>13 DEF Next

\* The step each action leaves a call at.
LEMMA StepAt ==
  ASSUME Shape
  PROVE  /\ \A d \in Drawers, f \in Frames :
              Capture(d, f) => call'.at \in {"or_room", "tunnel"} /\ call'.d = d
         /\ AddTunnel => call'.at = "supersede"
         /\ SupersedePrior => call'.at = "or_room"
         /\ OrRoom => call'.at = "or_wing"
         /\ \A d \in Drawers : Withdraw(d) => call'.at = "roll_room"
         /\ \A d \in Drawers, op \in {"expunge", "unsealed"} : Expunge(d, op) => call'.at = "record"
         /\ Record => call'.at = "scrub"
         /\ Scrub \/ ScrubFails => call'.at \in {"record", "seal_sibling"}
         /\ ScrubReadFails => call' = Idle \/ call'.at = "scrub"
         /\ SealSibling => call'.at = "record"
         /\ ScrubEnds => call'.at \in {"seal", "roll_room"}
         /\ SealHead => call' = Idle \/ call'.at = "roll_room"
         /\ RollRoom => call'.at = "roll_wing"
         /\ RollWing => call'.at = "roll_estate"
         /\ RollEstate => call'.at = "roll_room"
         /\ RollFails => call' = Idle \/ call'.at = "roll_room"
         /\ \A ds \in SUBSET Stored : RollupRooms(ds) => call'.at = "roll_room"
  <1> USE DEF Shape
  <1>c. call \in CallType
    BY DEF TypeOK, CallType
  <1>g. \A s \in Steps : [call EXCEPT !.at = s].at = s
    BY <1>c DEF CallType
  <1>1. ASSUME NEW d \in Drawers, NEW f \in Frames, Capture(d, f)
        PROVE  call'.at \in {"or_room", "tunnel"} /\ call'.d = d
    BY <1>1 DEF Capture, Idle
  <1>2. /\ AddTunnel => call'.at = "supersede"
        /\ SupersedePrior => call'.at = "or_room"
        /\ OrRoom => call'.at = "or_wing"
        /\ Record => call'.at = "scrub"
        /\ SealSibling => call'.at = "record"
        /\ SealHead => call' = Idle \/ call'.at = "roll_room"
        /\ RollWing => call'.at = "roll_estate"
        /\ RollEstate => call'.at = "roll_room"
    BY <1>g DEF AddTunnel, SupersedePrior, OrRoom, Record, SealSibling, SealHead, RollWing, RollEstate,
                Go, GiveUp, Steps
  <1>3. ScrubEnds => call'.at \in {"seal", "roll_room"}
    BY <1>g DEF ScrubEnds, Go, Steps
  <1>4. ASSUME Scrub \/ ScrubFails PROVE call'.at \in {"record", "seal_sibling"}
    <2>1. PICK s \in call.todo : Passed(s)
      BY <1>4, ScrubStep, ScrubFailsStep DEF Scrubbed
    <2> QED BY <1>c, <2>1 DEF Passed, CallType
  <1>5. ScrubReadFails => call' = Idle \/ call'.at = "scrub"
    BY <1>c DEF ScrubReadFails, GiveUp, CallType
  <1>6. RollRoom => call'.at = "roll_wing"
    BY <1>c DEF RollRoom, CallType
  <1>7. RollFails => call' = Idle \/ call'.at = "roll_room"
    BY <1>c, <1>g DEF RollFails, Go, GiveUp, CallType, Steps
  <1>8. \A d \in Drawers : Withdraw(d) => call'.at = "roll_room"
    BY DEF Withdraw, Idle
  <1>9. ASSUME NEW d \in Drawers, NEW op \in {"expunge", "unsealed"}, Expunge(d, op)
        PROVE  call'.at = "record"
    <2> DEFINE chain == Chain(rows[d].lineage)
    <2>1. call' = [Idle EXCEPT !.at = "record", !.op = op, !.d = d, !.other = d, !.chain = chain,
                               !.todo = chain \ {d}, !.rooms = AffectedRooms(chain)]
      BY <1>9 DEF Expunge
    <2> HIDE DEF chain
    <2> QED BY <2>1 DEF Idle
  <1>10. \A ds \in SUBSET Stored : RollupRooms(ds) => call'.at = "roll_room"
    BY DEF RollupRooms, Idle
  <1> QED BY <1>1, <1>2, <1>3, <1>4, <1>5, <1>6, <1>7, <1>8, <1>9, <1>10

\* What may happen does not change.
LEMMA DeployFixed == [Next]_vars => deploy' = deploy
  BY DEF Next, Capture, AddTunnel, AddTunnelFails, SupersedePrior, SupersedePriorFails, OrRoom,
         OrWing, OrFails, Mutate, Correct, Reanchor, WipeAllContent, Withdraw, SealExpunge,
         Sweep, Expunge, Record, Scrub, ScrubFails, ScrubReadFails, SealSibling, ScrubEnds,
         SealHead, RollRoom, RollWing, RollEstate, RollFails, Return, RollupRooms, RecomputeAll,
         Reopen, vars

\* A capture waits to write its tunnel only just after its row.
LEMMA TunnelIsFirst ==
  ASSUME Shape, [Next]_vars, call'.at = "tunnel"
  PROVE  \/ \E d \in Drawers, f \in Frames : Capture(d, f) /\ call'.d = d
         \/ UNCHANGED vars
  BY StepAt, EndsOrGoesOn DEF GoesOn, Idle, Shape

\* What a call traces is stored, and what is held is buried.
LEMMA TracesKept == Shape /\ [Next]_vars => Traces'
  <1> SUFFICES ASSUME Shape, [Next]_vars PROVE Traces'
    OBVIOUS
  <1> USE DEF Shape
  <1>1. ASSUME NEW d \in Drawers, audit'[d] = Fresh PROVE rows'[d] = None /\ Traceless(d)'
    <2>1. audit[d] = Fresh
      BY <1>1, AuditGrows
    <2>2. rows[d] = None /\ Traceless(d)
      BY <2>1 DEF Traces
    <2>3. Traceless(d)'
      BY <2>2, TracesGrow DEF Stored
    <2>4. rows'[d] = None
      BY <1>1, <2>2, RowsKept DEF RowKept
    <2> QED BY <2>3, <2>4
  <1>2. ASSUME call'.at = "tunnel" PROVE Traceless(call.d)'
    <2>1. CASE UNCHANGED vars
      BY <1>2, <2>1 DEF Traces, Traceless, vars
    <2>2. ASSUME NEW d \in Drawers, NEW f \in Frames, Capture(d, f), call'.d = d
          PROVE  Traceless(call.d)'
      <3>1. Traceless(d) /\ UNCHANGED <<ledger, held, acked, gone, tunnels, roots>>
        BY <2>2 DEF Capture, Traces
      <3> QED BY <2>2, <3>1 DEF Traceless
    <2> QED BY <1>2, <2>1, <2>2, TunnelIsFirst
  <1>3. ASSUME NEW d \in held' PROVE rows'[d] # None /\ Buried(d)'
    <2>1. d \in held \/ (call.op = "unsealed" /\ d = call.d)
      <3>1. held' = held \/ held' \subseteq held \/ Return
        BY DEF Next, Capture, AddTunnel, AddTunnelFails, SupersedePrior, SupersedePriorFails, OrRoom,
               OrWing, OrFails, Mutate, Correct, Reanchor, WipeAllContent, Withdraw, SealExpunge,
               Sweep, Expunge, Record, Scrub, ScrubFails, ScrubReadFails, SealSibling, ScrubEnds,
               SealHead, RollRoom, RollWing, RollEstate, RollFails, RollupRooms, RecomputeAll,
               Reopen, vars
      <3> QED BY <1>3, <3>1 DEF Return
    <2>2. d \in Drawers /\ rows[d] # None /\ Buried(d)
      BY <2>1, StoredRows DEF Traces, CallShape, TypeOK
    <2>3. rows'[d] # None
      <3> SUFFICES ASSUME rows'[d] = None PROVE FALSE
        OBVIOUS
      <3>1. call.at = "tunnel" /\ d = call.d
        BY <2>2, RowsKept DEF RowKept
      <3>2. d \notin held
        BY <3>1 DEF Traces, Traceless
      <3>3. call.op = "unsealed"
        BY <2>1, <3>2
      <3> QED BY <3>1, <3>3 DEF CallShape, Superseding
    <2> QED BY <2>2, <2>3, RowsKept DEF RowKept, SameDrawer, Buried
  <1> QED BY <1>1, <1>2, <1>3 DEF Traces

\* The state keeps its shape.
LEMMA ShapeInvariant == Spec => []Shape
  <1>1. Init => Shape
    <2> SUFFICES ASSUME Init PROVE Shape
      OBVIOUS
    <2>1. deploy.calls \in Nat
      BY EstateAssumption DEF Init
    <2>2. Fresh \in AuditType
      BY DEF Fresh, AuditType
    <2>3. TypeOK
      BY <2>1, <2>2, IdleType DEF Init, TypeOK, AuditType, CallType
    <2>4. CallShape
      BY DEF Init, CallShape, Idle, Superseding, Expunging
    <2>5. Traces
      BY DEF Init, Traces, Traceless, Idle, Fresh
    <2> QED BY <2>3, <2>4, <2>5 DEF Shape
  <1>2. Shape /\ [Next]_vars => Shape'
    BY StepType, CallShapeKept, TracesKept DEF Shape
  <1> QED BY <1>1, <1>2, PTL DEF Spec

\* The estate's state stays well formed: no call reads a drawer that is not there
\* (add_drawer_with_cascade, mutate_state, expunge_gated, rollup_merkle_roots).
THEOREM TypeCorrect == Spec => []TypeOK
  BY ShapeInvariant, PTL DEF Shape

(***************************************************************************)
(* Recall that prunes containers                                           *)
(***************************************************************************)

\* The rebuild on opening covers every drawer that is not tombstoned.
LEMMA RebuiltCovers ==
  ASSUME TypeOK, NEW d \in Stored, ~Buried(d)
  PROVE  /\ rows[d].room \in Rebuilt.listed
         /\ rows[d].flags \subseteq Rebuilt.flags[rows[d].room]
         /\ rows[d].flags \subseteq Rebuilt.flags[WingOf[rows[d].room]]
  <1> DEFINE live == {e \in Stored : ~Buried(e)}
             full == AffectedRooms(live)
             inRoom == [r \in Rooms |->
                   IF r \in full THEN UNION {rows[x].flags : x \in {e \in live : rows[e].room = r}}
                                 ELSE fps.flags[r]]
             listed == fps.listed \cup full
             wings == {WingOf[r] : r \in full}
             room == rows[d].room
             sum(c) == UNION {inRoom[r] : r \in {x \in listed \cap Rooms : WingOf[x] = c}}
  <1>1. room \in Rooms /\ WingOf[room] \in Wings /\ WingOf[room] \notin Rooms
    BY StoredRows, EstateAssumption, NodesAssumption DEF Row
  <1>2. room \in full
    BY DEF AffectedRooms
  <1>3. WingOf[room] \in wings /\ room \in listed
    BY <1>2
  <1>4. rows[d].flags \subseteq inRoom[room]
    BY <1>1, <1>2
  <1>7. Rebuilt = [listed |-> listed \cup wings,
                   flags |-> [c \in Rooms \cup Wings |->
                      IF c \in Rooms THEN inRoom[c]
                      ELSE IF c \in wings THEN sum(c)
                      ELSE fps.flags[c]]]
    BY DEF Rebuilt
  <1> HIDE DEF wings, listed, inRoom
  <1>5. inRoom[room] \subseteq sum(WingOf[room])
    BY <1>1, <1>3
  <1> HIDE DEF sum, room
  <1>8. Rebuilt.listed = listed \cup wings /\ Rebuilt.flags[room] = inRoom[room]
        /\ Rebuilt.flags[WingOf[room]] = sum(WingOf[room])
    BY <1>1, <1>3, <1>7
  <1>9. room \in Rebuilt.listed /\ rows[d].flags \subseteq Rebuilt.flags[room]
        /\ rows[d].flags \subseteq Rebuilt.flags[WingOf[room]]
    BY <1>3, <1>4, <1>5, <1>8
  <1> QED BY <1>9 DEF room

\* or_into widens the fingerprint of one container and no other, to the drawer's flags.
LEMMA OredInCovers ==
  ASSUME TypeOK, NEW d \in Stored, NEW c \in Rooms \cup Wings, fps' = OredIn(c, d)
  PROVE  /\ fps.listed \subseteq fps'.listed /\ c \in fps'.listed
         /\ \A x \in Rooms \cup Wings : fps.flags[x] \subseteq fps'.flags[x]
         /\ rows[d].flags \subseteq fps'.flags[c]
  BY DEF OredIn, TypeOK

\* The containers of a captured drawer carry its flags.
LEMMA PruneKept == Shape /\ PruneInv /\ [Next]_vars => PruneInv'
  <1> SUFFICES ASSUME Shape, PruneInv, [Next]_vars PROVE PruneInv'
    OBVIOUS
  <1> USE DEF Shape
  <1>d. deploy' = deploy
    BY DeployFixed
  <1> SUFFICES ASSUME ~May("reanchor") PROVE PruneInv'
    BY <1>d DEF PruneInv, May
  <1>r. \A d \in Stored : rows[d].room \in Rooms /\ WingOf[rows[d].room] \in Wings
    BY StoredRows, EstateAssumption DEF Row
  <1>k. \A d \in acked : rows'[d] # None /\ ~Buried(d)' =>
          /\ d \in Stored /\ ~Buried(d)
          /\ rows'[d].room = rows[d].room /\ rows'[d].flags = rows[d].flags
    BY RowsKept DEF RowKept, SameDrawer, Traces, Traceless, TypeOK, Stored, Buried
  <1>1. CASE OrRoom
    <2>1. call.at = "or_room" /\ call.d \in Stored /\ fps' = OredIn(rows[call.d].room, call.d)
          /\ UNCHANGED <<rows, acked>> /\ call'.d = call.d
      BY <1>1 DEF OrRoom, CallShape, Go, TypeOK
    <2>2. /\ fps.listed \subseteq fps'.listed /\ rows[call.d].room \in fps'.listed
          /\ \A x \in Rooms \cup Wings : fps.flags[x] \subseteq fps'.flags[x]
          /\ rows[call.d].flags \subseteq fps'.flags[rows[call.d].room]
      BY <2>1, <1>r, OredInCovers
    <2> QED BY <2>1, <2>2, <1>r, <1>k, <1>d DEF PruneInv, Covered, Buried
  <1>2. CASE OrWing
    <2>1. /\ call.at = "or_wing" /\ call.d \in Stored /\ fps' = OredIn(WingOf[rows[call.d].room], call.d)
          /\ rows' = rows /\ acked' = acked \cup {call.d} /\ call'.at = "idle"
      BY <1>2 DEF OrWing, CallShape, Idle
    <2>2. /\ fps.listed \subseteq fps'.listed
          /\ \A x \in Rooms \cup Wings : fps.flags[x] \subseteq fps'.flags[x]
          /\ rows[call.d].flags \subseteq fps'.flags[WingOf[rows[call.d].room]]
      BY <2>1, <1>r, OredInCovers
    <2> QED BY <2>1, <2>2, <1>r, <1>k, <1>d DEF PruneInv, Covered, Buried
  <1>3. CASE Reopen
    <2>1. rows' = rows /\ acked' = acked /\ call'.at = "idle" /\ fps' = Rebuilt
      BY <1>3 DEF Reopen, Idle
    <2> QED BY <2>1, <1>k, RebuiltCovers DEF PruneInv, Covered, Buried
  <1>4. CASE ~OrRoom /\ ~OrWing /\ ~Reopen
    <2>1. fps' = fps /\ acked' = acked
      BY <1>4
      DEF Next, Capture, AddTunnel, AddTunnelFails, SupersedePrior, SupersedePriorFails, OrFails,
           Mutate, Correct, Reanchor, WipeAllContent, Withdraw, SealExpunge, Sweep, Expunge, Record,
           Scrub, ScrubFails, ScrubReadFails, SealSibling, ScrubEnds, SealHead, RollRoom, RollWing,
           RollEstate, RollFails, Return, RollupRooms, RecomputeAll, vars
    <2>2. call'.at = "or_wing" => UNCHANGED vars
      BY <1>4, StepAt, EndsOrGoesOn DEF GoesOn, Idle
    <2>3. CASE UNCHANGED vars
      BY <2>3 DEF PruneInv, Covered, Buried, vars, May
    <2>4. CASE call'.at # "or_wing"
      BY <2>1, <2>4, <1>k DEF PruneInv, Covered, Stored
    <2> QED BY <2>2, <2>3, <2>4
  <1> QED BY <1>1, <1>2, <1>3, <1>4

\* Recall that prunes rooms and wings by their fingerprints returns every captured drawer its
\* filters admit, for any interleaving of captures, revivals, erasures, crashes and failures
\* (add_drawer's or_in, rebuild_container_fingerprints, container_provably_excludes), while no
\* drawer is moved.
THEOREM PruningIsSafe == Spec => []PrunedRecallIsComplete
  <1>1. Init => PruneInv
    BY DEF Init, PruneInv, Idle
  <1>2. Shape /\ PruneInv => PrunedRecallIsComplete
    <2> SUFFICES ASSUME Shape, PruneInv, ~May("reanchor"),
                        NEW chain \in Chains, NEW d \in acked,
                        rows[d] # None, ~Buried(d), \A q \in chain : Matches(d, q)
                 PROVE  d \in Candidates(chain)
      BY DEF PrunedRecallIsComplete, MissesNothing
    <2>1. d \in Stored
      BY DEF Shape, TypeOK, Stored
    <2>2. /\ rows[d].room \in fps.listed
          /\ Covered(d, rows[d].room) /\ Covered(d, WingOf[rows[d].room])
      BY DEF PruneInv
    <2>3. ASSUME NEW c, Covered(d, c) PROVE Survives(c, chain)
      <3> SUFFICES ASSUME NEW q \in chain, Excludes(fps.flags[c], q) PROVE FALSE
        BY DEF Survives
      <3>1. q.not \in BOOLEAN /\ ~q.not /\ \A m \in q.any : fps.flags[c] \cap m = {}
        BY EstateAssumption DEF Excludes
      <3>2. PICK m \in q.any : rows[d].flags \cap m # {}
        BY <3>1 DEF Matches
      <3> QED BY <2>3, <3>1, <3>2 DEF Covered
    <2> QED BY <2>1, <2>2, <2>3 DEF Candidates
  <1> QED BY <1>1, <1>2, PruneKept, ShapeInvariant, PTL DEF Spec

(***************************************************************************)
(* Erasure ledger                                                          *)
(***************************************************************************)

\* What an expunge starts with.
LEMMA ExpungeStep ==
  ASSUME TypeOK, NEW d \in Drawers, NEW op \in {"expunge", "unsealed"}, Expunge(d, op)
  PROVE  /\ d \in Stored /\ rows' = [rows EXCEPT ![d] = Erased(d)]
         /\ call'.at = "record" /\ call'.op = op /\ call'.d = d /\ call'.other = d
         /\ call'.chain = Chain(rows[d].lineage)
         /\ call'.todo = Chain(rows[d].lineage) \ {d}
         /\ call'.rooms = AffectedRooms(Chain(rows[d].lineage))
         /\ May("accepted") \/ \A e \in Chain(rows[d].lineage) : rows[e].state # "accepted"
  <1> DEFINE chain == Chain(rows[d].lineage)
  <1>1. /\ call' = [Idle EXCEPT !.at = "record", !.op = op, !.d = d, !.other = d, !.chain = chain,
                               !.todo = chain \ {d}, !.rooms = AffectedRooms(chain)]
        /\ May("accepted") \/ \A e \in chain : rows[e].state # "accepted"
        /\ d \in Stored /\ rows' = [rows EXCEPT ![d] = Erased(d)]
    BY DEF Expunge, Stored
  <1> HIDE DEF chain
  <1>2. /\ call'.at = "record" /\ call'.op = op /\ call'.d = d /\ call'.other = d
        /\ call'.chain = chain /\ call'.todo = chain \ {d} /\ call'.rooms = AffectedRooms(chain)
    BY <1>1 DEF Idle
  <1> QED BY <1>1, <1>2 DEF chain

\* What passing a sibling does to the call.
LEMMA PassedStep ==
  ASSUME TypeOK, NEW s, Passed(s)
  PROVE  /\ call'.at \in {"seal_sibling", "record"} /\ call'.todo = call.todo \ {s} /\ call'.other = s
         /\ call'.op = call.op /\ call'.d = call.d /\ call'.chain = call.chain
         /\ call'.rooms = call.rooms /\ call'.room = call.room
  BY DEF Passed, TypeOK

\* What the other steps of an expunge do to it.
LEMMA OtherStep ==
  ASSUME TypeOK, Record \/ ScrubReadFails \/ SealSibling \/ ScrubEnds \/ SealHead, call' # Idle
  PROVE  /\ call'.at \in Expunging \cup {"roll_room"} /\ call'.op = call.op /\ call'.d = call.d
         /\ call'.other = call.other /\ call'.chain = call.chain /\ call'.todo \subseteq call.todo
         /\ call'.rooms = call.rooms /\ call'.room = call.room
         /\ rows' = rows /\ call.at \in Expunging
  <1> DEFINE Ahead ==
         /\ call'.at \in Expunging \cup {"roll_room"} /\ call'.op = call.op /\ call'.d = call.d
         /\ call'.other = call.other /\ call'.chain = call.chain /\ call'.todo \subseteq call.todo
         /\ call'.rooms = call.rooms /\ call'.room = call.room
  <1>0. rows' = rows /\ call.at \in Expunging
    BY DEF Record, ScrubReadFails, SealSibling, ScrubEnds, SealHead, Expunging
  <1>1. ASSUME NEW a \in Expunging \cup {"roll_room"}, call' = [call EXCEPT !.at = a]
        PROVE  Ahead
    BY <1>1 DEF TypeOK
  <1>2. ASSUME NEW s, call' = [call EXCEPT !.todo = @ \ {s}]
        PROVE  Ahead
    BY <1>0, <1>2 DEF TypeOK
  <1> HIDE DEF Ahead
  <1>3. Ahead
    BY <1>1, <1>2 DEF Record, ScrubReadFails, SealSibling, ScrubEnds, SealHead, Go, GiveUp, Expunging
  <1> QED BY <1>0, <1>3 DEF Ahead

\* An expunge is under way only through its own steps.
LEMMA ExpungingSteps ==
  ASSUME Shape, Next, call'.at \in Expunging
  PROVE  \/ \E d \in Drawers, op \in {"expunge", "unsealed"} : Expunge(d, op)
         \/ Scrub \/ ScrubFails
         \/ Record \/ ScrubReadFails \/ SealSibling \/ ScrubEnds \/ SealHead
  <1>1. call' # Idle
    BY DEF Idle, Expunging
  <1> QED BY <1>1, StepAt, EndsOrGoesOn DEF GoesOn, Expunging, Shape

\* Only what was erased enters the ledger, and its text does not come back.
LEMMA LedgerKept ==
  ASSUME GateIsKnown, NoAcceptedSibling, Shape, LedgerInv, [Next]_vars
  PROVE  LedgerInv'
  <1> USE DEF Shape
  <1>d. deploy' = deploy /\ ~May("accepted")
    BY DeployFixed DEF NoAcceptedSibling, TypeOK, May
  <1> SUFFICES ASSUME ~May("kept") PROVE LedgerInv'
    BY <1>d DEF LedgerInv, May
  <1>0. CASE UNCHANGED vars
    BY <1>0 DEF LedgerInv, LedgerHoldsNoText, vars, May
  <1>1. LedgerHoldsNoText'
    <2> SUFFICES ASSUME NEW d \in ledger', rows'[d] # None PROVE ~rows'[d].text
      BY DEF LedgerHoldsNoText
    <2>1. CASE d \in ledger
      BY <2>1, RowsKept DEF RowKept, SameDrawer, LedgerInv, LedgerHoldsNoText, Traces, Traceless, TypeOK
    <2>2. CASE d \notin ledger
      <3>1. Record
        BY <2>2 DEF Next, Capture, AddTunnel, AddTunnelFails, SupersedePrior, SupersedePriorFails,
         OrRoom, OrWing, OrFails, Mutate, Correct, Reanchor, WipeAllContent, Withdraw, SealExpunge,
         Sweep, Expunge, Scrub, ScrubFails, ScrubReadFails, SealSibling, ScrubEnds,
         SealHead, RollRoom, RollWing, RollEstate, RollFails, Return, RollupRooms, RecomputeAll,
         Reopen, vars
      <3> QED BY <2>2, <3>1 DEF Record, LedgerInv
    <2> QED BY <2>1, <2>2
  <1> DEFINE Clean == /\ call'.at \in {"record", "seal_sibling"} => ~rows'[call'.other].text
                      /\ \A s \in call'.todo : rows'[s].state # "accepted"
  <1>2. ASSUME Next, call'.at \in Expunging
        PROVE  Clean
    <2>1. ASSUME NEW d \in Drawers, NEW op \in {"expunge", "unsealed"}, Expunge(d, op) PROVE Clean
      <3>1. Chain(rows[d].lineage) \subseteq Drawers
        BY DEF Chain, Stored
      <3> QED BY <2>1, <3>1, <1>d, ExpungeStep, ErasedKept
    <2>2. CASE Scrub
      <3>1. PICK s \in call.todo : Scrubbed(s)
        BY <2>2, ScrubStep
      <3>2. call.at = "scrub" /\ s \in Stored /\ rows[s].state # "accepted" /\ rows[s].state \in RowStates
        BY <2>2, StoredRows DEF Scrub, CallShape, LedgerInv, Expunging, Row
      <3>3. Buried(s) \/ Admitted(s, "tombstone")
        BY <3>2 DEF GateIsKnown, Buried, Admitted
      <3>4. rows' = [rows EXCEPT ![s] = Erased(s)] /\ Passed(s)
        BY <3>1, <3>3 DEF Scrubbed
      <3>5. call'.todo = call.todo \ {s} /\ call'.other = s /\ call.todo \subseteq Drawers
        BY <3>4, PassedStep DEF TypeOK
      <3>6. \A e \in call.todo : rows[e].state # "accepted"
        BY <3>2 DEF LedgerInv, Expunging
      <3> QED BY <3>2, <3>4, <3>5, <3>6, ErasedKept
    <2>3. ~ScrubFails
      BY DEF ScrubFails
    <2>4. CASE Record \/ ScrubReadFails \/ SealSibling \/ ScrubEnds \/ SealHead
      <3>1. call' # Idle
        BY <1>2 DEF Idle, Expunging
      <3>2. call'.at \in {"record", "seal_sibling"} => call.at = "seal_sibling"
        BY <2>4, <3>1, StepAt DEF SealSibling
      <3> QED BY <2>4, <3>1, <3>2, OtherStep DEF LedgerInv
    <2> HIDE DEF Clean
    <2> QED BY <1>2, <2>1, <2>2, <2>3, <2>4, ExpungingSteps
  <1> QED BY <1>0, <1>1, <1>2 DEF LedgerInv, Expunging

(***************************************************************************)
(* Audit events                                                            *)
(***************************************************************************)

\* What AuditInv says of one row.
Accounted(d) ==
  rows[d] # None => /\ Audited(d) \/ (Buried(d) /\ ~audit[d].closed)
                    /\ audit[d].closed => Buried(d)

\* A row written with its event is accounted for.
LEMMA WriteAccounted ==
  ASSUME TypeOK, NEW d \in Drawers, NEW r, Write(d, r), \A e \in Drawers : Accounted(e)
  PROVE  \A e \in Drawers : Accounted(e)'
  <1>1. rows'[d] = r /\ audit'[d] = Logged(r)
    BY DEF Write, TypeOK
  <1>2. Accounted(d)'
    BY <1>1 DEF Accounted, Audited, Logged, Buried
  <1>3. \A e \in Drawers : e # d => rows'[e] = rows[e] /\ audit'[e] = audit[e]
    BY DEF Write, TypeOK
  <1> QED BY <1>2, <1>3 DEF Accounted, Audited, Buried

\* So is a buried row whose closing event is written.
LEMMA SealAccounted ==
  ASSUME TypeOK, NEW d \in Stored, Buried(d), SealRow(d), rows' = rows,
         \A e \in Drawers : Accounted(e)
  PROVE  \A e \in Drawers : Accounted(e)'
  <1>1. audit'[d] = Sealed(d)
    BY StoredRows DEF SealRow, TypeOK
  <1>2. Accounted(d)'
    BY <1>1 DEF Accounted, Audited, Sealed, Buried
  <1>3. \A e \in Drawers : e # d => audit'[e] = audit[e]
    BY DEF SealRow, TypeOK
  <1> QED BY <1>2, <1>3 DEF Accounted, Audited, Buried

\* An erased row awaits its event.
LEMMA EraseAccounted ==
  ASSUME TypeOK, NEW d \in Stored, rows' = [rows EXCEPT ![d] = Erased(d)], audit' = audit,
         \A e \in Drawers : Accounted(e)
  PROVE  \A e \in Drawers : Accounted(e)'
  <1>1. rows'[d].state = "tombstoned" /\ rows'[d].marks = rows[d].marks /\ d \in Drawers
        /\ rows[d] # None /\ \A e \in Drawers : e # d => rows'[e] = rows[e]
    BY ErasedKept, StoredRows
  <1>2. audit[d].closed \in BOOLEAN
    BY <1>1 DEF TypeOK
  <1>3. Accounted(d)'
    BY <1>1, <1>2 DEF Accounted, Audited, Buried
  <1> QED BY <1>1, <1>3 DEF Accounted, Audited, Buried

\* A row is never apart from its latest audit event unless the sweep will find it.
LEMMA AuditKept ==
  ASSUME Shape, AuditInv, [Next]_vars
  PROVE  AuditInv'
  <1> USE DEF Shape
  <1>d. deploy' = deploy
    BY DeployFixed
  <1> SUFFICES ASSUME ~May("kept") PROVE AuditInv'
    BY <1>d DEF AuditInv, May
  <1>a. \A e \in Drawers : Accounted(e)
    BY DEF AuditInv, Accounted, Stored
  <1>s. \A d \in Drawers : rows[d] # None => d \in Stored
    BY DEF Stored
  <1>u. ASSUME \A e \in Drawers : Accounted(e)', call'.at # "seal_sibling" PROVE AuditInv'
    BY <1>u DEF AuditInv, Accounted, Stored
  <1>w. ASSUME UNCHANGED <<rows, audit>> PROVE \A e \in Drawers : Accounted(e)'
    BY <1>a, <1>w DEF Accounted, Audited, Buried
  <1>t. ASSUME Next, ~Scrub PROVE call'.at # "seal_sibling"
    <2>1. ~ScrubFails
      BY DEF ScrubFails
    <2> QED BY <1>t, <2>1, StepAt, EndsOrGoesOn DEF GoesOn, Idle
  <1>0. CASE UNCHANGED vars
    BY <1>0 DEF AuditInv, vars, Stored, Audited, Buried, May
  <1>1. ASSUME NEW d \in Drawers, NEW f \in Frames, Capture(d, f) PROVE \A e \in Drawers : Accounted(e)'
    BY <1>1, <1>a, WriteAccounted DEF Capture
  <1>2. ASSUME SupersedePrior
        PROVE  \A e \in Drawers : Accounted(e)'
    <2>1. call.other \in Drawers
      BY <1>2, StoredRows DEF SupersedePrior, CallShape, Superseding
    <2> QED BY <1>2, <1>a, <2>1, WriteAccounted DEF SupersedePrior, MutateState
  <1>3. ASSUME \/ \E d \in Drawers, v \in Mutations : Mutate(d, v)
               \/ \E d \in Drawers, marks \in SUBSET Marks : Correct(d, marks)
               \/ \E d \in Drawers : Withdraw(d)
        PROVE  \A e \in Drawers : Accounted(e)'
    BY <1>3, <1>a, WriteAccounted DEF Mutate, Correct, Withdraw, MutateState
  <1>4. ASSUME AddTunnelFails
        PROVE  \A e \in Drawers : Accounted(e)'
    BY <1>4, <1>a DEF AddTunnelFails, Accounted, Audited, Buried, TypeOK
  <1>5. ASSUME NEW d \in Drawers, NEW r \in Rooms, Reanchor(d, r) PROVE \A e \in Drawers : Accounted(e)'
    <2>1. rows[d] \in Row
      BY <1>5, <1>s, StoredRows DEF Reanchor
    <2>2. rows'[d].state = rows[d].state /\ rows'[d].marks = rows[d].marks
      BY <1>5, <2>1 DEF Reanchor, TypeOK, Row
    <2>3. \A e \in Drawers : e # d => rows'[e] = rows[e]
      BY <1>5 DEF Reanchor, TypeOK
    <2> QED BY <1>5, <1>a, <2>2, <2>3 DEF Reanchor, Accounted, Audited, Buried
  <1>6. ASSUME WipeAllContent
        PROVE  \A e \in Drawers : Accounted(e)'
    <2>1. \A d \in Stored : rows'[d].state = rows[d].state /\ rows'[d].marks = rows[d].marks
      BY <1>6, StoredRows DEF WipeAllContent, Row
    <2>2. \A d \in Drawers : d \notin Stored => rows'[d] = None
      BY <1>6 DEF WipeAllContent
    <2> QED BY <1>6, <1>a, <2>1, <2>2 DEF WipeAllContent, Accounted, Audited, Buried, Stored
  <1>7. ASSUME NEW d \in Drawers, SealExpunge(d) \/ Sweep(d) PROVE \A e \in Drawers : Accounted(e)'
    <2>1. d \in Stored /\ Buried(d) /\ SealRow(d) /\ rows' = rows
      BY <1>7, <1>s DEF SealExpunge, Sweep, Orphans, Traces
    <2> QED BY <1>a, <2>1, SealAccounted
  <1>8. ASSUME NEW d \in Drawers, NEW op \in {"expunge", "unsealed"}, Expunge(d, op)
        PROVE  \A e \in Drawers : Accounted(e)'
    BY <1>8, <1>a, ExpungeStep, EraseAccounted DEF Expunge
  <1>9. CASE Scrub
    <2>1. PICK s \in call.todo : Scrubbed(s)
      BY <1>9, ScrubStep
    <2>2. s \in Stored /\ audit' = audit
      BY <1>9 DEF CallShape, Scrub
    <2>3. \A e \in Drawers : Accounted(e)'
      BY <2>1, <2>2, <1>a, <1>w, EraseAccounted DEF Scrubbed
    <2>4. call'.at = "seal_sibling" => Buried(call.other)'
      <3>1. call'.other = s
        BY <2>1, PassedStep DEF Scrubbed
      <3> QED BY <2>1, <2>2, <3>1, ErasedKept DEF Scrubbed, Buried
    <2> QED BY <2>3, <2>4 DEF AuditInv, Accounted, Stored
  <1>10. ASSUME SealSibling
        PROVE  \A e \in Drawers : Accounted(e)'
    <2>1. call.other \in Stored /\ Buried(call.other)
      BY <1>10 DEF SealSibling, CallShape, Expunging, AuditInv
    <2> QED BY <1>10, <1>a, <1>w, <2>1, SealAccounted DEF SealSibling
  <1>11. ASSUME SealHead
        PROVE  \A e \in Drawers : Accounted(e)'
    <2>1. call.d \in Stored /\ Buried(call.d)
      BY <1>11 DEF SealHead, CallShape, Expunging
    <2> QED BY <1>11, <1>a, <1>w, <2>1, SealAccounted DEF SealHead
  <1>12. ASSUME AddTunnel \/ SupersedePriorFails \/ OrRoom \/ OrWing \/ OrFails
              \/ Record \/ ScrubFails \/ ScrubReadFails \/ ScrubEnds
        PROVE  \A e \in Drawers : Accounted(e)'
    BY <1>12, <1>w DEF AddTunnel, SupersedePriorFails, OrRoom, OrWing, OrFails,
                      Record, ScrubFails, ScrubReadFails, ScrubEnds
  <1>13. ASSUME RollRoom \/ RollWing \/ RollEstate \/ RollFails \/ Return
              \/ (\E ds \in SUBSET Stored : RollupRooms(ds)) \/ RecomputeAll \/ Reopen
        PROVE  \A e \in Drawers : Accounted(e)'
    BY <1>13, <1>w DEF RollRoom, RollWing, RollEstate, RollFails, Return, RollupRooms, RecomputeAll,
                       Reopen
  <1> QED BY <1>0, <1>1, <1>2, <1>3, <1>4, <1>5, <1>6, <1>7, <1>8, <1>9, <1>10, <1>11, <1>12, <1>13,
             <1>t, <1>u DEF Next

(***************************************************************************)
(* Merkle roots                                                            *)
(***************************************************************************)

\* A withdrawn or erased drawer stays out until it is revived.
LEMMA StaysOut ==
  ASSUME GateIsKnown, Shape, Next, NEW d \in Stored, Out(d), rows'[d] # None
  PROVE  Out(d)' \/ (gone' = gone \ {d} /\ call' = Idle)
  <1> USE DEF Shape
  <1>r. rows[d] \in Row /\ d \in Drawers /\ rows[d] # None
    BY StoredRows
  <1>u. ASSUME rows'[d] = rows[d] PROVE Out(d)'
    BY <1>u DEF Out
  <1>1. ASSUME NEW e \in Drawers, NEW f \in Frames, Capture(e, f) PROVE Out(d)'
    <2>1. e # d
      BY <1>1, <1>r DEF Capture, Traces
    <2> QED BY <1>1, <1>r, <1>u, <2>1 DEF Capture, Write, TypeOK
  <1>2. ASSUME AddTunnelFails PROVE Out(d)'
    BY <1>2, <1>r, <1>u DEF AddTunnelFails, TypeOK
  <1>3. ASSUME SupersedePrior PROVE Out(d)'
    <2>1. call.other # d
      BY <1>3 DEF SupersedePrior, CallShape, Superseding, Out
    <2> QED BY <1>3, <1>r, <1>u, <2>1 DEF SupersedePrior, MutateState, Write, TypeOK
  <1>4. ASSUME NEW e \in Drawers, NEW v \in Mutations, Mutate(e, v)
        PROVE  Out(d)' \/ (gone' = gone \ {d} /\ call' = Idle)
    <2>1. CASE e # d
      BY <1>4, <1>r, <1>u, <2>1 DEF Mutate, MutateState, Write, TypeOK
    <2>2. CASE e = d /\ v # "observe"
      <3>1. v \in Verbs
        BY DEF Mutations, Verbs, Target
      <3>2. rows[d].state = "withdrawn" /\ <<"withdrawn", v>> \in Admits
        BY <1>4, <2>2, <3>1, TombstoneIsFinal DEF Mutate, Admitted, Out
      <3>3. v # "contest" /\ v # "reject" /\ v # "supersede"
        BY <3>2 DEF GateIsKnown, RowStates
      <3>4. v # "promote"
        BY <3>2, EstateAssumption DEF Barred, RowStates
      <3>5. v # "resolveContest"
        BY <1>4, <2>2, <3>2 DEF Mutate, KindAllows
      <3> QED BY <2>2, <3>3, <3>4, <3>5 DEF Mutations
    <2>3. CASE e = d /\ v = "observe"
      BY <1>4, <2>3 DEF Mutate, Begin, CallShape
    <2> QED BY <2>1, <2>2, <2>3
  <1>5. ASSUME NEW e \in Drawers, NEW marks \in SUBSET Marks, Correct(e, marks) PROVE Out(d)'
    <2>1. e # d
      BY <1>5, EstateAssumption DEF Correct, Admitted, Barred, Out, RowStates
    <2> QED BY <1>5, <1>r, <1>u, <2>1 DEF Correct, Write, TypeOK
  <1>6. ASSUME NEW e \in Drawers, NEW r \in Rooms, Reanchor(e, r) PROVE Out(d)'
    BY <1>6, <1>r, <1>u DEF Reanchor, TypeOK, Out, Row
  <1>7. ASSUME WipeAllContent PROVE Out(d)'
    BY <1>7, <1>r DEF WipeAllContent, Out, Row
  <1>8. ASSUME NEW e \in Drawers, Withdraw(e) PROVE Out(d)'
    BY <1>8, <1>r, <1>u DEF Withdraw, MutateState, Write, TypeOK, Out, Row, Target
  <1>9. ASSUME NEW e \in Stored, rows' = [rows EXCEPT ![e] = Erased(e)] PROVE Out(d)'
    BY <1>9, <1>r, <1>u, ErasedKept DEF Out
  <1>10. ASSUME NEW e \in Drawers, NEW op \in {"expunge", "unsealed"}, Expunge(e, op) PROVE Out(d)'
    BY <1>9, <1>10, ExpungeStep
  <1>11. ASSUME Scrub PROVE Out(d)'
    <2>1. PICK s \in call.todo : Scrubbed(s)
      BY <1>11, ScrubStep
    <2> QED BY <1>9, <1>u, <2>1 DEF Scrubbed, CallShape
  <1>12. ASSUME AddTunnel \/ SupersedePriorFails \/ OrRoom \/ OrWing \/ OrFails
              \/ (\E e \in Drawers : SealExpunge(e) \/ Sweep(e))
              \/ Record \/ ScrubFails \/ ScrubReadFails \/ SealSibling \/ ScrubEnds \/ SealHead
         PROVE Out(d)'
    BY <1>12, <1>u DEF AddTunnel, SupersedePriorFails, OrRoom, OrWing, OrFails, SealExpunge, Sweep,
                       Record, ScrubFails, ScrubReadFails, SealSibling, ScrubEnds, SealHead
  <1>13. ASSUME RollRoom \/ RollWing \/ RollEstate \/ RollFails \/ Return
              \/ (\E ds \in SUBSET Stored : RollupRooms(ds)) \/ RecomputeAll \/ Reopen
         PROVE Out(d)'
    BY <1>13, <1>u DEF RollRoom, RollWing, RollEstate, RollFails, Return, RollupRooms, RecomputeAll,
                       Reopen
  <1> QED BY <1>1, <1>2, <1>3, <1>4, <1>5, <1>6, <1>7, <1>8, <1>10, <1>11, <1>12, <1>13 DEF Next

\* What a call took away is out.
LEMMA GoneKept ==
  ASSUME GateIsKnown, Shape, GoneOut, Next
  PROVE  GoneOut'
  <1> USE DEF Shape
  <1> SUFFICES ASSUME NEW d \in gone' PROVE rows'[d] # None /\ Out(d)'
    BY DEF GoneOut
  <1>1. CASE d \in gone
    <2>1. d \in Stored /\ Out(d)
      BY <1>1 DEF GoneOut, TypeOK, Stored
    <2>2. rows'[d] # None
      BY <1>1, <2>1, RowsKept DEF RowKept, Traces, Traceless, Stored
    <2> QED BY <2>1, <2>2, StaysOut
  <1>2. CASE d \notin gone
    <2>1. Return
      BY <1>2 DEF Next, Capture, AddTunnel, AddTunnelFails, SupersedePrior, SupersedePriorFails,
         OrRoom, OrWing, OrFails, Mutate, Correct, Reanchor, WipeAllContent, Withdraw, SealExpunge,
         Sweep, Expunge, Record, Scrub, ScrubFails, ScrubReadFails, SealSibling, ScrubEnds,
         SealHead, RollRoom, RollWing, RollEstate, RollFails, RollupRooms, RecomputeAll, Reopen
    <2> QED BY <1>2, <2>1 DEF Return, CallShape, Stored, Out
  <1> QED BY <1>1, <1>2

\* The steps that write no root.
LEMMA RootsFixed ==
  ASSUME Next, ~RollRoom, ~RollWing, ~RollEstate, ~RecomputeAll
  PROVE  roots' = roots
  BY DEF Next, Capture, AddTunnel, AddTunnelFails, SupersedePrior, SupersedePriorFails,
         OrRoom, OrWing, OrFails, Mutate, Correct, Reanchor, WipeAllContent, Withdraw, SealExpunge,
         Sweep, Expunge, Record, Scrub, ScrubFails, ScrubReadFails, SealSibling, ScrubEnds,
         SealHead, RollFails, Return, RollupRooms, Reopen

\* The three writes of a rollup.
LEMMA RollStep ==
  ASSUME Shape
  PROVE  /\ RollRoom => \E r \in Rooms :
              /\ call.at = "roll_room" /\ r \in call.rooms /\ rows' = rows
              /\ roots'[r] = Committed(r) /\ \A n \in Nodes \ {r} : roots'[n] = roots[n]
              /\ call'.at = "roll_wing" /\ call'.room = r /\ call'.rooms = call.rooms \ {r}
              /\ call'.chain = call.chain /\ gone' = gone
         /\ RollWing =>
              /\ call.at = "roll_wing" /\ rows' = rows /\ call.room \in Rooms
              /\ roots'[WingOf[call.room]] = Below(WingOf[call.room])
              /\ \A n \in Nodes \ {WingOf[call.room]} : roots'[n] = roots[n]
              /\ call'.at = "roll_estate" /\ call'.rooms = call.rooms /\ call'.chain = call.chain
              /\ gone' = gone
         /\ RollEstate =>
              /\ call.at = "roll_estate" /\ rows' = rows
              /\ roots'[Whole] = UNION {roots[w] : w \in Wings}
              /\ \A n \in Nodes \ {Whole} : roots'[n] = roots[n]
              /\ call'.at = "roll_room" /\ call'.rooms = call.rooms /\ call'.chain = call.chain
              /\ gone' = gone
  <1> USE DEF Shape
  <1>t. roots \in [Nodes -> SUBSET Drawers] /\ call \in CallType
    BY DEF TypeOK, CallType
  <1>1. ASSUME RollRoom
        PROVE  \E r \in Rooms :
              /\ call.at = "roll_room" /\ r \in call.rooms /\ rows' = rows
              /\ roots'[r] = Committed(r) /\ \A n \in Nodes \ {r} : roots'[n] = roots[n]
              /\ call'.at = "roll_wing" /\ call'.room = r /\ call'.rooms = call.rooms \ {r}
              /\ call'.chain = call.chain /\ gone' = gone
    <2>1. PICK r \in call.rooms :
            /\ roots' = [roots EXCEPT ![r] = Committed(r)]
            /\ call' = [call EXCEPT !.at = "roll_wing", !.rooms = @ \ {r}, !.room = r]
      BY <1>1 DEF RollRoom
    <2>2. r \in Rooms /\ r \in Nodes
      BY <1>t DEF CallType, Nodes
    <2>3. roots'[r] = Committed(r) /\ \A n \in Nodes \ {r} : roots'[n] = roots[n]
      BY <1>t, <2>1, <2>2
    <2>4. call'.at = "roll_wing" /\ call'.room = r /\ call'.rooms = call.rooms \ {r}
          /\ call'.chain = call.chain
      BY <1>t, <2>1 DEF CallType
    <2> QED BY <1>1, <2>1, <2>2, <2>3, <2>4 DEF RollRoom
  <1>2. ASSUME RollWing
        PROVE /\ call.at = "roll_wing" /\ rows' = rows /\ call.room \in Rooms
              /\ roots'[WingOf[call.room]] = Below(WingOf[call.room])
              /\ \A n \in Nodes \ {WingOf[call.room]} : roots'[n] = roots[n]
              /\ call'.at = "roll_estate" /\ call'.rooms = call.rooms /\ call'.chain = call.chain
              /\ gone' = gone
    <2>1. call.room \in Rooms /\ WingOf[call.room] \in Nodes
      BY <1>2, EstateAssumption DEF RollWing, CallShape, Nodes
    <2> QED BY <1>2, <1>t, <2>1 DEF RollWing, Go, CallType
  <1>3. ASSUME RollEstate
        PROVE /\ call.at = "roll_estate" /\ rows' = rows
              /\ roots'[Whole] = UNION {roots[w] : w \in Wings}
              /\ \A n \in Nodes \ {Whole} : roots'[n] = roots[n]
              /\ call'.at = "roll_room" /\ call'.rooms = call.rooms /\ call'.chain = call.chain
              /\ gone' = gone
    <2>1. Whole \in Nodes
      BY DEF Nodes
    <2> QED BY <1>3, <1>t, <2>1 DEF RollEstate, Go, CallType
  <1> QED BY <1>1, <1>2, <1>3

\* A recomputation writes what the rooms below a node hold, or leaves the node as it was.
LEMMA RecomputeStep ==
  ASSUME Shape, RecomputeAll
  PROVE  /\ rows' = rows /\ gone' = gone /\ call' = Idle
         /\ \A n \in Nodes :
              \/ roots'[n] = roots[n]
              \/ roots'[n] = UNION {Committed(r) : r \in {x \in Rooms : n \in {x, WingOf[x], Whole}}}
  BY DEF RecomputeAll, Shape, CallShape, Begin

\* The nodes are apart.
LEMMA NodesApart ==
  /\ \A r \in Rooms : /\ r \in Nodes /\ r \notin Wings /\ r # Whole
                      /\ WingOf[r] \in Wings /\ WingOf[r] \in Nodes
                      /\ WingOf[r] \notin Rooms /\ WingOf[r] # Whole
  /\ \A w \in Wings : w \in Nodes /\ w \notin Rooms /\ w # Whole
  /\ Whole \in Nodes /\ \A n \in Nodes : n \in Rooms \/ n \in Wings \/ n = Whole
  BY EstateAssumption, NodesAssumption DEF Nodes

\* Roots commit to the drawers of their own rooms.
LEMMA AtHomeKept ==
  ASSUME Shape, AtHome, Next, Settled
  PROVE  AtHome'
  <1> USE DEF Shape
  <1>m. ~May("reanchor")
    BY DEF Settled, May
  <1>k. \A n \in Nodes : \A d \in roots[n] : rows[d] # None =>
          rows'[d] # None /\ rows'[d].room = rows[d].room
    BY <1>m, RowsKept DEF RowKept, SameDrawer, Traces, Traceless, TypeOK
  <1>c. \A r : \A d \in Committed(r) : rows[d] # None /\ rows[d].room = r
    BY DEF Committed, Stored
  <1>1. CASE RollRoom
    <2>1. PICK r \in Rooms :
              /\ rows' = rows
              /\ roots'[r] = Committed(r) /\ \A n \in Nodes \ {r} : roots'[n] = roots[n]
      BY <1>1, RollStep
    <2>2. ASSUME NEW x \in Rooms, NEW d \in roots'[x] PROVE rows'[d] # None /\ rows'[d].room = x
      BY <2>1, <2>2, <1>c, NodesApart DEF AtHome
    <2>3. ASSUME NEW w \in Wings, NEW d \in roots'[w] PROVE rows'[d] # None /\ WingOf[rows'[d].room] = w
      BY <2>1, <2>3, NodesApart DEF AtHome
    <2> QED BY <2>2, <2>3 DEF AtHome
  <1>2. CASE RollWing
    <2> DEFINE v == WingOf[call.room]
    <2>1. /\ rows' = rows /\ call.room \in Rooms /\ roots'[v] = Below(v)
          /\ \A n \in Nodes \ {v} : roots'[n] = roots[n]
      BY <1>2, RollStep
    <2>2. \A d \in Below(v) : rows[d] # None /\ WingOf[rows[d].room] = v
      BY DEF Below, AtHome
    <2>3. v \in Wings
      BY <2>1, NodesApart
    <2> HIDE DEF v
    <2>4. ASSUME NEW x \in Rooms, NEW d \in roots'[x] PROVE rows'[d] # None /\ rows'[d].room = x
      BY <2>1, <2>3, <2>4, NodesApart DEF AtHome
    <2>5. ASSUME NEW w \in Wings, NEW d \in roots'[w] PROVE rows'[d] # None /\ WingOf[rows'[d].room] = w
      BY <2>1, <2>2, <2>5, NodesApart DEF AtHome
    <2> QED BY <2>4, <2>5 DEF AtHome
  <1>3. CASE RollEstate
    <2>1. rows' = rows /\ \A n \in Rooms \cup Wings : roots'[n] = roots[n]
      BY <1>3, RollStep, NodesApart
    <2> QED BY <2>1 DEF AtHome
  <1>4. CASE RecomputeAll
    <2>1. /\ rows' = rows
          /\ \A n \in Nodes :
              \/ roots'[n] = roots[n]
              \/ roots'[n] = UNION {Committed(r) : r \in {x \in Rooms : n \in {x, WingOf[x], Whole}}}
      BY <1>4, RecomputeStep
    <2>2. ASSUME NEW x \in Rooms, NEW d \in roots'[x] PROVE rows'[d] # None /\ rows'[d].room = x
      <3>1. CASE roots'[x] = roots[x]
        BY <2>1, <2>2, <3>1 DEF AtHome
      <3>2. CASE roots'[x] = UNION {Committed(r) : r \in {y \in Rooms : x \in {y, WingOf[y], Whole}}}
        <4>1. PICK y \in Rooms : d \in Committed(y) /\ x \in {y, WingOf[y], Whole}
          BY <2>2, <3>2
        <4>2. x = y
          BY <4>1, NodesApart
        <4> QED BY <2>1, <4>1, <4>2, <1>c
      <3> QED BY <2>1, <3>1, <3>2, NodesApart
    <2>3. ASSUME NEW w \in Wings, NEW d \in roots'[w] PROVE rows'[d] # None /\ WingOf[rows'[d].room] = w
      <3>1. CASE roots'[w] = roots[w]
        BY <2>1, <2>3, <3>1 DEF AtHome
      <3>2. CASE roots'[w] = UNION {Committed(r) : r \in {y \in Rooms : w \in {y, WingOf[y], Whole}}}
        <4>1. PICK y \in Rooms : d \in Committed(y) /\ w \in {y, WingOf[y], Whole}
          BY <2>3, <3>2
        <4>2. w = WingOf[y]
          BY <4>1, NodesApart
        <4> QED BY <2>1, <4>1, <4>2, <1>c
      <3> QED BY <2>1, <3>1, <3>2, NodesApart
    <2> QED BY <2>2, <2>3 DEF AtHome
  <1>5. CASE roots' = roots
    <2>2. ASSUME NEW x \in Rooms, NEW d \in roots[x] PROVE rows'[d] # None /\ rows'[d].room = x
      BY <2>2, <1>k, NodesApart DEF AtHome
    <2>3. ASSUME NEW w \in Wings, NEW d \in roots[w] PROVE rows'[d] # None /\ WingOf[rows'[d].room] = w
      BY <2>3, <1>k, NodesApart DEF AtHome
    <2> QED BY <1>5, <2>2, <2>3 DEF AtHome
  <1> QED BY <1>1, <1>2, <1>3, <1>4, <1>5, RootsFixed

\* What is out of a root, and out of the recall, does not enter one.
LEMMA AbsentStays ==
  ASSUME Shape, Next, NEW d, Out(d), \A n \in Nodes : d \notin roots[n]
  PROVE  \A n \in Nodes : d \notin roots'[n]
  <1> USE DEF Shape
  <1>c. \A r : d \notin Committed(r)
    BY DEF Committed, Out
  <1>1. CASE RollRoom
    BY <1>1, <1>c, RollStep
  <1>2. CASE RollWing
    <2>1. d \notin Below(WingOf[call.room])
      BY NodesApart DEF Below
    <2> QED BY <1>2, <2>1, RollStep
  <1>3. CASE RollEstate
    <2>1. d \notin UNION {roots[w] : w \in Wings}
      BY NodesApart
    <2> QED BY <1>3, <2>1, RollStep
  <1>4. CASE RecomputeAll
    <2>1. \A n : d \notin UNION {Committed(r) : r \in {x \in Rooms : n \in {x, WingOf[x], Whole}}}
      BY <1>c
    <2> QED BY <1>4, <2>1, RecomputeStep
  <1>5. CASE roots' = roots
    BY <1>5
  <1> QED BY <1>1, <1>2, <1>3, <1>4, <1>5, RootsFixed

\* The rollups that end a withdraw or an expunge take its drawers off every root on the path.
LEMMA ChainKept ==
  ASSUME Shape, AtHome, ChainRolling, Next, Settled
  PROVE  ChainRolling'
  <1> USE DEF Shape
  <1>m. ~May("reanchor") /\ ~May("ignored")
    BY DEF Settled, May
  <1>s. call.chain \subseteq Stored /\ Stored \subseteq Drawers
    BY DEF CallShape, Stored
  <1>i. ASSUME call'.chain = {} PROVE ChainRolling'
    BY <1>i DEF ChainRolling
  <1>c. ASSUME \A d \in call'.chain : rows'[d].room \in call'.rooms PROVE ChainRolling'
    BY <1>c DEF ChainRolling, Rolling
  <1>k. ASSUME call' # Idle PROVE \A d \in Stored : rows'[d].room = rows[d].room
    BY <1>k, <1>m, RowsKept, StoredRows DEF RowKept, SameDrawer
  <1>1. ASSUME (\E d \in Drawers, f \in Frames : Capture(d, f)) \/ call' = Idle
               \/ (\E ds \in SUBSET Stored : RollupRooms(ds))
        PROVE  call'.chain = {}
    <2>1. CASE \E d \in Drawers, f \in Frames : Capture(d, f)
      BY <2>1 DEF Capture, Idle
    <2>2. CASE call' = Idle
      BY <2>2 DEF Idle
    <2>3. CASE \E ds \in SUBSET Stored : RollupRooms(ds)
      BY <2>3 DEF RollupRooms, Idle
    <2> QED BY <1>1, <2>1, <2>2, <2>3
  <1>2. ASSUME AddTunnel \/ SupersedePrior \/ OrRoom PROVE ChainRolling'
    <2>1. /\ call'.chain = call.chain /\ call'.rooms = call.rooms /\ call'.at \notin Expunging
          /\ call.at \notin {"roll_wing", "roll_estate"} /\ roots' = roots
      BY <1>2 DEF AddTunnel, SupersedePrior, OrRoom, Go, TypeOK, Expunging
    <2>2. \A d \in call.chain : Out(d)' => Out(d) /\ rows'[d].room = rows[d].room
      <3>1. CASE SupersedePrior
        <4>0. call.other \in Stored
          BY <3>1 DEF SupersedePrior, CallShape, Superseding
        <4>1. rows'[call.other].state = "superseded"
          BY <3>1, <4>0, StoredRows DEF SupersedePrior, MutateState, Write, TypeOK, Row, Target
        <4>2. \A d \in Drawers : d # call.other => rows'[d] = rows[d]
          BY <3>1 DEF SupersedePrior, MutateState, Write, TypeOK
        <4> QED BY <1>s, <4>1, <4>2 DEF Out
      <3>2. CASE AddTunnel \/ OrRoom
        BY <3>2 DEF AddTunnel, OrRoom, Out
      <3> QED BY <1>2, <3>1, <3>2
    <2> QED BY <2>1, <2>2 DEF ChainRolling, Rolling
  <1>3. ASSUME NEW d \in Drawers, Withdraw(d) PROVE ChainRolling'
    <2>1. call'.chain = {d} /\ call'.rooms = {rows[d].room} /\ call'.at = "roll_room" /\ d \in Stored
      BY <1>3 DEF Withdraw, Idle, Stored
    <2>2. call' # Idle
      BY <2>1 DEF Idle
    <2> QED BY <2>1, <2>2, <1>k, <1>c
  <1>4. ASSUME NEW d \in Drawers, NEW op \in {"expunge", "unsealed"}, Expunge(d, op) PROVE ChainRolling'
    <2>1. /\ call'.chain = Chain(rows[d].lineage) /\ call'.at = "record"
          /\ call'.rooms = AffectedRooms(Chain(rows[d].lineage))
      BY <1>4, ExpungeStep
    <2>2. Chain(rows[d].lineage) \subseteq Stored /\ call' # Idle
      BY <2>1 DEF Chain, Idle
    <2>3. \A e \in Chain(rows[d].lineage) : rows[e].room \in AffectedRooms(Chain(rows[d].lineage))
      BY DEF AffectedRooms
    <2> QED BY <2>1, <2>2, <2>3, <1>k, <1>c
  <1>5. ASSUME Scrub \/ ScrubFails PROVE ChainRolling'
    <2>1. PICK s \in call.todo : Passed(s)
      BY <1>5, ScrubStep, ScrubFailsStep DEF Scrubbed
    <2>2. call'.chain = call.chain /\ call'.rooms = call.rooms /\ call'.at \in {"seal_sibling", "record"}
          /\ call.at \in Expunging
      BY <1>5, <2>1, PassedStep DEF Scrub, ScrubFails, Expunging
    <2>3. call' # Idle
      BY <2>2 DEF Idle
    <2> QED BY <2>2, <2>3, <1>s, <1>k, <1>c DEF ChainRolling
  <1>6. ASSUME Record \/ ScrubReadFails \/ SealSibling \/ ScrubEnds \/ SealHead, call' # Idle
        PROVE  ChainRolling'
    BY <1>6, <1>s, <1>k, <1>c, OtherStep DEF ChainRolling
  <1>o. ASSUME NEW d \in call.chain, rows' = rows, Out(d)' PROVE Rolling(d) /\ Out(d)
    BY <1>o DEF ChainRolling, Out
  <1>7. ASSUME RollRoom PROVE ChainRolling'
    <2>1. PICK r \in Rooms :
              /\ call.at = "roll_room" /\ r \in call.rooms /\ rows' = rows
              /\ roots'[r] = Committed(r) /\ \A n \in Nodes \ {r} : roots'[n] = roots[n]
              /\ call'.at = "roll_wing" /\ call'.room = r /\ call'.rooms = call.rooms \ {r}
              /\ call'.chain = call.chain
      BY <1>7, RollStep
    <2>2. ASSUME NEW d \in call.chain, Out(d)' PROVE Rolling(d)'
      <3>1. Rolling(d) /\ Out(d)
        BY <2>1, <2>2, <1>o
      <3>2. CASE rows[d].room = r
        <4>1. d \notin Committed(r)
          BY <3>1 DEF Committed, Out
        <4>2. \A x \in Rooms : x # r => d \notin roots[x]
          BY <3>2 DEF AtHome
        <4>3. \A x \in Rooms : d \notin roots'[x]
          BY <2>1, <4>1, <4>2, NodesApart
        <4> QED BY <2>1, <3>2, <4>3 DEF Rolling
      <3>3. CASE rows[d].room # r /\ rows[d].room \in call.rooms
        BY <2>1, <3>3 DEF Rolling
      <3>4. CASE \A n \in Nodes : d \notin roots[n]
        BY <3>1, <3>4, AbsentStays DEF Rolling
      <3> QED BY <2>1, <3>1, <3>2, <3>3, <3>4 DEF Rolling
    <2> QED BY <2>1, <2>2 DEF ChainRolling, Expunging
  <1>8. ASSUME RollWing PROVE ChainRolling'
    <2> DEFINE v == WingOf[call.room]
    <2>1. /\ call.at = "roll_wing" /\ rows' = rows /\ call.room \in Rooms /\ roots'[v] = Below(v)
          /\ \A n \in Nodes \ {v} : roots'[n] = roots[n]
          /\ call'.at = "roll_estate" /\ call'.rooms = call.rooms /\ call'.chain = call.chain
      BY <1>8, RollStep
    <2>2. ASSUME NEW d \in call.chain, Out(d)' PROVE Rolling(d)'
      <3>1. Rolling(d) /\ Out(d)
        BY <2>1, <2>2, <1>o
      <3>2. CASE call.room = rows[d].room /\ \A r \in Rooms : d \notin roots[r]
        <4>1. d \notin Below(v)
          BY <3>2 DEF Below
        <4>2. \A w \in Wings : w # v => d \notin roots[w]
          BY <3>2 DEF AtHome
        <4>3. \A n \in Rooms \cup Wings : n # v => roots'[n] = roots[n]
          BY <2>1, NodesApart
        <4>4. \A n \in Rooms \cup Wings : d \notin roots'[n]
          <5> HIDE DEF v
          <5> QED BY <2>1, <3>2, <4>1, <4>2, <4>3
        <4> QED BY <2>1, <4>4 DEF Rolling
      <3>3. CASE rows[d].room \in call.rooms
        BY <2>1, <3>3 DEF Rolling
      <3>4. CASE \A n \in Nodes : d \notin roots[n]
        BY <3>1, <3>4, AbsentStays DEF Rolling
      <3> QED BY <2>1, <3>1, <3>2, <3>3, <3>4 DEF Rolling
    <2> QED BY <2>1, <2>2 DEF ChainRolling, Expunging
  <1>9. ASSUME RollEstate PROVE ChainRolling'
    <2>1. /\ call.at = "roll_estate" /\ rows' = rows
          /\ roots'[Whole] = UNION {roots[w] : w \in Wings}
          /\ \A n \in Nodes \ {Whole} : roots'[n] = roots[n]
          /\ call'.at = "roll_room" /\ call'.rooms = call.rooms /\ call'.chain = call.chain
      BY <1>9, RollStep
    <2>2. ASSUME NEW d \in call.chain, Out(d)' PROVE Rolling(d)'
      <3>1. Rolling(d) /\ Out(d)
        BY <2>1, <2>2, <1>o
      <3>2. CASE \A n \in Rooms \cup Wings : d \notin roots[n]
        <4>1. d \notin roots'[Whole]
          BY <2>1, <3>2
        <4>2. \A n \in Nodes : d \notin roots'[n]
          BY <2>1, <3>2, <4>1, NodesApart
        <4> QED BY <4>2 DEF Rolling
      <3>3. CASE rows[d].room \in call.rooms
        BY <2>1, <3>3 DEF Rolling
      <3>4. CASE \A n \in Nodes : d \notin roots[n]
        BY <3>1, <3>4, AbsentStays DEF Rolling
      <3> QED BY <2>1, <3>1, <3>2, <3>3, <3>4 DEF Rolling
    <2> QED BY <2>1, <2>2 DEF ChainRolling, Expunging
  <1>10. ASSUME RollFails PROVE call' = Idle
    BY <1>10, <1>m DEF RollFails, GiveUp
  <1> QED BY <1>i, <1>1, <1>2, <1>3, <1>4, <1>5, <1>6, <1>7, <1>8, <1>9, <1>10, EndsOrGoesOn DEF GoesOn

\* No root commits to what a call that returned took away.
LEMMA RootsKept ==
  ASSUME GateIsKnown, Shape, RootsInv, [Next]_vars
  PROVE  RootsInv'
  <1>0. CASE UNCHANGED vars
    BY <1>0 DEF RootsInv, GoneOut, Settled, NothingGoneIsAttested, AtHome, ChainRolling, Rolling, Out, vars
  <1>1. CASE Next
    <2>1. GoneOut'
      BY <1>1, GoneKept DEF RootsInv
    <2>2. Settled' => Settled
      BY <1>1, DeployFixed DEF Settled
    <2>3. ASSUME Settled PROVE NothingGoneIsAttested'
      <3> SUFFICES ASSUME NEW d \in gone' PROVE \A n \in Nodes : d \notin roots'[n]
        BY DEF NothingGoneIsAttested
      <3>1. CASE d \in gone
        <4>1. Out(d) /\ \A n \in Nodes : d \notin roots[n]
          BY <2>3, <3>1 DEF RootsInv, GoneOut, NothingGoneIsAttested
        <4> QED BY <1>1, <4>1, AbsentStays
      <3>2. CASE d \notin gone
        <4>1. Return
          BY <1>1, <3>2 DEF Next, Capture, AddTunnel, AddTunnelFails, SupersedePrior,
             SupersedePriorFails, OrRoom, OrWing, OrFails, Mutate, Correct, Reanchor, WipeAllContent,
             Withdraw, SealExpunge, Sweep, Expunge, Record, Scrub, ScrubFails, ScrubReadFails,
             SealSibling, ScrubEnds, SealHead, RollRoom, RollWing, RollEstate, RollFails,
             RollupRooms, RecomputeAll, Reopen
        <4>2. d \in call.chain /\ Out(d) /\ call.at = "roll_room" /\ call.rooms = {} /\ roots' = roots
          BY <3>2, <4>1 DEF Return, Out
        <4> QED BY <2>3, <4>2 DEF RootsInv, ChainRolling, Rolling
      <3> QED BY <3>1, <3>2
    <2>4. ASSUME Settled PROVE AtHome' /\ ChainRolling'
      BY <1>1, <2>4, AtHomeKept, ChainKept DEF RootsInv
    <2> QED BY <2>1, <2>2, <2>3, <2>4 DEF RootsInv
  <1> QED BY <1>0, <1>1

\* The records of an estate are true, whatever is captured, withdrawn, expunged or revived and
\* wherever a crash or a failing call cuts it short: the erasure ledger names no row with text,
\* a row apart from its latest audit event is one the sweep finds, and no Merkle root commits to
\* what withdraw or expunge took away (expunge_gated, seal_expunge_audit, rollup_merkle_roots).
\* The gate is the substrate's; an accepted sibling is excluded because the code records it as
\* erased and keeps it (MCEstate_accepted).
THEOREM RecordsStayTrue ==
  ASSUME GateIsKnown, NoAcceptedSibling
  PROVE  Spec => []RecordsAreTrue
  <1> DEFINE Inv == LedgerInv /\ AuditInv /\ RootsInv
  <1>1. Init => Inv
    <2> SUFFICES ASSUME Init PROVE Inv
      OBVIOUS
    <2>1. LedgerInv
      BY DEF Init, LedgerInv, LedgerHoldsNoText, Idle, Expunging
    <2>2. AuditInv
      BY DEF Init, AuditInv, Stored, Idle
    <2>3. RootsInv
      BY DEF Init, RootsInv, GoneOut, NothingGoneIsAttested, AtHome, ChainRolling, Idle, Expunging, Nodes
    <2> QED BY <2>1, <2>2, <2>3
  <1>2. Shape /\ Inv /\ [Next]_vars => Inv'
    BY LedgerKept, AuditKept, RootsKept
  <1>3. Shape /\ Inv => RecordsAreTrue
    <2> SUFFICES ASSUME Shape, Inv PROVE RecordsAreTrue
      OBVIOUS
    <2>1. LedgerIsTrue
      BY DEF LedgerInv, LedgerIsTrue
    <2>2. UnauditedIsSwept
      BY DEF AuditInv, UnauditedIsSwept, Audited, Snap, Orphans
    <2>3. RetractedNotAttested
      BY DEF RootsInv, RetractedNotAttested, Settled
    <2> QED BY <2>1, <2>2, <2>3 DEF RecordsAreTrue, Shape
  <1> HIDE DEF Inv
  <1> QED BY <1>1, <1>2, <1>3, ShapeInvariant, PTL DEF Spec

(***************************************************************************)
(* Lineages                                                                *)
(***************************************************************************)

\* The ways a row comes to its state.
LEMMA StateStep ==
  ASSUME Shape, Next, NEW d \in Drawers, rows'[d] # None
  PROVE  \/ rows[d] # None /\ rows'[d].state = rows[d].state
         \/ \E f \in Frames : Capture(d, f)
         \/ \E v \in Mutations : Mutate(d, v) /\ rows[d] # None /\ rows'[d].state = Target[v]
         \/ SupersedePrior /\ d = call.other /\ rows'[d].state = "superseded"
         \/ rows[d] # None /\ rows'[d].state \in {"withdrawn", "tombstoned"}
  <1> USE DEF Shape
  <1> DEFINE Same == rows[d] # None /\ rows'[d].state = rows[d].state
             Out2 == rows[d] # None /\ rows'[d].state \in {"withdrawn", "tombstoned"}
  <1>u. ASSUME rows'[d] = rows[d] PROVE Same
    BY <1>u
  <1>r. ASSUME NEW e \in Drawers, rows[e] # None PROVE rows[e] \in Row /\ e \in Stored
    BY <1>r DEF TypeOK, Stored
  <1>1. ASSUME NEW e \in Drawers, NEW f \in Frames, Capture(e, f), e # d PROVE Same
    BY <1>1, <1>u DEF Capture, Write, TypeOK
  <1>2. ASSUME AddTunnelFails PROVE Same
    BY <1>2, <1>u DEF AddTunnelFails, TypeOK
  <1>3. ASSUME SupersedePrior PROVE Same \/ (d = call.other /\ rows'[d].state = "superseded")
    <2>1. call.other \in Stored /\ rows[call.other] \in Row
      BY <1>3, StoredRows DEF SupersedePrior, CallShape, Superseding
    <2> QED BY <1>3, <1>u, <2>1 DEF SupersedePrior, MutateState, Write, TypeOK, Target, Row
  <1>4. ASSUME NEW e \in Drawers, NEW v \in Mutations, Mutate(e, v)
        PROVE  Same \/ (e = d /\ rows[d] # None /\ rows'[d].state = Target[v])
    <2>1. rows[e] \in Row /\ rows[e] # None
      BY <1>4, <1>r DEF Mutate
    <2> QED BY <1>4, <1>u, <2>1 DEF Mutate, MutateState, Write, TypeOK, Row
  <1>5. ASSUME NEW e \in Drawers, NEW marks \in SUBSET Marks, Correct(e, marks) PROVE Same
    <2>1. rows[e] \in Row /\ rows[e] # None
      BY <1>5, <1>r DEF Correct
    <2> QED BY <1>5, <1>u, <2>1 DEF Correct, Write, TypeOK, Row
  <1>6. ASSUME NEW e \in Drawers, NEW r \in Rooms, Reanchor(e, r) PROVE Same
    <2>1. rows[e] \in Row /\ rows[e] # None
      BY <1>6, <1>r DEF Reanchor
    <2> QED BY <1>6, <1>u, <2>1 DEF Reanchor, TypeOK, Row
  <1>7. ASSUME WipeAllContent PROVE Same
    BY <1>7, <1>r DEF WipeAllContent, Row, Stored
  <1>8. ASSUME NEW e \in Drawers, Withdraw(e) PROVE Same \/ Out2
    <2>1. rows[e] \in Row /\ rows[e] # None
      BY <1>8, <1>r DEF Withdraw
    <2> QED BY <1>8, <1>u, <2>1 DEF Withdraw, MutateState, Write, TypeOK, Row, Target
  <1>9. ASSUME NEW e \in Stored, rows' = [rows EXCEPT ![e] = Erased(e)] PROVE Same \/ Out2
    BY <1>9, <1>u, ErasedKept, StoredRows
  <1>10. ASSUME NEW e \in Drawers, NEW op \in {"expunge", "unsealed"}, Expunge(e, op) PROVE Same \/ Out2
    BY <1>9, <1>10, ExpungeStep
  <1>11. ASSUME Scrub PROVE Same \/ Out2
    <2>1. PICK s \in call.todo : Scrubbed(s)
      BY <1>11, ScrubStep
    <2> QED BY <1>9, <1>u, <2>1 DEF Scrubbed, CallShape
  <1>12. ASSUME AddTunnel \/ SupersedePriorFails \/ OrRoom \/ OrWing \/ OrFails
              \/ (\E e \in Drawers : SealExpunge(e) \/ Sweep(e))
              \/ Record \/ ScrubFails \/ ScrubReadFails \/ SealSibling \/ ScrubEnds \/ SealHead
         PROVE Same
    BY <1>12, <1>u DEF AddTunnel, SupersedePriorFails, OrRoom, OrWing, OrFails, SealExpunge, Sweep,
                       Record, ScrubFails, ScrubReadFails, SealSibling, ScrubEnds, SealHead
  <1>13. ASSUME RollRoom \/ RollWing \/ RollEstate \/ RollFails \/ Return
              \/ (\E ds \in SUBSET Stored : RollupRooms(ds)) \/ RecomputeAll \/ Reopen
         PROVE Same
    BY <1>13, <1>u DEF RollRoom, RollWing, RollEstate, RollFails, Return, RollupRooms, RecomputeAll,
                       Reopen
  <1> HIDE DEF Same, Out2
  <1>14. \/ Same \/ Out2
         \/ \E f \in Frames : Capture(d, f)
         \/ \E v \in Mutations : Mutate(d, v) /\ rows[d] # None /\ rows'[d].state = Target[v]
         \/ SupersedePrior /\ d = call.other /\ rows'[d].state = "superseded"
    BY <1>1, <1>2, <1>3, <1>4, <1>5, <1>6, <1>7, <1>8, <1>10, <1>11, <1>12, <1>13 DEF Next
  <1> QED BY <1>14 DEF Same, Out2

\* A row comes alive by capture and by revival only.
LEMMA LivingStep ==
  ASSUME GateIsKnown, Shape, Next, NEW d \in Drawers, rows'[d] # None, Living(d)'
  PROVE  \/ d \in Stored /\ Living(d) /\ rows'[d].lineage = rows[d].lineage
         \/ \E f \in Frames : Capture(d, f)
         \/ Mutate(d, "observe") /\ d \in Stored /\ rows'[d].lineage = rows[d].lineage
  <1> USE DEF Shape
  <1>l. rows[d] # None => d \in Stored /\ rows'[d].lineage = rows[d].lineage
    BY RowsKept DEF RowKept, SameDrawer, Stored
  <1>1. CASE rows[d] # None /\ rows'[d].state = rows[d].state
    BY <1>1, <1>l DEF Living
  <1>2. ASSUME NEW v \in Mutations, Mutate(d, v), rows[d] # None, rows'[d].state = Target[v], v # "observe"
        PROVE  Living(d)
    <2>1. v \in {"contest", "resolveContest"}
      BY <1>2 DEF Mutations, Target, Living
    <2>2. CASE v = "resolveContest"
      BY <1>2, <2>2 DEF Mutate, KindAllows, Living
    <2>3. CASE v = "contest"
      <3>1. rows[d].state \in RowStates /\ <<rows[d].state, "contest">> \in Admits
        BY <1>2, <2>3 DEF Mutate, Admitted, TypeOK, Row
      <3> QED BY <3>1 DEF GateIsKnown, Living
    <2> QED BY <2>1, <2>2, <2>3
  <1>3. rows'[d].state \notin {"superseded", "withdrawn", "tombstoned"}
    BY DEF Living
  <1> QED BY <1>l, <1>1, <1>2, <1>3, StateStep

\* A superseded drawer has an heir, from the step that supersedes it on.
LEMMA HeirsKept ==
  ASSUME Shape, HeirsInv, [Next]_vars
  PROVE  HeirsInv'
  <1> USE DEF Shape
  <1>0. CASE UNCHANGED vars
    BY <1>0 DEF HeirsInv, SupersededHasHeir, Stored, vars, May
  <1>1. CASE Next
    <2>t. tunnels \subseteq tunnels'
      BY <1>1 DEF Next, Capture, AddTunnel, AddTunnelFails, SupersedePrior, SupersedePriorFails,
         OrRoom, OrWing, OrFails, Mutate, Correct, Reanchor, WipeAllContent, Withdraw, SealExpunge,
         Sweep, Expunge, Record, Scrub, ScrubFails, ScrubReadFails, SealSibling, ScrubEnds,
         SealHead, RollRoom, RollWing, RollEstate, RollFails, Return, RollupRooms, RecomputeAll,
         Reopen
    <2>h. ASSUME NEW n \in Stored, NEW p \in Stored, p \in Stored', <<n, p>> \in tunnels,
                 rows[n].lineage = rows[p].lineage
          PROVE  n \in Stored' /\ <<n, p>> \in tunnels' /\ rows'[n].lineage = rows'[p].lineage
      <3>1. n \in Drawers /\ p \in Drawers /\ rows[n] # None /\ rows[p] # None /\ rows'[p] # None
        BY <2>h, StoredRows DEF Stored
      <3>2. rows'[n] # None
        BY <1>1, <2>h, <3>1, RowsKept DEF RowKept, Traces, Traceless
      <3> QED BY <1>1, <2>h, <2>t, <3>1, <3>2, RowsKept DEF RowKept, SameDrawer, Stored
    <2>1. ASSUME ~May("supersede"), NEW p \in Stored', rows'[p].state = "superseded"
          PROVE  \E n \in Stored' : <<n, p>> \in tunnels' /\ rows'[n].lineage = rows'[p].lineage
      <3>0. p \in Drawers /\ rows'[p] # None
        BY <2>1 DEF Stored
      <3>1. CASE rows[p] # None /\ rows'[p].state = rows[p].state
        <4>1. p \in Stored
          BY <3>0, <3>1 DEF Stored
        <4>2. PICK n \in Stored : <<n, p>> \in tunnels /\ rows[n].lineage = rows[p].lineage
          BY <2>1, <3>1, <4>1 DEF HeirsInv, SupersededHasHeir
        <4> QED BY <2>1, <2>h, <4>1, <4>2
      <3>2. CASE SupersedePrior /\ p = call.other
        <4>1. /\ call.at = "supersede" /\ call.d \in Stored /\ p \in Stored
              /\ rows[call.d].lineage = rows[p].lineage /\ <<call.d, p>> \in tunnels
          BY <3>2 DEF SupersedePrior, CallShape, Superseding, HeirsInv
        <4> QED BY <2>1, <2>h, <4>1
      <3>3. ~(\E f \in Frames : Capture(p, f))
        <4> SUFFICES ASSUME NEW f \in Frames, Capture(p, f) PROVE FALSE
          OBVIOUS
        <4>1. rows'[p] = Captured(f)
          BY <3>0 DEF Capture, Write, TypeOK
        <4> QED BY <2>1, <4>1 DEF Captured
      <3>4. ~(\E v \in Mutations : Mutate(p, v) /\ rows'[p].state = Target[v])
        <4> SUFFICES ASSUME NEW v \in Mutations, Mutate(p, v), rows'[p].state = Target[v] PROVE FALSE
          OBVIOUS
        <4>1. v = "supersede"
          BY <2>1 DEF Mutations, Target
        <4> QED BY <2>1, <4>1 DEF Mutate, KindAllows
      <3> QED BY <1>1, <2>1, <3>0, <3>1, <3>2, <3>3, <3>4, StateStep
    <2>2. SupersededHasHeir'
      BY <2>1, DeployFixed DEF SupersededHasHeir, May
    <2>3. call'.at = "supersede" => <<call'.d, call'.other>> \in tunnels'
      <3>1. call'.at = "supersede" => AddTunnel
        BY <1>1, StepAt, EndsOrGoesOn DEF GoesOn, Idle
      <3>2. AddTunnel => call'.d = call.d /\ call'.other = call.other
        BY DEF AddTunnel, Go, TypeOK
      <3> QED BY <3>1, <3>2 DEF AddTunnel
    <2> QED BY <2>2, <2>3 DEF HeirsInv
  <1> QED BY <1>0, <1>1

\* No lineage has two living drawers, but the one a capture adds and the one it is about to
\* supersede.
LEMMA HeadsKept ==
  ASSUME GateIsKnown, HeadsInOrder, Shape, HeadsInv, [Next]_vars
  PROVE  HeadsInv'
  <1> USE DEF Shape
  <1>d. deploy' = deploy
    BY DeployFixed
  <1>0. CASE UNCHANGED vars
    BY <1>0 DEF HeadsInv, Stored, Living, vars
  <1> SUFFICES ASSUME deploy.may \cap {"crash", "fails"} = {}, Next PROVE HeadsInv'
    BY <1>d, <1>0 DEF HeadsInv
  <1>m. ~May("crash") /\ ~May("fails") /\ ~May("contested") /\ ~May("revive")
    BY DEF HeadsInOrder, May, TypeOK
  <1>h. /\ call.at \in Superseding => rows[call.other].state = "active"
        /\ \A x, y \in Stored :
             rows[x].lineage = rows[y].lineage /\ Living(x) /\ Living(y) =>
               x = y \/ (call.at \in Superseding /\ x \in {call.d, call.other} /\ y \in {call.d, call.other})
    BY DEF HeadsInv
  <1>s. \A d \in Stored : d \in Drawers /\ rows[d] # None
    BY StoredRows
  <1>1. ASSUME NEW d \in Drawers, NEW f \in Frames, Capture(d, f) PROVE HeadsInv'
    <2>1. call.at = "idle" /\ rows[d] = None
      BY <1>1 DEF Capture, Begin, Traces
    <2>2. rows'[d].lineage = f.lineage /\ \A e \in Drawers : e # d => rows'[e] = rows[e]
      BY <1>1 DEF Capture, Write, TypeOK, Captured
    <2>3. \A x, y \in Stored :
             rows[x].lineage = rows[y].lineage /\ Living(x) /\ Living(y) => x = y
      BY <1>h, <2>1 DEF Superseding
    <2>4. ASSUME NEW y \in Stored', y # d, rows'[y].lineage = f.lineage, Living(y)'
          PROVE  /\ call'.at = "tunnel" /\ call'.d = d /\ call'.other = y
      <3>1. y \in Predecessors(f.lineage)
        BY <2>2, <2>4 DEF Predecessors, Chain, Stored, Living
      <3>2. PICK p \in Predecessors(f.lineage) :
              call' = [Idle EXCEPT !.at = "tunnel", !.op = "capture", !.d = d, !.other = p]
        BY <1>1, <3>1 DEF Capture
      <3>3. p = y
        BY <2>3, <3>1 DEF Predecessors, Chain, Living
      <3> QED BY <3>2, <3>3 DEF Idle
    <2>5. ASSUME call'.at \in Superseding PROVE rows'[call'.other].state = "active"
      <3>1. PICK p \in Predecessors(f.lineage) :
              /\ rows[p].state = "active"
              /\ call' = [Idle EXCEPT !.at = "tunnel", !.op = "capture", !.d = d, !.other = p]
        BY <1>1, <1>m, <2>5 DEF Capture, Idle, Superseding
      <3>2. call'.other = p /\ p # d /\ p \in Drawers
        BY <2>1, <3>1 DEF Idle, Predecessors, Chain, Stored
      <3> QED BY <2>2, <3>1, <3>2
    <2>6. ASSUME NEW x \in Stored', NEW y \in Stored',
                 rows'[x].lineage = rows'[y].lineage, Living(x)', Living(y)'
          PROVE  x = y \/ (call'.at \in Superseding /\ x \in {call'.d, call'.other}
                                                    /\ y \in {call'.d, call'.other})
      <3>1. CASE x # d /\ y # d
        BY <2>2, <2>3, <2>6, <3>1 DEF Stored, Living
      <3>2. CASE x = d /\ y # d
        BY <2>2, <2>4, <2>6, <3>2 DEF Superseding
      <3>3. CASE x # d /\ y = d
        BY <2>2, <2>4, <2>6, <3>3 DEF Superseding
      <3> QED BY <3>1, <3>2, <3>3
    <2> QED BY <2>5, <2>6 DEF HeadsInv
  <1>2. ASSUME NEW d \in Drawers, Mutate(d, "observe") PROVE HeadsInv'
    <2>1. call.at = "idle" /\ call'.at = "idle" /\ rows[d] # None
      BY <1>2 DEF Mutate, Begin
    <2>2. LivingBeside(d) = {}
      BY <1>2, <1>m DEF Mutate, KindAllows, Revivable
    <2>3. \A e \in Drawers : rows'[e] # rows[e] => e = d
      BY <1>2 DEF Mutate, MutateState, Write, TypeOK
    <2>4. \A e \in Drawers : rows'[e] # None => rows[e] # None /\ rows'[e].lineage = rows[e].lineage
      BY <2>1, <2>3, RowsKept DEF RowKept, SameDrawer
    <2>5. ASSUME NEW y \in Stored', y # d, rows'[y].lineage = rows'[d].lineage, Living(y)', d \in Stored'
          PROVE  FALSE
      <3>1. y \in Stored /\ rows[y].lineage = rows[d].lineage /\ Living(y)
        BY <2>3, <2>4, <2>5 DEF Stored, Living
      <3>2. y \in LivingBeside(d)
        BY <2>5, <3>1 DEF LivingBeside, Chain, Living
      <3> QED BY <2>2, <3>2
    <2>6. ASSUME NEW x \in Stored', NEW y \in Stored',
                 rows'[x].lineage = rows'[y].lineage, Living(x)', Living(y)'
          PROVE  x = y
      <3>1. CASE x # d /\ y # d
        BY <1>h, <2>1, <2>3, <2>6, <3>1 DEF Stored, Living, Superseding
      <3>2. CASE x = d \/ y = d
        BY <2>5, <2>6, <3>2
      <3> QED BY <3>1, <3>2
    <2> QED BY <2>1, <2>6 DEF HeadsInv, Superseding
  <1>3. ASSUME ~(\E d \in Drawers, f \in Frames : Capture(d, f)), ~(\E d \in Drawers : Mutate(d, "observe"))
        PROVE  HeadsInv'
    <2>1. \A d \in Stored' : Living(d)' =>
            d \in Stored /\ Living(d) /\ rows'[d].lineage = rows[d].lineage
      BY <1>3, LivingStep DEF Stored
    <2>2. CASE AddTunnel
      <3>1. /\ call'.at = "supersede" /\ call'.d = call.d /\ call'.other = call.other
            /\ call.at = "tunnel" /\ rows' = rows
        BY <2>2 DEF AddTunnel, Go, TypeOK
      <3> QED BY <1>h, <2>1, <3>1 DEF HeadsInv, Superseding
    <2>3. CASE SupersedePrior
      <3>1. call'.at = "or_room" /\ call.other \in Stored
        BY <2>3, StepAt DEF SupersedePrior, CallShape, Superseding
      <3>2. rows'[call.other].state = "superseded"
        BY <2>3, <3>1, StoredRows DEF SupersedePrior, MutateState, Write, TypeOK, Target, Row
      <3> QED BY <1>h, <2>1, <3>1, <3>2 DEF HeadsInv, Superseding, Living
    <2>4. CASE call.at \notin Superseding /\ call'.at \notin Superseding
      BY <1>h, <2>1, <2>4 DEF HeadsInv
    <2>5. ASSUME call.at \in Superseding PROVE AddTunnel \/ SupersedePrior
      <3>1. ~AddTunnelFails
        BY <1>m DEF AddTunnelFails
      <3>2. ~SupersedePriorFails
        BY <1>m, <1>h, <2>5, EstateAssumption DEF SupersedePriorFails, Admitted, Pinned
      <3>3. ~Reopen
        BY <1>m, <2>5 DEF Reopen, Superseding
      <3>4. ~((\E d \in Drawers, v \in Mutations : Mutate(d, v))
              \/ (\E d \in Drawers, marks \in SUBSET Marks : Correct(d, marks))
              \/ (\E d \in Drawers, r \in Rooms : Reanchor(d, r)) \/ WipeAllContent
              \/ (\E d \in Drawers : Withdraw(d) \/ SealExpunge(d) \/ Sweep(d))
              \/ (\E d \in Drawers, op \in {"expunge", "unsealed"} : Expunge(d, op))
              \/ (\E ds \in SUBSET Stored : RollupRooms(ds)) \/ RecomputeAll)
        BY <2>5 DEF Mutate, Correct, Reanchor, WipeAllContent, Withdraw, SealExpunge, Sweep, Expunge,
                    RollupRooms, RecomputeAll, Begin, Superseding
      <3>5. ~(OrRoom \/ OrWing \/ OrFails \/ Record \/ Scrub \/ ScrubFails \/ ScrubReadFails
              \/ SealSibling \/ ScrubEnds \/ SealHead)
        BY <2>5 DEF OrRoom, OrWing, OrFails, Record, Scrub, ScrubFails, ScrubReadFails, SealSibling,
                    ScrubEnds, SealHead, Superseding
      <3>6. ~(RollRoom \/ RollWing \/ RollEstate \/ RollFails \/ Return)
        BY <2>5 DEF RollRoom, RollWing, RollEstate, RollFails, Return, Superseding
      <3> QED BY <1>3, <3>1, <3>2, <3>3, <3>4, <3>5, <3>6 DEF Next
    <2>6. ASSUME call'.at \in Superseding PROVE AddTunnel
      BY <1>3, <2>6, StepAt, EndsOrGoesOn DEF GoesOn, Idle, Superseding
    <2> QED BY <2>2, <2>3, <2>4, <2>5, <2>6
  <1> QED BY <1>1, <1>2, <1>3

\* Lineages stay sound under any sequence of captures, supersessions, contests, revivals and
\* erasures (add_drawer_with_cascade, the revive verb of mutate): a superseded drawer has the
\* successor and the tunnel that explain it wherever a crash or a failure cuts the capture, and
\* without either no lineage has two living heads between calls.  Capturing after a contested
\* head and reviving a withdrawn drawer beside a living one are excluded: the code lets both
\* leave two heads.
THEOREM LineagesStaySound ==
  ASSUME GateIsKnown, HeadsInOrder
  PROVE  Spec => []LineageIsSound
  <1> DEFINE Inv == HeadsInv /\ HeirsInv
  <1>1. Init => Inv
    BY DEF Init, HeadsInv, HeirsInv, SupersededHasHeir, Stored, Idle, Superseding
  <1>2. Shape /\ Inv /\ [Next]_vars => Inv'
    BY HeadsKept, HeirsKept
  <1>3. Shape /\ Inv => LineageIsSound
    <2> SUFFICES ASSUME Shape, Inv PROVE OneLivingHead
      BY DEF HeirsInv, LineageIsSound
    <2> SUFFICES ASSUME call.at = "idle", deploy.may \cap {"crash", "fails"} = {}, NEW l \in Lineages
                 PROVE  Cardinality(Predecessors(l)) <= 1
      BY DEF OneLivingHead
    <2>1. \A d, e \in Predecessors(l) : d = e
      BY DEF HeadsInv, Predecessors, Chain, Living, Superseding
    <2>2. CASE Predecessors(l) = {}
      BY <2>2, FS_EmptySet
    <2>3. CASE Predecessors(l) # {}
      <3>1. PICK d : Predecessors(l) = {d}
        BY <2>1, <2>3
      <3> QED BY <3>1, FS_Singleton
    <2> QED BY <2>2, <2>3
  <1> HIDE DEF Inv
  <1> QED BY <1>1, <1>2, <1>3, ShapeInvariant, PTL DEF Spec
=============================================================================
