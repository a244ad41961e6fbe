------------------------------ MODULE MCEstate ------------------------------
(* Bounded instances of Estate. *)
EXTENDS Estate, TLC

CONSTANTS l1, l2, f1

Symmetry == Permutations(Drawers)

\* Two rooms, each the only one of its wing.
MCWingOf == [r1 |-> "w1", r2 |-> "w2"]

Frame(l, r, fs, ms) == [lineage |-> l, room |-> r, flags |-> fs, marks |-> ms]

\* One lineage that spreads over both rooms, and a drawer beside it.
MCFrames == {Frame(l1, "r1", {f1}, {}), Frame(l1, "r2", {}, {}), Frame(l2, "r1", {}, {})}

\* Has the flag; has it or another mask; has not got it; has it and has not.
Clause(neg, masks) == [not |-> neg, any |-> masks]
MCChains == {{Clause(FALSE, {{f1}})}, {Clause(FALSE, {{f1}, {}})}, {Clause(TRUE, {{f1}})},
             {Clause(FALSE, {{f1}}), Clause(TRUE, {{}})}}

\* Tombstoning is open to every state but accepted and tombstoned, retraction to every
\* living one.
MCAdmits ==
  Pinned \cup {<<s, "tombstone">> : s \in RowStates \ {"accepted", "tombstoned"}}
         \cup {<<s, "retract">> : s \in {"contested", "accepted"}}
         \cup {<<"accepted", "supersede">>}

ASSUME GateAssumption == GateIsKnown

Deploy(n, ms, lib, k) == [drawers |-> n, marks |-> ms, may |-> lib, calls |-> k]

MCDeployments ==
  {Deploy(3, {}, {}, 5),
   Deploy(2, {"canonical"}, {"supersede", "wipe"}, 6),
   Deploy(1, Marks, {}, 5),
   Deploy(3, {}, {"crash", "fails"}, 4),
   Deploy(2, {}, {"crash", "ignored"}, 4),
   Deploy(2, {}, {"reanchor", "kept", "contested", "fails"}, 4)}

\* One liberty each that the code does not bear.
AcceptedSibling == {Deploy(2, {"canonical"}, {"accepted"}, 5)}
ReviveWithdrawn == {Deploy(2, {}, {"revive"}, 4)}
ContestedHead   == {Deploy(2, {}, {"contested"}, 4)}
Moved           == {Deploy(2, {}, {"reanchor"}, 4)}
KeptSibling     == {Deploy(2, {}, {"kept"}, 4)}
SplitExpunge    == {Deploy(2, {}, {}, 4)}
=============================================================================
