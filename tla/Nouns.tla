------------------------------- MODULE Nouns --------------------------------
(***************************************************************************)
(* The estate's nouns beside the drawer, together: each keeps its own      *)
(* tables, all are reached through the same serialised calls.  No verb     *)
(* writes the tables of two of them, so a behaviour follows one noun (its  *)
(* scene) and the others stand still.                                      *)
(***************************************************************************)
EXTENDS NodeStore, Tunnels, Relations, RecallTraces

CONSTANT CallsIn   \* bound: how many of MaxCalls a scene takes

VARIABLE scene

vars == <<callVars, treeVars, tunnelVars, relationVars, traceVars, scene>>

Init ==
  /\ CallsInit /\ TreeInit /\ TunnelsInit /\ RelationsInit /\ TracesInit
  /\ scene \in {"tree", "tunnels", "relations", "traces"}

Scene(name, Steps, others) ==
  scene = name /\ Steps /\ begun' <= CallsIn[name] /\ UNCHANGED <<others, scene>>
Next ==
  \/ Scene("tree", TreeNext, <<tunnelVars, relationVars, traceVars>>)
  \/ Scene("tunnels", TunnelsNext, <<treeVars, relationVars, traceVars>>)
  \/ Scene("relations", RelationsNext, <<treeVars, tunnelVars, traceVars>>)
  \/ Scene("traces", TracesNext, <<treeVars, tunnelVars, relationVars>>)

Spec == Init /\ [][Next]_vars
=============================================================================
