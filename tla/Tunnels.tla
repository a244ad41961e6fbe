------------------------------ MODULE Tunnels -------------------------------
(***************************************************************************)
(* Tunnels: edges between drawers, their review and retirement, and the    *)
(* outline that Parent tunnels make (drawer_store_inmemory.rs,             *)
(* estate_verbs.rs).                                                       *)
(***************************************************************************)
EXTENDS StorageCalls

CONSTANTS
  Drawers, NoDrawer,
  Levels,        \* sensitivities of a drawer: 0 Normal, 1 Elevated, 2 Restricted, 3 Secret
  MaxDepth       \* how far outline_ancestors climbs

ASSUME TunnelsAssumption ==
  MaxDepth \in Nat \ {0} /\ Levels \subseteq Nat /\ 0 \in Levels /\ NoDrawer \notin Drawers

VARIABLES
  tunnels,       \* the tunnels table; a tunnel's id is its place
  sensitivity,   \* of each drawer
  outline        \* what was asked last: the parents a drawer may have

tunnelVars == <<tunnels, sensitivity, outline>>

Proposed == "Proposed"
Active == "Active"
Withdrawn == "Withdrawn"

TunnelsInit ==
  /\ tunnels = <<>>
  /\ sensitivity = [d \in Drawers |-> 0]
  /\ outline = [d \in Drawers |-> {NoDrawer}]

--------------------------------------------------------------------------
(* Reads: a tombstoned tunnel is never listed, a retired one is listed by  *)
(* all but all_active_tunnels.                                             *)

get_tunnel(id) == id \in DOMAIN tunnels
Listed(Test(_)) == Ordered(RowsWhere(tunnels, LAMBDA t : ~t.dead /\ Test(t)))
tunnels_from(place) == Listed(LAMBDA t : t.source = place)
tunnels_to(place) == Listed(LAMBDA t : t.target = place)
all_tunnels == Listed(LAMBDA t : TRUE)
all_active_tunnels == Listed(LAMBDA t : ~t.retired)

(* The only listing with a ceiling: Restricted on demand, Secret never.    *)
tunnels_from_wing_with_ceiling(place, including_restricted) ==
  SelectSeq(tunnels_from(place),
            LAMBDA id : tunnels[id].sensitivity <= IF including_restricted THEN 2 ELSE 1)

ParentTunnels(child) ==
  RowsWhere(tunnels, LAMBDA t : t.kind = "Parent" /\ t.source = child /\ ~t.dead)
outline_children(parent) ==
  SortedBy(RowsWhere(tunnels, LAMBDA t : /\ t.kind = "Parent"
                                         /\ t.target = parent
                                         /\ ~t.dead),
           LAMBDA a, b : \/ tunnels[a].order_key < tunnels[b].order_key
                         \/ tunnels[a].order_key = tunnels[b].order_key /\ a < b)
ParentOf(child) ==
  IF ParentTunnels(child) = {} THEN NoDrawer
  ELSE tunnels[Min(ParentTunnels(child))].target

(* Root first; a cycle is followed until MaxDepth.                         *)
outline_ancestors(drawer) ==
  LET up[n \in 0..MaxDepth] ==
        IF n = 0 THEN <<>>
        ELSE LET below == up[n - 1]
                 current == IF below = <<>> THEN drawer ELSE below[1]
             IN  IF Len(below) < n - 1 \/ ParentOf(current) = NoDrawer THEN below
                 ELSE <<ParentOf(current)>> \o below
  IN  up[MaxDepth]

--------------------------------------------------------------------------
(* Filing a tunnel.  A frame with an empty name is refused before any      *)
(* statement.                                                              *)

Tunnel(kind, source, target, lifecycle, order_key) ==
  [kind |-> kind, source |-> source, target |-> target, lifecycle |-> lifecycle,
   order_key |-> order_key, sensitivity |-> 0, retired |-> FALSE, dead |-> FALSE]

capture_tunnel(c, frame) ==
  /\ Begin(c, [op |-> "add_tunnel", at |-> "ceiling", tunnel |-> frame])
  /\ IF frame.kind = "Parent"
       THEN outline' = [outline EXCEPT ![frame.source] = @ \cup {frame.target}]
       ELSE UNCHANGED outline
  /\ UNCHANGED <<tunnels, sensitivity>>
(* The tunnel takes the higher sensitivity of the drawers it joins.        *)
ReadEndpoints(c) ==
  /\ At(c, "add_tunnel", "ceiling")
  /\ LET t == calls[c].tunnel
     IN  Continue(c, [calls[c] EXCEPT !.at = "check",
           !.tunnel.sensitivity = Max({sensitivity[t.source], sensitivity[t.target]})])
  /\ UNCHANGED tunnelVars

(* Mutant: a retired Parent tunnel is passed over. *)
has_parent_Retired(t) == \E p \in ParentTunnels(t.source) : ~tunnels[p].retired

has_parent(t) == ParentTunnels(t.source) # {}
add_tunnel(c) ==
  /\ At(c, "add_tunnel", "check")
  /\ IF calls[c].tunnel.kind = "Parent" /\ has_parent(calls[c].tunnel)
       THEN End(c)
       ELSE GoTo(c, "insert")
  /\ UNCHANGED tunnelVars
InsertTunnel(c) ==
  LET t == calls[c].tunnel
  IN  /\ At(c, "add_tunnel", "insert")
      /\ tunnels' = Append(tunnels, t)
      /\ outline' = IF t.kind = "Parent" THEN [outline EXCEPT ![t.source] = {t.target}]
                    ELSE outline
      /\ UNCHANGED sensitivity
      /\ End(c)

(* The Parent tunnel there is is tombstoned, then the new one is filed     *)
(* with zero bitmaps; without a new parent the drawer becomes top level.   *)
reparent_drawer(c, child, parent, order_key) ==
  /\ Begin(c, [op |-> "reparent_drawer", at |-> "find", child |-> child,
               parent |-> parent, order_key |-> order_key, old |-> 0])
  /\ outline' = [outline EXCEPT ![child] = @ \cup {NoDrawer, parent}]
  /\ UNCHANGED <<tunnels, sensitivity>>
AddParent(c) ==
  LET call == calls[c]
  IN  IF call.parent = NoDrawer
        THEN outline' = [outline EXCEPT ![call.child] = {NoDrawer}] /\ End(c)
        ELSE /\ UNCHANGED outline
             /\ Continue(c, [op |-> "add_tunnel", at |-> "check",
                             tunnel |-> Tunnel("Parent", call.child, call.parent, Active,
                                               call.order_key)])
FindParent(c) ==
  /\ At(c, "reparent_drawer", "find")
  /\ IF ParentTunnels(calls[c].child) = {} THEN AddParent(c)
     ELSE /\ Continue(c, [calls[c] EXCEPT !.at = "tombstone",
                                         !.old = Min(ParentTunnels(calls[c].child))])
          /\ UNCHANGED outline
  /\ UNCHANGED <<tunnels, sensitivity>>
TombstoneParent(c) ==
  /\ At(c, "reparent_drawer", "tombstone")
  /\ tunnels' = [tunnels EXCEPT ![calls[c].old].dead = TRUE]
  /\ AddParent(c)
  /\ UNCHANGED sensitivity

--------------------------------------------------------------------------
(* Review and retirement: the operational bitmap is read, one field of it  *)
(* is changed and the whole is written back.                               *)

Rewrite(c, id, verb) ==
  /\ Begin(c, [op |-> "rewrite", at |-> "read", id |-> id, verb |-> verb,
               lifecycle |-> Active, retired |-> FALSE])
  /\ UNCHANGED tunnelVars
retire_tunnel(c, id) == Rewrite(c, id, "retire")
unretire_tunnel(c, id) == Rewrite(c, id, "unretire")
respond_to_tunnel(c, id, accept) == Rewrite(c, id, IF accept THEN "accept" ELSE "reject")

(* Mutant: a tunnel that was withdrawn may be accepted. *)
may_review_Withdrawn(lifecycle) == lifecycle # Active

may_review(lifecycle) == lifecycle = Proposed

ReadTunnel(c) ==
  /\ At(c, "rewrite", "read")
  /\ IF ~get_tunnel(calls[c].id) THEN End(c)
     ELSE LET t == tunnels[calls[c].id]
              verb == calls[c].verb
              reviews == verb \in {"accept", "reject"}
     IN  IF reviews /\ ~may_review(t.lifecycle) THEN End(c)
         ELSE Continue(c, [calls[c] EXCEPT !.at = "update",
                !.lifecycle = CASE verb = "accept" -> Active
                                [] verb = "reject" -> Withdrawn
                                [] OTHER -> t.lifecycle,
                !.retired = CASE verb = "retire" -> TRUE
                              [] verb = "unretire" -> FALSE
                              [] OTHER -> t.retired])
  /\ UNCHANGED tunnelVars
UpdateTunnel(c) ==
  /\ At(c, "rewrite", "update")
  /\ tunnels' = [tunnels EXCEPT ![calls[c].id].lifecycle = calls[c].lifecycle,
                                ![calls[c].id].retired = calls[c].retired]
  /\ UNCHANGED <<sensitivity, outline>>
  /\ End(c)

(* A drawer's own sensitivity is changed later; its tunnels are not.       *)
reclassify(c, drawer, level) ==
  /\ Begin(c, [op |-> "reclassify", at |-> "update", drawer |-> drawer, level |-> level])
  /\ UNCHANGED tunnelVars
UpdateSensitivity(c) ==
  /\ At(c, "reclassify", "update")
  /\ sensitivity' = [sensitivity EXCEPT ![calls[c].drawer] = calls[c].level]
  /\ UNCHANGED <<tunnels, outline>>
  /\ End(c)

TunnelsNext ==
  \E c \in Callers :
    \/ \E s, t \in Drawers : \E kind \in {"Parent", "Related"} :
         \E lifecycle \in {Proposed, Active} :
           /\ s # t
           /\ capture_tunnel(c, Tunnel(kind, s, t, lifecycle, 0))
    \/ ReadEndpoints(c) \/ add_tunnel(c) \/ InsertTunnel(c)
    \/ \E d \in Drawers, p \in Drawers \cup {NoDrawer} :
         d # p /\ reparent_drawer(c, d, p, Len(tunnels))
    \/ FindParent(c) \/ TombstoneParent(c)
    \/ \E id \in 1..(Len(tunnels) + 1) :
         \/ retire_tunnel(c, id) \/ unretire_tunnel(c, id)
         \/ \E accept \in BOOLEAN : respond_to_tunnel(c, id, accept)
    \/ ReadTunnel(c) \/ UpdateTunnel(c)
    \/ \E d \in Drawers, level \in Levels : reclassify(c, d, level)
    \/ UpdateSensitivity(c)
    \/ Fail(c) /\ UNCHANGED tunnelVars

--------------------------------------------------------------------------
ViewsAgree ==
  \A id \in DOMAIN tunnels :
    LET t == tunnels[id]
    IN  /\ Contains(all_tunnels, id) <=> ~t.dead
        /\ Contains(all_active_tunnels, id) <=> ~t.dead /\ ~t.retired
        /\ Contains(tunnels_from(t.source), id) <=> Contains(tunnels_to(t.target), id)

(* A drawer has at most one parent, and it is the one that the last        *)
(* completed call gave it (or one that a call cut short since then would   *)
(* have led to): it is among that parent's children and first above it,    *)
(* and the outline's climb ends whatever cycle the calls have made.  The   *)
(* tunnel is seen from both its ends or from none.                         *)
OneParent ==
  /\ ViewsAgree
  /\ \A d \in Drawers :
       /\ Cardinality(ParentTunnels(d)) <= 1
       /\ ParentOf(d) \in outline[d]
       /\ ParentOf(d) # NoDrawer =>
            /\ Last(outline_ancestors(d)) = ParentOf(d)
            /\ \E i \in DOMAIN outline_children(ParentOf(d)) :
                 tunnels[outline_children(ParentOf(d))[i]].source = d
       /\ Len(outline_ancestors(d)) <= MaxDepth

(* A tunnel is reviewed once: what was accepted or withdrawn stays so      *)
(* however it is retired and brought back, and a tombstoned tunnel is      *)
(* never listed again.                                                     *)
ReviewStands ==
  \A t \in DOMAIN tunnels :
    /\ tunnels[t].lifecycle # Proposed => tunnels'[t].lifecycle = tunnels[t].lifecycle
    /\ tunnels[t].dead => tunnels'[t].dead
    /\ tunnels'[t].lifecycle # tunnels[t].lifecycle =>
         tunnels'[t].retired = tunnels[t].retired
ReviewedOnce == [][ReviewStands]_<<callVars, tunnelVars>>

(* What the ceiling is for (capture_tunnel: "filtering one endpoint        *)
(* automatically hides the tunnel"): a listing up to a level names no      *)
(* drawer above it.  It does not hold (README, section 6).                 *)
TunnelHidesWithEndpoint ==
  \A d \in Drawers : \A restricted \in BOOLEAN :
    LET shown == tunnels_from_wing_with_ceiling(d, restricted)
    IN  \A i \in DOMAIN shown :
          sensitivity[tunnels[shown[i]].target] <= IF restricted THEN 2 ELSE 1
=============================================================================
