----------------------------- MODULE NodeStore ------------------------------
(***************************************************************************)
(* The node tree (node_store.rs): the estate's root, wings and rooms that  *)
(* are created when a drawer is first filed under them, and the listings   *)
(* that find drawers again by the names of their wing and room.            *)
(***************************************************************************)
EXTENDS StorageCalls

CONSTANTS
  WingNames, RoomNames,  \* display names: <<how it is written, lookup name>>
  HINT_ROOM,             \* the room a seeded wing's hint is filed in
  Batches                \* what is captured: sequences of <<wing, room>>

VARIABLES
  nodes,    \* the nodes table; a node's id is its place
  filed     \* drawers: the room node they are in, the names that were asked,
            \* and whether the room and its wing were there at that moment

treeVars == <<nodes, filed>>

NoNode == 0
Estate == <<"Estate", 0>>

(* NFC, trimmed, inner blanks collapsed, lower case: the writing is        *)
(* forgotten.                                                              *)
normalize_lookup_name(display_name) == display_name[2]

DisplayNames == WingNames \cup RoomNames \cup {HINT_ROOM}
ASSUME NamesAssumption ==
  /\ \A name \in DisplayNames : normalize_lookup_name(name) \in Nat
  /\ Batches \subseteq Seq(DisplayNames \X DisplayNames) \ {<<>>}

TreeInit == nodes = <<>> /\ filed = <<>>

--------------------------------------------------------------------------
(* Reads.                                                                  *)

get_node(id) == id \in DOMAIN nodes
is_tombstoned(id) == ~nodes[id].active

root_node ==
  RowsWhere(nodes, LAMBDA n : n.parent = NoNode /\ n.depth = 0 /\ n.active)
child_nodes(parent) ==
  SortedBy(RowsWhere(nodes, LAMBDA n : n.parent = parent /\ n.active),
           LAMBDA a, b : \/ nodes[a].lookup < nodes[b].lookup
                         \/ nodes[a].lookup = nodes[b].lookup /\ a < b)

(* Mutant: a tombstoned node is resolved to as well. *)
find_active_node_Any(table, lookup, parent) ==
  RowsWhere(table, LAMBDA n : n.parent = parent /\ n.lookup = lookup)

find_active_node(table, lookup, parent) ==
  RowsWhere(table, LAMBDA n : n.parent = parent /\ n.lookup = lookup /\ n.active)

(* A wing is looked up by its name alone, the first that has it.           *)
WingNamed(wing) ==
  RowsWhere(nodes, LAMBDA n : /\ n.lookup = normalize_lookup_name(wing)
                              /\ n.depth = 1
                              /\ n.active)
RoomsUnder(wing_id) ==
  RowsWhere(nodes, LAMBDA n : n.parent = wing_id /\ n.depth = 2 /\ n.active)
room_node_ids_in_wing(wing) ==
  IF WingNamed(wing) = {} THEN {} ELSE RoomsUnder(Min(WingNamed(wing)))
room_node_id(wing, room) ==
  IF WingNamed(wing) = {} THEN {}
  ELSE LET rooms == {r \in RoomsUnder(Min(WingNamed(wing))) :
                       nodes[r].lookup = normalize_lookup_name(room)}
       IN  IF rooms = {} THEN {} ELSE {Min(rooms)}

(* Names are resolved from the ids, tombstoned or not.                     *)
resolve_node_names(room_id) ==
  <<IF get_node(nodes[room_id].parent) THEN nodes[nodes[room_id].parent].display ELSE "",
    nodes[room_id].display>>

DrawersIn(rooms) == RowsWhere(filed, LAMBDA d : d.room \in rooms)
drawers_in_wing(wing) == Ordered(DrawersIn(room_node_ids_in_wing(wing)))
drawers_in_wing_room(wing, room) == Ordered(DrawersIn(room_node_id(wing, room)))
list_wings ==
  {[id |-> w, name |-> nodes[w].display,
    drawer_count |-> Cardinality(DrawersIn(RoomsUnder(w))),
    room_count |-> Cardinality(RoomsUnder(w))] :
     w \in RowsWhere(nodes, LAMBDA n : n.depth = 1 /\ n.active)}
list_rooms(wings) ==
  UNION {{[wing |-> nodes[w].display, id |-> r, name |-> nodes[r].display,
           drawer_count |-> Cardinality(DrawersIn({r}))] :
            r \in RoomsUnder(w)} : w \in wings}

--------------------------------------------------------------------------
(* Creating on demand.                                                     *)

NewNode(display, parent, depth) ==
  [parent |-> parent, display |-> display, lookup |-> normalize_lookup_name(display),
   depth |-> depth, active |-> TRUE, merkle_root |-> FALSE]

create_root(c) ==
  /\ Begin(c, [op |-> "create_root", at |-> "find"])
  /\ UNCHANGED treeVars
FindRoot(c) ==
  /\ At(c, "create_root", "find")
  /\ IF root_node # {} THEN End(c) ELSE GoTo(c, "insert")
  /\ UNCHANGED treeVars
InsertRoot(c) ==
  /\ At(c, "create_root", "insert")
  /\ nodes' = Append(nodes, NewNode(Estate, NoNode, 0))
  /\ UNCHANGED filed
  /\ End(c)

(* A drawer is filed under a wing and a room by name: the wing is resolved *)
(* or created, then the room, then the drawer is added.  capture and       *)
(* seed_wing file one drawer, a batch several and resolves a pair of names *)
(* it has seen in the batch only once.                                     *)
Resolve(frames, cache, at, name, parent) ==
  [op |-> "file", at |-> at, frames |-> frames, cache |-> cache,
   name |-> name, parent |-> parent, room |-> NoNode]
NextFrame(c, frames, cache, root) ==
  IF frames = <<>> THEN End(c)
  ELSE LET first == Head(frames)
       IN  Continue(c,
             IF first \in DOMAIN cache
               THEN [Resolve(frames, cache, "add", first, root) EXCEPT !.room = cache[first]]
               ELSE Resolve(frames, cache, "find", first[1], root))

capture_batch(c, frames) ==
  /\ root_node # {}
  /\ Begin(c, Resolve(frames, <<>>, "find", frames[1][1], Min(root_node)))
  /\ UNCHANGED treeVars
seed_wing(c, wing) == capture_batch(c, <<<<wing, HINT_ROOM>>>>)

(* What follows when create_node has returned a node: the room after the   *)
(* wing, the drawer after the room, nothing for a bare create_node.        *)
Resolved(c, id) ==
  LET call == calls[c]
  IN  CASE call.op = "create_node" -> End(c)
        [] call.op = "file" /\ nodes'[id].depth = 1 ->
             Continue(c, [call EXCEPT !.at = "find", !.name = call.frames[1][2],
                                      !.parent = id])
        [] OTHER ->
             Continue(c, [call EXCEPT !.at = "add", !.room = id])

create_node(c, display, parent) ==
  /\ Begin(c, [op |-> "create_node", at |-> "find", name |-> display, parent |-> parent])
  /\ UNCHANGED treeVars
FindNode(c) ==
  LET call == calls[c]
      found == find_active_node(nodes, normalize_lookup_name(call.name), call.parent)
  IN  /\ call.op \in {"create_node", "file"} /\ call.at = "find"
      /\ UNCHANGED treeVars
      /\ IF ~get_node(call.parent) \/ nodes[call.parent].depth + 1 > 2 THEN End(c)
         ELSE IF found # {} THEN Resolved(c, Min(found))
         ELSE GoTo(c, "insert")
InsertNode(c) ==
  LET call == calls[c]
      node == NewNode(call.name, call.parent, nodes[call.parent].depth + 1)
  IN  /\ call.op \in {"create_node", "file"} /\ call.at = "insert"
      /\ nodes' = Append(nodes, node)
      /\ UNCHANGED filed
      /\ Resolved(c, Min(find_active_node(nodes', node.lookup, node.parent)))
AddDrawer(c) ==
  LET call == calls[c]
      asked == call.frames[1]
      wing == nodes[call.room].parent
  IN  /\ At(c, "file", "add")
      /\ filed' = Append(filed, [room |-> call.room, asked |-> asked,
                                 open |-> nodes[call.room].active /\ nodes[wing].active])
      /\ UNCHANGED nodes
      /\ NextFrame(c, Tail(call.frames), WithRow(call.cache, asked, call.room),
                   nodes[wing].parent)

(* Neither children nor drawers follow a node that is tombstoned.          *)
tombstone_node(c, id) ==
  /\ Begin(c, [op |-> "tombstone_node", at |-> "read", id |-> id])
  /\ UNCHANGED treeVars
ReadNode(c) ==
  /\ At(c, "tombstone_node", "read")
  /\ IF get_node(calls[c].id) /\ ~is_tombstoned(calls[c].id) THEN GoTo(c, "update") ELSE End(c)
  /\ UNCHANGED treeVars
TombstoneNode(c) ==
  /\ At(c, "tombstone_node", "update")
  /\ nodes' = [nodes EXCEPT ![calls[c].id].active = FALSE]
  /\ UNCHANGED filed
  /\ End(c)

update_merkle_root(c, id) ==
  /\ Begin(c, [op |-> "update_merkle_root", at |-> "update", id |-> id])
  /\ UNCHANGED treeVars
UpdateMerkleRoot(c) ==
  /\ At(c, "update_merkle_root", "update")
  /\ nodes' = IF get_node(calls[c].id)
                THEN [nodes EXCEPT ![calls[c].id].merkle_root = TRUE] ELSE nodes
  /\ UNCHANGED filed
  /\ End(c)

TreeNext ==
  \E c \in Callers :
    \/ create_root(c) \/ FindRoot(c) \/ InsertRoot(c)
    \/ \E w \in WingNames : seed_wing(c, w)
    \/ \E frames \in Batches : capture_batch(c, frames)
    \/ \E p \in DOMAIN nodes :
         \/ \E name \in WingNames \cup RoomNames : create_node(c, name, p)
         \/ tombstone_node(c, p)
         \/ update_merkle_root(c, p)
    \/ FindNode(c) \/ InsertNode(c) \/ AddDrawer(c)
    \/ ReadNode(c) \/ TombstoneNode(c) \/ UpdateMerkleRoot(c)
    \/ Fail(c) /\ UNCHANGED treeVars

--------------------------------------------------------------------------
(* I-NT-1: at most one root.  I-NT-2, I-NT-5: a node's parent exists and   *)
(* is one level up.  I-NT-4: no two active nodes of a parent share a       *)
(* lookup name.                                                            *)
OneRoot == Cardinality(root_node) <= 1
DepthsFollow ==
  \A n \in DOMAIN nodes :
    IF nodes[n].depth = 0 THEN nodes[n].parent = NoNode
    ELSE /\ nodes[n].depth \in 1..2
         /\ get_node(nodes[n].parent)
         /\ nodes[nodes[n].parent].depth = nodes[n].depth - 1
NamesUnique ==
  \A p \in DOMAIN nodes :
    \A i, j \in DOMAIN child_nodes(p) :
      i < j => nodes[child_nodes(p)[i]].lookup < nodes[child_nodes(p)[j]].lookup

Lookups(names) == <<normalize_lookup_name(names[1]), normalize_lookup_name(names[2])>>

(* A drawer was filed in a room and a wing that were not tombstoned, and   *)
(* they resolve to the names it was asked for, in some writing; while      *)
(* neither of them is tombstoned later (nor any                            *)
(* root ever was), it is found by those names, by its wing and by its      *)
(* room, and counted in the listings of both.                              *)
FiledIsListed ==
  \A d \in DOMAIN filed :
    LET room == filed[d].room
        asked == filed[d].asked
        live == /\ nodes[room].active /\ nodes[nodes[room].parent].active
                /\ \A n \in DOMAIN nodes : nodes[n].depth = 0 => nodes[n].active
    IN  /\ filed[d].open
        /\ Lookups(resolve_node_names(room)) = Lookups(asked)
        /\ live =>
             /\ d \in {drawers_in_wing(asked[1])[i] : i \in DOMAIN drawers_in_wing(asked[1])}
             /\ LET there == drawers_in_wing_room(asked[1], asked[2])
                IN  \A e \in DOMAIN filed :
                      filed[e].room = room <=> \E i \in DOMAIN there : there[i] = e
             /\ \E w \in list_wings : w.id = nodes[room].parent /\ w.drawer_count >= 1
             /\ \E r \in list_rooms(WingNamed(asked[1])) :
                  r.id = room /\ r.drawer_count = Cardinality(DrawersIn({room}))

(* Whatever verbs fail between two of their statements and are called      *)
(* again, the tree keeps its invariants and no drawer is filed out of      *)
(* reach of the names it was filed under.                                  *)
TreeIsSound == OneRoot /\ DepthsFollow /\ NamesUnique /\ FiledIsListed
=============================================================================
