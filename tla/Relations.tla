----------------------------- MODULE Relations ------------------------------
(***************************************************************************)
(* What is said about drawers: learned references and the catalogue of     *)
(* their sources, associations, proposals, facts and diary entries         *)
(* (estate_verbs.rs, drawer_store_inmemory.rs).                            *)
(***************************************************************************)
EXTENDS StorageCalls

CONSTANTS
  Sources,       \* catalogue entries a caller may bring: [id, handle, anchor]
  Handles,       \* what a reference may point at; learn refuses the empty handle
  Subjects,      \* drawers
  Places,        \* wing and room a drawer may be in; NoPlace: its room is gone
  NoPlace,
  InitialSubjects,
  States,        \* adjective states of a drawer
  Agents, Wings

ASSUME SubjectsAssumption == InitialSubjects \in [Subjects -> [place : Places, state : States]]

VARIABLES
  catalog,       \* the catalogue: id -> entry
  references,    \* learned references, in order
  associations,
  proposals,
  facts,
  diary,
  subjects,      \* of each drawer: its place and its state
  done           \* what was acknowledged: learned handles, associations, withdrawn facts

relationVars ==
  <<catalog, references, associations, proposals, facts, diary, subjects, done>>

RelationsInit ==
  /\ catalog = <<>>
  /\ references = <<>> /\ associations = <<>> /\ proposals = <<>>
  /\ facts = <<>> /\ diary = <<>>
  /\ subjects = InitialSubjects
  /\ done = [learned |-> {}, associated |-> {}, withdrawn |-> {}]

--------------------------------------------------------------------------
(* Learning a reference: its source is catalogued the first time, by       *)
(* handle; the reference has a handle of its own and takes the entry's id  *)
(* and anchor.                                                             *)

(* Mutant: the catalogue is asked for the entry's id. *)
source_catalog_entry_for_handle_ById(source) ==
  {id \in DOMAIN catalog : id = source.id}

source_catalog_entry_for_handle(source) ==
  {id \in DOMAIN catalog : catalog[id].handle = source.handle}

LearnFrom(c, entry) ==
  Continue(c, [calls[c] EXCEPT !.at = "reference", !.entry = entry])
learn(c, source, handle) ==
  /\ Begin(c, [op |-> "learn", at |-> "lookup",
               source |-> source, handle |-> handle, entry |-> source])
  /\ UNCHANGED relationVars
LookUpSource(c) ==
  LET found == source_catalog_entry_for_handle(calls[c].source)
  IN  /\ At(c, "learn", "lookup")
      /\ IF found = {} THEN GoTo(c, "catalog")
         ELSE LearnFrom(c, catalog[CHOOSE id \in found : TRUE])
      /\ UNCHANGED relationVars
add_source_catalog_entry(c) ==
  LET s == calls[c].source
  IN  /\ At(c, "learn", "catalog")
      /\ IF s.id \in DOMAIN catalog
           THEN End(c) /\ UNCHANGED catalog
           ELSE LearnFrom(c, s) /\ catalog' = WithRow(catalog, s.id, s)
      /\ UNCHANGED <<references, associations, proposals, facts, diary, subjects, done>>
add_learned_reference(c) ==
  LET call == calls[c]
  IN  /\ At(c, "learn", "reference")
      /\ references' = Append(references,
           [source |-> call.entry.id, anchor |-> call.entry.anchor, handle |-> call.handle])
      /\ done' = [done EXCEPT !.learned =
                    @ \cup {[from |-> call.source.handle, handle |-> call.handle]}]
      /\ UNCHANGED <<catalog, associations, proposals, facts, diary, subjects>>
      /\ End(c)
learned_references_from_source(id) ==
  Ordered(RowsWhere(references, LAMBDA r : r.source = id))

--------------------------------------------------------------------------
(* Associating two drawers: under the names their rooms have now.  The     *)
(* table admits one row of a natural key; a second is taken for success.   *)

NaturalKey(a, b, from, to) == [a |-> a, b |-> b, from |-> from, to |-> to]
associate(c, a, b) ==
  /\ Begin(c, [op |-> "associate", at |-> "resolve", a |-> a, b |-> b, key |-> <<>>])
  /\ UNCHANGED relationVars
ResolveNames(c) ==
  LET from == subjects[calls[c].a].place
      to == subjects[calls[c].b].place
  IN  /\ At(c, "associate", "resolve")
      /\ IF NoPlace \in {from, to} THEN End(c)
         ELSE Continue(c, [calls[c] EXCEPT !.at = "insert",
                             !.key = NaturalKey(calls[c].a, calls[c].b, from, to)])
      /\ UNCHANGED relationVars

is_duplicate(key) == \E i \in DOMAIN associations : associations[i] = key

add_association(c) ==
  LET key == calls[c].key
  IN  /\ At(c, "associate", "insert")
      /\ associations' = IF is_duplicate(key) THEN associations ELSE Append(associations, key)
      /\ done' = [done EXCEPT !.associated = @ \cup {key}]
      /\ UNCHANGED <<catalog, references, proposals, facts, diary, subjects>>
      /\ End(c)
associations_from(place) == RowsWhere(associations, LAMBDA a : a.from = place)
associations_to(place) == RowsWhere(associations, LAMBDA a : a.to = place)

--------------------------------------------------------------------------
(* A proposal keeps the state its target had when it was made.             *)

propose(c, target) ==
  /\ Begin(c, [op |-> "propose", at |-> "read", target |-> target, candidate |-> 0])
  /\ UNCHANGED relationVars
ReadTarget(c) ==
  /\ At(c, "propose", "read")
  /\ IF calls[c].target \notin Subjects THEN End(c)
     ELSE Continue(c, [calls[c] EXCEPT !.at = "insert",
                                       !.candidate = subjects[calls[c].target].state])
  /\ UNCHANGED relationVars
add_proposal(c) ==
  /\ At(c, "propose", "insert")
  /\ proposals' = Append(proposals, [target |-> calls[c].target, state |-> "Pending",
                                     candidate_state |-> calls[c].candidate])
  /\ UNCHANGED <<catalog, references, associations, facts, diary, subjects, done>>
  /\ End(c)
proposals_for_target(target) ==
  Ordered(RowsWhere(proposals, LAMBDA p : p.target = target))

--------------------------------------------------------------------------
(* Facts and their withdrawal: 0 Active, 18 Withdrawn; below 16 is active. *)

add_kg_fact(c, drawer) ==
  /\ Begin(c, [op |-> "fact", at |-> "insert", drawer |-> drawer])
  /\ UNCHANGED relationVars
InsertFact(c) ==
  /\ At(c, "fact", "insert")
  /\ facts' = Append(facts, [drawer |-> calls[c].drawer, state |-> 0])
  /\ UNCHANGED <<catalog, references, associations, proposals, diary, subjects, done>>
  /\ End(c)
withdraw_kg_fact(c, id) ==
  /\ Begin(c, [op |-> "withdraw_fact", at |-> "read", id |-> id])
  /\ UNCHANGED relationVars
get_kg_fact(c) ==
  /\ At(c, "withdraw_fact", "read")
  /\ IF calls[c].id \in DOMAIN facts THEN GoTo(c, "update") ELSE End(c)
  /\ UNCHANGED relationVars
UpdateFact(c) ==
  /\ At(c, "withdraw_fact", "update")
  /\ facts' = [facts EXCEPT ![calls[c].id].state = 18]
  /\ done' = [done EXCEPT !.withdrawn = @ \cup {calls[c].id}]
  /\ UNCHANGED <<catalog, references, associations, proposals, diary, subjects>>
  /\ End(c)
IsActive(f) == f.state < 16
kg_facts_for_drawer(drawer) ==
  Ordered(RowsWhere(facts, LAMBDA f : f.drawer = drawer /\ IsActive(f)))
all_kg_facts == Ordered(RowsWhere(facts, LAMBDA f : IsActive(f)))
all_kg_facts_including_retired == Ordered(DOMAIN facts)

--------------------------------------------------------------------------
(* The diary: the newest entries of an agent first, in a wing or overall.  *)

add_diary_entry(c, agent, wing) ==
  /\ Begin(c, [op |-> "diary", at |-> "insert", agent |-> agent, wing |-> wing])
  /\ UNCHANGED relationVars
InsertEntry(c) ==
  /\ At(c, "diary", "insert")
  /\ diary' = Append(diary, [agent |-> calls[c].agent, wing |-> calls[c].wing])
  /\ UNCHANGED <<catalog, references, associations, proposals, facts, subjects, done>>
  /\ End(c)
Newest(ids, last_n) ==
  SubSeq(SortedBy(ids, >), 1, Min({last_n, Cardinality(ids)}))
read_diary(agent, last_n) ==
  Newest(RowsWhere(diary, LAMBDA e : e.agent = agent), last_n)
read_diary_in_wing(agent, wing, last_n) ==
  Newest(RowsWhere(diary, LAMBDA e : e.agent = agent /\ e.wing = wing), last_n)

(* Elsewhere a drawer is moved to another room or its state is changed.    *)
ChangeSubject(c) ==
  \E d \in Subjects, to \in [place : Places, state : States] :
    /\ Begin(c, Idle)
    /\ subjects[d] # to
    /\ subjects' = [subjects EXCEPT ![d] = to]
    /\ UNCHANGED <<catalog, references, associations, proposals, facts, diary, done>>

RelationsNext ==
  \E c \in Callers :
    \/ \E s \in Sources, h \in Handles : learn(c, s, h)
    \/ LookUpSource(c) \/ add_source_catalog_entry(c) \/ add_learned_reference(c)
    \/ \E a, b \in Subjects : a # b /\ associate(c, a, b)
    \/ ResolveNames(c) \/ add_association(c)
    \/ \E d \in Subjects : propose(c, d) \/ add_kg_fact(c, d)
    \/ ReadTarget(c) \/ add_proposal(c) \/ InsertFact(c)
    \/ \E id \in 1..(Len(facts) + 1) : withdraw_kg_fact(c, id)
    \/ get_kg_fact(c) \/ UpdateFact(c)
    \/ \E agent \in Agents, w \in Wings : add_diary_entry(c, agent, w)
    \/ InsertEntry(c)
    \/ ChangeSubject(c)
    \/ Fail(c) /\ UNCHANGED relationVars

--------------------------------------------------------------------------
(* A source's handle has one catalogue entry however often its learning    *)
(* fails and is called again; every reference has the anchor of the entry  *)
(* it names and is listed under it; and what was reported as learned is a  *)
(* reference of that handle under the entry of the source it was brought   *)
(* with, also when the entry was catalogued under another id.              *)
LearnedAreGrounded ==
  /\ \A a, b \in DOMAIN catalog : catalog[a].handle = catalog[b].handle => a = b
  /\ \A r \in DOMAIN references :
       LET ref == references[r]
       IN  /\ ref.source \in DOMAIN catalog
           /\ ref.anchor = catalog[ref.source].anchor
           /\ Contains(learned_references_from_source(ref.source), r)
  /\ \A l \in done.learned :
       \E r \in DOMAIN references :
         references[r].handle = l.handle /\ catalog[references[r].source].handle = l.from
(* An association that was reported is in the table once, found from both  *)
(* ends, also when a drawer has moved since.                               *)
AssociatedOnce ==
  \A key \in done.associated :
    Cardinality(associations_from(key.from) \cap associations_to(key.to)
                  \cap RowsWhere(associations, LAMBDA x : x = key)) = 1
(* A withdrawn fact stays in the history and out of every other listing.   *)
WithdrawnIsHistory ==
  \A id \in done.withdrawn :
    /\ Contains(all_kg_facts_including_retired, id)
    /\ ~Contains(all_kg_facts, id)
    /\ ~Contains(kg_facts_for_drawer(facts[id].drawer), id)
(* Reading a wing's diary is not reading the diary and dropping the rest.  *)
DiaryReadsNewest ==
  \A agent \in Agents, w \in Wings, n \in 0..2 :
    LET all == read_diary(agent, n)
        there == read_diary_in_wing(agent, w, n)
    IN  \A i \in DOMAIN all : diary[all[i]].wing = w => Contains(there, all[i])

(* Relations hold together whatever statement of a verb fails.             *)
RelationsHold ==
  /\ LearnedAreGrounded
  /\ AssociatedOnce
  /\ WithdrawnIsHistory
  /\ DiaryReadsNewest
  /\ \A p \in DOMAIN proposals : Contains(proposals_for_target(proposals[p].target), p)
=============================================================================
