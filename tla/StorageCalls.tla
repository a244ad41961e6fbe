---------------------------- MODULE StorageCalls ----------------------------
(***************************************************************************)
(* A verb of the estate is a sequence of storage statements, each atomic   *)
(* by itself and none in a transaction with the others.  The storage may   *)
(* refuse any of them, or the process may die before it: the verb ends     *)
(* there and what it wrote stays.  The host holds one mutex around the     *)
(* estate, so one verb runs at a time; Coordinated = FALSE is a host that  *)
(* does not.                                                               *)
(***************************************************************************)
EXTENDS Integers, Sequences, SequencesExt, FiniteSets, FiniteSetsExt

CONSTANTS
  Callers,       \* who calls the verbs
  Coordinated,   \* whether the host serialises them
  MaxCalls       \* bound: verbs called in a behaviour

VARIABLES
  calls,         \* what each caller is in the middle of
  begun          \* verbs called so far

callVars == <<calls, begun>>

Idle == [op |-> "idle", at |-> "idle"]

CallsInit == calls = [c \in Callers |-> Idle] /\ begun = 0

Begin(c, call) ==
  /\ calls[c] = Idle
  /\ Coordinated => \A d \in Callers : calls[d] = Idle
  /\ begun < MaxCalls
  /\ begun' = begun + 1
  /\ calls' = [calls EXCEPT ![c] = call]

At(c, op, at) == calls[c].op = op /\ calls[c].at = at
Continue(c, call) == calls' = [calls EXCEPT ![c] = call] /\ UNCHANGED begun
GoTo(c, at) == Continue(c, [calls[c] EXCEPT !.at = at])
End(c) == Continue(c, Idle)

(* The next statement of the call is refused.                              *)
Fail(c) == calls[c] # Idle /\ End(c)

(* A table with one row more, or with another row in its place.            *)
WithRow(table, id, row) ==
  [i \in DOMAIN table \cup {id} |-> IF i = id THEN row ELSE table[i]]

(* The rows of a table that satisfy a predicate, in the order inserted.    *)
RowsWhere(table, Test(_)) == {i \in DOMAIN table : Test(table[i])}
SortedBy(ids, Before(_, _)) ==
  [i \in 1..Cardinality(ids) |->
     CHOOSE x \in ids : Cardinality({y \in ids : Before(y, x)}) = i - 1]
Ordered(ids) == SortedBy(ids, <)
=============================================================================
