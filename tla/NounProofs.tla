----------------------------- MODULE NounProofs ------------------------------
(***************************************************************************)
(* Theorems about the nouns beside the drawer (NodeStore, Tunnels,         *)
(* Relations, RecallTraces), for any number of callers, calls and rows.    *)
(***************************************************************************)
EXTENDS Nouns, FiniteSetTheorems, WellFoundedInduction, TLAPS

(***************************************************************************)
(* Numbers                                                                 *)
(***************************************************************************)

\* A set of numbers has a least one, which serves as the principle of induction: a set
\* that holds 0, and n + 1 when it holds n, holds every number.
LEMMA LeastNumber ==
  ASSUME NEW T \in SUBSET Nat, T # {}
  PROVE  \E x \in T : \A y \in T : x <= y
<1>1. PICK x \in T : \A y \in T : ~(<<y, x>> \in OpToRel(<, Nat))
  BY NatLessThanWellFounded, WFMin
<1>2. ASSUME NEW y \in T PROVE x <= y
  <2>1. x \in Nat /\ y \in Nat
    OBVIOUS
  <2>2. ASSUME y < x PROVE FALSE
    <3>1. <<y, x>> \in OpToRel(<, Nat)
      BY <2>1, <2>2 DEF OpToRel
    <3> QED
      BY <1>1, <3>1
  <2> QED
    BY <2>1, <2>2
<1> QED
  BY <1>2

\* Induction on numbers, for a set (the provers cannot instantiate NatInduction).
LEMMA Induction ==
  ASSUME NEW T, 0 \in T, \A n \in Nat : n \in T => n + 1 \in T
  PROVE  Nat \subseteq T
<1> SUFFICES ASSUME Nat \ T # {} PROVE FALSE
  OBVIOUS
<1>1. PICK x \in Nat \ T : \A y \in Nat \ T : x <= y
  BY LeastNumber
<1>2. x # 0
  BY <1>1
<1>3. x - 1 \in Nat /\ x - 1 \in T
  BY <1>1, <1>2
<1> QED
  BY <1>1, <1>3

\* A finite set of integers that is not empty has a greatest element (Max of
\* FiniteSetsExt).
LEMMA Greatest ==
  ASSUME NEW S \in SUBSET Int, IsFiniteSet(S), S # {}
  PROVE  Max(S) \in S /\ \A y \in S : Max(S) >= y
<1> DEFINE Bounded(n) == \A T \in SUBSET Int :
             IsFiniteSet(T) /\ T # {} /\ Cardinality(T) = n => \E x \in T : \A y \in T : x >= y
           Good == {n \in Nat : Bounded(n)}
<1>1. 0 \in Good
  BY FS_EmptySet
<1>2. ASSUME NEW n \in Nat, n \in Good PROVE n + 1 \in Good
  <2> SUFFICES ASSUME NEW T \in SUBSET Int, IsFiniteSet(T), T # {}, Cardinality(T) = n + 1
               PROVE  \E x \in T : \A y \in T : x >= y
    OBVIOUS
  <2>1. PICK e \in T : TRUE
    OBVIOUS
  <2>2. IsFiniteSet(T \ {e}) /\ Cardinality(T \ {e}) = n
    <3>1. IsFiniteSet(T \ {e}) /\ Cardinality(T \ {e}) = Cardinality(T) - 1
      BY FS_RemoveElement, Zenon
    <3> QED
      BY <3>1
  <2>3. CASE T \ {e} = {}
    BY <2>3
  <2>4. CASE T \ {e} # {}
    <3>1. PICK x \in T \ {e} : \A y \in T \ {e} : x >= y
      BY <1>2, <2>2, <2>4
    <3>2. CASE x >= e
      BY <3>1, <3>2
    <3>3. CASE ~(x >= e)
      <4> \A y \in T : e >= y
        BY <3>1, <3>3
      <4> QED
        OBVIOUS
    <3> QED
      BY <3>2, <3>3
  <2> QED
    BY <2>3, <2>4
<1>3. Cardinality(S) \in Good
  <2> HIDE DEF Good
  <2> QED
    BY <1>1, <1>2, Induction, FS_CardinalityType
<1>4. \E x \in S : \A y \in S : x >= y
  BY <1>3
<1> QED
  BY <1>4 DEF Max

(***************************************************************************)
(* Sequences and listings                                                  *)
(***************************************************************************)

\* A function on 1 .. n is a sequence of n elements.
LEMMA FromFunction ==
  ASSUME NEW S, NEW n \in Nat, NEW s \in [1..n -> S]
  PROVE  s \in Seq(S) /\ Len(s) = n
<1>1. s \in Seq(S)
  OBVIOUS
<1> QED
  BY <1>1

\* A sequence of elements of a set is one of every larger set.
LEMMA SeqOfMore ==
  ASSUME NEW S, NEW T, S \subseteq T, NEW s \in Seq(S)
  PROVE  s \in Seq(T)
<1>1. s \in [1..Len(s) -> T] /\ Len(s) \in Nat
  OBVIOUS
<1> QED
  BY <1>1, FromFunction

\* What is left of a sequence without its first element.
LEMMA TailOf ==
  ASSUME NEW S, NEW s \in Seq(S), s # <<>>
  PROVE  /\ Len(s) \in Nat /\ Len(s) >= 1
         /\ Head(s) = s[1] /\ s[1] \in S
         /\ Tail(s) \in Seq(S) /\ Len(Tail(s)) = Len(s) - 1
         /\ \A i \in 1..Len(Tail(s)) : Tail(s)[i] = s[i + 1]
         /\ (Len(s) # 1 => Tail(s) # <<>>)
         /\ (Len(s) = 1 => Tail(s) = <<>>)
<1>1. Len(s) \in Nat /\ Len(s) >= 1 /\ Head(s) = s[1] /\ s[1] \in S
  OBVIOUS
<1>2. Tail(s) \in Seq(S) /\ Len(Tail(s)) = Len(s) - 1
  OBVIOUS
<1>3. \A i \in 1..Len(Tail(s)) : Tail(s)[i] = s[i + 1]
  OBVIOUS
<1>4. (Len(s) # 1 => Tail(s) # <<>>) /\ (Len(s) = 1 => Tail(s) = <<>>)
  <2>1. \A t \in Seq(S) : t = <<>> <=> Len(t) = 0
    OBVIOUS
  <2>2. Tail(s) = <<>> <=> Len(Tail(s)) = 0
    BY <1>2, <2>1
  <2> QED
    BY <1>1, <1>2, <2>2
<1> QED
  BY <1>1, <1>2, <1>3, <1>4

\* There are n numbers below n.
LEMMA Initial ==
  ASSUME NEW n \in Nat
  PROVE  IsFiniteSet(0..(n - 1)) /\ Cardinality(0..(n - 1)) = n
BY FS_Interval

\* Some of the numbers 1 .. n are finitely many (rows of a table kept as a sequence).
LEMMA FinitePart ==
  ASSUME NEW n \in Nat, NEW S \in SUBSET (1..n)
  PROVE  IsFiniteSet(S)
<1>1. IsFiniteSet(1..n)
  BY FS_Interval
<1> QED
  BY <1>1, FS_Subset, Zenon

\* R orders S strictly and totally.
Orders(R, S) ==
  /\ \A x \in S : <<x, x>> \notin R
  /\ \A x, y \in S : x # y => <<x, y>> \in R \/ <<y, x>> \in R
  /\ \A x, y, z \in S : <<x, y>> \in R /\ <<y, z>> \in R => <<x, z>> \in R

\* In place i of s stands the element of S with i - 1 elements before it.
Placed(s, S, R) ==
  /\ s = [i \in 1..Cardinality(S) |-> s[i]]
  /\ \A i \in 1..Cardinality(S) :
       (\E x \in S : Cardinality({y \in S : <<y, x>> \in R}) = i - 1) =>
         s[i] \in S /\ Cardinality({y \in S : <<y, s[i]>> \in R}) = i - 1

Lists(s, S, R) ==
  /\ s \in Seq(S) /\ Len(s) = Cardinality(S) /\ Cardinality(S) \in Nat
  /\ \A x \in S : \E i \in 1..Len(s) : s[i] = x
  /\ \A i \in 1..Len(s) : s[i] \in S /\ Cardinality({y \in S : <<y, s[i]>> \in R}) = i - 1
  /\ \A i, j \in 1..Len(s) : i < j => <<s[i], s[j]>> \in R

\* Listing a finite set in a strict total order: every element has its place, every place
\* an element, and the elements stand in that order (the scans of a table, SortedBy).
LEMMA Enumeration ==
  ASSUME NEW S, IsFiniteSet(S), NEW R, Orders(R, S), NEW s, Placed(s, S, R)
  PROVE  Lists(s, S, R)
<1> DEFINE Below(x) == {y \in S : <<y, x>> \in R}
<1>1. PICK n \in Nat : Cardinality(S) = n
  BY FS_CardinalityType
<1>2. ASSUME NEW x \in S
      PROVE  IsFiniteSet(Below(x)) /\ Cardinality(Below(x)) \in 0..(n - 1)
  <2>1. IsFiniteSet(Below(x)) /\ Cardinality(Below(x)) <= n
        /\ (Cardinality(S) = Cardinality(Below(x)) => S = Below(x))
    BY <1>1, FS_Subset
  <2>2. x \notin Below(x)
    BY DEF Orders
  <2>3. Cardinality(Below(x)) \in Nat
    BY <2>1, FS_CardinalityType
  <2> QED
    BY <1>1, <2>1, <2>2, <2>3
<1>3. ASSUME NEW x \in S, NEW y \in S, <<x, y>> \in R
      PROVE  Cardinality(Below(x)) < Cardinality(Below(y))
  <2>1. Below(x) \in SUBSET Below(y) /\ x \in Below(y) /\ x \notin Below(x)
    BY <1>3 DEF Orders
  <2>2. Cardinality(Below(x)) <= Cardinality(Below(y))
        /\ (Cardinality(Below(y)) = Cardinality(Below(x)) => Below(y) = Below(x))
    BY <1>2, <2>1, FS_Subset
  <2>3. Cardinality(Below(x)) \in Nat /\ Cardinality(Below(y)) \in Nat
    BY <1>2, FS_CardinalityType
  <2> QED
    BY <2>1, <2>2, <2>3
<1>4. PICK rank \in [S -> 0..(n - 1)] : \A x \in S : rank[x] = Cardinality(Below(x))
  <2> DEFINE f == [x \in S |-> Cardinality(Below(x))]
  <2>1. f \in [S -> 0..(n - 1)] /\ \A x \in S : f[x] = Cardinality(Below(x))
    BY <1>2
  <2> QED
    BY <2>1
<1> HIDE DEF Below
<1>5. /\ \A x, y \in S : rank[x] = rank[y] => x = y
      /\ \A x, y \in S : rank[x] < rank[y] => <<x, y>> \in R
      /\ \A i \in 0..(n - 1) : \E x \in S : rank[x] = i
  <2>1. \A x, y \in S : <<x, y>> \in R => rank[x] < rank[y]
    BY <1>3, <1>4
  <2>2. \A x \in S : rank[x] \in Int
    OBVIOUS
  <2>3. ASSUME NEW x \in S, NEW y \in S, rank[x] = rank[y], x # y
        PROVE  FALSE
    <3>1. rank[x] \in Int /\ rank[y] \in Int
      BY <2>2
    <3>2. <<x, y>> \in R \/ <<y, x>> \in R
      BY <2>3 DEF Orders
    <3>3. rank[x] < rank[y] \/ rank[y] < rank[x]
      BY <2>1, <3>2
    <3> QED
      BY <2>3, <3>1, <3>3
  <2>4. ASSUME NEW x \in S, NEW y \in S, rank[x] < rank[y]
        PROVE  <<x, y>> \in R
    <3>1. rank[x] \in Int /\ rank[y] \in Int
      BY <2>2
    <3>2. x # y
      BY <2>4, <3>1
    <3>3. CASE <<y, x>> \in R
      <4>1. rank[y] < rank[x]
        BY <2>1, <3>3
      <4> QED
        BY <2>4, <3>1, <4>1
    <3> QED
      BY <3>2, <3>3 DEF Orders
  <2>5. rank \in Injection(S, 0..(n - 1))
    BY <2>3 DEF Injection, IsInjective
  <2>6. IsFiniteSet(0..(n - 1)) /\ Cardinality(0..(n - 1)) = n
    BY Initial
  <2>7. rank \in Surjection(S, 0..(n - 1))
    BY <1>1, <2>5, <2>6, FS_Injection
  <2> QED
    BY <2>3, <2>4, <2>7 DEF Surjection
<1>6. \A i \in 1..n : (\E x \in S : Cardinality(Below(x)) = i - 1) =>
                        s[i] \in S /\ Cardinality(Below(s[i])) = i - 1
  BY <1>1 DEF Below, Placed
<1>7. ASSUME NEW i \in 1..n
      PROVE  s[i] \in S /\ Cardinality(Below(s[i])) = i - 1 /\ rank[s[i]] = i - 1
  <2>1. \E x \in S : Cardinality(Below(x)) = i - 1
    <3>1. i - 1 \in 0..(n - 1)
      OBVIOUS
    <3> QED
      BY <1>4, <1>5, <3>1
  <2>2. s[i] \in S /\ Cardinality(Below(s[i])) = i - 1
    BY <1>6, <2>1
  <2> QED
    BY <1>4, <2>2
<1>8. s \in Seq(S) /\ Len(s) = n
  <2>1. s \in [1..n -> S]
    <3>1. s = [i \in 1..n |-> s[i]]
      BY <1>1 DEF Placed
    <3> QED
      BY <1>7, <3>1
  <2> QED
    BY <2>1, FromFunction
<1>9. ASSUME NEW x \in S PROVE \E i \in 1..n : s[i] = x
  <2>1. rank[x] + 1 \in 1..n /\ (rank[x] + 1) - 1 = rank[x]
    OBVIOUS
  <2>2. s[rank[x] + 1] \in S /\ rank[s[rank[x] + 1]] = rank[x]
    BY <1>7, <2>1
  <2> QED
    BY <1>5, <2>1, <2>2
<1>10. ASSUME NEW i \in 1..n, NEW j \in 1..n, i < j PROVE <<s[i], s[j]>> \in R
  <2>1. s[i] \in S /\ s[j] \in S /\ rank[s[i]] = i - 1 /\ rank[s[j]] = j - 1
    BY <1>7
  <2>2. rank[s[i]] < rank[s[j]]
    BY <1>10, <2>1
  <2> QED
    BY <2>1, <2>2, <1>5
<1> QED
  BY <1>1, <1>7, <1>8, <1>9, <1>10 DEF Below, Lists

\* Sorting by a strict total order lists every element once, in that order.
LEMMA OrderedList ==
  ASSUME NEW S \in SUBSET Int, IsFiniteSet(S)
  PROVE  /\ Ordered(S) \in Seq(S) /\ Len(Ordered(S)) = Cardinality(S)
         /\ \A x \in S : \E i \in 1..Len(Ordered(S)) : Ordered(S)[i] = x
         /\ \A i \in 1..Len(Ordered(S)) : Ordered(S)[i] \in S
         /\ \A i, j \in 1..Len(Ordered(S)) : i < j => Ordered(S)[i] < Ordered(S)[j]
<1> DEFINE R == {p \in S \X S : p[1] < p[2]}
           s == Ordered(S)
<1>1. \A x, y \in S : <<x, y>> \in R <=> x < y
  OBVIOUS
<1>2. \A x \in S : {y \in S : <<y, x>> \in R} = {y \in S : y < x}
  BY <1>1
<1>3. s = [i \in 1..Cardinality(S) |->
             CHOOSE x \in S : Cardinality({y \in S : y < x}) = i - 1]
  BY Zenon DEF Ordered, SortedBy
<1>4. s = [i \in 1..Cardinality(S) |-> s[i]]
  BY <1>3, Zenon
<1>5. ASSUME NEW i \in 1..Cardinality(S),
             NEW x \in S, Cardinality({y \in S : <<y, x>> \in R}) = i - 1
      PROVE  s[i] \in S /\ Cardinality({y \in S : <<y, s[i]>> \in R}) = i - 1
  <2>1. Cardinality({y \in S : y < x}) = i - 1
    BY <1>2, <1>5
  <2>2. s[i] = CHOOSE u \in S : Cardinality({y \in S : y < u}) = i - 1
    BY <1>3, Zenon
  <2>3. s[i] \in S /\ Cardinality({y \in S : y < s[i]}) = i - 1
    BY <2>1, <2>2, Zenon
  <2> QED
    BY <1>2, <2>3
<1>6. Orders(R, S)
  <2>1. \A x \in S : x \in Int
    OBVIOUS
  <2> HIDE DEF R
  <2> QED
    BY <1>1, <2>1 DEF Orders
<1> HIDE DEF R, s
<1>7. Placed(s, S, R)
  BY <1>4, <1>5 DEF Placed
<1>8. Lists(s, S, R)
  BY <1>6, <1>7, Enumeration
<1> QED
  BY <1>1, <1>8 DEF s, Lists

\* A listing of rows shows exactly the rows asked for.
LEMMA ListingOf ==
  ASSUME NEW n \in Nat, NEW S \in SUBSET (1..n), NEW id
  PROVE  Contains(Ordered(S), id) <=> id \in S
<1>1. S \in SUBSET Int
  OBVIOUS
<1>2. IsFiniteSet(S)
  BY FinitePart
<1>3. /\ \A x \in S : \E i \in 1..Len(Ordered(S)) : Ordered(S)[i] = x
      /\ \A i \in 1..Len(Ordered(S)) : Ordered(S)[i] \in S
  BY <1>1, <1>2, OrderedList
<1> QED
  BY <1>3, Zenon DEF Contains

(***************************************************************************)
(* Calls                                                                   *)
(***************************************************************************)

OneCall ==
  /\ DOMAIN calls = Callers
  /\ \A c, d \in Callers : calls[c] # Idle /\ calls[d] # Idle => c = d

\* After the step only c may be in a call, and it is in this one.
OnlyCall(c, call) ==
  /\ DOMAIN calls' = Callers
  /\ calls'[c] = call
  /\ \A d \in Callers : d # c => calls'[d] = Idle

\* The host's mutex lets a verb begin when no other runs (Coordinated).
LEMMA BeginsAlone ==
  ASSUME OneCall, Coordinated, NEW c \in Callers, NEW call, Begin(c, call)
  PROVE  OnlyCall(c, call) /\ OneCall'
BY DEF OneCall, OnlyCall, Begin

\* The steps of a verb find the other callers idle.
LEMMA GoesOnAlone ==
  ASSUME OneCall, NEW c \in Callers, calls[c] # Idle, NEW call, Continue(c, call)
  PROVE  OnlyCall(c, call) /\ OneCall'
<1>1. DOMAIN calls' = Callers /\ calls'[c] = call /\ \A d \in Callers : d # c => calls'[d] = calls[d]
  BY DEF OneCall, Continue
<1>2. \A d \in Callers : d # c => calls[d] = Idle
  BY DEF OneCall
<1> QED
  BY <1>1, <1>2 DEF OneCall, OnlyCall

\* A call that is at a statement is under way.
LEMMA NotIdle ==
  ASSUME NEW c, NEW op, NEW at, At(c, op, at), op # "idle"
  PROVE  calls[c] # Idle
BY DEF At, Idle

\* Nothing is called that was not called.
LEMMA CallsStand ==
  ASSUME OneCall, UNCHANGED callVars
  PROVE  OneCall'
BY DEF OneCall, callVars

(***************************************************************************)
(* Recall traces                                                           *)
(***************************************************************************)

TraceRow == [target : Targets, at : Nat, used : BOOLEAN]

TracesKept ==
  /\ traces \in [DOMAIN traces -> TraceRow]
  /\ DOMAIN traces \in SUBSET Nat /\ IsFiniteSet(DOMAIN traces)
  /\ settled \in SUBSET Nat /\ IsFiniteSet(settled)
  /\ clock \in Nat
  /\ \A t \in settled \cap DOMAIN traces : traces[t].used

\* A marking under way: what it has not updated yet of its window is still to do.
Marking(call, table) ==
  /\ call.op = "mark" /\ call.at = "update"
  /\ "todo" \in DOMAIN call
  /\ call.todo \in Seq(Nat) /\ call.todo # <<>>
  /\ call.window \in SUBSET Nat /\ IsFiniteSet(call.window)
  /\ \A t \in call.window \cap DOMAIN table :
       table[t].used \/ \E i \in 1..Len(call.todo) : call.todo[i] = t

TraceCall(call, table) ==
  \/ call = Idle
  \/ /\ call.op = "insert_traces" /\ call.at = "insert" /\ call.now \in Nat
     /\ "todo" \in DOMAIN call /\ call.todo \in Seq(Targets) /\ call.todo # <<>>
  \/ /\ call.op = "mark" /\ call.at = "query"
     /\ {"at", "todo", "window"} \subseteq DOMAIN call
     /\ call.since \in Nat /\ call.now \in Nat
  \/ call.op = "mark_one" /\ call.at = "read" /\ call.id \in Nat
  \/ call.op = "prune" /\ call.at = "delete" /\ call.cutoff \in Nat
  \/ Marking(call, table)

TracesInv ==
  /\ TracesKept
  /\ scene = "traces" => \A c \in Callers : TraceCall(calls[c], traces)

\* A new trace has an id that no trace has and none that was settled had.
LEMMA FreshIsNew ==
  ASSUME TracesKept
  PROVE  Fresh \in Nat /\ Fresh \notin DOMAIN traces /\ Fresh \notin settled
<1> DEFINE S == {0} \cup DOMAIN traces \cup settled
<1>1. IsFiniteSet({0} \cup DOMAIN traces)
  BY FS_Union, FS_Singleton DEF TracesKept
<1>2. IsFiniteSet(S)
  BY <1>1, FS_Union DEF TracesKept
<1>3. S \in SUBSET Nat /\ S # {} /\ S \in SUBSET Int
  BY DEF TracesKept
<1>4. Max(S) \in S /\ \A y \in S : Max(S) >= y
  BY <1>2, <1>3, Greatest
<1> HIDE DEF S
<1>5. \A m : m \in S /\ (\A y \in S : m >= y) => m \in Nat /\ m + 1 \notin S
  <2> TAKE m
  <2> SUFFICES ASSUME m \in S, \A y \in S : m >= y, m + 1 \in S PROVE FALSE
    BY <1>3
  <2>1. m \in Nat /\ m >= m + 1
    BY <1>3
  <2> QED
    BY <2>1
<1>6. Max(S) \in Nat /\ Max(S) + 1 \notin S
  BY <1>4, <1>5
<1> QED
  BY <1>6 DEF Fresh, S

\* A recall's traces are inserted one by one, each new and unused.
LEMMA InsertTraceKeeps ==
  ASSUME TracesInv, OneCall, scene = "traces", scene' = scene,
         NEW c \in Callers, InsertTrace(c)
  PROVE  TracesInv' /\ Settles /\ OneCall'
<1> DEFINE call == calls[c]
           row == [target |-> Head(call.todo), at |-> call.now, used |-> FALSE]
<1>1. At(c, "insert_traces", "insert") /\ call # Idle
  BY NotIdle DEF InsertTrace
<1>2. call.now \in Nat /\ "todo" \in DOMAIN call /\ call.todo \in Seq(Targets) /\ call.todo # <<>>
      /\ call.op = "insert_traces" /\ call.at = "insert"
  BY <1>1 DEF TracesInv, TraceCall, Marking, At
<1>3. Fresh \in Nat /\ Fresh \notin DOMAIN traces /\ Fresh \notin settled
  BY FreshIsNew DEF TracesInv
<1>4. row \in TraceRow /\ row.used = FALSE
  BY <1>2 DEF TraceRow
<1> HIDE DEF row
<1>5. /\ DOMAIN traces' = DOMAIN traces \cup {Fresh}
      /\ traces'[Fresh] = row
      /\ \A t \in DOMAIN traces : traces'[t] = traces[t]
      /\ traces' = [t \in DOMAIN traces' |-> traces'[t]]
  BY <1>3 DEF InsertTrace, row, WithRow
<1>6. clock' = clock /\ settled' = settled
  BY DEF InsertTrace
<1>7. TracesKept'
  <2>1. IsFiniteSet(DOMAIN traces')
    BY <1>5, FS_AddElement DEF TracesInv, TracesKept
  <2>2. traces' \in [DOMAIN traces' -> TraceRow]
    BY <1>4, <1>5 DEF TracesInv, TracesKept
  <2> QED
    BY <1>3, <1>5, <1>6, <2>1, <2>2 DEF TracesInv, TracesKept
<1>8. Settles
  BY <1>3, <1>5, <1>6 DEF Settles, TracesInv, TracesKept
<1>9. PICK next : OnlyCall(c, next) /\ OneCall' /\ TraceCall(next, traces')
  <2>1. CASE Len(call.todo) = 1
    <3>1. Continue(c, Idle)
      BY <2>1 DEF InsertTrace, End
    <3> QED
      BY <1>1, <3>1, GoesOnAlone DEF TraceCall
  <2>2. CASE Len(call.todo) # 1
    <3> DEFINE next == [call EXCEPT !.todo = Tail(@)]
    <3>1. Continue(c, next)
      BY <2>2 DEF InsertTrace
    <3>2. OnlyCall(c, next) /\ OneCall'
      BY <1>1, <3>1, GoesOnAlone
    <3>3. Tail(call.todo) \in Seq(Targets) /\ Tail(call.todo) # <<>>
      BY <1>2, <2>2, TailOf
    <3>4. next.op = "insert_traces" /\ next.at = "insert" /\ next.now = call.now
          /\ "todo" \in DOMAIN next /\ next.todo = Tail(call.todo)
      BY <1>2
    <3>5. TraceCall(next, traces')
      BY <1>2, <3>3, <3>4 DEF TraceCall
    <3> QED
      BY <3>2, <3>5
  <2> QED
    BY <2>1, <2>2
<1>10. \A d \in Callers : TraceCall(calls'[d], traces')
  BY <1>9 DEF OnlyCall, TraceCall
<1> QED
  BY <1>7, <1>8, <1>9, <1>10 DEF TracesInv

\* The other steps of traces leave the tables or change one of them alone; TracesInv is
\* kept when the call that goes on fits the new tables.
LEMMA OthersFit ==
  ASSUME NEW c \in Callers, NEW next, OnlyCall(c, next), TraceCall(next, traces')
  PROVE  \A d \in Callers : TraceCall(calls'[d], traces')
BY DEF OnlyCall, TraceCall

\* Completed or not, a marking has marked what it took off its list.
LEMMA UpdateTraceKeeps ==
  ASSUME TracesInv, OneCall, scene = "traces", scene' = scene,
         NEW c \in Callers, UpdateTrace(c)
  PROVE  TracesInv' /\ Settles /\ OneCall'
<1> DEFINE call == calls[c]
           id == Head(call.todo)
<1>1. At(c, "mark", "update") /\ call # Idle
  BY NotIdle DEF UpdateTrace
<1>2. Marking(call, traces)
  BY <1>1 DEF TracesInv, TraceCall, At, Idle
<1>3. id \in Nat /\ Len(call.todo) \in Nat /\ call.todo[1] = id
  BY <1>2 DEF Marking
<1> HIDE DEF id
<1>4. /\ DOMAIN traces' = DOMAIN traces
      /\ traces' = [t \in DOMAIN traces' |-> traces'[t]]
      /\ \A t \in DOMAIN traces : /\ t # id => traces'[t] = traces[t]
                                  /\ traces'[t] \in TraceRow
                                  /\ traces'[t].at = traces[t].at
                                  /\ traces'[t].target = traces[t].target
                                  /\ traces[t].used => traces'[t].used
                                  /\ t = id => traces'[t].used
  <2>1. CASE id \in DOMAIN traces
    <3>1. traces' = [traces EXCEPT ![id].used = TRUE]
      BY <2>1 DEF UpdateTrace, id
    <3>2. \A t \in DOMAIN traces : traces[t] \in TraceRow
      BY DEF TracesInv, TracesKept
    <3> QED
      BY <3>1, <3>2 DEF TracesInv, TracesKept, TraceRow
  <2>2. CASE id \notin DOMAIN traces
    <3>1. traces' = traces
      BY <2>2 DEF UpdateTrace, id
    <3> QED
      BY <2>2, <3>1 DEF TracesInv, TracesKept
  <2> QED
    BY <2>1, <2>2
<1>5. clock' = clock
  BY DEF UpdateTrace
<1>6. CASE Len(call.todo) = 1
  <2>1. settled' = settled \cup call.window /\ Continue(c, Idle)
    BY <1>6 DEF UpdateTrace, End
  <2>2. \A t \in call.window \cap DOMAIN traces : traces[t].used \/ t = id
    BY <1>2, <1>3, <1>6 DEF Marking
  <2>3. \A t \in settled' \cap DOMAIN traces' : traces'[t].used
    BY <1>4, <2>1, <2>2 DEF TracesInv, TracesKept
  <2>4. IsFiniteSet(settled') /\ settled' \in SUBSET Nat
    BY <1>2, <2>1, FS_Union DEF TracesInv, TracesKept, Marking
  <2>5. TracesKept'
    BY <1>4, <1>5, <2>3, <2>4 DEF TracesInv, TracesKept
  <2>6. OnlyCall(c, Idle) /\ OneCall'
    BY <1>1, <2>1, GoesOnAlone
  <2>7. \A d \in Callers : TraceCall(calls'[d], traces')
    BY <2>6, OthersFit DEF TraceCall
  <2> QED
    BY <1>4, <2>3, <2>5, <2>6, <2>7 DEF TracesInv, Settles
<1>7. CASE Len(call.todo) # 1
  <2> DEFINE next == [call EXCEPT !.todo = Tail(@)]
  <2>1. settled' = settled /\ Continue(c, next)
    BY <1>7 DEF UpdateTrace
  <2>2. TracesKept' /\ Settles
    BY <1>4, <1>5, <2>1 DEF TracesInv, TracesKept, Settles
  <2>3. OnlyCall(c, next) /\ OneCall'
    BY <1>1, <2>1, GoesOnAlone
  <2>4. next.op = "mark" /\ next.at = "update" /\ "todo" \in DOMAIN next
        /\ next.todo = Tail(call.todo) /\ next.window = call.window
    BY <1>2 DEF Marking
  <2>5. /\ Tail(call.todo) \in Seq(Nat) /\ Tail(call.todo) # <<>>
        /\ Len(Tail(call.todo)) = Len(call.todo) - 1
        /\ \A i \in 1..Len(Tail(call.todo)) : Tail(call.todo)[i] = call.todo[i + 1]
    BY <1>2, <1>7, TailOf DEF Marking
  <2>6. ASSUME NEW t \in call.window \cap DOMAIN traces'
        PROVE  traces'[t].used \/ \E i \in 1..Len(Tail(call.todo)) : Tail(call.todo)[i] = t
    <3>1. CASE traces[t].used \/ t = id
      BY <1>4, <3>1
    <3>2. CASE ~traces[t].used /\ t # id
      <4>1. PICK i \in 1..Len(call.todo) : call.todo[i] = t
        BY <1>2, <1>4, <3>2 DEF Marking
      <4>2. i # 1
        BY <1>3, <3>2, <4>1
      <4>3. i - 1 \in 1..Len(Tail(call.todo)) /\ (i - 1) + 1 = i
        BY <1>3, <2>5, <4>2
      <4>4. Tail(call.todo)[i - 1] = t
        BY <2>5, <4>1, <4>3
      <4> QED
        BY <4>3, <4>4
    <3> QED
      BY <3>1, <3>2
  <2> HIDE DEF next
  <2>7. Marking(next, traces')
    BY <1>2, <2>4, <2>5, <2>6 DEF Marking
  <2>8. \A d \in Callers : TraceCall(calls'[d], traces')
    BY <2>3, <2>7, OthersFit DEF TraceCall
  <2> QED
    BY <2>2, <2>3, <2>8 DEF TracesInv
<1> QED
  BY <1>6, <1>7

\* A step that leaves the traces alone and enters a call that fits them.
LEMMA TracesStand ==
  ASSUME TracesInv, UNCHANGED traceVars, scene' = scene,
         NEW c \in Callers, NEW next, OnlyCall(c, next), TraceCall(next, traces)
  PROVE  TracesInv' /\ Settles
<1>1. traces' = traces /\ clock' = clock /\ settled' = settled
  BY DEF traceVars
<1>2. \A d \in Callers : TraceCall(calls'[d], traces')
  BY <1>1, OthersFit
<1>3. TracesKept'
  BY <1>1 DEF TracesInv, TracesKept
<1>4. Settles
  BY <1>1 DEF Settles, TracesInv, TracesKept
<1> QED
  BY <1>2, <1>3, <1>4 DEF TracesInv

\* The window that a marking reads is finite, and its unused rows are to do.
LEMMA QueryWindowKeeps ==
  ASSUME TracesInv, OneCall, scene = "traces", scene' = scene,
         NEW c \in Callers, QueryWindow(c)
  PROVE  TracesInv' /\ Settles /\ OneCall'
<1> DEFINE call == calls[c]
           window == {t \in recent_recall_traces(call.since, call.now) :
                        traces[t].target = call.target}
           unused == {t \in window : ~traces[t].used}
           rows == still_unused(window)
<1>1. At(c, "mark", "query") /\ call # Idle
  BY NotIdle DEF QueryWindow
<1>2. {"at", "todo", "window"} \subseteq DOMAIN call /\ call.op = "mark"
  BY <1>1 DEF TracesInv, TraceCall, Marking, At, Idle
<1>3. window \in SUBSET DOMAIN traces /\ window \in SUBSET Nat /\ IsFiniteSet(window)
  <2>1. window \in SUBSET DOMAIN traces
    BY DEF recent_recall_traces, recall_trace_since
  <2> QED
    BY <2>1, FS_Subset DEF TracesInv, TracesKept
<1>4. unused \in SUBSET Int /\ unused \in SUBSET Nat /\ IsFiniteSet(unused)
  <2>1. unused \in SUBSET window
    OBVIOUS
  <2> QED
    BY <1>3, <2>1, FS_Subset
<1>5. /\ rows \in Seq(unused) /\ \A t \in unused : \E i \in 1..Len(rows) : rows[i] = t
      /\ rows \in Seq(Nat)
  <2>1. rows = Ordered(unused)
    BY DEF still_unused
  <2>2. rows \in Seq(unused) /\ \A t \in unused : \E i \in 1..Len(rows) : rows[i] = t
    <3> HIDE DEF unused, rows
    <3> QED
      BY <1>4, <2>1, OrderedList
  <2>3. rows \in Seq(Nat)
    <3> HIDE DEF unused, rows
    <3> QED
      BY <1>4, <2>2, SeqOfMore
  <2> QED
    BY <2>2, <2>3
<1>6. traces' = traces /\ clock' = clock
  BY DEF QueryWindow
<1>7. CASE rows = <<>>
  <2>1. settled' = settled \cup window /\ Continue(c, Idle)
    BY <1>7 DEF QueryWindow, End
  <2>2. \A t \in window : traces[t].used
    <3>1. unused = {}
      BY <1>5, <1>7
    <3> QED
      BY <3>1
  <2> HIDE DEF window
  <2>3. IsFiniteSet(settled') /\ settled' \in SUBSET Nat
    BY <1>3, <2>1, FS_Union DEF TracesInv, TracesKept
  <2>4. TracesKept'
    BY <1>6, <2>1, <2>2, <2>3 DEF TracesInv, TracesKept
  <2>5. OnlyCall(c, Idle) /\ OneCall'
    BY <1>1, <2>1, GoesOnAlone
  <2>6. \A d \in Callers : TraceCall(calls'[d], traces')
    BY <2>5, OthersFit DEF TraceCall
  <2>7. Settles
    BY <1>6, <2>1, <2>2 DEF Settles, TracesInv, TracesKept
  <2> QED
    BY <2>4, <2>5, <2>6, <2>7 DEF TracesInv
<1>8. CASE rows # <<>>
  <2> DEFINE next == [call EXCEPT !.at = "update", !.todo = rows, !.window = window]
  <2>1. Continue(c, next) /\ UNCHANGED traceVars
    BY <1>8 DEF QueryWindow, traceVars
  <2>2. OnlyCall(c, next) /\ OneCall'
    BY <1>1, <2>1, GoesOnAlone
  <2>3. next.op = "mark" /\ next.at = "update" /\ "todo" \in DOMAIN next
        /\ next.todo = rows /\ next.window = window
    BY <1>2
  <2>4. \A t \in window : traces[t].used \/ \E i \in 1..Len(rows) : rows[i] = t
    BY <1>5
  <2> HIDE DEF next, window, rows
  <2>5. Marking(next, traces)
    BY <1>3, <1>5, <1>8, <2>3, <2>4 DEF Marking
  <2> QED
    BY <2>1, <2>2, <2>5, TracesStand DEF TraceCall
<1> QED
  BY <1>7, <1>8

\* Age alone removes a trace: those that are kept are younger.
LEMMA DeleteTracesKeeps ==
  ASSUME TracesInv, OneCall, scene = "traces", scene' = scene,
         NEW c \in Callers, DeleteTraces(c)
  PROVE  TracesInv' /\ Settles /\ OneCall'
<1> DEFINE cutoff == calls[c].cutoff
<1>1. At(c, "prune", "delete") /\ calls[c] # Idle
  BY NotIdle DEF DeleteTraces
<1>2. cutoff \in Nat
  BY <1>1 DEF TracesInv, TraceCall, Marking, At, Idle
<1> HIDE DEF cutoff
<1>3. /\ DOMAIN traces' = {t \in DOMAIN traces : traces[t].at >= cutoff}
      /\ \A t \in DOMAIN traces' : traces'[t] = traces[t]
      /\ traces' = [t \in DOMAIN traces' |-> traces'[t]]
  BY DEF DeleteTraces, recall_trace_since, cutoff
<1>4. clock' = clock /\ settled' = settled /\ Continue(c, Idle)
  BY DEF DeleteTraces, End
<1>5. TracesKept'
  <2>1. DOMAIN traces' \in SUBSET DOMAIN traces
    BY <1>3
  <2>2. IsFiniteSet(DOMAIN traces')
    BY <2>1, FS_Subset DEF TracesInv, TracesKept
  <2>3. traces' \in [DOMAIN traces' -> TraceRow]
    BY <1>3 DEF TracesInv, TracesKept
  <2> QED
    BY <1>3, <1>4, <2>1, <2>2, <2>3 DEF TracesInv, TracesKept
<1>6. Settles
  <2>1. \A t \in DOMAIN traces : traces[t].at \in Nat
    BY DEF TracesInv, TracesKept, TraceRow
  <2>2. \A t \in DOMAIN traces \ DOMAIN traces' :
          \A kept \in DOMAIN traces' : traces[t].at < traces'[kept].at
    BY <1>2, <1>3, <2>1
  <2> QED
    BY <1>3, <1>4, <2>2 DEF Settles, TracesInv, TracesKept
<1>7. OnlyCall(c, Idle) /\ OneCall'
  BY <1>1, <1>4, GoesOnAlone
<1>8. \A d \in Callers : TraceCall(calls'[d], traces')
  BY <1>7, OthersFit DEF TraceCall
<1> QED
  BY <1>5, <1>6, <1>7, <1>8 DEF TracesInv

\* Every step of the traces keeps the invariant and settles what it should.
LEMMA TracesNextKeeps ==
  ASSUME TracesInv, OneCall, Coordinated, scene = "traces", scene' = scene, TracesNext
  PROVE  TracesInv' /\ Settles /\ OneCall'
<1>1. CASE Tick
  <2>1. traces' = traces /\ settled' = settled /\ clock' = clock + 1 /\ UNCHANGED callVars
    BY <1>1 DEF Tick
  <2>2. TracesInv' /\ Settles
    BY <2>1 DEF TracesInv, TracesKept, Settles, callVars
  <2> QED
    BY <2>1, <2>2, CallsStand
<1>2. ASSUME NEW c \in Callers, NEW s \in Targets, NEW t \in Targets,
             insert_recall_traces(c, <<s, t>>)
      PROVE  TracesInv' /\ Settles /\ OneCall'
  <2> DEFINE call == [op |-> "insert_traces", at |-> "insert", todo |-> <<s, t>>, now |-> clock]
  <2>1. OnlyCall(c, call) /\ OneCall' /\ UNCHANGED traceVars
    BY <1>2, BeginsAlone DEF insert_recall_traces
  <2>2. TraceCall(call, traces)
    BY DEF TraceCall, TracesInv, TracesKept
  <2> QED
    BY <2>1, <2>2, TracesStand
<1>3. ASSUME NEW c \in Callers, NEW t \in Targets, NEW since \in 1..clock,
             mark_recall_traces_used(c, t, since)
      PROVE  TracesInv' /\ Settles /\ OneCall'
  <2> DEFINE call == [op |-> "mark", at |-> "query", target |-> t, since |-> since,
                      now |-> clock, todo |-> <<>>, window |-> {}]
  <2>1. OnlyCall(c, call) /\ OneCall' /\ UNCHANGED traceVars
    BY <1>3, BeginsAlone DEF mark_recall_traces_used
  <2>2. since \in Nat /\ clock \in Nat
    BY DEF TracesInv, TracesKept
  <2>3. TraceCall(call, traces)
    BY <2>2 DEF TraceCall
  <2> QED
    BY <2>1, <2>3, TracesStand
<1>4. ASSUME NEW c \in Callers, NEW id \in 1..Fresh, mark_recall_trace_used(c, id)
      PROVE  TracesInv' /\ Settles /\ OneCall'
  <2> DEFINE call == [op |-> "mark_one", at |-> "read", id |-> id]
  <2>1. OnlyCall(c, call) /\ OneCall' /\ UNCHANGED traceVars
    BY <1>4, BeginsAlone DEF mark_recall_trace_used
  <2>2. id \in Nat
    BY FreshIsNew DEF TracesInv
  <2>3. TraceCall(call, traces)
    BY <2>2 DEF TraceCall
  <2> QED
    BY <2>1, <2>3, TracesStand
<1>5. ASSUME NEW c \in Callers, ReadTrace(c)
      PROVE  TracesInv' /\ Settles /\ OneCall'
  <2> DEFINE id == calls[c].id
             next == [op |-> "mark", at |-> "update", todo |-> <<id>>, window |-> {id}]
  <2>1. At(c, "mark_one", "read") /\ calls[c] # Idle /\ UNCHANGED traceVars
    BY <1>5, NotIdle DEF ReadTrace
  <2>2. id \in Nat
    BY <2>1 DEF TracesInv, TraceCall, Marking, At, Idle
  <2>3. TraceCall(Idle, traces)
    BY DEF TraceCall
  <2>4. TraceCall(next, traces)
    <3>1. IsFiniteSet({id})
      BY FS_Singleton
    <3>2. next.todo \in Seq(Nat) /\ next.todo # <<>> /\ Len(next.todo) = 1 /\ next.todo[1] = id
      BY <2>2
    <3>3. next.op = "mark" /\ next.at = "update" /\ "todo" \in DOMAIN next /\ next.window = {id}
      OBVIOUS
    <3> HIDE DEF id, next
    <3>4. \A t \in {id} : \E i \in 1..Len(next.todo) : next.todo[i] = t
      BY <3>2
    <3>5. Marking(next, traces)
      BY <2>2, <3>1, <3>2, <3>3, <3>4 DEF Marking
    <3> QED
      BY <3>5 DEF TraceCall
  <2>5. Continue(c, Idle) \/ Continue(c, next)
    BY <1>5 DEF ReadTrace, End
  <2> HIDE DEF next
  <2>6. PICK nx \in {Idle, next} : Continue(c, nx)
    BY <2>5
  <2>7. OnlyCall(c, nx) /\ OneCall'
    BY <2>1, <2>6, GoesOnAlone
  <2> QED
    BY <2>1, <2>3, <2>4, <2>7, TracesStand
<1>6. ASSUME NEW c \in Callers, NEW cutoff \in 1..clock, prune_recall_traces(c, cutoff)
      PROVE  TracesInv' /\ Settles /\ OneCall'
  <2> DEFINE call == [op |-> "prune", at |-> "delete", cutoff |-> cutoff]
  <2>1. OnlyCall(c, call) /\ OneCall' /\ UNCHANGED traceVars
    BY <1>6, BeginsAlone DEF prune_recall_traces
  <2>2. cutoff \in Nat
    BY DEF TracesInv, TracesKept
  <2>3. TraceCall(call, traces)
    BY <2>2 DEF TraceCall
  <2> QED
    BY <2>1, <2>3, TracesStand
<1>7. ASSUME NEW c \in Callers, Fail(c), UNCHANGED traceVars
      PROVE  TracesInv' /\ Settles /\ OneCall'
  <2>1. OnlyCall(c, Idle) /\ OneCall'
    BY <1>7, GoesOnAlone DEF Fail, End
  <2>2. TraceCall(Idle, traces)
    BY DEF TraceCall
  <2> QED
    BY <1>7, <2>1, <2>2, TracesStand
<1> QED
  BY <1>1, <1>2, <1>3, <1>4, <1>5, <1>6, <1>7, InsertTraceKeeps, UpdateTraceKeeps,
     QueryWindowKeeps, DeleteTracesKeeps DEF TracesNext

\* What recall traces report holds at every step: a completed marking has marked every trace
\* of its target and window, a used trace stays used and as it was recorded, and pruning
\* takes the oldest (mark_recall_traces_used, prune_recall_traces), wherever statements fail,
\* under a host that serialises the verbs.
THEOREM MarkingsSettle ==
  ASSUME Coordinated
  PROVE  Spec => TracesSettle
<1> DEFINE Inv == TracesInv /\ (scene = "traces" => OneCall)
<1>1. Init => Inv
  <2> SUFFICES ASSUME Init PROVE Inv
    OBVIOUS
  <2>1. OneCall
    BY DEF Init, CallsInit, OneCall
  <2>2. traces = <<>> /\ DOMAIN traces = {} /\ settled = {} /\ clock = 1
    BY DEF Init, TracesInit
  <2>3. TracesKept
    BY <2>2, FS_EmptySet DEF TracesKept
  <2>4. \A c \in Callers : TraceCall(calls[c], traces)
    BY DEF Init, CallsInit, TraceCall
  <2> QED
    BY <2>1, <2>3, <2>4 DEF TracesInv
<1>2. Inv /\ [Next]_vars => Inv' /\ [Settles]_<<callVars, traceVars>>
  <2> SUFFICES ASSUME Inv, [Next]_vars PROVE Inv' /\ [Settles]_<<callVars, traceVars>>
    OBVIOUS
  <2>1. CASE UNCHANGED vars
    <3>1. UNCHANGED <<callVars, traceVars>> /\ scene' = scene
      BY <2>1 DEF vars
    <3>2. Inv'
      BY <3>1, CallsStand DEF TracesInv, TracesKept, callVars, traceVars
    <3> QED
      BY <3>1, <3>2
  <2>2. CASE scene = "traces" /\ TracesNext /\ scene' = scene
    BY <2>2, TracesNextKeeps
  <2>3. CASE scene # "traces" /\ UNCHANGED <<traceVars, scene>>
    <3>1. traces' = traces /\ clock' = clock /\ settled' = settled /\ scene' = scene
      BY <2>3 DEF traceVars
    <3>2. TracesInv'
      BY <2>3, <3>1 DEF TracesInv, TracesKept
    <3>3. Settles
      BY <3>1 DEF Settles, TracesInv, TracesKept
    <3> QED
      BY <2>3, <3>1, <3>2, <3>3
  <2> QED
    BY <2>1, <2>2, <2>3 DEF Next, Scene
<1> HIDE DEF Inv
<1>3. Spec => [][Settles]_<<callVars, traceVars>>
  BY <1>1, <1>2, PTL DEF Spec
<1> QED
  BY <1>3 DEF TracesSettle

(***************************************************************************)
(* Tunnels                                                                 *)
(***************************************************************************)

Lifecycles == {Proposed, Active, Withdrawn}
TunnelRow ==
  [kind : {"Parent", "Related"}, source : Drawers, target : Drawers, lifecycle : Lifecycles,
   order_key : Nat, sensitivity : Levels, retired : BOOLEAN, dead : BOOLEAN]

Parents(table, d) ==
  {i \in DOMAIN table : table[i].kind = "Parent" /\ table[i].source = d /\ ~table[i].dead}
ParentIn(table, d) ==
  IF Parents(table, d) = {} THEN NoDrawer ELSE table[Min(Parents(table, d))].target

TunnelsKept ==
  /\ tunnels \in Seq(TunnelRow)
  /\ sensitivity \in [Drawers -> Levels]
  /\ outline \in [Drawers -> SUBSET (Drawers \cup {NoDrawer})]
  /\ \A d \in Drawers : /\ \A i, j \in Parents(tunnels, d) : i = j
                        /\ ParentIn(tunnels, d) \in outline[d]

\* What a call under way relies on: the parent it looked for is still missing, the tunnel it
\* is about to tombstone is the only parent, the row it read is as it was.
Adding(call, table) ==
  /\ call.op = "add_tunnel" /\ call.at \in {"ceiling", "check", "insert"}
  /\ {"at", "tunnel"} \subseteq DOMAIN call
  /\ call.tunnel \in TunnelRow /\ ~call.tunnel.dead
  /\ call.at = "insert" /\ call.tunnel.kind = "Parent" =>
       Parents(table, call.tunnel.source) = {}
Reparenting(call, table, out) ==
  /\ call.op = "reparent_drawer" /\ call.at \in {"find", "tombstone"}
  /\ {"at", "old"} \subseteq DOMAIN call
  /\ call.child \in Drawers /\ call.parent \in Drawers \cup {NoDrawer} /\ call.order_key \in Nat
  /\ NoDrawer \in out[call.child]
  /\ call.at = "tombstone" => call.old \in Parents(table, call.child)
Rewriting(call, table) ==
  /\ call.op = "rewrite" /\ call.at \in {"read", "update"}
  /\ {"at", "lifecycle", "retired"} \subseteq DOMAIN call
  /\ call.id \in Nat /\ call.verb \in {"accept", "reject", "retire", "unretire"}
  /\ call.at = "update" =>
       /\ call.id \in DOMAIN table
       /\ call.lifecycle \in Lifecycles /\ call.retired \in BOOLEAN
       /\ IF call.verb \in {"accept", "reject"}
            THEN table[call.id].lifecycle = Proposed /\ call.retired = table[call.id].retired
            ELSE call.lifecycle = table[call.id].lifecycle

TunnelCall(call, table, out) ==
  \/ call = Idle
  \/ Adding(call, table)
  \/ Reparenting(call, table, out)
  \/ Rewriting(call, table)
  \/ /\ call.op = "reclassify" /\ call.at = "update"
     /\ call.drawer \in Drawers /\ call.level \in Levels

TunnelsInv ==
  /\ TunnelsKept
  /\ scene = "tunnels" => OneCall /\ \A c \in Callers : TunnelCall(calls[c], tunnels, outline)

\* The model's reads of a drawer's parent are those of the invariant.
LEMMA ParentsAre ==
  /\ \A d : ParentTunnels(d) = Parents(tunnels, d)
  /\ \A d : ParentOf(d) = ParentIn(tunnels, d)
BY DEF ParentTunnels, ParentOf, RowsWhere, Parents, ParentIn

\* The parent of a drawer with one Parent tunnel is that tunnel's target.
LEMMA OneTarget ==
  ASSUME NEW table, NEW d, NEW i \in Int, Parents(table, d) = {i}
  PROVE  ParentIn(table, d) = table[i].target
<1>1. Min({i}) = i
  BY DEF Min
<1> QED
  BY <1>1 DEF ParentIn

\* A table whose rows have the same ends, kind and life has the same parents.
LEMMA SameParents ==
  ASSUME NEW old, NEW new, DOMAIN new = DOMAIN old, NEW d,
         \A i \in DOMAIN old : /\ new[i].kind = old[i].kind /\ new[i].source = old[i].source
                               /\ new[i].target = old[i].target /\ new[i].dead = old[i].dead,
         DOMAIN old \in SUBSET Int,
         \A i, j \in Parents(old, d) : i = j
  PROVE  Parents(new, d) = Parents(old, d) /\ ParentIn(new, d) = ParentIn(old, d)
<1>1. Parents(new, d) = Parents(old, d)
  BY DEF Parents
<1>2. CASE Parents(old, d) = {}
  BY <1>1, <1>2 DEF ParentIn
<1>3. CASE Parents(old, d) # {}
  <2>1. PICK i \in Parents(old, d) : Parents(old, d) = {i}
    BY <1>3
  <2>2. i \in DOMAIN old /\ i \in Int
    BY DEF Parents
  <2> QED
    BY <1>1, <2>1, <2>2, OneTarget
<1> QED
  BY <1>1, <1>2, <1>3

\* A step that leaves the tunnels alone, gives every drawer the parents it may have, and
\* enters a call that fits.
LEMMA TunnelsStand ==
  ASSUME TunnelsInv, tunnels' = tunnels, sensitivity' \in [Drawers -> Levels],
         outline' \in [Drawers -> SUBSET (Drawers \cup {NoDrawer})],
         \A d \in Drawers : ParentIn(tunnels, d) \in outline'[d],
         NEW c \in Callers, NEW next, OnlyCall(c, next), OneCall', TunnelCall(next, tunnels, outline')
  PROVE  TunnelsInv' /\ ReviewStands
<1>1. TunnelsKept'
  BY DEF TunnelsInv, TunnelsKept
<1>2. \A d \in Callers : TunnelCall(calls'[d], tunnels', outline')
  BY DEF OnlyCall, TunnelCall
<1>3. ReviewStands
  BY DEF ReviewStands
<1> QED
  BY <1>1, <1>2, <1>3 DEF TunnelsInv

\* A step that changes no more than a call.
LEMMA TunnelCallGoesOn ==
  ASSUME TunnelsInv, UNCHANGED tunnelVars,
         NEW c \in Callers, NEW next, OnlyCall(c, next), OneCall', TunnelCall(next, tunnels, outline)
  PROVE  TunnelsInv' /\ ReviewStands
<1>1. tunnels' = tunnels /\ sensitivity' = sensitivity /\ outline' = outline
  BY DEF tunnelVars
<1> QED
  BY <1>1, TunnelsStand DEF TunnelsInv, TunnelsKept

\* The calls that only begin.
LEMMA TunnelsBegin ==
  ASSUME TunnelsInv, OneCall, Coordinated, NEW c \in Callers,
         \/ \E s, t \in Drawers : \E kind \in {"Parent", "Related"} :
              \E lifecycle \in {Proposed, Active} :
                capture_tunnel(c, Tunnel(kind, s, t, lifecycle, 0))
         \/ \E d \in Drawers, p \in Drawers \cup {NoDrawer} :
              reparent_drawer(c, d, p, Len(tunnels))
         \/ \E id \in 1..(Len(tunnels) + 1) :
              \/ retire_tunnel(c, id) \/ unretire_tunnel(c, id)
              \/ \E accept \in BOOLEAN : respond_to_tunnel(c, id, accept)
         \/ \E d \in Drawers, level \in Levels : reclassify(c, d, level)
  PROVE  TunnelsInv' /\ ReviewStands
<1>1. ASSUME NEW s \in Drawers, NEW t \in Drawers, NEW kind \in {"Parent", "Related"},
             NEW lifecycle \in {Proposed, Active},
             capture_tunnel(c, Tunnel(kind, s, t, lifecycle, 0))
      PROVE  TunnelsInv' /\ ReviewStands
  <2> DEFINE row == Tunnel(kind, s, t, lifecycle, 0)
             call == [op |-> "add_tunnel", at |-> "ceiling", tunnel |-> row]
  <2>1. row \in TunnelRow /\ ~row.dead /\ row.source = s /\ row.target = t
    BY TunnelsAssumption DEF Tunnel, TunnelRow, Lifecycles
  <2> HIDE DEF row
  <2>2. OnlyCall(c, call) /\ OneCall'
    BY <1>1, BeginsAlone DEF capture_tunnel, row
  <2>3. Adding(call, tunnels)
    BY <2>1 DEF Adding
  <2>4. tunnels' = tunnels /\ sensitivity' = sensitivity
    BY <1>1 DEF capture_tunnel
  <2>5. outline' = [outline EXCEPT ![s] = @ \cup {t}] \/ outline' = outline
    BY <1>1, <2>1 DEF capture_tunnel, row
  <2>6. /\ outline' \in [Drawers -> SUBSET (Drawers \cup {NoDrawer})]
        /\ \A d \in Drawers : outline[d] \subseteq outline'[d]
    BY <2>5 DEF TunnelsInv, TunnelsKept
  <2>7. \A d \in Drawers : ParentIn(tunnels, d) \in outline'[d]
    BY <2>6 DEF TunnelsInv, TunnelsKept
  <2>8. sensitivity' \in [Drawers -> Levels] /\ TunnelCall(call, tunnels, outline')
    BY <2>3, <2>4 DEF TunnelsInv, TunnelsKept, TunnelCall
  <2> HIDE DEF call
  <2> QED
    BY <2>2, <2>4, <2>6, <2>7, <2>8, TunnelsStand
<1>2. ASSUME NEW d \in Drawers, NEW p \in Drawers \cup {NoDrawer},
             reparent_drawer(c, d, p, Len(tunnels))
      PROVE  TunnelsInv' /\ ReviewStands
  <2> DEFINE call == [op |-> "reparent_drawer", at |-> "find", child |-> d, parent |-> p,
                      order_key |-> Len(tunnels), old |-> 0]
  <2>1. OnlyCall(c, call) /\ OneCall'
    BY <1>2, BeginsAlone DEF reparent_drawer
  <2>2. /\ tunnels' = tunnels /\ sensitivity' = sensitivity
        /\ outline' = [outline EXCEPT ![d] = @ \cup {NoDrawer, p}]
    BY <1>2 DEF reparent_drawer
  <2>3. /\ outline' \in [Drawers -> SUBSET (Drawers \cup {NoDrawer})]
        /\ \A e \in Drawers : outline[e] \subseteq outline'[e]
        /\ NoDrawer \in outline'[d]
    BY <2>2 DEF TunnelsInv, TunnelsKept
  <2>4. \A e \in Drawers : ParentIn(tunnels, e) \in outline'[e]
    BY <2>3 DEF TunnelsInv, TunnelsKept
  <2>5. Reparenting(call, tunnels, outline')
    BY <2>3 DEF Reparenting, TunnelsInv, TunnelsKept
  <2>6. sensitivity' \in [Drawers -> Levels] /\ TunnelCall(call, tunnels, outline')
    BY <2>2, <2>5 DEF TunnelsInv, TunnelsKept, TunnelCall
  <2> HIDE DEF call
  <2> QED
    BY <2>1, <2>2, <2>3, <2>4, <2>6, TunnelsStand
<1>3. ASSUME NEW id \in 1..(Len(tunnels) + 1),
             NEW verb \in {"accept", "reject", "retire", "unretire"}, Rewrite(c, id, verb)
      PROVE  TunnelsInv' /\ ReviewStands
  <2> DEFINE call == [op |-> "rewrite", at |-> "read", id |-> id, verb |-> verb,
                      lifecycle |-> Active, retired |-> FALSE]
  <2>1. OnlyCall(c, call) /\ OneCall' /\ UNCHANGED tunnelVars
    BY <1>3, BeginsAlone DEF Rewrite
  <2>2. TunnelCall(call, tunnels, outline)
    <3>1. id \in Nat
      BY DEF TunnelsInv, TunnelsKept
    <3>2. Rewriting(call, tunnels)
      BY <3>1 DEF Rewriting
    <3> QED
      BY <3>2 DEF TunnelCall
  <2> HIDE DEF call
  <2> QED
    BY <2>1, <2>2, TunnelCallGoesOn
<1>4. ASSUME NEW d \in Drawers, NEW level \in Levels, reclassify(c, d, level)
      PROVE  TunnelsInv' /\ ReviewStands
  <2> DEFINE call == [op |-> "reclassify", at |-> "update", drawer |-> d, level |-> level]
  <2>1. OnlyCall(c, call) /\ OneCall' /\ UNCHANGED tunnelVars
    BY <1>4, BeginsAlone DEF reclassify
  <2>2. TunnelCall(call, tunnels, outline)
    BY DEF TunnelCall
  <2> HIDE DEF call
  <2> QED
    BY <2>1, <2>2, TunnelCallGoesOn
<1>5. ASSUME NEW id \in 1..(Len(tunnels) + 1),
             \/ retire_tunnel(c, id) \/ unretire_tunnel(c, id)
             \/ \E accept \in BOOLEAN : respond_to_tunnel(c, id, accept)
      PROVE  \E verb \in {"accept", "reject", "retire", "unretire"} : Rewrite(c, id, verb)
  BY <1>5 DEF retire_tunnel, unretire_tunnel, respond_to_tunnel
<1> QED
  BY <1>1, <1>2, <1>3, <1>4, <1>5

\* The greater of two numbers is one of them.
LEMMA MaxOfTwo ==
  ASSUME NEW a \in Int, NEW b \in Int
  PROVE  Max({a, b}) = a \/ Max({a, b}) = b
<1>1. \E x \in {a, b} : \A y \in {a, b} : x >= y
  OBVIOUS
<1>2. Max({a, b}) \in {a, b}
  BY <1>1 DEF Max
<1> QED
  BY <1>2

\* Reading the endpoints' sensitivities and looking for a parent change no table.
LEMMA AddTunnelKeeps ==
  ASSUME TunnelsInv, OneCall, scene = "tunnels", NEW c \in Callers,
         ReadEndpoints(c) \/ add_tunnel(c)
  PROVE  TunnelsInv' /\ ReviewStands
<1> DEFINE call == calls[c]
<1>1. /\ call.op = "add_tunnel" /\ call.at \in {"ceiling", "check"} /\ call # Idle
      /\ UNCHANGED tunnelVars
  BY NotIdle DEF ReadEndpoints, add_tunnel, At
<1>2. Adding(call, tunnels)
  BY <1>1 DEF TunnelsInv, TunnelCall, Reparenting, Rewriting
<1>3. CASE ReadEndpoints(c)
  <2> DEFINE t == call.tunnel
             level == Max({sensitivity[t.source], sensitivity[t.target]})
             next == [call EXCEPT !.at = "check", !.tunnel.sensitivity = level]
  <2>1. level \in Levels
    <3>1. t.source \in Drawers /\ t.target \in Drawers
      BY <1>2 DEF Adding, TunnelRow
    <3>2. sensitivity[t.source] \in Levels /\ sensitivity[t.target] \in Levels
      BY <3>1 DEF TunnelsInv, TunnelsKept
    <3>3. \A a, b \in Levels : Max({a, b}) \in Levels
      BY TunnelsAssumption, MaxOfTwo
    <3> QED
      BY <3>2, <3>3
  <2> HIDE DEF level
  <2>2. Continue(c, next)
    BY <1>3 DEF ReadEndpoints, level
  <2>3. OnlyCall(c, next) /\ OneCall'
    BY <1>1, <2>2, GoesOnAlone
  <2>4. /\ next.op = "add_tunnel" /\ next.at = "check" /\ {"at", "tunnel"} \subseteq DOMAIN next
        /\ next.tunnel = [t EXCEPT !.sensitivity = level]
    BY <1>1, <1>2 DEF Adding
  <2>5. next.tunnel \in TunnelRow /\ ~next.tunnel.dead
    BY <1>2, <2>1, <2>4 DEF Adding, TunnelRow
  <2> HIDE DEF next
  <2>6. TunnelCall(next, tunnels, outline)
    BY <2>4, <2>5 DEF TunnelCall, Adding
  <2> QED
    BY <1>1, <2>3, <2>6, TunnelCallGoesOn
<1>4. CASE add_tunnel(c) /\ call.tunnel.kind = "Parent" /\ has_parent(call.tunnel)
  <2>1. OnlyCall(c, Idle) /\ OneCall'
    BY <1>1, <1>4, GoesOnAlone DEF add_tunnel, End
  <2> QED
    BY <1>1, <2>1, TunnelCallGoesOn DEF TunnelCall
<1>5. CASE add_tunnel(c) /\ ~(call.tunnel.kind = "Parent" /\ has_parent(call.tunnel))
  <2> DEFINE next == [call EXCEPT !.at = "insert"]
  <2>1. OnlyCall(c, next) /\ OneCall'
    BY <1>1, <1>5, GoesOnAlone DEF add_tunnel, GoTo
  <2>2. /\ next.op = "add_tunnel" /\ next.at = "insert" /\ {"at", "tunnel"} \subseteq DOMAIN next
        /\ next.tunnel = call.tunnel
    BY <1>1, <1>2 DEF Adding
  <2>3. call.tunnel.kind = "Parent" => Parents(tunnels, call.tunnel.source) = {}
    BY <1>5, ParentsAre DEF has_parent
  <2> HIDE DEF next
  <2>4. TunnelCall(next, tunnels, outline)
    BY <1>2, <2>2, <2>3 DEF TunnelCall, Adding
  <2> QED
    BY <1>1, <2>1, <2>4, TunnelCallGoesOn
<1> QED
  BY <1>3, <1>4, <1>5

\* A drawer that had no parent gets the one that is filed; the other drawers keep theirs.
LEMMA InsertTunnelKeeps ==
  ASSUME TunnelsInv, OneCall, scene = "tunnels", NEW c \in Callers, InsertTunnel(c)
  PROVE  TunnelsInv' /\ ReviewStands
<1> DEFINE call == calls[c]
           t == call.tunnel
           n == Len(tunnels) + 1
<1>1. call.op = "add_tunnel" /\ call.at = "insert" /\ call # Idle
  BY NotIdle DEF InsertTunnel, At
<1>2. Adding(call, tunnels)
  BY <1>1 DEF TunnelsInv, TunnelCall, Reparenting, Rewriting
<1>3. t \in TunnelRow /\ ~t.dead /\ (t.kind = "Parent" => Parents(tunnels, t.source) = {})
  BY <1>1, <1>2 DEF Adding
<1>4. OnlyCall(c, Idle) /\ OneCall'
  BY <1>1, GoesOnAlone DEF InsertTunnel, End
<1> HIDE DEF t
<1>5. tunnels' = Append(tunnels, t) /\ sensitivity' = sensitivity
      /\ outline' = IF t.kind = "Parent" THEN [outline EXCEPT ![t.source] = {t.target}] ELSE outline
  BY DEF InsertTunnel, t
<1>6. tunnels \in Seq(TunnelRow) /\ Len(tunnels) \in Nat
  BY DEF TunnelsInv, TunnelsKept
<1>7. /\ tunnels' \in Seq(TunnelRow)
      /\ DOMAIN tunnels = 1..Len(tunnels)
      /\ DOMAIN tunnels' = DOMAIN tunnels \cup {n} /\ n \notin DOMAIN tunnels /\ n \in Int
      /\ tunnels'[n] = t /\ \A i \in DOMAIN tunnels : tunnels'[i] = tunnels[i]
  BY <1>3, <1>5, <1>6
<1> HIDE DEF n
<1>8. ASSUME NEW d \in Drawers
      PROVE  /\ \A i, j \in Parents(tunnels', d) : i = j
             /\ ParentIn(tunnels', d) \in outline'[d]
             /\ outline'[d] \subseteq Drawers \cup {NoDrawer}
  <2>1. /\ \A i, j \in Parents(tunnels, d) : i = j
        /\ ParentIn(tunnels, d) \in outline[d]
        /\ outline[d] \subseteq Drawers \cup {NoDrawer}
    BY DEF TunnelsInv, TunnelsKept
  <2>2. CASE t.kind = "Parent" /\ t.source = d
    <3>1. Parents(tunnels', d) = {n}
      BY <1>3, <1>7, <2>2 DEF Parents
    <3>2. ParentIn(tunnels', d) = t.target
      BY <1>7, <3>1, OneTarget
    <3>3. outline'[d] = {t.target} /\ t.target \in Drawers
      BY <1>3, <1>5, <2>2 DEF TunnelsInv, TunnelsKept, TunnelRow
    <3> QED
      BY <3>1, <3>2, <3>3
  <2>3. CASE ~(t.kind = "Parent" /\ t.source = d)
    <3>1. Parents(tunnels', d) = Parents(tunnels, d)
      BY <1>7, <2>3 DEF Parents
    <3>2. ParentIn(tunnels', d) = ParentIn(tunnels, d)
      <4>1. CASE Parents(tunnels, d) = {}
        BY <3>1, <4>1 DEF ParentIn
      <4>2. CASE Parents(tunnels, d) # {}
        <5>1. PICK i \in Parents(tunnels, d) : Parents(tunnels, d) = {i}
          BY <2>1, <4>2
        <5>2. i \in DOMAIN tunnels /\ i \in Int
          BY <1>6, <1>7 DEF Parents
        <5>3. ParentIn(tunnels, d) = tunnels[i].target /\ ParentIn(tunnels', d) = tunnels'[i].target
          BY <3>1, <5>1, <5>2, OneTarget
        <5> QED
          BY <1>7, <5>2, <5>3
      <4> QED
        BY <4>1, <4>2
    <3>3. outline'[d] = outline[d]
      BY <1>5, <2>3 DEF TunnelsInv, TunnelsKept
    <3> QED
      BY <2>1, <3>1, <3>2, <3>3
  <2> QED
    BY <2>2, <2>3
<1>9. TunnelsKept'
  <2>1. outline' \in [Drawers -> SUBSET (Drawers \cup {NoDrawer})]
    <3>1. outline' = [d \in Drawers |-> outline'[d]]
      BY <1>5 DEF TunnelsInv, TunnelsKept
    <3> QED
      BY <1>8, <3>1
  <2> QED
    BY <1>5, <1>7, <1>8, <2>1 DEF TunnelsInv, TunnelsKept
<1>10. \A d \in Callers : TunnelCall(calls'[d], tunnels', outline')
  BY <1>4 DEF OnlyCall, TunnelCall
<1>11. ReviewStands
  BY <1>7 DEF ReviewStands
<1> QED
  BY <1>4, <1>9, <1>10, <1>11 DEF TunnelsInv

\* A drawer that has no parent (any more) is left at the top level, or its new parent is
\* filed next.
LEMMA AddParentFits ==
  ASSUME OneCall, NEW c \in Callers, calls[c] # Idle, AddParent(c),
         NEW d \in Drawers, d = calls[c].child, calls[c].parent \in Drawers \cup {NoDrawer},
         calls[c].order_key \in Nat,
         outline \in [Drawers -> SUBSET (Drawers \cup {NoDrawer})], NoDrawer \in outline[d],
         NEW table, NEW out, out = outline'
  PROVE  /\ OneCall'
         /\ outline' \in [Drawers -> SUBSET (Drawers \cup {NoDrawer})]
         /\ NoDrawer \in outline'[d]
         /\ \A e \in Drawers : e # d => outline'[e] = outline[e]
         /\ \E next : OnlyCall(c, next) /\ TunnelCall(next, table, out)
<1> DEFINE call == calls[c]
           row == Tunnel("Parent", d, call.parent, Active, call.order_key)
           next == [op |-> "add_tunnel", at |-> "check", tunnel |-> row]
<1>1. CASE call.parent = NoDrawer
  <2>1. outline' = [outline EXCEPT ![d] = {NoDrawer}] /\ OnlyCall(c, Idle) /\ OneCall'
    BY <1>1, GoesOnAlone DEF AddParent, End
  <2> QED
    BY <2>1 DEF TunnelCall
<1>2. CASE call.parent # NoDrawer
  <2>1. outline' = outline /\ OnlyCall(c, next) /\ OneCall'
    BY <1>2, GoesOnAlone DEF AddParent
  <2>2. row \in TunnelRow /\ ~row.dead
    BY <1>2, TunnelsAssumption DEF Tunnel, TunnelRow, Lifecycles
  <2> HIDE DEF row
  <2>3. TunnelCall(next, table, out)
    BY <2>2 DEF TunnelCall, Adding
  <2> HIDE DEF next
  <2> QED
    BY <2>1, <2>3
<1> QED
  BY <1>1, <1>2

\* The parent that was found is tombstoned before the new one is filed.
LEMMA ReparentKeeps ==
  ASSUME TunnelsInv, OneCall, scene = "tunnels", NEW c \in Callers,
         FindParent(c) \/ TombstoneParent(c)
  PROVE  TunnelsInv' /\ ReviewStands
<1> DEFINE call == calls[c]
           d == call.child
<1>1. call.op = "reparent_drawer" /\ call # Idle
  BY NotIdle DEF FindParent, TombstoneParent, At
<1>2. Reparenting(call, tunnels, outline)
  BY <1>1 DEF TunnelsInv, TunnelCall, Adding, Rewriting
<1>3. /\ d \in Drawers /\ call.parent \in Drawers \cup {NoDrawer} /\ call.order_key \in Nat
      /\ NoDrawer \in outline[d] /\ {"at", "old"} \subseteq DOMAIN call
  BY <1>2 DEF Reparenting
<1>4. outline \in [Drawers -> SUBSET (Drawers \cup {NoDrawer})]
  BY DEF TunnelsInv, TunnelsKept
<1> HIDE DEF d
<1>5. CASE FindParent(c) /\ ParentTunnels(call.child) = {}
  <2>1. AddParent(c) /\ tunnels' = tunnels /\ sensitivity' = sensitivity
    BY <1>5 DEF FindParent
  <2>2. /\ OneCall' /\ outline' \in [Drawers -> SUBSET (Drawers \cup {NoDrawer})]
        /\ NoDrawer \in outline'[d] /\ \A e \in Drawers : e # d => outline'[e] = outline[e]
        /\ \E next : OnlyCall(c, next) /\ TunnelCall(next, tunnels, outline')
    BY <1>1, <1>3, <1>4, <2>1, AddParentFits DEF d
  <2>3. ParentIn(tunnels, d) = NoDrawer
    BY <1>5, ParentsAre DEF ParentIn, d
  <2>4. \A e \in Drawers : ParentIn(tunnels, e) \in outline'[e]
    BY <2>2, <2>3 DEF TunnelsInv, TunnelsKept
  <2>5. sensitivity' \in [Drawers -> Levels]
    BY <2>1 DEF TunnelsInv, TunnelsKept
  <2> QED
    BY <2>1, <2>2, <2>4, <2>5, TunnelsStand
<1>6. CASE FindParent(c) /\ ParentTunnels(call.child) # {}
  <2> DEFINE old == Min(ParentTunnels(call.child))
             next == [call EXCEPT !.at = "tombstone", !.old = old]
  <2>1. UNCHANGED tunnelVars /\ OnlyCall(c, next) /\ OneCall'
    BY <1>1, <1>6, GoesOnAlone DEF FindParent, tunnelVars
  <2>2. old \in Parents(tunnels, d)
    <3>1. ParentTunnels(call.child) = Parents(tunnels, d)
      BY ParentsAre DEF d
    <3>2. PICK i \in Parents(tunnels, d) : Parents(tunnels, d) = {i}
      BY <1>3, <1>6, <3>1 DEF TunnelsInv, TunnelsKept
    <3>3. i \in Int
      BY DEF Parents, TunnelsInv, TunnelsKept
    <3>4. Min({i}) = i
      BY <3>3 DEF Min
    <3> QED
      BY <3>1, <3>2, <3>4
  <2> HIDE DEF old
  <2>3. /\ next.op = "reparent_drawer" /\ next.at = "tombstone" /\ next.child = d
        /\ next.parent = call.parent /\ next.order_key = call.order_key /\ next.old = old
        /\ {"at", "old"} \subseteq DOMAIN next
    BY <1>1, <1>3 DEF d
  <2> HIDE DEF next
  <2>4. TunnelCall(next, tunnels, outline)
    BY <1>3, <2>2, <2>3 DEF TunnelCall, Reparenting
  <2> QED
    BY <2>1, <2>4, TunnelCallGoesOn
<1>7. CASE TombstoneParent(c)
  <2> DEFINE old == call.old
  <2>1. old \in Parents(tunnels, d)
    BY <1>2, <1>7 DEF TombstoneParent, At, Reparenting, d
  <2> HIDE DEF old
  <2>2. /\ tunnels' = [tunnels EXCEPT ![old].dead = TRUE] /\ AddParent(c)
        /\ sensitivity' = sensitivity
    BY <1>7 DEF TombstoneParent, old
  <2>3. /\ OneCall' /\ outline' \in [Drawers -> SUBSET (Drawers \cup {NoDrawer})]
        /\ NoDrawer \in outline'[d] /\ \A e \in Drawers : e # d => outline'[e] = outline[e]
        /\ \E next : OnlyCall(c, next) /\ TunnelCall(next, tunnels', outline')
    BY <1>1, <1>3, <1>4, <2>2, AddParentFits DEF d
  <2>4. tunnels \in Seq(TunnelRow) /\ old \in DOMAIN tunnels /\ DOMAIN tunnels \in SUBSET Int
    BY <2>1 DEF TunnelsInv, TunnelsKept, Parents
  <2>5. /\ tunnels' \in Seq(TunnelRow) /\ DOMAIN tunnels' = DOMAIN tunnels
        /\ tunnels'[old] = [tunnels[old] EXCEPT !.dead = TRUE]
        /\ \A i \in DOMAIN tunnels : i # old => tunnels'[i] = tunnels[i]
    <3>1. tunnels[old] \in TunnelRow
      BY <2>4
    <3>2. [tunnels[old] EXCEPT !.dead = TRUE] \in TunnelRow
      BY <3>1 DEF TunnelRow
    <3> QED
      BY <2>2, <2>4, <3>2
  <2>6. /\ DOMAIN tunnels' = DOMAIN tunnels
        /\ tunnels'[old].dead /\ tunnels'[old].lifecycle = tunnels[old].lifecycle
        /\ \A i \in DOMAIN tunnels : i # old => tunnels'[i] = tunnels[i]
    <3>1. tunnels[old] \in TunnelRow
      BY <2>4
    <3> QED
      BY <2>5, <3>1 DEF TunnelRow
  <2>7. ParentIn(tunnels', d) = NoDrawer /\ Parents(tunnels', d) = {}
    <3>1. \A i \in Parents(tunnels, d) : i = old
      BY <1>3, <2>1 DEF TunnelsInv, TunnelsKept
    <3>2. Parents(tunnels', d) = {}
      BY <2>6, <3>1 DEF Parents
    <3> QED
      BY <3>2 DEF ParentIn
  <2>8. ASSUME NEW e \in Drawers, e # d
        PROVE  /\ \A i, j \in Parents(tunnels', e) : i = j
               /\ ParentIn(tunnels', e) \in outline'[e]
    <3>1. Parents(tunnels', e) = Parents(tunnels, e) /\ old \notin Parents(tunnels, e)
      <4>1. old \notin Parents(tunnels, e) /\ old \notin Parents(tunnels', e)
        BY <2>1, <2>6, <2>8 DEF Parents
      <4>2. \A i : i # old => (i \in Parents(tunnels', e) <=> i \in Parents(tunnels, e))
        BY <2>6 DEF Parents
      <4> QED
        BY <4>1, <4>2
    <3>2. /\ \A i, j \in Parents(tunnels, e) : i = j
          /\ ParentIn(tunnels, e) \in outline'[e]
      BY <2>3, <2>8 DEF TunnelsInv, TunnelsKept
    <3>3. ParentIn(tunnels', e) = ParentIn(tunnels, e)
      <4>1. CASE Parents(tunnels, e) = {}
        BY <3>1, <4>1 DEF ParentIn
      <4>2. CASE Parents(tunnels, e) # {}
        <5>1. PICK i \in Parents(tunnels, e) : Parents(tunnels, e) = {i}
          BY <3>2, <4>2
        <5>2. i \in DOMAIN tunnels /\ i \in Int /\ i # old
          BY <2>4, <3>1 DEF Parents
        <5>3. ParentIn(tunnels, e) = tunnels[i].target /\ ParentIn(tunnels', e) = tunnels'[i].target
          BY <3>1, <5>1, <5>2, OneTarget
        <5> QED
          BY <2>5, <5>2, <5>3
      <4> QED
        BY <4>1, <4>2
    <3> QED
      BY <3>1, <3>2, <3>3
  <2>9. TunnelsKept'
    <3>1. sensitivity' \in [Drawers -> Levels]
      BY <2>2 DEF TunnelsInv, TunnelsKept
    <3> QED
      BY <2>3, <2>5, <2>7, <2>8, <3>1 DEF TunnelsKept
  <2>10. ReviewStands
    BY <2>5, <2>6 DEF ReviewStands
  <2>11. \A e \in Callers : TunnelCall(calls'[e], tunnels', outline')
    BY <2>3 DEF OnlyCall, TunnelCall
  <2> QED
    BY <2>3, <2>9, <2>10, <2>11 DEF TunnelsInv
<1> QED
  BY <1>5, <1>6, <1>7

\* A review or a retirement reads the row it will write back.
LEMMA ReadTunnelKeeps ==
  ASSUME TunnelsInv, OneCall, scene = "tunnels", NEW c \in Callers, ReadTunnel(c)
  PROVE  TunnelsInv' /\ ReviewStands
<1> DEFINE call == calls[c]
           t == tunnels[call.id]
           reviews == call.verb \in {"accept", "reject"}
           lifecycle == CASE call.verb = "accept" -> Active
                          [] call.verb = "reject" -> Withdrawn
                          [] OTHER -> t.lifecycle
           retired == CASE call.verb = "retire" -> TRUE
                        [] call.verb = "unretire" -> FALSE
                        [] OTHER -> t.retired
           next == [call EXCEPT !.at = "update", !.lifecycle = lifecycle, !.retired = retired]
<1>1. call.op = "rewrite" /\ call.at = "read" /\ call # Idle /\ UNCHANGED tunnelVars
  BY NotIdle DEF ReadTunnel, At
<1>2. Rewriting(call, tunnels)
  BY <1>1 DEF TunnelsInv, TunnelCall, Adding, Reparenting
<1>3. CASE Continue(c, Idle)
  <2>1. OnlyCall(c, Idle) /\ OneCall'
    BY <1>1, <1>3, GoesOnAlone
  <2> QED
    BY <1>1, <2>1, TunnelCallGoesOn DEF TunnelCall
<1>4. CASE /\ call.id \in DOMAIN tunnels /\ (reviews => t.lifecycle = Proposed)
           /\ Continue(c, next)
  <2>1. OnlyCall(c, next) /\ OneCall'
    BY <1>1, <1>4, GoesOnAlone
  <2>2. t \in TunnelRow
    BY <1>4 DEF TunnelsInv, TunnelsKept
  <2>3. t.lifecycle \in Lifecycles /\ t.retired \in BOOLEAN
    BY <2>2 DEF TunnelRow
  <2>4. lifecycle \in Lifecycles /\ (~reviews => lifecycle = t.lifecycle)
    BY <1>2, <2>3 DEF Rewriting, Lifecycles
  <2>5. retired \in BOOLEAN /\ (reviews => retired = t.retired)
    BY <1>2, <2>3 DEF Rewriting
  <2> HIDE DEF lifecycle, retired
  <2>6. /\ next.op = "rewrite" /\ next.at = "update" /\ next.id = call.id
        /\ next.verb = call.verb /\ next.lifecycle = lifecycle /\ next.retired = retired
        /\ {"at", "lifecycle", "retired"} \subseteq DOMAIN next
    BY <1>1, <1>2 DEF Rewriting
  <2> HIDE DEF next
  <2>7. Rewriting(next, tunnels)
    BY <1>2, <1>4, <2>4, <2>5, <2>6 DEF Rewriting
  <2> QED
    BY <1>1, <2>1, <2>7, TunnelCallGoesOn DEF TunnelCall
<1> QED
  BY <1>3, <1>4 DEF ReadTunnel, get_tunnel, may_review, End

\* Only a proposed tunnel is accepted or withdrawn, and retiring leaves its lifecycle alone.
LEMMA UpdateTunnelKeeps ==
  ASSUME TunnelsInv, OneCall, scene = "tunnels", NEW c \in Callers, UpdateTunnel(c)
  PROVE  TunnelsInv' /\ ReviewStands
<1> DEFINE call == calls[c]
           id == call.id
<1>1. call.op = "rewrite" /\ call.at = "update" /\ call # Idle
  BY NotIdle DEF UpdateTunnel, At
<1>2. Rewriting(call, tunnels)
  BY <1>1 DEF TunnelsInv, TunnelCall, Adding, Reparenting
<1>3. /\ id \in DOMAIN tunnels /\ call.lifecycle \in Lifecycles /\ call.retired \in BOOLEAN
      /\ \/ tunnels[id].lifecycle = Proposed /\ call.retired = tunnels[id].retired
         \/ call.lifecycle = tunnels[id].lifecycle
  BY <1>1, <1>2 DEF Rewriting
<1>4. OnlyCall(c, Idle) /\ OneCall' /\ sensitivity' = sensitivity /\ outline' = outline
  BY <1>1, GoesOnAlone DEF UpdateTunnel, End
<1>5. tunnels \in Seq(TunnelRow) /\ DOMAIN tunnels \in SUBSET Int
  BY DEF TunnelsInv, TunnelsKept
<1>6. tunnels' = [tunnels EXCEPT ![id].lifecycle = call.lifecycle, ![id].retired = call.retired]
  BY DEF UpdateTunnel
<1> HIDE DEF id
<1>7. /\ tunnels' \in Seq(TunnelRow) /\ DOMAIN tunnels' = DOMAIN tunnels
      /\ \A i \in DOMAIN tunnels : i # id => tunnels'[i] = tunnels[i]
      /\ tunnels'[id].lifecycle = call.lifecycle /\ tunnels'[id].retired = call.retired
      /\ \A i \in DOMAIN tunnels :
           /\ tunnels'[i].kind = tunnels[i].kind /\ tunnels'[i].source = tunnels[i].source
           /\ tunnels'[i].target = tunnels[i].target /\ tunnels'[i].dead = tunnels[i].dead
  <2> DEFINE row == [tunnels[id] EXCEPT !.lifecycle = call.lifecycle, !.retired = call.retired]
  <2>1. tunnels[id] \in TunnelRow
    BY <1>3, <1>5
  <2>2. /\ row \in TunnelRow /\ row.lifecycle = call.lifecycle /\ row.retired = call.retired
        /\ row.kind = tunnels[id].kind /\ row.source = tunnels[id].source
        /\ row.target = tunnels[id].target /\ row.dead = tunnels[id].dead
    BY <1>3, <2>1 DEF TunnelRow
  <2>3. tunnels' = [tunnels EXCEPT ![id] = row]
    BY <1>3, <1>6
  <2> HIDE DEF row
  <2> QED
    BY <1>3, <1>5, <2>2, <2>3
<1>8. \A d \in Drawers : /\ Parents(tunnels', d) = Parents(tunnels, d)
                         /\ ParentIn(tunnels', d) = ParentIn(tunnels, d)
  <2> TAKE d \in Drawers
  <2>1. \A i, j \in Parents(tunnels, d) : i = j
    BY DEF TunnelsInv, TunnelsKept
  <2> QED
    BY <1>5, <1>7, <2>1, SameParents
<1>9. TunnelsKept'
  BY <1>4, <1>7, <1>8 DEF TunnelsInv, TunnelsKept
<1>10. \A d \in Callers : TunnelCall(calls'[d], tunnels', outline')
  BY <1>4 DEF OnlyCall, TunnelCall
<1>11. ReviewStands
  <2>1. \A i \in DOMAIN tunnels : i # id => tunnels'[i] = tunnels[i]
    BY <1>7
  <2>2. \A i \in DOMAIN tunnels : tunnels'[i].dead = tunnels[i].dead
    BY <1>7
  <2>3. /\ tunnels[id].lifecycle # Proposed => tunnels'[id].lifecycle = tunnels[id].lifecycle
        /\ tunnels'[id].lifecycle # tunnels[id].lifecycle =>
             tunnels'[id].retired = tunnels[id].retired
    BY <1>3, <1>7
  <2> QED
    BY <2>1, <2>2, <2>3 DEF ReviewStands
<1> QED
  BY <1>4, <1>9, <1>10, <1>11 DEF TunnelsInv

\* Every step of the tunnels keeps the invariant and what was reviewed.
LEMMA TunnelsNextKeeps ==
  ASSUME TunnelsInv, OneCall, Coordinated, scene = "tunnels", TunnelsNext
  PROVE  TunnelsInv' /\ ReviewStands
<1>1. ASSUME NEW c \in Callers, UpdateSensitivity(c)
      PROVE  TunnelsInv' /\ ReviewStands
  <2>1. calls[c].op = "reclassify" /\ calls[c] # Idle
    BY <1>1, NotIdle DEF UpdateSensitivity, At
  <2>2. calls[c].drawer \in Drawers /\ calls[c].level \in Levels
    BY <2>1 DEF TunnelsInv, TunnelCall, Adding, Reparenting, Rewriting
  <2>3. /\ sensitivity' = [sensitivity EXCEPT ![calls[c].drawer] = calls[c].level]
        /\ tunnels' = tunnels /\ outline' = outline /\ OnlyCall(c, Idle) /\ OneCall'
    BY <1>1, <2>1, GoesOnAlone DEF UpdateSensitivity, End
  <2>4. sensitivity' \in [Drawers -> Levels]
    BY <2>2, <2>3 DEF TunnelsInv, TunnelsKept
  <2> QED
    BY <2>3, <2>4, TunnelsStand DEF TunnelCall, TunnelsInv, TunnelsKept
<1>2. ASSUME NEW c \in Callers, Fail(c), UNCHANGED tunnelVars
      PROVE  TunnelsInv' /\ ReviewStands
  <2>1. OnlyCall(c, Idle) /\ OneCall'
    BY <1>2, GoesOnAlone DEF Fail, End
  <2> QED
    BY <1>2, <2>1, TunnelCallGoesOn DEF TunnelCall
<1> QED
  BY <1>1, <1>2, TunnelsBegin, AddTunnelKeeps, InsertTunnelKeeps, ReparentKeeps,
     ReadTunnelKeeps, UpdateTunnelKeeps DEF TunnelsNext

\* The invariant of the tunnels, in every scene.
LEMMA TunnelsInvariant ==
  ASSUME Coordinated
  PROVE  /\ Init => TunnelsInv
         /\ TunnelsInv /\ [Next]_vars => TunnelsInv' /\ [ReviewStands]_<<callVars, tunnelVars>>
<1>1. ASSUME Init
      PROVE  TunnelsInv
  <2>1. OneCall /\ \A c \in Callers : TunnelCall(calls[c], tunnels, outline)
    BY <1>1 DEF Init, CallsInit, OneCall, TunnelCall
  <2>2. /\ tunnels = <<>> /\ sensitivity = [d \in Drawers |-> 0]
        /\ outline = [d \in Drawers |-> {NoDrawer}]
    BY <1>1 DEF Init, TunnelsInit
  <2>3. \A d \in Drawers : Parents(tunnels, d) = {} /\ ParentIn(tunnels, d) = NoDrawer
    BY <2>2 DEF Parents, ParentIn
  <2>4. TunnelsKept
    BY <2>2, <2>3, TunnelsAssumption DEF TunnelsKept
  <2> QED
    BY <2>1, <2>4 DEF TunnelsInv
<1>2. ASSUME TunnelsInv, [Next]_vars
      PROVE  TunnelsInv' /\ [ReviewStands]_<<callVars, tunnelVars>>
  <2>1. CASE UNCHANGED vars
    <3>1. /\ tunnels' = tunnels /\ sensitivity' = sensitivity /\ outline' = outline
          /\ scene' = scene /\ UNCHANGED callVars /\ calls' = calls
      BY <2>1 DEF vars, tunnelVars, callVars
    <3>2. TunnelsInv'
      BY <1>2, <3>1, CallsStand DEF TunnelsInv, TunnelsKept
    <3> QED
      BY <3>1, <3>2 DEF tunnelVars
  <2>2. CASE scene = "tunnels" /\ TunnelsNext
    BY <1>2, <2>2, TunnelsNextKeeps DEF TunnelsInv
  <2>3. CASE scene # "tunnels" /\ UNCHANGED <<tunnelVars, scene>>
    <3>1. tunnels' = tunnels /\ sensitivity' = sensitivity /\ outline' = outline /\ scene' = scene
      BY <2>3 DEF tunnelVars
    <3>2. TunnelsInv'
      BY <1>2, <2>3, <3>1 DEF TunnelsInv, TunnelsKept
    <3>3. ReviewStands
      BY <3>1 DEF ReviewStands
    <3> QED
      BY <3>2, <3>3
  <2> QED
    BY <1>2, <2>1, <2>2, <2>3 DEF Next, Scene
<1> QED
  BY <1>1, <1>2

\* A tunnel is reviewed once (respond_to_tunnel): neither retiring nor bringing it back, nor a
\* call cut short, changes what was accepted or withdrawn, and a tombstoned tunnel stays so,
\* under a host that serialises the verbs.
THEOREM ReviewsStand ==
  ASSUME Coordinated
  PROVE  Spec => ReviewedOnce
<1>1. Init => TunnelsInv
  BY TunnelsInvariant
<1>2. TunnelsInv /\ [Next]_vars => TunnelsInv' /\ [ReviewStands]_<<callVars, tunnelVars>>
  BY TunnelsInvariant
<1>3. Spec => [][ReviewStands]_<<callVars, tunnelVars>>
  BY <1>1, <1>2, PTL DEF Spec
<1> QED
  BY <1>3 DEF ReviewedOnce
\* A tunnel is seen from both its ends or from none, the retired from every list but one.
LEMMA ViewsDoAgree ==
  ASSUME TunnelsInv
  PROVE  ViewsAgree
<1> SUFFICES ASSUME NEW id \in DOMAIN tunnels
             PROVE  /\ Contains(all_tunnels, id) <=> ~tunnels[id].dead
                    /\ Contains(all_active_tunnels, id) <=> ~tunnels[id].dead /\ ~tunnels[id].retired
                    /\ Contains(tunnels_from(tunnels[id].source), id)
                         <=> Contains(tunnels_to(tunnels[id].target), id)
  BY DEF ViewsAgree
<1> DEFINE All == {i \in DOMAIN tunnels : ~tunnels[i].dead /\ TRUE}
           Live == {i \in DOMAIN tunnels : ~tunnels[i].dead /\ ~tunnels[i].retired}
           From == {i \in DOMAIN tunnels : ~tunnels[i].dead /\ tunnels[i].source = tunnels[id].source}
           To == {i \in DOMAIN tunnels : ~tunnels[i].dead /\ tunnels[i].target = tunnels[id].target}
<1>1. /\ all_tunnels = Ordered(All)
      /\ all_active_tunnels = Ordered(Live)
      /\ tunnels_from(tunnels[id].source) = Ordered(From)
      /\ tunnels_to(tunnels[id].target) = Ordered(To)
  BY DEF all_tunnels, all_active_tunnels, tunnels_from, tunnels_to, Listed, RowsWhere
<1>2. All \in SUBSET DOMAIN tunnels /\ Live \in SUBSET DOMAIN tunnels
      /\ From \in SUBSET DOMAIN tunnels /\ To \in SUBSET DOMAIN tunnels
  OBVIOUS
<1>3. /\ id \in All <=> ~tunnels[id].dead
      /\ id \in Live <=> ~tunnels[id].dead /\ ~tunnels[id].retired
      /\ id \in From <=> ~tunnels[id].dead
      /\ id \in To <=> ~tunnels[id].dead
  OBVIOUS
<1>4. Len(tunnels) \in Nat /\ DOMAIN tunnels = 1..Len(tunnels)
  BY DEF TunnelsInv, TunnelsKept
<1> HIDE DEF All, Live, From, To
<1> QED
  <2>1. /\ Contains(Ordered(All), id) <=> id \in All
        /\ Contains(Ordered(Live), id) <=> id \in Live
        /\ Contains(Ordered(From), id) <=> id \in From
        /\ Contains(Ordered(To), id) <=> id \in To
    BY <1>2, <1>4, ListingOf
  <2> QED
    BY <1>1, <1>3, <2>1

\* A parent's children, in the order of their keys, are the drawers whose Parent tunnel leads
\* to it (outline_children).
LEMMA ChildIsListed ==
  ASSUME TunnelsInv, NEW parent, NEW id \in DOMAIN tunnels,
         tunnels[id].kind = "Parent", tunnels[id].target = parent, ~tunnels[id].dead
  PROVE  \E i \in DOMAIN outline_children(parent) : outline_children(parent)[i] = id
<1> DEFINE S == {i \in DOMAIN tunnels : /\ tunnels[i].kind = "Parent"
                                        /\ tunnels[i].target = parent
                                        /\ ~tunnels[i].dead}
           key(i) == tunnels[i].order_key
           Before(a, b) == key(a) < key(b) \/ (key(a) = key(b) /\ a < b)
           R == {p \in S \X S : Before(p[1], p[2])}
           s == outline_children(parent)
<1>1. DOMAIN tunnels = 1..Len(tunnels) /\ Len(tunnels) \in Nat
      /\ \A i \in DOMAIN tunnels : tunnels[i].order_key \in Nat
  <2>1. tunnels \in Seq(TunnelRow)
    BY DEF TunnelsInv, TunnelsKept
  <2>2. \A row \in TunnelRow : row.order_key \in Nat
    BY DEF TunnelRow
  <2> QED
    BY <2>1, <2>2
<1>2. S \in SUBSET (1..Len(tunnels)) /\ \A i \in S : i \in Int /\ key(i) \in Int
  BY <1>1
<1>3. IsFiniteSet(S)
  BY <1>1, <1>2, FinitePart
<1>4. id \in S
  OBVIOUS
<1>5. \A x, y \in S : <<x, y>> \in R <=> Before(x, y)
  OBVIOUS
<1>6. \A x \in S : {y \in S : <<y, x>> \in R} = {y \in S : Before(y, x)}
  BY <1>5
<1>7. s = [i \in 1..Cardinality(S) |->
             CHOOSE x \in S : Cardinality({y \in S : Before(y, x)}) = i - 1]
  BY Zenon DEF outline_children, SortedBy, RowsWhere
<1>8. s = [i \in 1..Cardinality(S) |-> s[i]]
  BY <1>7, Zenon
<1>9. Orders(R, S)
  <2> HIDE DEF R, S
  <2>1. \A x \in S : <<x, x>> \notin R
    BY <1>2, <1>5
  <2>2. ASSUME NEW x \in S, NEW y \in S, x # y PROVE <<x, y>> \in R \/ <<y, x>> \in R
    <3>1. Before(x, y) \/ Before(y, x)
      BY <1>2, <2>2
    <3> QED
      BY <1>5, <3>1
  <2>3. ASSUME NEW x \in S, NEW y \in S, NEW z \in S, <<x, y>> \in R, <<y, z>> \in R
        PROVE  <<x, z>> \in R
    <3>1. Before(x, y) /\ Before(y, z)
      BY <1>5, <2>3
    <3>2. x \in Int /\ y \in Int /\ z \in Int /\ key(x) \in Int /\ key(y) \in Int /\ key(z) \in Int
      BY <1>2
    <3>3. Before(x, z)
      BY <3>1, <3>2
    <3> QED
      BY <1>5, <3>3
  <2> QED
    BY <2>1, <2>2, <2>3 DEF Orders
<1> HIDE DEF s, R, Before, S
<1>10. ASSUME NEW i \in 1..Cardinality(S),
              NEW x \in S, Cardinality({y \in S : <<y, x>> \in R}) = i - 1
       PROVE  s[i] \in S /\ Cardinality({y \in S : <<y, s[i]>> \in R}) = i - 1
  <2>1. Cardinality({y \in S : Before(y, x)}) = i - 1
    BY <1>6, <1>10
  <2>2. s[i] = CHOOSE u \in S : Cardinality({y \in S : Before(y, u)}) = i - 1
    BY <1>7, Zenon
  <2>3. s[i] \in S /\ Cardinality({y \in S : Before(y, s[i])}) = i - 1
    BY <2>1, <2>2, Zenon
  <2> QED
    BY <1>6, <2>3
<1>11. Placed(s, S, R)
  BY <1>8, <1>10 DEF Placed
<1>12. Lists(s, S, R)
  BY <1>3, <1>9, <1>11, Enumeration
<1>13. (\E i \in 1..Len(s) : s[i] = id) /\ s \in Seq(S)
  BY <1>4, <1>12 DEF Lists
<1>14. \E i \in DOMAIN s : s[i] = id
  BY <1>13
<1> QED
  BY <1>14 DEF s

\* The climb from a drawer, one parent further at each step: it exists for every height.
Climbing(d, n, below) ==
  LET current == IF below = <<>> THEN d ELSE below[1]
  IN  IF Len(below) < n - 1 \/ ParentOf(current) = NoDrawer THEN below
      ELSE <<ParentOf(current)>> \o below
Climb(d, m, up) == up = [n \in 0..m |-> IF n = 0 THEN <<>> ELSE Climbing(d, n, up[n - 1])]

\* A climb of any height can be made.
LEMMA ClimbExists ==
  ASSUME NEW d, NEW m \in Nat
  PROVE  \E up : Climb(d, m, up)
<1> DEFINE T == {k \in Nat : \E up : Climb(d, k, up)}
<1>1. 0 \in T
  <2> DEFINE up == [n \in 0..0 |-> <<>>]
  <2>1. \A n \in 0..0 : n = 0
    OBVIOUS
  <2>2. Climb(d, 0, up)
    BY <2>1 DEF Climb
  <2> QED
    BY <2>2
<1>2. ASSUME NEW k \in Nat, k \in T PROVE k + 1 \in T
  <2>1. PICK f : Climb(d, k, f)
    BY <1>2
  <2> DEFINE g == [n \in 0..(k + 1) |-> IF n = 0 THEN <<>> ELSE Climbing(d, n, f[n - 1])]
  <2>2. \A n \in 0..k : g[n] = f[n]
    <3> HIDE DEF Climbing
    <3>1. \A n \in 0..k : n \in 0..(k + 1)
      OBVIOUS
    <3> QED
      BY <2>1, <3>1 DEF Climb
  <2>3. \A n \in 0..(k + 1) : n # 0 => n - 1 \in 0..k
    OBVIOUS
  <2>4. g = [n \in 0..(k + 1) |-> IF n = 0 THEN <<>> ELSE Climbing(d, n, g[n - 1])]
    BY <2>2, <2>3
  <2>5. Climb(d, k + 1, g)
    BY <2>4 DEF Climb
  <2> QED
    BY <2>5
<1> HIDE DEF T
<1>3. m \in T
  BY <1>1, <1>2, Induction
<1> QED
  BY <1>3 DEF T

\* What outline_ancestors returns is the top of such a climb.
LEMMA AncestorsClimb ==
  ASSUME NEW d
  PROVE  \E up : Climb(d, MaxDepth, up) /\ outline_ancestors(d) = up[MaxDepth]
<1> DEFINE up == CHOOSE f : Climb(d, MaxDepth, f)
<1>1. Climb(d, MaxDepth, up)
  BY ClimbExists, TunnelsAssumption
<1>2. outline_ancestors(d) = up[MaxDepth]
  BY DEF outline_ancestors, Climb, Climbing
<1> QED
  BY <1>1, <1>2

\* One step of the climb puts at most one drawer on top, and none once the climb is over.
LEMMA OneStepUp ==
  ASSUME NEW d \in Drawers, \A e \in Drawers : ParentOf(e) \in Drawers \cup {NoDrawer},
         NEW n \in Nat \ {0}, NEW below \in Seq(Drawers), Len(below) <= n - 1
  PROVE  /\ Climbing(d, n, below) \in Seq(Drawers)
         /\ Len(Climbing(d, n, below)) <= n
         /\ below # <<>> => /\ Climbing(d, n, below) # <<>>
                            /\ Last(Climbing(d, n, below)) = Last(below)
         /\ n = 1 /\ ParentOf(d) # NoDrawer => Climbing(d, n, below) = <<ParentOf(d)>>
<1> DEFINE current == IF below = <<>> THEN d ELSE below[1]
           up == Climbing(d, n, below)
<1>1. Len(below) \in Nat
  OBVIOUS
<1>2. current \in Drawers
  OBVIOUS
<1>3. CASE up = below
  <2>1. n = 1 => Len(below) = 0
    BY <1>1
  <2>2. n = 1 => below = <<>>
    BY <2>1
  <2>3. n = 1 /\ up = below => ParentOf(d) = NoDrawer
    <3>1. n = 1 /\ ParentOf(d) # NoDrawer => up = <<ParentOf(d)>> \o <<>>
      BY <2>2, <2>1 DEF Climbing
    <3>2. n = 1 /\ ParentOf(d) # NoDrawer => up = <<ParentOf(d)>>
      BY <3>1
    <3> QED
      BY <1>3, <2>2, <3>2
  <2> QED
    BY <1>1, <1>3, <2>3
<1>4. CASE ParentOf(current) # NoDrawer /\ up = <<ParentOf(current)>> \o below
  <2>1. ParentOf(current) \in Drawers
    BY <1>2, <1>4
  <2> HIDE DEF up, current
  <2>2. <<ParentOf(current)>> \in Seq(Drawers) /\ Len(<<ParentOf(current)>>) = 1
    BY <2>1
  <2>3. up \in Seq(Drawers) /\ Len(up) = Len(below) + 1
        /\ \A i \in 1..Len(below) : up[i + 1] = below[i]
    BY <1>4, <2>2
  <2>4. below # <<>> => Last(up) = Last(below)
    <3>1. below # <<>> => Len(below) \in 1..Len(below)
      BY <1>1
    <3> QED
      BY <2>3, <3>1 DEF Last
  <2>5. n = 1 => below = <<>>
    BY <1>1
  <2>6. n = 1 => up = <<ParentOf(d)>>
    <3>1. n = 1 => up = <<ParentOf(d)>> \o <<>>
      BY <1>4, <2>5 DEF current
    <3> QED
      BY <3>1
  <2> QED
    BY <1>1, <2>3, <2>4, <2>6 DEF up
<1>5. up = below \/ (ParentOf(current) # NoDrawer /\ up = <<ParentOf(current)>> \o below)
  BY DEF Climbing
<1> QED
  BY <1>3, <1>4, <1>5

\* The climb ends whatever cycle the calls have made, and the parent stands first above.
LEMMA AncestorsEnd ==
  ASSUME NEW d \in Drawers, \A e \in Drawers : ParentOf(e) \in Drawers \cup {NoDrawer}
  PROVE  /\ Len(outline_ancestors(d)) <= MaxDepth
         /\ ParentOf(d) # NoDrawer => Last(outline_ancestors(d)) = ParentOf(d)
<1>1. PICK up : Climb(d, MaxDepth, up) /\ outline_ancestors(d) = up[MaxDepth]
  BY AncestorsClimb
<1>2. MaxDepth \in Nat /\ MaxDepth >= 1
  BY TunnelsAssumption
<1> DEFINE Above(n) == /\ up[n] \in Seq(Drawers) /\ Len(up[n]) <= n
                       /\ n # 0 /\ ParentOf(d) # NoDrawer =>
                            up[n] # <<>> /\ Last(up[n]) = ParentOf(d)
           T == {n \in Nat : n <= MaxDepth => Above(n)}
<1>3. up[0] = <<>> /\ \A n \in 1..MaxDepth : up[n] = Climbing(d, n, up[n - 1])
  BY <1>1, <1>2 DEF Climb
<1>4. 0 \in T
  <2>1. <<>> \in Seq(Drawers) /\ Len(<<>>) = 0
    OBVIOUS
  <2>2. Above(0)
    <3>1. up[0] \in Seq(Drawers) /\ Len(up[0]) <= 0
      BY <1>3, <2>1
    <3> QED
      BY <3>1, Zenon
  <2> HIDE DEF Above
  <2> QED
    BY <2>2
<1>5. ASSUME NEW n \in Nat, n \in T PROVE n + 1 \in T
  <2> SUFFICES ASSUME n + 1 <= MaxDepth PROVE Above(n + 1)
    OBVIOUS
  <2>1. Above(n)
    BY <1>2, <1>5
  <2>2. up[n + 1] = Climbing(d, n + 1, up[n])
    BY <1>2, <1>3
  <2>3. n + 1 \in Nat \ {0} /\ Len(up[n]) <= (n + 1) - 1
    BY <2>1
  <2>4. /\ up[n + 1] \in Seq(Drawers)
        /\ Len(up[n + 1]) <= n + 1
        /\ up[n] # <<>> => up[n + 1] # <<>> /\ Last(up[n + 1]) = Last(up[n])
        /\ n + 1 = 1 /\ ParentOf(d) # NoDrawer => up[n + 1] = <<ParentOf(d)>>
    <3> DEFINE m == n + 1
               below == up[n]
    <3>1. m \in Nat \ {0} /\ below \in Seq(Drawers) /\ Len(below) <= m - 1
          /\ up[m] = Climbing(d, m, below)
      BY <2>1, <2>2, <2>3
    <3> HIDE DEF m, below
    <3>2. /\ up[m] \in Seq(Drawers)
          /\ Len(up[m]) <= m
          /\ below # <<>> => up[m] # <<>> /\ Last(up[m]) = Last(below)
          /\ m = 1 /\ ParentOf(d) # NoDrawer => up[m] = <<ParentOf(d)>>
      BY <3>1, OneStepUp
    <3> QED
      BY <3>2 DEF m, below
  <2>5. CASE n = 0
    <3>1. ParentOf(d) # NoDrawer => up[n + 1] = <<ParentOf(d)>>
      BY <2>4, <2>5
    <3>2. \A x : Last(<<x>>) = x /\ <<x>> # <<>>
      BY DEF Last
    <3> QED
      BY <2>4, <2>5, <3>1, <3>2
  <2>6. CASE n # 0
    BY <2>1, <2>4, <2>6
  <2> QED
    BY <2>5, <2>6
<1> HIDE DEF T
<1>6. MaxDepth \in T
  BY <1>2, <1>4, <1>5, Induction
<1>7. Above(MaxDepth)
  BY <1>6 DEF T
<1> QED
  BY <1>1, <1>2, <1>7

\* The invariant gives what the run checks of the outline.
LEMMA TunnelsInvGives ==
  ASSUME TunnelsInv
  PROVE  OneParent
<1>1. ViewsAgree
  BY ViewsDoAgree
<1>2. \A e \in Drawers : ParentOf(e) \in outline[e] /\ ParentOf(e) \in Drawers \cup {NoDrawer}
  BY ParentsAre DEF TunnelsInv, TunnelsKept
<1>3. DOMAIN tunnels = 1..Len(tunnels) /\ DOMAIN tunnels \in SUBSET Int
  BY DEF TunnelsInv, TunnelsKept
<1>4. ASSUME NEW d \in Drawers
      PROVE  Cardinality(ParentTunnels(d)) <= 1
  <2>1. \A i, j \in ParentTunnels(d) : i = j
    BY ParentsAre DEF TunnelsInv, TunnelsKept
  <2>2. CASE ParentTunnels(d) = {}
    BY <2>2, FS_EmptySet
  <2>3. CASE ParentTunnels(d) # {}
    <3>1. PICK i : ParentTunnels(d) = {i}
      BY <2>1, <2>3
    <3>2. Cardinality({i}) = 1
      BY FS_Singleton, Zenon
    <3> QED
      BY <3>1, <3>2
  <2> QED
    BY <2>2, <2>3
<1>5. ASSUME NEW d \in Drawers, ParentOf(d) # NoDrawer
      PROVE  \E i \in DOMAIN outline_children(ParentOf(d)) :
               tunnels[outline_children(ParentOf(d))[i]].source = d
  <2>1. \A i, j \in Parents(tunnels, d) : i = j
    BY DEF TunnelsInv, TunnelsKept
  <2>2. Parents(tunnels, d) # {}
    BY <1>5, ParentsAre DEF ParentIn
  <2>3. PICK id : Parents(tunnels, d) = {id}
    BY <2>1, <2>2
  <2>4. id \in DOMAIN tunnels /\ id \in Int /\ tunnels[id].kind = "Parent"
        /\ tunnels[id].source = d /\ ~tunnels[id].dead
    BY <1>3, <2>3 DEF Parents
  <2>5. ParentOf(d) = tunnels[id].target
    BY <2>3, <2>4, OneTarget, ParentsAre
  <2> QED
    BY <2>4, <2>5, ChildIsListed
<1> QED
  BY <1>1, <1>2, <1>4, <1>5, AncestorsEnd, TunnelsAssumption DEF OneParent

\* A drawer has one parent, the one that the calls gave it: the check of add_tunnel and the
\* insert after it hold because the host serialises the verbs.
THEOREM OutlineIsATree ==
  ASSUME Coordinated
  PROVE  Spec => []OneParent
<1>1. Init => TunnelsInv
  BY TunnelsInvariant
<1>2. TunnelsInv /\ [Next]_vars => TunnelsInv'
  BY TunnelsInvariant
<1>3. TunnelsInv => OneParent
  BY TunnelsInvGives
<1> QED
  BY <1>1, <1>2, <1>3, PTL DEF Spec

(***************************************************************************)
(* Relations                                                               *)
(***************************************************************************)

ReferenceRow ==
  [source : {s.id : s \in Sources}, anchor : {s.anchor : s \in Sources}, handle : Handles]
KeyRow == [a : Subjects, b : Subjects, from : Places, to : Places]
ProposalRow == [target : Subjects, state : {"Pending"}, candidate_state : States]
FactRow == [drawer : Subjects, state : {0, 18}]
EntryRow == [agent : Agents, wing : Wings]

LearnedAs(cat, refs, l) ==
  \E r \in DOMAIN refs :
    refs[r].handle = l.handle /\ cat[refs[r].source].handle = l.from

\* An entry stands under its own id, no two have a handle; a reference has its
\* entry's anchor, and what was learned is a reference under the entry of its source.
CatalogKept(cat, refs, learned) ==
  /\ cat \in [DOMAIN cat -> Sources]
  /\ \A id \in DOMAIN cat : cat[id].id = id
  /\ \A a, b \in DOMAIN cat : cat[a].handle = cat[b].handle => a = b
  /\ refs \in Seq(ReferenceRow)
  /\ \A r \in DOMAIN refs : /\ refs[r].source \in DOMAIN cat
                            /\ refs[r].anchor = cat[refs[r].source].anchor
  /\ \A l \in learned : LearnedAs(cat, refs, l)
AssociationsKept(assoc, reported) ==
  /\ assoc \in Seq(KeyRow)
  /\ \A i, j \in DOMAIN assoc : assoc[i] = assoc[j] => i = j
  /\ \A key \in reported : \E i \in DOMAIN assoc : assoc[i] = key
FactsKept(table, gone) ==
  /\ table \in Seq(FactRow)
  /\ \A id \in gone : id \in DOMAIN table /\ table[id].state = 18
IsDone(d) == d = [learned |-> d.learned, associated |-> d.associated, withdrawn |-> d.withdrawn]
RelationsKept ==
  /\ CatalogKept(catalog, references, done.learned)
  /\ AssociationsKept(associations, done.associated)
  /\ FactsKept(facts, done.withdrawn)
  /\ proposals \in Seq(ProposalRow)
  /\ diary \in Seq(EntryRow)
  /\ subjects \in [Subjects -> [place : Places, state : States]]
  /\ IsDone(done)

\* What a call under way relies on: the handle it did not find is still not catalogued, the
\* entry it found is the one in the table, the fact it read is still there.
Learning(call, cat) ==
  /\ call.op = "learn" /\ call.at \in {"lookup", "catalog", "reference"}
  /\ {"at", "entry"} \subseteq DOMAIN call
  /\ call.source \in Sources /\ call.handle \in Handles
  /\ call.at = "catalog" => \A id \in DOMAIN cat : cat[id].handle # call.source.handle
  /\ call.at = "reference" =>
       /\ call.entry \in Sources /\ call.entry.handle = call.source.handle
       /\ call.entry.id \in DOMAIN cat /\ cat[call.entry.id] = call.entry
Associating(call) ==
  /\ call.op = "associate" /\ call.at \in {"resolve", "insert"}
  /\ {"at", "key"} \subseteq DOMAIN call
  /\ call.a \in Subjects /\ call.b \in Subjects
  /\ call.at = "insert" => call.key \in KeyRow
Proposing(call) ==
  /\ call.op = "propose" /\ call.at \in {"read", "insert"}
  /\ {"at", "candidate"} \subseteq DOMAIN call
  /\ call.target \in Subjects
  /\ call.at = "insert" => call.candidate \in States
Withdrawing(call, table) ==
  /\ call.op = "withdraw_fact" /\ call.at \in {"read", "update"}
  /\ "at" \in DOMAIN call
  /\ call.at = "update" => call.id \in DOMAIN table

RelationCall(call, cat, table) ==
  \/ call = Idle
  \/ Learning(call, cat)
  \/ Associating(call)
  \/ Proposing(call)
  \/ Withdrawing(call, table)
  \/ call.op = "fact" /\ call.at = "insert" /\ call.drawer \in Subjects
  \/ call.op = "diary" /\ call.at = "insert" /\ call.agent \in Agents /\ call.wing \in Wings

RelationsInv ==
  /\ RelationsKept
  /\ scene = "relations" =>
       OneCall /\ \A c \in Callers : RelationCall(calls[c], catalog, facts)

\* A step that leaves the tables sound and enters a call that fits.
LEMMA RelationsGoOn ==
  ASSUME RelationsKept', NEW c \in Callers, NEW next, OnlyCall(c, next), OneCall',
         RelationCall(next, catalog', facts')
  PROVE  RelationsInv'
<1>1. \A d \in Callers : RelationCall(calls'[d], catalog', facts')
  BY DEF OnlyCall, RelationCall
<1> QED
  BY <1>1 DEF RelationsInv

\* A step that writes no table.
LEMMA RelationCallGoesOn ==
  ASSUME RelationsInv, UNCHANGED relationVars,
         NEW c \in Callers, NEW next, OnlyCall(c, next), OneCall', RelationCall(next, catalog, facts)
  PROVE  RelationsInv'
<1>1. /\ catalog' = catalog /\ references' = references /\ associations' = associations
      /\ proposals' = proposals /\ facts' = facts /\ diary' = diary
      /\ subjects' = subjects /\ done' = done
  BY DEF relationVars
<1>2. RelationsKept'
  BY <1>1 DEF RelationsInv, RelationsKept
<1> QED
  BY <1>1, <1>2, RelationsGoOn

\* A verb that ends, or whose next statement is refused.
LEMMA RelationCallEnds ==
  ASSUME RelationsKept', OneCall, NEW c \in Callers, calls[c] # Idle, End(c)
  PROVE  RelationsInv'
<1>1. OnlyCall(c, Idle) /\ OneCall'
  BY GoesOnAlone DEF End
<1> QED
  BY <1>1, RelationsGoOn DEF RelationCall

\* The calls that only begin, and the change of a drawer elsewhere.
LEMMA RelationsBegin ==
  ASSUME RelationsInv, OneCall, Coordinated, NEW c \in Callers,
         \/ \E s \in Sources, h \in Handles : learn(c, s, h)
         \/ \E a, b \in Subjects : associate(c, a, b)
         \/ \E d \in Subjects : propose(c, d) \/ add_kg_fact(c, d)
         \/ \E id \in 1..(Len(facts) + 1) : withdraw_kg_fact(c, id)
         \/ \E agent \in Agents, w \in Wings : add_diary_entry(c, agent, w)
  PROVE  RelationsInv'
<1>1. ASSUME NEW s \in Sources, NEW h \in Handles, learn(c, s, h) PROVE RelationsInv'
  <2> DEFINE next == [op |-> "learn", at |-> "lookup", source |-> s, handle |-> h, entry |-> s]
  <2>1. OnlyCall(c, next) /\ OneCall' /\ UNCHANGED relationVars
    BY <1>1, BeginsAlone DEF learn
  <2>2. RelationCall(next, catalog, facts)
    BY DEF RelationCall, Learning
  <2> QED
    BY <2>1, <2>2, RelationCallGoesOn
<1>2. ASSUME NEW a \in Subjects, NEW b \in Subjects, associate(c, a, b) PROVE RelationsInv'
  <2> DEFINE next == [op |-> "associate", at |-> "resolve", a |-> a, b |-> b, key |-> <<>>]
  <2>1. OnlyCall(c, next) /\ OneCall' /\ UNCHANGED relationVars
    BY <1>2, BeginsAlone DEF associate
  <2>2. RelationCall(next, catalog, facts)
    BY DEF RelationCall, Associating
  <2> QED
    BY <2>1, <2>2, RelationCallGoesOn
<1>3. ASSUME NEW d \in Subjects, propose(c, d) PROVE RelationsInv'
  <2> DEFINE next == [op |-> "propose", at |-> "read", target |-> d, candidate |-> 0]
  <2>1. OnlyCall(c, next) /\ OneCall' /\ UNCHANGED relationVars
    BY <1>3, BeginsAlone DEF propose
  <2>2. RelationCall(next, catalog, facts)
    BY DEF RelationCall, Proposing
  <2> QED
    BY <2>1, <2>2, RelationCallGoesOn
<1>4. ASSUME NEW d \in Subjects, add_kg_fact(c, d) PROVE RelationsInv'
  <2> DEFINE next == [op |-> "fact", at |-> "insert", drawer |-> d]
  <2>1. OnlyCall(c, next) /\ OneCall' /\ UNCHANGED relationVars
    BY <1>4, BeginsAlone DEF add_kg_fact
  <2>2. RelationCall(next, catalog, facts)
    BY DEF RelationCall
  <2> QED
    BY <2>1, <2>2, RelationCallGoesOn
<1>5. ASSUME NEW id \in 1..(Len(facts) + 1), withdraw_kg_fact(c, id) PROVE RelationsInv'
  <2> DEFINE next == [op |-> "withdraw_fact", at |-> "read", id |-> id]
  <2>1. OnlyCall(c, next) /\ OneCall' /\ UNCHANGED relationVars
    BY <1>5, BeginsAlone DEF withdraw_kg_fact
  <2>2. RelationCall(next, catalog, facts)
    BY DEF RelationCall, Withdrawing
  <2> QED
    BY <2>1, <2>2, RelationCallGoesOn
<1>6. ASSUME NEW agent \in Agents, NEW w \in Wings, add_diary_entry(c, agent, w)
      PROVE  RelationsInv'
  <2> DEFINE next == [op |-> "diary", at |-> "insert", agent |-> agent, wing |-> w]
  <2>1. OnlyCall(c, next) /\ OneCall' /\ UNCHANGED relationVars
    BY <1>6, BeginsAlone DEF add_diary_entry
  <2>2. RelationCall(next, catalog, facts)
    BY DEF RelationCall
  <2> QED
    BY <2>1, <2>2, RelationCallGoesOn
<1> QED
  BY <1>1, <1>2, <1>3, <1>4, <1>5, <1>6

\* A reference is learned: its source's handle is catalogued once, and what the reference says
\* of it is what the catalogue says.
LEMMA LearningKeeps ==
  ASSUME RelationsInv, OneCall, scene = "relations", NEW c \in Callers,
         LookUpSource(c) \/ add_source_catalog_entry(c) \/ add_learned_reference(c)
  PROVE  RelationsInv'
<1> DEFINE call == calls[c]
           s == call.source
<1>1. call.op = "learn" /\ call # Idle
  BY NotIdle DEF LookUpSource, add_source_catalog_entry, add_learned_reference, At
<1>2. Learning(call, catalog)
  BY <1>1 DEF RelationsInv, RelationCall, Associating, Proposing, Withdrawing
<1>3. /\ catalog \in [DOMAIN catalog -> Sources]
      /\ \A id \in DOMAIN catalog : catalog[id].id = id
      /\ \A a, b \in DOMAIN catalog : catalog[a].handle = catalog[b].handle => a = b
      /\ references \in Seq(ReferenceRow)
      /\ \A r \in DOMAIN references : /\ references[r].source \in DOMAIN catalog
                                      /\ references[r].anchor = catalog[references[r].source].anchor
      /\ \A l \in done.learned : LearnedAs(catalog, references, l)
      /\ IsDone(done)
  BY DEF RelationsInv, RelationsKept, CatalogKept
<1>4. ASSUME NEW entry \in Sources, LearnFrom(c, entry), entry.handle = s.handle
      PROVE  \E next : /\ OnlyCall(c, next) /\ OneCall'
                       /\ \A cat, table : entry.id \in DOMAIN cat /\ cat[entry.id] = entry =>
                            RelationCall(next, cat, table)
  <2> DEFINE next == [call EXCEPT !.at = "reference", !.entry = entry]
  <2>1. OnlyCall(c, next) /\ OneCall'
    BY <1>1, <1>4, GoesOnAlone DEF LearnFrom
  <2>2. /\ next.op = "learn" /\ next.at = "reference" /\ next.entry = entry
        /\ next.source = s /\ next.handle = call.handle
        /\ {"at", "entry"} \subseteq DOMAIN next
    BY <1>1, <1>2 DEF Learning
  <2>3. s \in Sources /\ call.handle \in Handles
    BY <1>2 DEF Learning
  <2> HIDE DEF next, call, s
  <2>4. \A cat, table : entry.id \in DOMAIN cat /\ cat[entry.id] = entry =>
          RelationCall(next, cat, table)
    BY <1>4, <2>2, <2>3 DEF RelationCall, Learning
  <2> QED
    BY <2>1, <2>4
<1>5. CASE LookUpSource(c)
  <2>1. call.at = "lookup" /\ UNCHANGED relationVars
    BY <1>5 DEF LookUpSource, At
  <2>2. CASE source_catalog_entry_for_handle(s) = {}
    <3> DEFINE next == [call EXCEPT !.at = "catalog"]
    <3>1. OnlyCall(c, next) /\ OneCall'
      BY <1>1, <1>5, <2>2, GoesOnAlone DEF LookUpSource, GoTo
    <3>2. /\ next.op = "learn" /\ next.at = "catalog" /\ {"at", "entry"} \subseteq DOMAIN next
          /\ next.source = s /\ next.handle = call.handle
      BY <1>1, <1>2 DEF Learning
    <3>3. \A id \in DOMAIN catalog : catalog[id].handle # s.handle
      BY <2>2 DEF source_catalog_entry_for_handle
    <3>4. RelationCall(next, catalog, facts)
      BY <1>2, <3>2, <3>3 DEF RelationCall, Learning
    <3> QED
      BY <2>1, <3>1, <3>4, RelationCallGoesOn
  <2>3. CASE source_catalog_entry_for_handle(s) # {}
    <3>1. PICK id \in DOMAIN catalog : LearnFrom(c, catalog[id]) /\ catalog[id].handle = s.handle
      BY <1>5, <2>3 DEF LookUpSource, source_catalog_entry_for_handle
    <3>2. catalog[id] \in Sources /\ catalog[id].id = id
      BY <1>3
    <3>3. PICK next : /\ OnlyCall(c, next) /\ OneCall'
                      /\ \A cat, table : catalog[id].id \in DOMAIN cat /\ cat[catalog[id].id] = catalog[id] =>
                           RelationCall(next, cat, table)
      BY <1>4, <3>1, <3>2
    <3>4. RelationCall(next, catalog, facts)
      BY <3>2, <3>3
    <3> QED
      BY <2>1, <3>3, <3>4, RelationCallGoesOn
  <2> QED
    BY <2>2, <2>3
<1>6. CASE add_source_catalog_entry(c)
  <2>1. /\ call.at = "catalog" /\ references' = references /\ associations' = associations
        /\ proposals' = proposals /\ facts' = facts /\ diary' = diary /\ subjects' = subjects
        /\ done' = done
    BY <1>6 DEF add_source_catalog_entry, At
  <2>2. s \in Sources /\ \A id \in DOMAIN catalog : catalog[id].handle # s.handle
    BY <1>2, <2>1 DEF Learning
  <2>3. CASE s.id \in DOMAIN catalog
    <3>1. End(c) /\ catalog' = catalog
      BY <1>6, <2>3 DEF add_source_catalog_entry
    <3>2. RelationsKept'
      BY <2>1, <3>1 DEF RelationsInv, RelationsKept
    <3> QED
      BY <1>1, <3>1, <3>2, RelationCallEnds
  <2>4. CASE s.id \notin DOMAIN catalog
    <3>1. LearnFrom(c, s) /\ catalog' = WithRow(catalog, s.id, s)
      BY <1>6, <2>4 DEF add_source_catalog_entry
    <3> HIDE DEF s
    <3>2. /\ DOMAIN catalog' = DOMAIN catalog \cup {s.id}
          /\ catalog'[s.id] = s
          /\ \A id \in DOMAIN catalog : catalog'[id] = catalog[id]
          /\ catalog' = [id \in DOMAIN catalog' |-> catalog'[id]]
      BY <2>4, <3>1 DEF WithRow
    <3>3. catalog' \in [DOMAIN catalog' -> Sources]
      BY <1>3, <2>2, <3>2
    <3>4. \A id \in DOMAIN catalog' : catalog'[id].id = id
      BY <1>3, <3>2
    <3>5. \A a, b \in DOMAIN catalog' : catalog'[a].handle = catalog'[b].handle => a = b
      BY <1>3, <2>2, <3>2
    <3>6. \A r \in DOMAIN references :
             /\ references[r].source \in DOMAIN catalog'
             /\ references[r].anchor = catalog'[references[r].source].anchor
             /\ catalog'[references[r].source] = catalog[references[r].source]
      BY <1>3, <3>2
    <3>10. \A l \in done.learned : LearnedAs(catalog', references, l)
      BY <1>3, <3>6 DEF LearnedAs
    <3>7. CatalogKept(catalog', references', done'.learned)
      BY <1>3, <2>1, <3>3, <3>4, <3>5, <3>6, <3>10 DEF CatalogKept
    <3>8. RelationsKept'
      BY <2>1, <3>7 DEF RelationsInv, RelationsKept
    <3>9. PICK next : /\ OnlyCall(c, next) /\ OneCall'
                      /\ \A cat, table : s.id \in DOMAIN cat /\ cat[s.id] = s =>
                           RelationCall(next, cat, table)
      BY <1>4, <2>2, <3>1
    <3>11. RelationCall(next, catalog', facts')
      BY <3>2, <3>9
    <3> QED
      BY <3>8, <3>9, <3>11, RelationsGoOn
  <2> QED
    BY <2>3, <2>4
<1>7. CASE add_learned_reference(c)
  <2> DEFINE entry == call.entry
             row == [source |-> entry.id, anchor |-> entry.anchor, handle |-> call.handle]
             new == [from |-> s.handle, handle |-> call.handle]
  <2>1. /\ call.at = "reference" /\ references' = Append(references, row) /\ catalog' = catalog
        /\ associations' = associations /\ proposals' = proposals /\ facts' = facts
        /\ diary' = diary /\ subjects' = subjects /\ End(c)
        /\ done' = [done EXCEPT !.learned = @ \cup {new}]
    BY <1>7 DEF add_learned_reference, At
  <2>2. /\ entry \in Sources /\ entry.handle = s.handle /\ call.handle \in Handles
        /\ entry.id \in DOMAIN catalog /\ catalog[entry.id] = entry
    BY <1>2, <2>1 DEF Learning
  <2>3. row \in ReferenceRow
    BY <2>2 DEF ReferenceRow
  <2>4. /\ row.source \in DOMAIN catalog /\ row.anchor = catalog[row.source].anchor
        /\ row.handle = new.handle /\ catalog[row.source].handle = new.from
    BY <2>2
  <2> HIDE DEF row, new, entry, s, call
  <2>5. /\ references' \in Seq(ReferenceRow)
        /\ \A r \in DOMAIN references' :
             references'[r] = row \/ (r \in DOMAIN references /\ references'[r] = references[r])
        /\ \A r \in DOMAIN references : r \in DOMAIN references' /\ references'[r] = references[r]
        /\ \E r \in DOMAIN references' : references'[r] = row
    <3>1. /\ Len(references) \in Nat /\ DOMAIN references = 1..Len(references)
          /\ DOMAIN references' = 1..(Len(references) + 1)
          /\ references'[Len(references) + 1] = row
          /\ references' \in Seq(ReferenceRow)
          /\ \A r \in 1..Len(references) : references'[r] = references[r]
      BY <1>3, <2>1, <2>3
    <3>2. Len(references) + 1 \in DOMAIN references'
      BY <3>1
    <3>3. \A r \in DOMAIN references' : r \in DOMAIN references \/ r = Len(references) + 1
      BY <3>1
    <3>4. \A r \in DOMAIN references : r \in DOMAIN references' /\ references'[r] = references[r]
      BY <3>1
    <3> QED
      BY <3>1, <3>2, <3>3, <3>4
  <2>6. /\ done'.learned = done.learned \cup {new} /\ done'.associated = done.associated
        /\ done'.withdrawn = done.withdrawn /\ IsDone(done')
    BY <1>3, <2>1 DEF IsDone
  <2>7. \A l \in done'.learned : LearnedAs(catalog', references', l)
    BY <1>3, <2>1, <2>4, <2>5, <2>6 DEF LearnedAs
  <2>8. CatalogKept(catalog', references', done'.learned)
    BY <1>3, <2>1, <2>4, <2>5, <2>7 DEF CatalogKept
  <2>9. RelationsKept'
    BY <2>1, <2>6, <2>8 DEF RelationsInv, RelationsKept
  <2> QED
    BY <1>1, <2>1, <2>9, RelationCallEnds DEF call
<1> QED
  BY <1>5, <1>6, <1>7

\* An association is reported when its row is in the table, once.
LEMMA AssociatingKeeps ==
  ASSUME RelationsInv, OneCall, scene = "relations", NEW c \in Callers,
         ResolveNames(c) \/ add_association(c)
  PROVE  RelationsInv'
<1> DEFINE call == calls[c]
           key == call.key
<1>1. call.op = "associate" /\ call # Idle
  BY NotIdle DEF ResolveNames, add_association, At
<1>2. Associating(call)
  BY <1>1 DEF RelationsInv, RelationCall, Learning, Proposing, Withdrawing
<1>3. CASE ResolveNames(c)
  <2>1. UNCHANGED relationVars
    BY <1>3 DEF ResolveNames
  <2>2. CASE End(c)
    <3>1. OnlyCall(c, Idle) /\ OneCall'
      BY <1>1, <2>2, GoesOnAlone DEF End
    <3> QED
      BY <2>1, <3>1, RelationCallGoesOn DEF RelationCall
  <2>3. CASE ~End(c)
    <3> DEFINE name == NaturalKey(call.a, call.b, subjects[call.a].place, subjects[call.b].place)
               next == [call EXCEPT !.at = "insert", !.key = name]
    <3>1. OnlyCall(c, next) /\ OneCall'
      BY <1>1, <1>3, <2>3, GoesOnAlone DEF ResolveNames
    <3>2. call.a \in Subjects /\ call.b \in Subjects
      BY <1>2 DEF Associating
    <3>3. \A d \in Subjects : subjects[d].place \in Places
      BY DEF RelationsInv, RelationsKept
    <3>4. name \in KeyRow
      BY <3>2, <3>3 DEF NaturalKey, KeyRow
    <3> HIDE DEF name
    <3>5. next.op = "associate" /\ next.at = "insert" /\ {"at", "key"} \subseteq DOMAIN next
          /\ next.a = call.a /\ next.b = call.b /\ next.key = name
      BY <1>1, <1>2 DEF Associating
    <3> HIDE DEF next, call
    <3>6. RelationCall(next, catalog, facts)
      BY <3>2, <3>4, <3>5 DEF RelationCall, Associating
    <3> QED
      BY <2>1, <3>1, <3>6, RelationCallGoesOn
  <2> QED
    BY <2>2, <2>3
<1>4. CASE add_association(c)
  <2>1. /\ call.at = "insert" /\ catalog' = catalog /\ references' = references
        /\ proposals' = proposals /\ facts' = facts /\ diary' = diary /\ subjects' = subjects
        /\ End(c)
        /\ associations' = IF is_duplicate(key) THEN associations ELSE Append(associations, key)
        /\ done' = [done EXCEPT !.associated = @ \cup {key}]
    BY <1>4 DEF add_association, At
  <2>2. key \in KeyRow
    BY <1>2, <2>1 DEF Associating
  <2> HIDE DEF key
  <2>3. /\ associations \in Seq(KeyRow)
        /\ \A i, j \in DOMAIN associations : associations[i] = associations[j] => i = j
        /\ \A k \in done.associated : \E i \in DOMAIN associations : associations[i] = k
        /\ IsDone(done)
    BY DEF RelationsInv, RelationsKept, AssociationsKept
  <2>4. /\ done'.associated = done.associated \cup {key} /\ done'.withdrawn = done.withdrawn
        /\ done'.learned = done.learned /\ IsDone(done')
    BY <2>1, <2>3 DEF IsDone
  <2>5. /\ associations' \in Seq(KeyRow)
        /\ \A i, j \in DOMAIN associations' : associations'[i] = associations'[j] => i = j
        /\ \A k \in done'.associated : \E i \in DOMAIN associations' : associations'[i] = k
    <3>1. CASE is_duplicate(key)
      BY <2>1, <2>3, <2>4, <3>1 DEF is_duplicate
    <3>2. CASE ~is_duplicate(key)
      <4>1. Len(associations) \in Nat /\ DOMAIN associations = 1..Len(associations)
        BY <2>3
      <4>2. /\ associations' = Append(associations, key)
            /\ associations' \in Seq(KeyRow)
            /\ DOMAIN associations' = 1..(Len(associations) + 1)
            /\ associations'[Len(associations) + 1] = key
            /\ \A i \in DOMAIN associations : associations'[i] = associations[i]
        BY <2>1, <2>2, <2>3, <3>2
      <4>3. \A i \in DOMAIN associations : associations[i] # key
        BY <3>2 DEF is_duplicate
      <4>4. ASSUME NEW i \in DOMAIN associations', NEW j \in DOMAIN associations',
                   associations'[i] = associations'[j]
            PROVE  i = j
        <5>1. \A k \in DOMAIN associations' : k \in DOMAIN associations \/ k = Len(associations) + 1
          BY <4>1, <4>2
        <5> QED
          BY <2>3, <4>2, <4>3, <4>4, <5>1
      <4>5. \A k \in done'.associated : \E i \in DOMAIN associations' : associations'[i] = k
        <5>1. DOMAIN associations \subseteq DOMAIN associations' /\ Len(associations) + 1 \in DOMAIN associations'
          BY <4>1, <4>2
        <5> QED
          BY <2>3, <2>4, <4>2, <5>1
      <4> QED
        BY <4>2, <4>4, <4>5
    <3> QED
      BY <3>1, <3>2
  <2>6. AssociationsKept(associations', done'.associated)
    BY <2>5 DEF AssociationsKept
  <2>7. RelationsKept'
    BY <2>1, <2>4, <2>6 DEF RelationsInv, RelationsKept
  <2> QED
    BY <1>1, <2>1, <2>7, RelationCallEnds
<1> QED
  BY <1>3, <1>4

\* Facts: what was withdrawn stays in the table as withdrawn.
LEMMA FactsKeep ==
  ASSUME RelationsInv, OneCall, scene = "relations", NEW c \in Callers,
         InsertFact(c) \/ get_kg_fact(c) \/ UpdateFact(c)
  PROVE  RelationsInv'
<1> DEFINE call == calls[c]
<1>1. call # Idle
  BY NotIdle DEF InsertFact, get_kg_fact, UpdateFact, At
<1>2. /\ facts \in Seq(FactRow)
      /\ \A id \in done.withdrawn : id \in DOMAIN facts /\ facts[id].state = 18
      /\ IsDone(done)
  BY DEF RelationsInv, RelationsKept, FactsKept
<1>3. CASE InsertFact(c)
  <2> DEFINE row == [drawer |-> call.drawer, state |-> 0]
  <2>1. /\ call.op = "fact" /\ facts' = Append(facts, row) /\ catalog' = catalog
        /\ references' = references /\ associations' = associations /\ proposals' = proposals
        /\ diary' = diary /\ subjects' = subjects /\ done' = done /\ End(c)
    BY <1>3 DEF InsertFact, At
  <2>2. call.drawer \in Subjects
    BY <1>1, <2>1
       DEF RelationsInv, RelationCall, Learning, Associating, Proposing, Withdrawing
  <2>3. row \in FactRow
    BY <2>2 DEF FactRow
  <2> HIDE DEF row
  <2>4. facts' \in Seq(FactRow) /\ DOMAIN facts \subseteq DOMAIN facts'
        /\ \A id \in DOMAIN facts : facts'[id] = facts[id]
    BY <1>2, <2>1, <2>3
  <2>5. FactsKept(facts', done'.withdrawn)
    BY <1>2, <2>1, <2>4 DEF FactsKept
  <2>6. RelationsKept'
    BY <2>1, <2>5 DEF RelationsInv, RelationsKept
  <2> QED
    BY <1>1, <2>1, <2>6, RelationCallEnds
<1>4. CASE get_kg_fact(c)
  <2>1. call.op = "withdraw_fact" /\ UNCHANGED relationVars
    BY <1>4 DEF get_kg_fact, At
  <2>2. Withdrawing(call, facts)
    BY <1>1, <2>1 DEF RelationsInv, RelationCall, Learning, Associating, Proposing
  <2>3. CASE call.id \in DOMAIN facts
    <3> DEFINE next == [call EXCEPT !.at = "update"]
    <3>1. OnlyCall(c, next) /\ OneCall'
      BY <1>1, <1>4, <2>3, GoesOnAlone DEF get_kg_fact, GoTo
    <3>2. next.op = "withdraw_fact" /\ next.at = "update" /\ "at" \in DOMAIN next
          /\ next.id = call.id
      BY <2>1, <2>2 DEF Withdrawing
    <3> HIDE DEF next, call
    <3>3. RelationCall(next, catalog, facts)
      BY <2>3, <3>2 DEF RelationCall, Withdrawing
    <3> QED
      BY <2>1, <3>1, <3>3, RelationCallGoesOn
  <2>4. CASE call.id \notin DOMAIN facts
    <3>1. OnlyCall(c, Idle) /\ OneCall'
      BY <1>1, <1>4, <2>4, GoesOnAlone DEF get_kg_fact, End
    <3> QED
      BY <2>1, <3>1, RelationCallGoesOn DEF RelationCall
  <2> QED
    BY <2>3, <2>4
<1>5. CASE UpdateFact(c)
  <2> DEFINE id == call.id
  <2>1. /\ call.op = "withdraw_fact" /\ call.at = "update" /\ End(c)
        /\ facts' = [facts EXCEPT ![id].state = 18] /\ catalog' = catalog
        /\ references' = references /\ associations' = associations /\ proposals' = proposals
        /\ diary' = diary /\ subjects' = subjects
        /\ done' = [done EXCEPT !.withdrawn = @ \cup {id}]
    BY <1>5 DEF UpdateFact, At
  <2>2. id \in DOMAIN facts
    BY <1>1, <2>1 DEF RelationsInv, RelationCall, Learning, Associating, Proposing, Withdrawing
  <2> HIDE DEF id
  <2>3. /\ done'.withdrawn = done.withdrawn \cup {id} /\ done'.associated = done.associated
        /\ done'.learned = done.learned /\ IsDone(done')
    BY <1>2, <2>1 DEF IsDone
  <2>4. /\ DOMAIN facts' = DOMAIN facts
        /\ facts'[id].state = 18
        /\ \A i \in DOMAIN facts : i # id => facts'[i] = facts[i]
    <3>1. "state" \in DOMAIN facts[id]
      <4>1. facts[id] \in FactRow
        BY <1>2, <2>2
      <4> QED
        BY <4>1 DEF FactRow
    <3> QED
      BY <2>1, <2>2, <3>1
  <2>5. facts' \in Seq(FactRow)
    <3>1. facts[id] \in FactRow
      BY <1>2, <2>2
    <3>2. [facts[id] EXCEPT !.state = 18] \in FactRow
      BY <3>1 DEF FactRow
    <3>3. facts' = [facts EXCEPT ![id] = [facts[id] EXCEPT !.state = 18]]
      BY <2>1
    <3> QED
      BY <1>2, <2>2, <3>2, <3>3
  <2>6. FactsKept(facts', done'.withdrawn)
    BY <1>2, <2>2, <2>3, <2>4, <2>5 DEF FactsKept
  <2>7. RelationsKept'
    BY <2>1, <2>3, <2>6 DEF RelationsInv, RelationsKept
  <2> QED
    BY <1>1, <2>1, <2>7, RelationCallEnds
<1> QED
  BY <1>3, <1>4, <1>5

\* A proposal takes the state that its target has.
LEMMA ProposingKeeps ==
  ASSUME RelationsInv, OneCall, scene = "relations", NEW c \in Callers,
         ReadTarget(c) \/ add_proposal(c)
  PROVE  RelationsInv'
<1> DEFINE call == calls[c]
<1>1. call.op = "propose" /\ call # Idle
  BY NotIdle DEF ReadTarget, add_proposal, At
<1>2. Proposing(call)
  BY <1>1 DEF RelationsInv, RelationCall, Learning, Associating, Withdrawing
<1>3. CASE ReadTarget(c)
  <2> DEFINE state == subjects[call.target].state
             next == [call EXCEPT !.at = "insert", !.candidate = state]
  <2>1. call.target \in Subjects /\ UNCHANGED relationVars
    BY <1>2, <1>3 DEF ReadTarget, Proposing
  <2>2. OnlyCall(c, next) /\ OneCall'
    BY <1>1, <1>3, <2>1, GoesOnAlone DEF ReadTarget
  <2>3. state \in States
    BY <2>1 DEF RelationsInv, RelationsKept
  <2> HIDE DEF state
  <2>4. next.op = "propose" /\ next.at = "insert" /\ {"at", "candidate"} \subseteq DOMAIN next
        /\ next.target = call.target /\ next.candidate = state
    BY <1>1, <1>2 DEF Proposing
  <2> HIDE DEF next, call
  <2>5. RelationCall(next, catalog, facts)
    BY <2>1, <2>3, <2>4 DEF RelationCall, Proposing
  <2> QED
    BY <2>1, <2>2, <2>5, RelationCallGoesOn
<1>4. CASE add_proposal(c)
  <2> DEFINE row == [target |-> call.target, state |-> "Pending", candidate_state |-> call.candidate]
  <2>1. /\ call.at = "insert" /\ proposals' = Append(proposals, row) /\ catalog' = catalog
        /\ references' = references /\ associations' = associations /\ facts' = facts
        /\ diary' = diary /\ subjects' = subjects /\ done' = done /\ End(c)
    BY <1>4 DEF add_proposal, At
  <2>2. row \in ProposalRow
    BY <1>2, <2>1 DEF ProposalRow, Proposing
  <2> HIDE DEF row
  <2>3. proposals' \in Seq(ProposalRow)
    BY <2>1, <2>2 DEF RelationsInv, RelationsKept
  <2>4. RelationsKept'
    BY <2>1, <2>3 DEF RelationsInv, RelationsKept
  <2> QED
    BY <1>1, <2>1, <2>4, RelationCallEnds
<1> QED
  BY <1>3, <1>4

\* A diary entry is appended.
LEMMA DiaryKeeps ==
  ASSUME RelationsInv, OneCall, scene = "relations", NEW c \in Callers, InsertEntry(c)
  PROVE  RelationsInv'
<1> DEFINE call == calls[c]
           row == [agent |-> call.agent, wing |-> call.wing]
<1>1. call.op = "diary" /\ call # Idle
  BY NotIdle DEF InsertEntry, At
<1>2. row \in EntryRow
  <2>1. call.agent \in Agents /\ call.wing \in Wings
    BY <1>1 DEF RelationsInv, RelationCall, Learning, Associating, Proposing, Withdrawing
  <2> QED
    BY <2>1 DEF EntryRow
<1>3. /\ diary' = Append(diary, row) /\ catalog' = catalog /\ references' = references
      /\ associations' = associations /\ proposals' = proposals /\ facts' = facts
      /\ subjects' = subjects /\ done' = done /\ End(c)
  BY DEF InsertEntry
<1> HIDE DEF row
<1>4. diary' \in Seq(EntryRow)
  BY <1>2, <1>3 DEF RelationsInv, RelationsKept
<1>5. RelationsKept'
  BY <1>3, <1>4 DEF RelationsInv, RelationsKept
<1> QED
  BY <1>1, <1>3, <1>5, RelationCallEnds

\* A drawer is moved or changes its state elsewhere: no table follows it.
LEMMA SubjectsKeep ==
  ASSUME RelationsInv, OneCall, Coordinated, scene = "relations", NEW c \in Callers,
         ChangeSubject(c)
  PROVE  RelationsInv'
<1>1. /\ Begin(c, Idle) /\ catalog' = catalog /\ references' = references
      /\ associations' = associations /\ proposals' = proposals /\ facts' = facts
      /\ diary' = diary /\ done' = done
  BY DEF ChangeSubject
<1>2. OnlyCall(c, Idle) /\ OneCall'
  BY <1>1, BeginsAlone
<1>3. subjects' \in [Subjects -> [place : Places, state : States]]
  BY DEF ChangeSubject, RelationsInv, RelationsKept
<1>4. RelationsKept'
  BY <1>1, <1>3 DEF RelationsInv, RelationsKept
<1> QED
  BY <1>2, <1>4, RelationsGoOn DEF RelationCall

\* The invariant of the relations, in every scene.
LEMMA RelationsInvariant ==
  ASSUME Coordinated
  PROVE  (Init => RelationsInv) /\ (RelationsInv /\ [Next]_vars => RelationsInv')
<1>1. ASSUME Init
      PROVE  RelationsInv
  <2>1. OneCall /\ \A c \in Callers : RelationCall(calls[c], catalog, facts)
    BY <1>1 DEF Init, CallsInit, OneCall, RelationCall
  <2>2. /\ catalog = <<>> /\ references = <<>> /\ associations = <<>> /\ proposals = <<>>
        /\ facts = <<>> /\ diary = <<>> /\ subjects = InitialSubjects
        /\ done = [learned |-> {}, associated |-> {}, withdrawn |-> {}]
    BY <1>1 DEF Init, RelationsInit
  <2>3. DOMAIN <<>> = {} /\ \A S : <<>> \in Seq(S) /\ <<>> \in [{} -> S]
    OBVIOUS
  <2>4. CatalogKept(catalog, references, done.learned)
    BY <2>2, <2>3 DEF CatalogKept
  <2>5. AssociationsKept(associations, done.associated) /\ FactsKept(facts, done.withdrawn)
    BY <2>2, <2>3 DEF AssociationsKept, FactsKept
  <2>6. RelationsKept
    BY <2>2, <2>3, <2>4, <2>5, SubjectsAssumption DEF RelationsKept, IsDone
  <2> QED
    BY <2>1, <2>6 DEF RelationsInv
<1>2. ASSUME RelationsInv, [Next]_vars
      PROVE  RelationsInv'
  <2>1. ASSUME scene' = scene, UNCHANGED relationVars, scene = "relations" => UNCHANGED callVars
        PROVE  RelationsInv'
    <3>1. /\ catalog' = catalog /\ references' = references /\ associations' = associations
          /\ proposals' = proposals /\ facts' = facts /\ diary' = diary
          /\ subjects' = subjects /\ done' = done
      BY <2>1 DEF relationVars
    <3>2. RelationsKept'
      BY <1>2, <3>1 DEF RelationsInv, RelationsKept
    <3>3. scene = "relations" => calls' = calls /\ OneCall'
      BY <1>2, <2>1, CallsStand DEF RelationsInv, callVars
    <3> QED
      BY <1>2, <2>1, <3>1, <3>2, <3>3 DEF RelationsInv
  <2>2. CASE scene = "relations" /\ RelationsNext
    <3>1. OneCall
      BY <1>2, <2>2 DEF RelationsInv
    <3>2. ASSUME NEW c \in Callers, Fail(c), UNCHANGED relationVars
          PROVE  RelationsInv'
      <4>1. OnlyCall(c, Idle) /\ OneCall'
        BY <3>1, <3>2, GoesOnAlone DEF Fail, End
      <4> QED
        BY <1>2, <3>2, <4>1, RelationCallGoesOn DEF RelationCall
    <3> QED
      BY <1>2, <2>2, <3>1, <3>2, RelationsBegin, LearningKeeps, AssociatingKeeps, FactsKeep,
         ProposingKeeps, DiaryKeeps, SubjectsKeep DEF RelationsNext
  <2> QED
    BY <1>2, <2>1, <2>2 DEF Next, Scene, vars
<1> QED
  BY <1>1, <1>2

\* The rows of a set, the last first (the ORDER BY ... DESC of the diary).
Later(S) == {p \in S \X S : p[1] > p[2]}

\* Sorting by > lists the rows that way.
LEMMA DescendingList ==
  ASSUME NEW S \in SUBSET Int, IsFiniteSet(S)
  PROVE  Lists(SortedBy(S, >), S, Later(S))
<1> DEFINE s == SortedBy(S, >)
<1>1. \A x, y \in S : <<x, y>> \in Later(S) <=> x > y
  BY DEF Later
<1>2. \A x \in S : {y \in S : <<y, x>> \in Later(S)} = {y \in S : y > x}
  BY <1>1
<1>3. s = [i \in 1..Cardinality(S) |->
             CHOOSE x \in S : Cardinality({y \in S : y > x}) = i - 1]
  BY Zenon DEF SortedBy
<1>4. s = [i \in 1..Cardinality(S) |-> s[i]]
  BY <1>3, Zenon
<1>5. ASSUME NEW i \in 1..Cardinality(S),
             NEW x \in S, Cardinality({y \in S : <<y, x>> \in Later(S)}) = i - 1
      PROVE  s[i] \in S /\ Cardinality({y \in S : <<y, s[i]>> \in Later(S)}) = i - 1
  <2>1. Cardinality({y \in S : y > x}) = i - 1
    BY <1>2, <1>5
  <2>2. s[i] = CHOOSE u \in S : Cardinality({y \in S : y > u}) = i - 1
    BY <1>3, Zenon
  <2>3. s[i] \in S /\ Cardinality({y \in S : y > s[i]}) = i - 1
    BY <2>1, <2>2, Zenon
  <2> QED
    BY <1>2, <2>3
<1>6. Orders(Later(S), S)
  <2>1. \A x \in S : x \in Int
    OBVIOUS
  <2> QED
    BY <1>1, <2>1 DEF Orders
<1> HIDE DEF s
<1>7. Placed(s, S, Later(S))
  BY <1>4, <1>5 DEF Placed
<1>8. Lists(s, S, Later(S))
  BY <1>6, <1>7, Enumeration
<1> QED
  BY <1>8 DEF s

\* The lesser of a limit and a count.
LEMMA Limit ==
  ASSUME NEW n \in Nat, NEW m \in Nat
  PROVE  Min({n, m}) \in Nat /\ Min({n, m}) <= n /\ Min({n, m}) <= m
         /\ (Min({n, m}) = n \/ Min({n, m}) = m)
<1>1. \E x \in {n, m} : \A y \in {n, m} : x <= y
  OBVIOUS
<1>2. Min({n, m}) \in {n, m} /\ \A y \in {n, m} : Min({n, m}) <= y
  BY <1>1 DEF Min
<1> QED
  BY <1>2

\* The newest rows of a set are the first of its descending list.
LEMMA NewestOf ==
  ASSUME NEW S \in SUBSET Int, IsFiniteSet(S), NEW n \in Nat
  PROVE  /\ \A x \in S : Cardinality({y \in S : <<y, x>> \in Later(S)}) < n =>
               Contains(Newest(S, n), x)
         /\ \A i \in DOMAIN Newest(S, n) :
               /\ Newest(S, n)[i] \in S
               /\ Cardinality({y \in S : <<y, Newest(S, n)[i]>> \in Later(S)}) < n
<1> DEFINE s == SortedBy(S, >)
           k == Min({n, Cardinality(S)})
           t == Newest(S, n)
           Rank(x) == Cardinality({y \in S : <<y, x>> \in Later(S)})
<1>1. Lists(s, S, Later(S))
  BY DescendingList
<1> HIDE DEF s, Rank
<1>2. /\ s \in Seq(S) /\ Len(s) = Cardinality(S) /\ Cardinality(S) \in Nat
      /\ \A x \in S : \E i \in 1..Len(s) : s[i] = x
      /\ \A i \in 1..Len(s) : s[i] \in S /\ Rank(s[i]) = i - 1
  BY <1>1 DEF Lists, Rank
<1>3. k \in Nat /\ k <= n /\ k <= Len(s) /\ (k = n \/ k = Len(s))
  BY <1>2, Limit
<1>4. t = SubSeq(s, 1, k)
  BY DEF Newest, s
<1> HIDE DEF k, t
<1>5. DOMAIN t = 1..k /\ Len(t) = k /\ \A i \in 1..k : t[i] = s[i]
  BY <1>2, <1>3, <1>4
<1>6. \A i \in 1..k : i \in 1..Len(s) /\ i - 1 < n
  BY <1>2, <1>3
<1>7. \A i \in DOMAIN t : t[i] \in S /\ Rank(t[i]) < n
  BY <1>2, <1>5, <1>6
<1>8. ASSUME NEW x \in S, Rank(x) < n PROVE Contains(t, x)
  <2>1. PICK i \in 1..Len(s) : s[i] = x
    BY <1>2
  <2>2. Rank(x) = i - 1
    BY <1>2, <2>1
  <2>3. i \in 1..k
    BY <1>2, <1>3, <1>8, <2>2
  <2> QED
    BY <1>5, <2>1, <2>3 DEF Contains
<1> QED
  BY <1>7, <1>8 DEF t, Rank

\* An entry among the newest of all is among the newest of any part that it belongs to.
LEMMA NewestOfPart ==
  ASSUME NEW A \in SUBSET Int, IsFiniteSet(A), NEW W \in SUBSET A, NEW n \in Nat,
         NEW i \in DOMAIN Newest(A, n), Newest(A, n)[i] \in W
  PROVE  Contains(Newest(W, n), Newest(A, n)[i])
<1> DEFINE x == Newest(A, n)[i]
           InA == {y \in A : <<y, x>> \in Later(A)}
           InW == {y \in W : <<y, x>> \in Later(W)}
<1>1. x \in A /\ Cardinality(InA) < n
  BY NewestOf
<1>2. InW \in SUBSET InA
  BY DEF Later
<1>3. IsFiniteSet(W) /\ IsFiniteSet(InA)
  BY FS_Subset
<1>4. Cardinality(InW) <= Cardinality(InA) /\ IsFiniteSet(InW)
  BY <1>2, <1>3, FS_Subset
<1>5. Cardinality(InW) \in Nat /\ Cardinality(InA) \in Nat
  BY <1>3, <1>4, FS_CardinalityType
<1>6. Cardinality(InW) < n
  BY <1>1, <1>4, <1>5
<1>7. W \in SUBSET Int /\ x \in W
  OBVIOUS
<1> HIDE DEF x
<1>8. Contains(Newest(W, n), x)
  BY <1>3, <1>6, <1>7, NewestOf
<1> QED
  BY <1>8 DEF x

\* The invariant gives what the run checks of the relations.
LEMMA RelationsInvGives ==
  ASSUME RelationsInv
  PROVE  RelationsHold
<1>1. /\ CatalogKept(catalog, references, done.learned)
      /\ AssociationsKept(associations, done.associated)
      /\ FactsKept(facts, done.withdrawn)
      /\ proposals \in Seq(ProposalRow) /\ diary \in Seq(EntryRow)
  BY DEF RelationsInv, RelationsKept
<1>2. LearnedAreGrounded
  <2>1. Len(references) \in Nat /\ DOMAIN references = 1..Len(references)
    BY <1>1 DEF CatalogKept
  <2>2. ASSUME NEW r \in DOMAIN references
        PROVE  Contains(learned_references_from_source(references[r].source), r)
    <3> DEFINE S == {i \in DOMAIN references : references[i].source = references[r].source}
    <3>1. learned_references_from_source(references[r].source) = Ordered(S)
      BY DEF learned_references_from_source, RowsWhere
    <3>2. S \in SUBSET (1..Len(references)) /\ r \in S
      BY <2>1
    <3> HIDE DEF S
    <3> QED
      BY <2>1, <3>1, <3>2, ListingOf
  <2> QED
    BY <1>1, <2>2 DEF CatalogKept, LearnedAreGrounded, LearnedAs
<1>3. AssociatedOnce
  <2> SUFFICES ASSUME NEW key \in done.associated
               PROVE  Cardinality(associations_from(key.from) \cap associations_to(key.to)
                        \cap RowsWhere(associations, LAMBDA x : x = key)) = 1
    BY DEF AssociatedOnce
  <2> DEFINE S == associations_from(key.from) \cap associations_to(key.to)
                    \cap RowsWhere(associations, LAMBDA x : x = key)
  <2>1. PICK i \in DOMAIN associations : associations[i] = key
    BY <1>1 DEF AssociationsKept
  <2>2. S = {i}
    BY <1>1, <2>1 DEF AssociationsKept, associations_from, associations_to, RowsWhere
  <2>3. Cardinality({i}) = 1
    BY FS_Singleton, Zenon
  <2> HIDE DEF S
  <2>4. Cardinality(S) = 1
    BY <2>2, <2>3
  <2> QED
    BY <2>4 DEF S
<1>4. WithdrawnIsHistory
  <2> SUFFICES ASSUME NEW id \in done.withdrawn
               PROVE  /\ Contains(all_kg_facts_including_retired, id)
                      /\ ~Contains(all_kg_facts, id)
                      /\ ~Contains(kg_facts_for_drawer(facts[id].drawer), id)
    BY DEF WithdrawnIsHistory
  <2> DEFINE All == DOMAIN facts
             Live == {i \in DOMAIN facts : IsActive(facts[i])}
             There == {i \in DOMAIN facts : facts[i].drawer = facts[id].drawer /\ IsActive(facts[i])}
  <2>1. Len(facts) \in Nat /\ DOMAIN facts = 1..Len(facts)
    BY <1>1 DEF FactsKept
  <2>2. id \in DOMAIN facts /\ facts[id].state = 18
    BY <1>1 DEF FactsKept
  <2>3. ~IsActive(facts[id])
    BY <2>2 DEF IsActive
  <2>4. /\ all_kg_facts_including_retired = Ordered(All)
        /\ all_kg_facts = Ordered(Live)
        /\ kg_facts_for_drawer(facts[id].drawer) = Ordered(There)
    BY DEF all_kg_facts_including_retired, all_kg_facts, kg_facts_for_drawer, RowsWhere
  <2>5. /\ All \in SUBSET (1..Len(facts)) /\ Live \in SUBSET (1..Len(facts))
        /\ There \in SUBSET (1..Len(facts))
        /\ id \in All /\ id \notin Live /\ id \notin There
    BY <2>1, <2>2, <2>3
  <2> HIDE DEF All, Live, There
  <2> QED
    BY <2>1, <2>4, <2>5, ListingOf
<1>5. DiaryReadsNewest
  <2> SUFFICES ASSUME NEW agent \in Agents, NEW w \in Wings, NEW n \in 0..2,
                      NEW i \in DOMAIN read_diary(agent, n),
                      diary[read_diary(agent, n)[i]].wing = w
               PROVE  Contains(read_diary_in_wing(agent, w, n), read_diary(agent, n)[i])
    BY DEF DiaryReadsNewest
  <2> DEFINE A == {e \in DOMAIN diary : diary[e].agent = agent}
             W == {e \in DOMAIN diary : diary[e].agent = agent /\ diary[e].wing = w}
  <2>1. Len(diary) \in Nat /\ DOMAIN diary = 1..Len(diary)
    BY <1>1
  <2>2. A \in SUBSET (1..Len(diary)) /\ A \in SUBSET Int /\ W \in SUBSET A
    BY <2>1
  <2>3. read_diary(agent, n) = Newest(A, n) /\ read_diary_in_wing(agent, w, n) = Newest(W, n)
    BY DEF read_diary, read_diary_in_wing, RowsWhere
  <2>4. \A e \in A : diary[e].wing = w => e \in W
    OBVIOUS
  <2> HIDE DEF A, W
  <2>5. IsFiniteSet(A)
    BY <2>1, <2>2, FinitePart
  <2>6. Newest(A, n)[i] \in A
    <3>1. n \in Nat /\ i \in DOMAIN Newest(A, n)
      BY <2>3
    <3>2. \A j \in DOMAIN Newest(A, n) : Newest(A, n)[j] \in A
      BY <2>2, <2>5, <3>1, NewestOf
    <3> QED
      BY <3>1, <3>2
  <2>7. Newest(A, n)[i] \in W
    BY <2>3, <2>4, <2>6
  <2> QED
    BY <2>2, <2>3, <2>5, <2>7, NewestOfPart
<1>6. ASSUME NEW p \in DOMAIN proposals
      PROVE  Contains(proposals_for_target(proposals[p].target), p)
  <2> DEFINE S == {i \in DOMAIN proposals : proposals[i].target = proposals[p].target}
  <2>1. Len(proposals) \in Nat /\ DOMAIN proposals = 1..Len(proposals)
    BY <1>1
  <2>2. proposals_for_target(proposals[p].target) = Ordered(S)
    BY DEF proposals_for_target, RowsWhere
  <2>3. S \in SUBSET (1..Len(proposals)) /\ p \in S
    BY <2>1
  <2> HIDE DEF S
  <2>4. Contains(Ordered(S), p)
    BY <2>1, <2>3, ListingOf
  <2> QED
    BY <2>2, <2>4
<1> QED
  BY <1>2, <1>3, <1>4, <1>5, <1>6 DEF RelationsHold

\* What is said about drawers holds together (learn, associate, propose, withdraw_kg_fact,
\* read_diary) whatever statement of a verb is refused, under a host that serialises the verbs.
THEOREM RelationsStaySound ==
  ASSUME Coordinated
  PROVE  Spec => []RelationsHold
<1>1. Init => RelationsInv
  BY RelationsInvariant
<1>2. RelationsInv /\ [Next]_vars => RelationsInv'
  BY RelationsInvariant
<1>3. RelationsInv => RelationsHold
  BY RelationsInvGives
<1> QED
  BY <1>1, <1>2, <1>3, PTL DEF Spec

(***************************************************************************)
(* The node tree                                                           *)
(***************************************************************************)

NodeRow ==
  [parent : Nat, display : DisplayNames \cup {Estate}, lookup : Nat, depth : 0..2,
   active : BOOLEAN, merkle_root : BOOLEAN]
Frames == DisplayNames \X DisplayNames
FiledRow == [room : Nat, asked : Frames, open : {TRUE}]

\* The tree: levels follow, a parent has one active child of a lookup name (so there is one
\* active root, since every root is named alike).
Level(table, n) ==
  IF table[n].depth = 0 THEN table[n].parent = NoNode /\ table[n].display = Estate
  ELSE table[n].parent \in DOMAIN table /\ table[table[n].parent].depth = table[n].depth - 1
TableKept(table) ==
  /\ table \in Seq(NodeRow)
  /\ \A n \in DOMAIN table :
       Level(table, n) /\ table[n].lookup = normalize_lookup_name(table[n].display)
  /\ \A i, j \in DOMAIN table :
       /\ table[i].active /\ table[j].active
       /\ table[i].parent = table[j].parent /\ table[i].lookup = table[j].lookup
       => i = j

\* A room with these names, and one that is open with its wing.
Named(table, room, pair) ==
  /\ room \in DOMAIN table /\ table[room].depth = 2
  /\ table[room].lookup = normalize_lookup_name(pair[2])
  /\ table[table[room].parent].lookup = normalize_lookup_name(pair[1])
Housed(table, room, pair) ==
  Named(table, room, pair) /\ table[room].active /\ table[table[room].parent].active

TreeKept ==
  /\ TableKept(nodes)
  /\ filed \in Seq(FiledRow)
  /\ \A d \in DOMAIN filed : Named(nodes, filed[d].room, filed[d].asked)

\* What a call under way relies on: a wing or room that was not found is still missing, the
\* parent it looks under, the rooms it has resolved and the node it read are still there.
Missing(call, table) ==
  call.at = "insert" =>
    /\ table[call.parent].depth <= 1
    /\ find_active_node(table, normalize_lookup_name(call.name), call.parent) = {}
Under(call, table) ==
  \/ table[call.parent].depth = 0 /\ call.name = call.frames[1][1]
  \/ /\ table[call.parent].depth = 1 /\ table[call.parent].active
     /\ table[call.parent].lookup = normalize_lookup_name(call.frames[1][1])
     /\ call.name = call.frames[1][2]
Filing(call, table) ==
  /\ call.op = "file" /\ call.at \in {"find", "insert", "add"}
  /\ {"at", "name", "parent", "room"} \subseteq DOMAIN call
  /\ call.frames \in Seq(Frames) /\ call.frames # <<>>
  /\ \A pair \in DOMAIN call.cache : Housed(table, call.cache[pair], pair)
  /\ IF call.at = "add" THEN Housed(table, call.room, call.frames[1])
     ELSE call.parent \in DOMAIN table /\ Under(call, table) /\ Missing(call, table)
Creating(call, table) ==
  /\ call.op = "create_node" /\ call.at \in {"find", "insert"} /\ "at" \in DOMAIN call
  /\ call.name \in DisplayNames /\ call.parent \in DOMAIN table /\ Missing(call, table)
Rooting(call, table) ==
  /\ call.op = "create_root" /\ call.at \in {"find", "insert"} /\ "at" \in DOMAIN call
  /\ call.at = "insert" => \A n \in DOMAIN table : table[n].parent = NoNode => ~table[n].active

TreeCall(call, table) ==
  \/ call = Idle
  \/ Filing(call, table)
  \/ Creating(call, table)
  \/ Rooting(call, table)
  \/ /\ call.op = "tombstone_node" /\ call.at \in {"read", "update"} /\ "at" \in DOMAIN call
     /\ call.id \in DOMAIN table
  \/ call.op = "update_merkle_root" /\ call.at = "update"

TreeInv ==
  /\ TreeKept
  /\ scene = "tree" => OneCall /\ \A c \in Callers : TreeCall(calls[c], nodes)

\* A step that leaves the tree sound and enters a call that fits.
LEMMA TreeGoesOn ==
  ASSUME TreeKept', NEW c \in Callers, NEW next, OnlyCall(c, next), OneCall',
         TreeCall(next, nodes')
  PROVE  TreeInv'
<1>1. \A d \in Callers : TreeCall(calls'[d], nodes')
  BY DEF OnlyCall, TreeCall
<1> QED
  BY <1>1 DEF TreeInv

\* A step that writes nothing.
LEMMA TreeCallGoesOn ==
  ASSUME TreeInv, UNCHANGED treeVars,
         NEW c \in Callers, NEW next, OnlyCall(c, next), OneCall', TreeCall(next, nodes)
  PROVE  TreeInv'
<1>1. nodes' = nodes /\ filed' = filed
  BY DEF treeVars
<1>2. TreeKept'
  BY <1>1 DEF TreeInv, TreeKept
<1> QED
  BY <1>1, <1>2, TreeGoesOn

\* A verb that ends, or whose next statement is refused.
LEMMA TreeCallEnds ==
  ASSUME TreeKept', OneCall, NEW c \in Callers, calls[c] # Idle, End(c)
  PROVE  TreeInv'
<1>1. OnlyCall(c, Idle) /\ OneCall'
  BY GoesOnAlone DEF End
<1> QED
  BY <1>1, TreeGoesOn DEF TreeCall

\* What a row of the tree is.
LEMMA NodeIs ==
  ASSUME NEW table, TableKept(table), NEW n \in DOMAIN table
  PROVE  /\ table[n] \in NodeRow /\ DOMAIN table = 1..Len(table) /\ Len(table) \in Nat
         /\ n \in Nat /\ n # 0
         /\ table[n].parent \in Nat /\ table[n].lookup \in Nat /\ table[n].depth \in 0..2
         /\ table[n].active \in BOOLEAN
         /\ table[n].lookup = normalize_lookup_name(table[n].display)
         /\ Level(table, n)
<1>1. table \in Seq(NodeRow)
  BY DEF TableKept
<1>2. table[n] \in NodeRow /\ DOMAIN table = 1..Len(table) /\ Len(table) \in Nat
  BY <1>1
<1>3. n \in Nat /\ n # 0
  BY <1>2
<1>4. \A row \in NodeRow : row.parent \in Nat /\ row.lookup \in Nat /\ row.depth \in 0..2
                           /\ row.active \in BOOLEAN
  BY DEF NodeRow
<1> QED
  BY <1>2, <1>3, <1>4 DEF TableKept

\* The calls that only begin.
LEMMA TreeBegins ==
  ASSUME TreeInv, OneCall, Coordinated, NEW c \in Callers,
         \/ create_root(c)
         \/ \E p \in DOMAIN nodes :
              \/ \E name \in DisplayNames : create_node(c, name, p)
              \/ tombstone_node(c, p)
              \/ update_merkle_root(c, p)
  PROVE  TreeInv'
<1>1. ASSUME create_root(c) PROVE TreeInv'
  <2> DEFINE next == [op |-> "create_root", at |-> "find"]
  <2>1. OnlyCall(c, next) /\ OneCall' /\ UNCHANGED treeVars
    BY <1>1, BeginsAlone DEF create_root
  <2>2. TreeCall(next, nodes)
    BY DEF TreeCall, Rooting
  <2> QED
    BY <2>1, <2>2, TreeCallGoesOn
<1>2. ASSUME NEW p \in DOMAIN nodes, NEW name \in DisplayNames, create_node(c, name, p)
      PROVE  TreeInv'
  <2> DEFINE next == [op |-> "create_node", at |-> "find", name |-> name, parent |-> p]
  <2>1. OnlyCall(c, next) /\ OneCall' /\ UNCHANGED treeVars
    BY <1>2, BeginsAlone DEF create_node
  <2>2. TreeCall(next, nodes)
    BY DEF TreeCall, Creating, Missing
  <2> QED
    BY <2>1, <2>2, TreeCallGoesOn
<1>3. ASSUME NEW p \in DOMAIN nodes, tombstone_node(c, p) PROVE TreeInv'
  <2> DEFINE next == [op |-> "tombstone_node", at |-> "read", id |-> p]
  <2>1. OnlyCall(c, next) /\ OneCall' /\ UNCHANGED treeVars
    BY <1>3, BeginsAlone DEF tombstone_node
  <2>2. TreeCall(next, nodes)
    BY DEF TreeCall
  <2> QED
    BY <2>1, <2>2, TreeCallGoesOn
<1>4. ASSUME NEW p \in DOMAIN nodes, update_merkle_root(c, p) PROVE TreeInv'
  <2> DEFINE next == [op |-> "update_merkle_root", at |-> "update", id |-> p]
  <2>1. OnlyCall(c, next) /\ OneCall' /\ UNCHANGED treeVars
    BY <1>4, BeginsAlone DEF update_merkle_root
  <2>2. TreeCall(next, nodes)
    BY DEF TreeCall
  <2> QED
    BY <2>1, <2>2, TreeCallGoesOn
<1> QED
  BY <1>1, <1>2, <1>3, <1>4

\* The least of a set of numbers is one of them (the first row found).
LEMMA LeastOf ==
  ASSUME NEW S \in SUBSET Nat, S # {}
  PROVE  Min(S) \in S /\ \A x : S = {x} => Min(S) = x
<1>1. \E x \in S : \A y \in S : x <= y
  BY LeastNumber
<1>2. Min(S) \in S
  BY <1>1 DEF Min
<1> QED
  BY <1>2

\* Filing begins at the root with the first frame's wing.
LEMMA BatchBegins ==
  ASSUME TreeInv, OneCall, Coordinated, NEW c \in Callers,
         NEW frames \in Seq(Frames), frames # <<>>, capture_batch(c, frames)
  PROVE  TreeInv'
<1> DEFINE root == Min(root_node)
           next == Resolve(frames, <<>>, "find", frames[1][1], root)
<1>1. OnlyCall(c, next) /\ OneCall' /\ UNCHANGED treeVars
  BY BeginsAlone DEF capture_batch
<1>2. root_node # {} /\ root_node \in SUBSET Nat
  <2>1. TableKept(nodes)
    BY DEF TreeInv, TreeKept
  <2> QED
    BY <2>1, NodeIs DEF capture_batch, root_node, RowsWhere
<1>3. root \in root_node
  BY <1>2, LeastOf
<1>4. root \in DOMAIN nodes /\ nodes[root].depth = 0
  BY <1>3 DEF root_node, RowsWhere
<1> HIDE DEF root
<1>5. TreeCall(next, nodes)
  BY <1>4 DEF TreeCall, Filing, Under, Missing, Resolve
<1> QED
  BY <1>1, <1>5, TreeCallGoesOn

\* Rows that keep their place in the tree keep the rooms their names.
LEMMA NamedStays ==
  ASSUME NEW table, TableKept(table), NEW new, DOMAIN table \subseteq DOMAIN new,
         \A i \in DOMAIN table : /\ new[i].parent = table[i].parent /\ new[i].depth = table[i].depth
                                 /\ new[i].lookup = table[i].lookup,
         NEW room, NEW pair, Named(table, room, pair)
  PROVE  /\ Named(new, room, pair)
         /\ (\A i \in DOMAIN table : new[i].active = table[i].active) /\ Housed(table, room, pair)
              => Housed(new, room, pair)
<1>1. room \in DOMAIN table /\ table[room].depth = 2
  BY DEF Named
<1>2. table[room].parent \in DOMAIN table
  BY <1>1, NodeIs DEF Level
<1> QED
  BY <1>1, <1>2 DEF Named, Housed

\* A node that is inserted on its level under a name that no active sibling has.
LEMMA NodeInserted ==
  ASSUME NEW table, TableKept(table), NEW node \in NodeRow, node.active,
         node.lookup = normalize_lookup_name(node.display),
         IF node.depth = 0 THEN node.parent = NoNode /\ node.display = Estate
         ELSE node.parent \in DOMAIN table /\ table[node.parent].depth = node.depth - 1,
         \A i \in DOMAIN table : table[i].active /\ table[i].parent = node.parent =>
                                   table[i].lookup # node.lookup
  PROVE  LET new == Append(table, node)
         IN  /\ TableKept(new)
             /\ DOMAIN new = DOMAIN table \cup {Len(table) + 1} /\ Len(table) + 1 \notin DOMAIN table
             /\ Len(table) + 1 \in Nat
             /\ new[Len(table) + 1] = node
             /\ \A i \in DOMAIN table : new[i] = table[i]
<1> DEFINE new == Append(table, node)
           last == Len(table) + 1
<1>1. table \in Seq(NodeRow) /\ Len(table) \in Nat /\ DOMAIN table = 1..Len(table)
  BY DEF TableKept
<1>2. /\ new \in Seq(NodeRow)
      /\ DOMAIN new = DOMAIN table \cup {last} /\ last \notin DOMAIN table /\ last \in Nat
      /\ new[last] = node
      /\ \A i \in DOMAIN table : new[i] = table[i]
  BY <1>1
<1> HIDE DEF new, last
<1>3. ASSUME NEW n \in DOMAIN new
      PROVE  Level(new, n) /\ new[n].lookup = normalize_lookup_name(new[n].display)
  <2>1. CASE n = last
    BY <1>2, <2>1 DEF Level
  <2>2. CASE n \in DOMAIN table
    <3>1. Level(table, n) /\ table[n].lookup = normalize_lookup_name(table[n].display)
      BY <2>2 DEF TableKept
    <3>2. new[n] = table[n] /\ (table[n].depth # 0 => new[table[n].parent] = table[table[n].parent])
      BY <1>2, <2>2, <3>1 DEF Level
    <3> QED
      BY <1>2, <3>1, <3>2 DEF Level
  <2> QED
    BY <1>2, <2>1, <2>2
<1>4. \A i, j \in DOMAIN new : /\ new[i].active /\ new[j].active
                               /\ new[i].parent = new[j].parent /\ new[i].lookup = new[j].lookup
                               => i = j
  BY <1>2 DEF TableKept
<1>5. TableKept(new)
  BY <1>2, <1>3, <1>4 DEF TableKept
<1> QED
  BY <1>2, <1>5 DEF new, last

\* A node that is tombstoned, or whose Merkle root is stored, keeps its place.
LEMMA NodeUpdated ==
  ASSUME NEW table, TableKept(table), NEW new \in Seq(NodeRow), DOMAIN new = DOMAIN table,
         \A i \in DOMAIN table : /\ new[i].parent = table[i].parent /\ new[i].depth = table[i].depth
                                 /\ new[i].lookup = table[i].lookup
                                 /\ new[i].display = table[i].display
                                 /\ (new[i].active => table[i].active)
  PROVE  TableKept(new)
<1>1. ASSUME NEW n \in DOMAIN new
      PROVE  Level(new, n) /\ new[n].lookup = normalize_lookup_name(new[n].display)
  <2>1. Level(table, n) /\ table[n].lookup = normalize_lookup_name(table[n].display)
    BY DEF TableKept
  <2> QED
    BY <2>1 DEF Level
<1>2. \A i, j \in DOMAIN new : /\ new[i].active /\ new[j].active
                               /\ new[i].parent = new[j].parent /\ new[i].lookup = new[j].lookup
                               => i = j
  BY DEF TableKept
<1> QED
  BY <1>1, <1>2 DEF TableKept

\* The root is created once.
LEMMA RootKeeps ==
  ASSUME TreeInv, OneCall, scene = "tree", NEW c \in Callers, FindRoot(c) \/ InsertRoot(c)
  PROVE  TreeInv'
<1> DEFINE call == calls[c]
<1>1. call.op = "create_root" /\ call # Idle
  BY NotIdle DEF FindRoot, InsertRoot, At
<1>2. Rooting(call, nodes)
  BY <1>1 DEF TreeInv, TreeCall, Filing, Creating
<1>3. TableKept(nodes) /\ TreeKept
  BY DEF TreeInv, TreeKept
<1>4. CASE FindRoot(c)
  <2>1. CASE root_node # {}
    <3>1. End(c) /\ UNCHANGED treeVars
      BY <1>4, <2>1 DEF FindRoot
    <3>2. TreeKept'
      BY <1>3, <3>1 DEF treeVars, TreeKept
    <3> QED
      BY <1>1, <3>1, <3>2, TreeCallEnds
  <2>2. CASE root_node = {}
    <3> DEFINE next == [call EXCEPT !.at = "insert"]
    <3>1. OnlyCall(c, next) /\ OneCall' /\ UNCHANGED treeVars
      BY <1>1, <1>4, <2>2, GoesOnAlone DEF FindRoot, GoTo
    <3>2. next.op = "create_root" /\ next.at = "insert" /\ "at" \in DOMAIN next
      BY <1>2 DEF Rooting
    <3>3. ASSUME NEW n \in DOMAIN nodes, nodes[n].parent = NoNode PROVE ~nodes[n].active
      <4>1. nodes[n].depth = 0
        <5>1. Level(nodes, n)
          BY <1>3 DEF TableKept
        <5>2. NoNode \notin DOMAIN nodes
          BY <1>3, NodeIs DEF NoNode
        <5> QED
          BY <3>3, <5>1, <5>2 DEF Level
      <4> QED
        BY <2>2, <3>3, <4>1 DEF root_node, RowsWhere
    <3> HIDE DEF next
    <3>4. TreeCall(next, nodes)
      BY <3>2, <3>3 DEF TreeCall, Rooting
    <3> QED
      BY <3>1, <3>4, TreeCallGoesOn
  <2> QED
    BY <2>1, <2>2
<1>5. CASE InsertRoot(c)
  <2> DEFINE node == NewNode(Estate, NoNode, 0)
  <2>1. nodes' = Append(nodes, node) /\ filed' = filed /\ End(c) /\ call.at = "insert"
    BY <1>5 DEF InsertRoot, At
  <2>2. /\ node \in NodeRow /\ node.active /\ node.depth = 0 /\ node.parent = NoNode
        /\ node.display = Estate /\ node.lookup = normalize_lookup_name(node.display)
    BY DEF NewNode, NodeRow, NoNode, Estate, normalize_lookup_name
  <2>3. \A i \in DOMAIN nodes : nodes[i].parent = NoNode => ~nodes[i].active
    BY <1>2, <2>1 DEF Rooting
  <2> HIDE DEF node
  <2>4. TableKept(nodes') /\ DOMAIN nodes \subseteq DOMAIN nodes'
        /\ \A i \in DOMAIN nodes : nodes'[i] = nodes[i]
    BY <1>3, <2>1, <2>2, <2>3, NodeInserted
  <2>5. TreeKept'
    BY <1>3, <2>1, <2>4, NamedStays DEF TreeKept
  <2> QED
    BY <1>1, <2>1, <2>5, TreeCallEnds
<1> QED
  BY <1>4, <1>5

\* Tombstoning and Merkle roots.
LEMMA NodeUpdatesKeep ==
  ASSUME TreeInv, OneCall, scene = "tree", NEW c \in Callers,
         ReadNode(c) \/ TombstoneNode(c) \/ UpdateMerkleRoot(c)
  PROVE  TreeInv'
<1> DEFINE call == calls[c]
<1>1. call # Idle
  BY NotIdle DEF ReadNode, TombstoneNode, UpdateMerkleRoot, At
<1>2. TableKept(nodes) /\ TreeKept
  BY DEF TreeInv, TreeKept
<1>3. ASSUME call.op = "tombstone_node" PROVE call.id \in DOMAIN nodes /\ "at" \in DOMAIN call
  BY <1>1, <1>3 DEF TreeInv, TreeCall, Filing, Creating, Rooting
<1>4. CASE ReadNode(c)
  <2>1. call.op = "tombstone_node" /\ UNCHANGED treeVars
    BY <1>4 DEF ReadNode, At
  <2>2. CASE End(c)
    <3>1. TreeKept'
      BY <1>2, <2>1 DEF treeVars, TreeKept
    <3> QED
      BY <1>1, <2>2, <3>1, TreeCallEnds
  <2>3. CASE ~End(c)
    <3> DEFINE next == [call EXCEPT !.at = "update"]
    <3>1. OnlyCall(c, next) /\ OneCall'
      BY <1>1, <1>4, <2>3, GoesOnAlone DEF ReadNode, GoTo
    <3>2. next.op = "tombstone_node" /\ next.at = "update" /\ "at" \in DOMAIN next
          /\ next.id = call.id
      BY <1>3, <2>1
    <3> HIDE DEF next
    <3>3. TreeCall(next, nodes)
      BY <1>3, <2>1, <3>2 DEF TreeCall
    <3> QED
      BY <2>1, <3>1, <3>3, TreeCallGoesOn
  <2> QED
    BY <2>2, <2>3
<1>5. ASSUME NEW id \in DOMAIN nodes, filed' = filed, End(c),
             \/ nodes' = [nodes EXCEPT ![id].active = FALSE]
             \/ nodes' = [nodes EXCEPT ![id].merkle_root = TRUE]
      PROVE  TreeInv'
  <2>1. nodes \in Seq(NodeRow) /\ nodes[id] \in NodeRow
    BY <1>2 DEF TableKept
  <2>2. PICK row \in NodeRow : /\ nodes' = [nodes EXCEPT ![id] = row]
                               /\ row.parent = nodes[id].parent /\ row.depth = nodes[id].depth
                               /\ row.lookup = nodes[id].lookup /\ row.display = nodes[id].display
                               /\ (row.active => nodes[id].active)
    <3>1. CASE nodes' = [nodes EXCEPT ![id].active = FALSE]
      <4> DEFINE row == [nodes[id] EXCEPT !.active = FALSE]
      <4>1. row \in NodeRow /\ ~row.active /\ row.parent = nodes[id].parent
            /\ row.depth = nodes[id].depth /\ row.lookup = nodes[id].lookup
            /\ row.display = nodes[id].display
        BY <2>1 DEF NodeRow
      <4>2. nodes' = [nodes EXCEPT ![id] = row]
        BY <3>1
      <4> HIDE DEF row
      <4> QED
        BY <4>1, <4>2
    <3>2. CASE nodes' = [nodes EXCEPT ![id].merkle_root = TRUE]
      <4> DEFINE row == [nodes[id] EXCEPT !.merkle_root = TRUE]
      <4>1. row \in NodeRow /\ row.active = nodes[id].active /\ row.parent = nodes[id].parent
            /\ row.depth = nodes[id].depth /\ row.lookup = nodes[id].lookup
            /\ row.display = nodes[id].display
        BY <2>1 DEF NodeRow
      <4>2. nodes' = [nodes EXCEPT ![id] = row]
        BY <3>2
      <4> HIDE DEF row
      <4> QED
        BY <4>1, <4>2
    <3> QED
      BY <1>5, <3>1, <3>2
  <2>3. /\ nodes' \in Seq(NodeRow) /\ DOMAIN nodes' = DOMAIN nodes
        /\ \A i \in DOMAIN nodes :
             /\ nodes'[i].parent = nodes[i].parent /\ nodes'[i].depth = nodes[i].depth
             /\ nodes'[i].lookup = nodes[i].lookup /\ nodes'[i].display = nodes[i].display
             /\ (nodes'[i].active => nodes[i].active)
    <3>1. nodes' \in Seq(NodeRow) /\ DOMAIN nodes' = DOMAIN nodes
      BY <2>1, <2>2
    <3>2. \A i \in DOMAIN nodes : nodes'[i] = IF i = id THEN row ELSE nodes[i]
      BY <2>2
    <3> QED
      BY <2>2, <3>1, <3>2
  <2>4. TableKept(nodes')
    BY <1>2, <2>3, NodeUpdated
  <2>5. \A d \in DOMAIN filed : Named(nodes', filed[d].room, filed[d].asked)
    BY <1>2, <2>3, NamedStays DEF TreeKept
  <2>6. TreeKept'
    BY <1>2, <1>5, <2>4, <2>5 DEF TreeKept
  <2> QED
    BY <1>1, <1>5, <2>6, TreeCallEnds
<1>6. CASE TombstoneNode(c)
  BY <1>3, <1>5, <1>6 DEF TombstoneNode, At
<1>7. CASE UpdateMerkleRoot(c)
  <2>1. CASE get_node(call.id)
    BY <1>5, <1>7, <2>1 DEF UpdateMerkleRoot, get_node
  <2>2. CASE ~get_node(call.id)
    <3>1. nodes' = nodes /\ filed' = filed /\ End(c)
      BY <1>7, <2>2 DEF UpdateMerkleRoot
    <3>2. TreeKept'
      BY <1>2, <3>1 DEF TreeKept
    <3> QED
      BY <1>1, <3>1, <3>2, TreeCallEnds
  <2> QED
    BY <2>1, <2>2
<1> QED
  BY <1>4, <1>6, <1>7

\* A call that files drawers and looks for a wing or a room.
Seeking(call, table) ==
  /\ {"at", "name", "parent", "room"} \subseteq DOMAIN call
  /\ call.frames \in Seq(Frames) /\ call.frames # <<>>
  /\ \A pair \in DOMAIN call.cache : Housed(table, call.cache[pair], pair)
  /\ call.parent \in DOMAIN table /\ Under(call, table)

\* What follows when a node was found or created: the room after the wing, the drawer after
\* the room.
LEMMA ResolvedFits ==
  ASSUME OneCall, NEW c \in Callers, calls[c] # Idle, TableKept(nodes'),
         calls[c].op = "create_node" \/ (calls[c].op = "file" /\ Seeking(calls[c], nodes')),
         NEW id \in DOMAIN nodes', nodes'[id].active, nodes'[id].parent = calls[c].parent,
         nodes'[id].lookup = normalize_lookup_name(calls[c].name), Resolved(c, id)
  PROVE  \E next : OnlyCall(c, next) /\ OneCall' /\ TreeCall(next, nodes')
<1> DEFINE call == calls[c]
           frame == call.frames[1]
<1>1. CASE call.op = "create_node"
  <2>1. Continue(c, Idle)
    BY <1>1 DEF Resolved, End
  <2> QED
    BY <2>1, GoesOnAlone DEF TreeCall
<1>2. CASE call.op = "file"
  <2>1. Seeking(call, nodes')
    BY <1>2
  <2>2. call.parent \in DOMAIN nodes' /\ Under(call, nodes') /\ call.parent # NoNode
    BY <2>1, NodeIs DEF Seeking, NoNode
  <2>3. /\ nodes'[id].depth # 0
        /\ nodes'[call.parent].depth = nodes'[id].depth - 1
        /\ nodes'[id].depth \in 0..2
    BY <2>2, NodeIs DEF Level
  <2>4. CASE nodes'[id].depth = 1
    <3> DEFINE next == [call EXCEPT !.at = "find", !.name = frame[2], !.parent = id]
    <3>1. Continue(c, next)
      BY <1>2, <2>4 DEF Resolved
    <3>2. OnlyCall(c, next) /\ OneCall'
      BY <3>1, GoesOnAlone
    <3>3. nodes'[id].lookup = normalize_lookup_name(frame[1])
      <4>1. nodes'[call.parent].depth = 0
        BY <2>3, <2>4
      <4> QED
        BY <2>2, <4>1 DEF Under
    <3>4. /\ next.op = "file" /\ next.at = "find"
          /\ {"at", "name", "parent", "room"} \subseteq DOMAIN next
          /\ next.frames = call.frames /\ next.cache = call.cache
          /\ next.name = frame[2] /\ next.parent = id
      BY <1>2, <2>1 DEF Seeking
    <3> HIDE DEF next
    <3>5. Under(next, nodes') /\ Missing(next, nodes')
      BY <2>4, <3>3, <3>4 DEF Under, Missing
    <3>6. TreeCall(next, nodes')
      BY <2>1, <3>4, <3>5 DEF TreeCall, Filing, Seeking
    <3> QED
      BY <3>2, <3>6
  <2>5. CASE nodes'[id].depth # 1
    <3> DEFINE next == [call EXCEPT !.at = "add", !.room = id]
    <3>1. Continue(c, next)
      BY <1>2, <2>5 DEF Resolved
    <3>2. OnlyCall(c, next) /\ OneCall'
      BY <3>1, GoesOnAlone
    <3>3. nodes'[id].depth = 2 /\ nodes'[call.parent].depth = 1
      BY <2>3, <2>5
    <3>4. /\ nodes'[call.parent].active /\ call.name = frame[2]
          /\ nodes'[call.parent].lookup = normalize_lookup_name(frame[1])
      BY <2>2, <3>3 DEF Under
    <3>5. Housed(nodes', id, frame)
      BY <3>3, <3>4 DEF Housed, Named
    <3>6. /\ next.op = "file" /\ next.at = "add"
          /\ {"at", "name", "parent", "room"} \subseteq DOMAIN next
          /\ next.frames = call.frames /\ next.cache = call.cache /\ next.room = id
      BY <1>2, <2>1 DEF Seeking
    <3> HIDE DEF next
    <3>7. TreeCall(next, nodes')
      BY <2>1, <3>5, <3>6 DEF TreeCall, Filing, Seeking
    <3> QED
      BY <3>2, <3>7
  <2> QED
    BY <2>4, <2>5
<1> QED
  BY <1>1, <1>2

\* A wing or room that is looked for is found, or missed, or was asked for in a bad place.
LEMMA FindNodeKeeps ==
  ASSUME TreeInv, OneCall, scene = "tree", NEW c \in Callers, FindNode(c)
  PROVE  TreeInv'
<1> DEFINE call == calls[c]
           name == normalize_lookup_name(call.name)
           found == find_active_node(nodes, name, call.parent)
<1>1. call.op \in {"create_node", "file"} /\ call.at = "find" /\ UNCHANGED treeVars
  BY DEF FindNode
<1>2. call # Idle
  BY <1>1 DEF Idle
<1>3. TreeKept /\ TableKept(nodes) /\ nodes' = nodes
  BY <1>1 DEF TreeInv, TreeKept, treeVars
<1>4. Creating(call, nodes) \/ Filing(call, nodes)
  BY <1>1, <1>2 DEF TreeInv, TreeCall, Rooting
<1>5. call.op = "create_node" \/ (call.op = "file" /\ Seeking(call, nodes'))
  BY <1>1, <1>3, <1>4 DEF Creating, Filing, Seeking
<1>6. \/ End(c)
      \/ found # {} /\ Resolved(c, Min(found))
      \/ /\ ~(~get_node(call.parent) \/ nodes[call.parent].depth + 1 > 2)
         /\ found = {} /\ GoTo(c, "insert")
  BY DEF FindNode
<1>7. CASE End(c)
  <2>1. TreeKept'
    BY <1>1, <1>3 DEF treeVars, TreeKept
  <2> QED
    BY <1>2, <1>7, <2>1, TreeCallEnds
<1>8. CASE found # {} /\ Resolved(c, Min(found))
  <2>1. found \in SUBSET Nat
    BY <1>3, NodeIs DEF find_active_node, RowsWhere
  <2>2. Min(found) \in found
    BY <1>8, <2>1, LeastOf
  <2>3. PICK id \in DOMAIN nodes : /\ Resolved(c, id) /\ nodes[id].active
                                   /\ nodes[id].parent = call.parent /\ nodes[id].lookup = name
    BY <1>8, <2>2 DEF find_active_node, RowsWhere
  <2>4. PICK next : OnlyCall(c, next) /\ OneCall' /\ TreeCall(next, nodes')
    BY <1>2, <1>3, <1>5, <2>3, ResolvedFits
  <2> QED
    BY <1>1, <1>3, <2>4, TreeCallGoesOn
<1>9. CASE /\ ~(~get_node(call.parent) \/ nodes[call.parent].depth + 1 > 2)
           /\ found = {} /\ GoTo(c, "insert")
  <2> DEFINE next == [call EXCEPT !.at = "insert"]
  <2>1. OnlyCall(c, next) /\ OneCall'
    BY <1>2, <1>9, GoesOnAlone DEF GoTo
  <2>2. call.parent \in DOMAIN nodes /\ nodes[call.parent].depth <= 1
    <3>1. call.parent \in DOMAIN nodes
      BY <1>9 DEF get_node
    <3>2. nodes[call.parent].depth \in 0..2
      BY <1>3, <3>1, NodeIs
    <3> QED
      BY <1>9, <3>1, <3>2
  <2>3. CASE call.op = "create_node"
    <3>1. Creating(call, nodes)
      BY <1>4, <2>3 DEF Filing
    <3>2. /\ next.op = "create_node" /\ next.at = "insert" /\ "at" \in DOMAIN next
          /\ next.name = call.name /\ next.parent = call.parent
      BY <2>3, <3>1 DEF Creating
    <3> HIDE DEF next
    <3>3. TreeCall(next, nodes)
      BY <1>9, <2>2, <3>1, <3>2 DEF TreeCall, Creating, Missing
    <3> QED
      BY <1>1, <2>1, <3>3, TreeCallGoesOn
  <2>4. CASE call.op = "file"
    <3>1. Filing(call, nodes)
      BY <1>4, <2>4 DEF Creating
    <3>2. /\ next.op = "file" /\ next.at = "insert" /\ next.frames = call.frames
          /\ {"at", "name", "parent", "room"} \subseteq DOMAIN next
          /\ next.name = call.name /\ next.parent = call.parent /\ next.cache = call.cache
      BY <2>4, <3>1 DEF Filing
    <3> HIDE DEF next
    <3>3. Missing(next, nodes)
      BY <1>9, <2>2, <3>2 DEF Missing
    <3>4. Under(next, nodes)
      BY <1>1, <3>1, <3>2 DEF Filing, Under
    <3>5. TreeCall(next, nodes)
      BY <1>1, <2>2, <3>1, <3>2, <3>3, <3>4 DEF TreeCall, Filing
    <3> QED
      BY <1>1, <2>1, <3>5, TreeCallGoesOn
  <2> QED
    BY <1>1, <2>3, <2>4
<1> QED
  BY <1>6, <1>7, <1>8, <1>9

\* A wing or room that was missing is created.
LEMMA InsertNodeKeeps ==
  ASSUME TreeInv, OneCall, scene = "tree", NEW c \in Callers, InsertNode(c)
  PROVE  TreeInv'
<1> DEFINE call == calls[c]
           node == NewNode(call.name, call.parent, nodes[call.parent].depth + 1)
           last == Len(nodes) + 1
<1>1. /\ call.op \in {"create_node", "file"} /\ call.at = "insert"
      /\ nodes' = Append(nodes, node) /\ filed' = filed
      /\ Resolved(c, Min(find_active_node(nodes', node.lookup, node.parent)))
  BY DEF InsertNode
<1>2. call # Idle
  BY <1>1 DEF Idle
<1>3. TreeKept /\ TableKept(nodes)
  BY DEF TreeInv, TreeKept
<1>4. Creating(call, nodes) \/ Filing(call, nodes)
  BY <1>1, <1>2 DEF TreeInv, TreeCall, Rooting
<1>5. call.parent \in DOMAIN nodes /\ Missing(call, nodes)
  BY <1>1, <1>4 DEF Creating, Filing
<1>6. call.name \in DisplayNames
  <2>1. ASSUME call.op = "file" PROVE call.name \in DisplayNames
    <3>1. Filing(call, nodes) /\ Under(call, nodes)
      BY <1>1, <1>4, <2>1 DEF Creating, Filing
    <3>2. call.frames \in Seq(Frames) /\ call.frames # <<>>
      BY <3>1 DEF Filing
    <3>3. call.frames[1] \in Frames
      BY <3>2
    <3>4. call.frames[1][1] \in DisplayNames /\ call.frames[1][2] \in DisplayNames
      BY <3>3 DEF Frames
    <3> QED
      BY <3>1, <3>4 DEF Under
  <2> QED
    BY <1>1, <1>4, <2>1 DEF Creating, Filing
<1>7. /\ node.active /\ node.parent = call.parent /\ node.display = call.name
      /\ node.lookup = normalize_lookup_name(call.name)
      /\ node.depth = nodes[call.parent].depth + 1
      /\ node \in NodeRow
  <2>1. nodes[call.parent].depth \in 0..2 /\ nodes[call.parent].depth <= 1 /\ call.parent \in Nat
    BY <1>1, <1>3, <1>5, NodeIs DEF Missing
  <2>2. nodes[call.parent].depth + 1 \in 0..2
    BY <2>1
  <2> QED
    BY <1>6, <2>1, <2>2, NamesAssumption DEF NewNode, NodeRow
<1> HIDE DEF node
<1>8. node.depth # 0 /\ nodes[node.parent].depth = node.depth - 1
  <2>1. nodes[call.parent].depth \in 0..2
    BY <1>3, <1>5, NodeIs
  <2> QED
    BY <1>7, <2>1
<1>9. \A i \in DOMAIN nodes : nodes[i].active /\ nodes[i].parent = node.parent =>
                                nodes[i].lookup # node.lookup
  BY <1>1, <1>5, <1>7 DEF Missing, find_active_node, RowsWhere
<1>10. /\ TableKept(nodes')
       /\ DOMAIN nodes' = DOMAIN nodes \cup {last} /\ last \notin DOMAIN nodes /\ last \in Nat
       /\ nodes'[last] = node
       /\ \A i \in DOMAIN nodes : nodes'[i] = nodes[i]
  <2>1. node \in NodeRow /\ node.active /\ node.lookup = normalize_lookup_name(node.display)
    BY <1>7
  <2>2. IF node.depth = 0 THEN node.parent = NoNode /\ node.display = Estate
        ELSE node.parent \in DOMAIN nodes /\ nodes[node.parent].depth = node.depth - 1
    BY <1>5, <1>7, <1>8
  <2> QED
    BY <1>1, <1>3, <1>9, <2>1, <2>2, NodeInserted
<1> HIDE DEF last
<1>11. TreeKept'
  BY <1>1, <1>3, <1>10, NamedStays DEF TreeKept
<1>12. find_active_node(nodes', node.lookup, node.parent) = {last}
  BY <1>7, <1>9, <1>10 DEF find_active_node, RowsWhere
<1>13. Resolved(c, last)
  <2>1. Min({last}) = last
    BY <1>10, LeastOf
  <2> QED
    BY <1>1, <1>12, <2>1
<1>14. call.op = "create_node" \/ (call.op = "file" /\ Seeking(call, nodes'))
  <2> SUFFICES ASSUME call.op = "file" PROVE Seeking(call, nodes')
    BY <1>1
  <2>1. Filing(call, nodes)
    BY <1>4 DEF Creating
  <2>2. \A pair \in DOMAIN call.cache : Housed(nodes, call.cache[pair], pair)
    BY <2>1 DEF Filing
  <2>3. \A pair \in DOMAIN call.cache : Housed(nodes', call.cache[pair], pair)
    <3> TAKE pair \in DOMAIN call.cache
    <3>1. Housed(nodes, call.cache[pair], pair) /\ Named(nodes, call.cache[pair], pair)
      BY <2>2 DEF Housed
    <3> QED
      BY <1>3, <1>10, <3>1, NamedStays
  <2>4. Under(call, nodes')
    BY <1>1, <1>5, <1>10, <2>1 DEF Filing, Under
  <2> QED
    BY <1>5, <1>10, <2>1, <2>3, <2>4 DEF Filing, Seeking
<1>15. PICK next : OnlyCall(c, next) /\ OneCall' /\ TreeCall(next, nodes')
  BY <1>2, <1>7, <1>10, <1>13, <1>14, ResolvedFits
<1> QED
  BY <1>11, <1>15, TreeGoesOn

\* A drawer is filed in the room that its names were resolved to, and the batch goes on with
\* the next frame or ends.
LEMMA AddDrawerKeeps ==
  ASSUME TreeInv, OneCall, scene = "tree", NEW c \in Callers, AddDrawer(c)
  PROVE  TreeInv'
<1> DEFINE call == calls[c]
           asked == call.frames[1]
           wing == nodes[call.room].parent
           row == [room |-> call.room, asked |-> asked,
                   open |-> nodes[call.room].active /\ nodes[wing].active]
           rest == Tail(call.frames)
           cache == WithRow(call.cache, asked, call.room)
           root == nodes[wing].parent
<1>1. /\ call.op = "file" /\ call.at = "add" /\ call # Idle /\ nodes' = nodes
      /\ filed' = Append(filed, row) /\ NextFrame(c, rest, cache, root)
  BY NotIdle DEF AddDrawer, At
<1>2. TreeKept /\ TableKept(nodes)
  BY DEF TreeInv, TreeKept
<1>3. Filing(call, nodes)
  BY <1>1 DEF TreeInv, TreeCall, Creating, Rooting
<1>4. /\ call.frames \in Seq(Frames) /\ call.frames # <<>>
      /\ Housed(nodes, call.room, asked)
      /\ \A pair \in DOMAIN call.cache : Housed(nodes, call.cache[pair], pair)
  BY <1>1, <1>3 DEF Filing
<1>5. asked \in Frames /\ rest \in Seq(Frames)
  BY <1>4, TailOf
<1>6. row \in FiledRow /\ row.room = call.room /\ row.asked = asked
  <2>1. call.room \in Nat /\ nodes[call.room].active = TRUE /\ nodes[wing].active = TRUE
    <3>1. call.room \in DOMAIN nodes /\ nodes[call.room].active /\ nodes[wing].active
      BY <1>4 DEF Housed, Named
    <3>2. call.room \in Nat /\ nodes[call.room].active \in BOOLEAN
      BY <1>2, <3>1, NodeIs
    <3>3. wing \in DOMAIN nodes
      BY <1>2, <1>4, NodeIs DEF Housed, Named, Level
    <3>4. nodes[wing].active \in BOOLEAN
      BY <1>2, <3>3, NodeIs
    <3> QED
      BY <3>1, <3>2, <3>4
  <2> HIDE DEF asked, wing
  <2> QED
    BY <1>5, <2>1 DEF FiledRow
<1>7. root \in DOMAIN nodes /\ nodes[root].depth = 0
  <2>1. call.room \in DOMAIN nodes /\ nodes[call.room].depth = 2
    BY <1>4 DEF Housed, Named
  <2>2. wing \in DOMAIN nodes /\ nodes[wing].depth = 1
    BY <1>2, <2>1, NodeIs DEF Level
  <2> HIDE DEF wing
  <2> QED
    BY <1>2, <2>2, NodeIs DEF Level
<1>8. \A pair \in DOMAIN cache : Housed(nodes, cache[pair], pair)
  BY <1>4 DEF WithRow
<1> HIDE DEF row, cache, root, rest
<1>9. TreeKept'
  <2>1. filed \in Seq(FiledRow) /\ \A d \in DOMAIN filed : Named(nodes, filed[d].room, filed[d].asked)
    BY <1>2 DEF TreeKept
  <2>2. filed' \in Seq(FiledRow)
        /\ \A d \in DOMAIN filed' : filed'[d] = row \/ (d \in DOMAIN filed /\ filed'[d] = filed[d])
    BY <1>1, <1>6, <2>1
  <2>3. Named(nodes, row.room, row.asked)
    BY <1>4, <1>6 DEF Housed
  <2>4. \A d \in DOMAIN filed' : Named(nodes, filed'[d].room, filed'[d].asked)
    BY <2>1, <2>2, <2>3
  <2> QED
    BY <1>1, <1>2, <2>2, <2>4 DEF TreeKept
<1>10. CASE rest = <<>>
  <2>1. End(c)
    BY <1>1, <1>10 DEF NextFrame
  <2> QED
    BY <1>1, <1>9, <2>1, TreeCallEnds
<1>11. CASE rest # <<>>
  <2> DEFINE first == rest[1]
  <2>1. Head(rest) = first
    BY <1>5, <1>11, TailOf
  <2>2. CASE first \in DOMAIN cache
    <3> DEFINE next == [Resolve(rest, cache, "add", first, root) EXCEPT !.room = cache[first]]
    <3>1. Continue(c, next)
      BY <1>1, <1>11, <2>1, <2>2 DEF NextFrame
    <3>2. OnlyCall(c, next) /\ OneCall'
      BY <1>1, <3>1, GoesOnAlone
    <3>3. /\ next.op = "file" /\ next.at = "add" /\ next.frames = rest /\ next.cache = cache
          /\ {"at", "name", "parent", "room"} \subseteq DOMAIN next /\ next.room = cache[first]
      BY DEF Resolve
    <3> HIDE DEF next
    <3>4. TreeCall(next, nodes)
      BY <1>5, <1>8, <1>11, <2>2, <3>3 DEF TreeCall, Filing
    <3> QED
      BY <1>1, <1>9, <3>2, <3>4, TreeGoesOn
  <2>3. CASE first \notin DOMAIN cache
    <3> DEFINE next == Resolve(rest, cache, "find", first[1], root)
    <3>1. Continue(c, next)
      BY <1>1, <1>11, <2>1, <2>3 DEF NextFrame
    <3>2. OnlyCall(c, next) /\ OneCall'
      BY <1>1, <3>1, GoesOnAlone
    <3>3. /\ next.op = "file" /\ next.at = "find" /\ next.frames = rest /\ next.cache = cache
          /\ {"at", "name", "parent", "room"} \subseteq DOMAIN next
          /\ next.parent = root /\ next.name = rest[1][1]
      BY DEF Resolve
    <3> HIDE DEF next
    <3>4. TreeCall(next, nodes)
      BY <1>5, <1>7, <1>8, <1>11, <3>3 DEF TreeCall, Filing, Under, Missing
    <3> QED
      BY <1>1, <1>9, <3>2, <3>4, TreeGoesOn
  <2> QED
    BY <2>2, <2>3
<1> QED
  BY <1>10, <1>11

\* The invariant of the tree, in every scene.
LEMMA TreeInvariant ==
  ASSUME Coordinated
  PROVE  (Init => TreeInv) /\ (TreeInv /\ [Next]_vars => TreeInv')
<1>1. ASSUME Init
      PROVE  TreeInv
  <2>1. OneCall /\ \A c \in Callers : TreeCall(calls[c], nodes)
    BY <1>1 DEF Init, CallsInit, OneCall, TreeCall
  <2>2. nodes = <<>> /\ filed = <<>>
    BY <1>1 DEF Init, TreeInit
  <2>3. DOMAIN <<>> = {} /\ \A S : <<>> \in Seq(S)
    OBVIOUS
  <2>4. TreeKept
    BY <2>2, <2>3 DEF TreeKept, TableKept
  <2> QED
    BY <2>1, <2>4 DEF TreeInv
<1>2. ASSUME TreeInv, [Next]_vars
      PROVE  TreeInv'
  <2>1. ASSUME scene' = scene, UNCHANGED treeVars, scene = "tree" => UNCHANGED callVars
        PROVE  TreeInv'
    <3>1. nodes' = nodes /\ filed' = filed
      BY <2>1 DEF treeVars
    <3>2. TreeKept'
      BY <1>2, <3>1 DEF TreeInv, TreeKept
    <3>3. scene = "tree" => calls' = calls /\ OneCall'
      BY <1>2, <2>1, CallsStand DEF TreeInv, callVars
    <3> QED
      BY <1>2, <2>1, <3>1, <3>2, <3>3 DEF TreeInv
  <2>2. CASE scene = "tree" /\ TreeNext
    <3>1. OneCall
      BY <1>2, <2>2 DEF TreeInv
    <3>2. ASSUME NEW c \in Callers, Fail(c), UNCHANGED treeVars
          PROVE  TreeInv'
      <4>1. OnlyCall(c, Idle) /\ OneCall'
        BY <3>1, <3>2, GoesOnAlone DEF Fail, End
      <4> QED
        BY <1>2, <3>2, <4>1, TreeCallGoesOn DEF TreeCall
    <3>3. ASSUME NEW c \in Callers, NEW frames \in Batches, capture_batch(c, frames)
          PROVE  TreeInv'
      <4>1. frames \in Seq(Frames) /\ frames # <<>>
        BY NamesAssumption DEF Frames
      <4> QED
        BY <1>2, <3>1, <3>3, <4>1, BatchBegins
    <3>4. ASSUME NEW c \in Callers, NEW w \in WingNames, seed_wing(c, w)
          PROVE  TreeInv'
      <4> DEFINE pair == <<w, HINT_ROOM>>
      <4>1. pair \in Frames
        BY DEF Frames, DisplayNames
      <4> HIDE DEF pair
      <4>2. <<pair>> \in Seq(Frames) /\ <<pair>> # <<>>
        BY <4>1
      <4>3. capture_batch(c, <<pair>>)
        BY <3>4 DEF seed_wing, pair
      <4> QED
        BY <1>2, <3>1, <4>2, <4>3, BatchBegins
    <3>5. WingNames \cup RoomNames \subseteq DisplayNames
      BY DEF DisplayNames
    <3> QED
      BY <1>2, <2>2, <3>1, <3>2, <3>3, <3>4, <3>5, TreeBegins, RootKeeps, NodeUpdatesKeep,
         FindNodeKeeps, InsertNodeKeeps, AddDrawerKeeps DEF TreeNext
  <2> QED
    BY <1>2, <2>1, <2>2 DEF Next, Scene, vars
<1> QED
  BY <1>1, <1>2

\* One active root; the levels follow; the children of a node are listed by lookup names that
\* differ.
LEMMA TreeShape ==
  ASSUME TableKept(nodes)
  PROVE  OneRoot /\ DepthsFollow /\ NamesUnique
<1>1. OneRoot
  <2>1. ASSUME NEW i \in root_node, NEW j \in root_node PROVE i = j
    <3>1. /\ i \in DOMAIN nodes /\ j \in DOMAIN nodes /\ nodes[i].active /\ nodes[j].active
          /\ nodes[i].parent = nodes[j].parent /\ nodes[i].depth = 0 /\ nodes[j].depth = 0
      BY DEF root_node, RowsWhere
    <3>2. nodes[i].lookup = nodes[j].lookup
      BY <3>1, NodeIs DEF Level
    <3> QED
      BY <3>1, <3>2 DEF TableKept
  <2>2. CASE root_node = {}
    BY <2>2, FS_EmptySet DEF OneRoot
  <2>3. CASE root_node # {}
    <3>1. PICK i : root_node = {i}
      BY <2>1, <2>3
    <3>2. Cardinality({i}) = 1
      BY FS_Singleton, Zenon
    <3> QED
      BY <3>1, <3>2 DEF OneRoot
  <2> QED
    BY <2>2, <2>3
<1>2. DepthsFollow
  <2> SUFFICES ASSUME NEW n \in DOMAIN nodes
               PROVE  IF nodes[n].depth = 0 THEN nodes[n].parent = NoNode
                      ELSE /\ nodes[n].depth \in 1..2
                           /\ get_node(nodes[n].parent)
                           /\ nodes[nodes[n].parent].depth = nodes[n].depth - 1
    BY DEF DepthsFollow
  <2>1. Level(nodes, n) /\ nodes[n].depth \in 0..2
    BY NodeIs
  <2> QED
    BY <2>1 DEF Level, get_node
<1>3. NamesUnique
  <2> SUFFICES ASSUME NEW p \in DOMAIN nodes, NEW a \in DOMAIN child_nodes(p),
                      NEW b \in DOMAIN child_nodes(p), a < b
               PROVE  nodes[child_nodes(p)[a]].lookup < nodes[child_nodes(p)[b]].lookup
    BY DEF NamesUnique
  <2> DEFINE S == {i \in DOMAIN nodes : nodes[i].parent = p /\ nodes[i].active}
             key(i) == nodes[i].lookup
             Before(x, y) == key(x) < key(y) \/ (key(x) = key(y) /\ x < y)
             R == {q \in S \X S : Before(q[1], q[2])}
             s == child_nodes(p)
  <2>1. DOMAIN nodes = 1..Len(nodes) /\ Len(nodes) \in Nat
        /\ \A i \in DOMAIN nodes : nodes[i].lookup \in Nat
    BY NodeIs
  <2>2. S \in SUBSET (1..Len(nodes)) /\ \A i \in S : i \in Int /\ key(i) \in Int
    BY <2>1
  <2>3. IsFiniteSet(S)
    BY <2>1, <2>2, FinitePart
  <2>4. \A x, y \in S : key(x) = key(y) => x = y
    BY DEF TableKept
  <2>5. \A x, y \in S : <<x, y>> \in R <=> Before(x, y)
    OBVIOUS
  <2>6. \A x \in S : {y \in S : <<y, x>> \in R} = {y \in S : Before(y, x)}
    BY <2>5
  <2>7. s = [i \in 1..Cardinality(S) |->
               CHOOSE x \in S : Cardinality({y \in S : Before(y, x)}) = i - 1]
    BY Zenon DEF child_nodes, SortedBy, RowsWhere
  <2>8. s = [i \in 1..Cardinality(S) |-> s[i]]
    BY <2>7, Zenon
  <2>9. Orders(R, S)
    <3> HIDE DEF R, S
    <3>1. \A x \in S : <<x, x>> \notin R
      BY <2>2, <2>5
    <3>2. ASSUME NEW x \in S, NEW y \in S, x # y PROVE <<x, y>> \in R \/ <<y, x>> \in R
      <4>1. Before(x, y) \/ Before(y, x)
        BY <2>2, <3>2
      <4> QED
        BY <2>5, <4>1
    <3>3. ASSUME NEW x \in S, NEW y \in S, NEW z \in S, <<x, y>> \in R, <<y, z>> \in R
          PROVE  <<x, z>> \in R
      <4>1. Before(x, y) /\ Before(y, z)
        BY <2>5, <3>3
      <4>2. x \in Int /\ y \in Int /\ z \in Int /\ key(x) \in Int /\ key(y) \in Int /\ key(z) \in Int
        BY <2>2
      <4>3. Before(x, z)
        BY <4>1, <4>2
      <4> QED
        BY <2>5, <4>3
    <3> QED
      BY <3>1, <3>2, <3>3 DEF Orders
  <2> HIDE DEF s, R, Before, S
  <2>10. ASSUME NEW i \in 1..Cardinality(S),
                NEW x \in S, Cardinality({y \in S : <<y, x>> \in R}) = i - 1
         PROVE  s[i] \in S /\ Cardinality({y \in S : <<y, s[i]>> \in R}) = i - 1
    <3>1. Cardinality({y \in S : Before(y, x)}) = i - 1
      BY <2>6, <2>10
    <3>2. s[i] = CHOOSE u \in S : Cardinality({y \in S : Before(y, u)}) = i - 1
      BY <2>7, Zenon
    <3>3. s[i] \in S /\ Cardinality({y \in S : Before(y, s[i])}) = i - 1
      BY <3>1, <3>2, Zenon
    <3> QED
      BY <2>6, <3>3
  <2>11. Placed(s, S, R)
    BY <2>8, <2>10 DEF Placed
  <2>12. Lists(s, S, R)
    BY <2>3, <2>9, <2>11, Enumeration
  <2>13. a \in 1..Len(s) /\ b \in 1..Len(s)
    <3>1. s \in Seq(S)
      BY <2>12 DEF Lists
    <3>2. a \in DOMAIN s /\ b \in DOMAIN s
      BY DEF s
    <3> QED
      BY <3>1, <3>2
  <2>14. <<s[a], s[b]>> \in R /\ s[a] \in S /\ s[b] \in S
    BY <2>12, <2>13 DEF Lists
  <2>15. Before(s[a], s[b])
    BY <2>5, <2>14
  <2>16. key(s[a]) \in Int /\ key(s[b]) \in Int /\ s[a] \in Int /\ s[b] \in Int
    BY <2>2, <2>14
  <2>17. key(s[a]) = key(s[b]) => s[a] = s[b]
    BY <2>4, <2>14
  <2>18. key(s[a]) < key(s[b])
    BY <2>15, <2>16, <2>17 DEF Before
  <2> QED
    BY <2>18 DEF s
<1> QED
  BY <1>1, <1>2, <1>3

\* A wing and a room that are open under the only root are what their names resolve to.
LEMMA NamesResolve ==
  ASSUME TableKept(nodes), NEW room, NEW pair, Housed(nodes, room, pair),
         \A n \in DOMAIN nodes : nodes[n].depth = 0 => nodes[n].active
  PROVE  LET wing == nodes[room].parent
         IN  /\ wing \in DOMAIN nodes /\ nodes[wing].depth = 1 /\ nodes[wing].active
             /\ WingNamed(pair[1]) = {wing}
             /\ room \in RoomsUnder(wing)
             /\ room_node_ids_in_wing(pair[1]) = RoomsUnder(wing)
             /\ room_node_id(pair[1], pair[2]) = {room}
<1> DEFINE wing == nodes[room].parent
<1>1. /\ room \in DOMAIN nodes /\ nodes[room].depth = 2 /\ nodes[room].active /\ nodes[wing].active
      /\ nodes[room].lookup = normalize_lookup_name(pair[2])
      /\ nodes[wing].lookup = normalize_lookup_name(pair[1])
  BY DEF Housed, Named
<1>2. wing \in DOMAIN nodes /\ nodes[wing].depth = 1
  BY <1>1, NodeIs DEF Level
<1>3. ASSUME NEW w \in DOMAIN nodes, NEW v \in DOMAIN nodes, nodes[w].depth = 1, nodes[v].depth = 1
      PROVE  nodes[w].parent = nodes[v].parent
  <2>1. /\ nodes[w].parent \in DOMAIN nodes /\ nodes[nodes[w].parent].depth = 0
        /\ nodes[v].parent \in DOMAIN nodes /\ nodes[nodes[v].parent].depth = 0
    BY <1>3, NodeIs DEF Level
  <2>2. ASSUME NEW i \in DOMAIN nodes, NEW j \in DOMAIN nodes, nodes[i].depth = 0, nodes[j].depth = 0
        PROVE  i = j
    <3>1. nodes[i].parent = nodes[j].parent /\ nodes[i].lookup = nodes[j].lookup
          /\ nodes[i].active /\ nodes[j].active
      BY <2>2, NodeIs DEF Level
    <3> QED
      BY <3>1 DEF TableKept
  <2> QED
    BY <2>1, <2>2
<1>4. WingNamed(pair[1]) = {wing}
  <2>1. wing \in WingNamed(pair[1])
    BY <1>1, <1>2 DEF WingNamed, RowsWhere
  <2>2. ASSUME NEW w \in WingNamed(pair[1]) PROVE w = wing
    <3>1. w \in DOMAIN nodes /\ nodes[w].depth = 1 /\ nodes[w].active
          /\ nodes[w].lookup = nodes[wing].lookup
      BY <1>1 DEF WingNamed, RowsWhere
    <3>2. nodes[w].parent = nodes[wing].parent
      BY <1>2, <1>3, <3>1
    <3> QED
      BY <1>1, <1>2, <3>1, <3>2 DEF TableKept
  <2> QED
    BY <2>1, <2>2
<1>5. Min(WingNamed(pair[1])) = wing
  <2>1. wing \in Nat
    BY <1>2, NodeIs
  <2> QED
    BY <1>4, <2>1, LeastOf
<1>6. room \in RoomsUnder(wing)
  BY <1>1 DEF RoomsUnder, RowsWhere
<1>7. room_node_ids_in_wing(pair[1]) = RoomsUnder(wing)
  BY <1>4, <1>5 DEF room_node_ids_in_wing
<1>8. room_node_id(pair[1], pair[2]) = {room}
  <2> DEFINE rooms == {r \in RoomsUnder(wing) : nodes[r].lookup = normalize_lookup_name(pair[2])}
  <2>1. room \in rooms
    BY <1>1, <1>6
  <2>2. ASSUME NEW r \in rooms PROVE r = room
    <3>1. r \in DOMAIN nodes /\ nodes[r].parent = wing /\ nodes[r].active
          /\ nodes[r].lookup = nodes[room].lookup
      BY <1>1 DEF RoomsUnder, RowsWhere
    <3> QED
      BY <1>1, <3>1 DEF TableKept
  <2>3. rooms = {room}
    BY <2>1, <2>2
  <2>4. room_node_id(pair[1], pair[2]) = IF rooms = {} THEN {} ELSE {Min(rooms)}
    BY <1>4, <1>5 DEF room_node_id
  <2>5. Min({room}) = room
    <3>1. room \in Nat
      BY <1>1, NodeIs
    <3> QED
      BY <3>1, LeastOf
  <2> HIDE DEF rooms
  <2> QED
    BY <2>3, <2>4, <2>5
<1> QED
  BY <1>1, <1>2, <1>4, <1>6, <1>7, <1>8

\* A filed drawer is found by the names it was asked for, while nothing above it is tombstoned.
LEMMA DrawersAreListed ==
  ASSUME TreeKept
  PROVE  FiledIsListed
<1> SUFFICES ASSUME NEW d \in DOMAIN filed
             PROVE  LET room == filed[d].room
                        asked == filed[d].asked
                        live == /\ nodes[room].active /\ nodes[nodes[room].parent].active
                                /\ \A n \in DOMAIN nodes : nodes[n].depth = 0 => nodes[n].active
                    IN  /\ filed[d].open
                        /\ Lookups(resolve_node_names(room)) = Lookups(asked)
                        /\ live =>
                             /\ d \in {drawers_in_wing(asked[1])[i] : i \in DOMAIN drawers_in_wing(asked[1])}
                             /\ LET there == drawers_in_wing_room(asked[1], asked[2])
                                IN  \A e \in DOMAIN filed :
                                      filed[e].room = room <=> \E i \in DOMAIN there : there[i] = e
                             /\ \E w \in list_wings : w.id = nodes[room].parent /\ w.drawer_count >= 1
                             /\ \E r \in list_rooms(WingNamed(asked[1])) :
                                  r.id = room /\ r.drawer_count = Cardinality(DrawersIn({room}))
  BY DEF FiledIsListed
<1> DEFINE room == filed[d].room
           asked == filed[d].asked
           wing == nodes[room].parent
<1>1. TableKept(nodes) /\ filed \in Seq(FiledRow) /\ Named(nodes, room, asked)
  BY DEF TreeKept
<1>2. Len(filed) \in Nat /\ DOMAIN filed = 1..Len(filed)
  BY <1>1
<1>3. filed[d].open
  <2>1. filed[d] \in FiledRow
    BY <1>1
  <2> QED
    BY <2>1 DEF FiledRow
<1>4. /\ room \in DOMAIN nodes /\ wing \in DOMAIN nodes
      /\ nodes[room].lookup = normalize_lookup_name(asked[2])
      /\ nodes[wing].lookup = normalize_lookup_name(asked[1])
  BY <1>1, NodeIs DEF Named, Level
<1>5. Lookups(resolve_node_names(room)) = Lookups(asked)
  <2>1. /\ nodes[room].lookup = normalize_lookup_name(nodes[room].display)
        /\ nodes[wing].lookup = normalize_lookup_name(nodes[wing].display)
    BY <1>1, <1>4, NodeIs
  <2>2. resolve_node_names(room) = <<nodes[wing].display, nodes[room].display>>
    BY <1>4 DEF resolve_node_names, get_node
  <2> QED
    BY <1>4, <2>1, <2>2 DEF Lookups
<1>6. ASSUME nodes[room].active, nodes[wing].active,
             \A n \in DOMAIN nodes : nodes[n].depth = 0 => nodes[n].active
      PROVE  /\ d \in {drawers_in_wing(asked[1])[i] : i \in DOMAIN drawers_in_wing(asked[1])}
             /\ \A e \in DOMAIN filed :
                  filed[e].room = room <=>
                    \E i \in DOMAIN drawers_in_wing_room(asked[1], asked[2]) :
                      drawers_in_wing_room(asked[1], asked[2])[i] = e
             /\ \E w \in list_wings : w.id = wing /\ w.drawer_count >= 1
             /\ \E r \in list_rooms(WingNamed(asked[1])) :
                  r.id = room /\ r.drawer_count = Cardinality(DrawersIn({room}))
  <2>1. /\ nodes[wing].depth = 1
        /\ WingNamed(asked[1]) = {wing}
        /\ room \in RoomsUnder(wing)
        /\ room_node_ids_in_wing(asked[1]) = RoomsUnder(wing)
        /\ room_node_id(asked[1], asked[2]) = {room}
    <3>1. Housed(nodes, room, asked)
      BY <1>1, <1>6 DEF Housed
    <3> HIDE DEF room, asked
    <3> QED
      BY <1>1, <1>6, <3>1, NamesResolve
  <2> DEFINE A == DrawersIn(RoomsUnder(wing))
             B == DrawersIn({room})
  <2>2. /\ A \in SUBSET (1..Len(filed)) /\ B \in SUBSET (1..Len(filed)) /\ d \in A
        /\ \A e \in DOMAIN filed : e \in B <=> filed[e].room = room
    BY <1>2, <2>1 DEF DrawersIn, RowsWhere
  <2>3. drawers_in_wing(asked[1]) = Ordered(A)
        /\ drawers_in_wing_room(asked[1], asked[2]) = Ordered(B)
    BY <2>1 DEF drawers_in_wing, drawers_in_wing_room
  <2> HIDE DEF A, B, room, asked, wing
  <2>4. IsFiniteSet(A) /\ IsFiniteSet(B) /\ A \in SUBSET Int /\ B \in SUBSET Int
    <3>1. IsFiniteSet(A) /\ IsFiniteSet(B)
      BY <1>2, <2>2, FinitePart
    <3>2. A \in SUBSET Int /\ B \in SUBSET Int
      BY <1>2, <2>2
    <3> QED
      BY <3>1, <3>2
  <2>5. DOMAIN Ordered(A) = 1..Len(Ordered(A)) /\ DOMAIN Ordered(B) = 1..Len(Ordered(B))
    <3>1. Ordered(A) \in Seq(A) /\ Ordered(B) \in Seq(B)
      BY <2>4, OrderedList
    <3> QED
      BY <3>1
  <2>6. Contains(Ordered(A), d) /\ \A e : Contains(Ordered(B), e) <=> e \in B
    BY <1>2, <2>2, ListingOf
  <2>7. d \in {drawers_in_wing(asked[1])[i] : i \in DOMAIN drawers_in_wing(asked[1])}
    BY <2>3, <2>5, <2>6 DEF Contains
  <2>8. \A e \in DOMAIN filed :
          filed[e].room = room <=>
            \E i \in DOMAIN drawers_in_wing_room(asked[1], asked[2]) :
              drawers_in_wing_room(asked[1], asked[2])[i] = e
    BY <2>2, <2>3, <2>5, <2>6 DEF Contains
  <2>9. \E w \in list_wings : w.id = wing /\ w.drawer_count >= 1
    <3> DEFINE w == [id |-> wing, name |-> nodes[wing].display,
                     drawer_count |-> Cardinality(A),
                     room_count |-> Cardinality(RoomsUnder(wing))]
    <3>1. w \in list_wings
      BY <1>4, <1>6, <2>1 DEF list_wings, RowsWhere, A
    <3>2. Cardinality(A) \in Nat /\ Cardinality(A) # 0
      BY <2>2, <2>4, FS_CardinalityType, FS_EmptySet
    <3>3. w.id = wing /\ w.drawer_count >= 1
      BY <3>2
    <3> QED
      BY <3>1, <3>3
  <2>10. \E r \in list_rooms(WingNamed(asked[1])) :
            r.id = room /\ r.drawer_count = Cardinality(DrawersIn({room}))
    <3> DEFINE r == [wing |-> nodes[wing].display, id |-> room, name |-> nodes[room].display,
                     drawer_count |-> Cardinality(DrawersIn({room}))]
    <3>1. r \in list_rooms(WingNamed(asked[1]))
      <4> DEFINE Rooms(w) ==
                   {[wing |-> nodes[w].display, id |-> q, name |-> nodes[q].display,
                     drawer_count |-> Cardinality(DrawersIn({q}))] : q \in RoomsUnder(w)}
      <4>1. r \in Rooms(wing)
        BY <2>1
      <4>2. list_rooms(WingNamed(asked[1])) = UNION {Rooms(w) : w \in WingNamed(asked[1])}
        BY DEF list_rooms
      <4> HIDE DEF r, Rooms
      <4> QED
        BY <2>1, <4>1, <4>2
    <3>2. r.id = room /\ r.drawer_count = Cardinality(DrawersIn({room}))
      OBVIOUS
    <3> QED
      BY <3>1, <3>2
  <2> QED
    BY <2>7, <2>8, <2>9, <2>10
<1> QED
  BY <1>3, <1>5, <1>6

\* The tree keeps its invariants (I-NT-1, I-NT-2, I-NT-4, I-NT-5) and no drawer is filed out of
\* reach of its names, whatever statement of create_node or a capture is refused, under a host
\* that serialises the verbs: find_active_node and the insert after it are two statements.
THEOREM TreeStaysSound ==
  ASSUME Coordinated
  PROVE  Spec => []TreeIsSound
<1>1. Init => TreeInv
  BY TreeInvariant
<1>2. TreeInv /\ [Next]_vars => TreeInv'
  BY TreeInvariant
<1>3. TreeInv => TreeIsSound
  BY TreeShape, DrawersAreListed DEF TreeInv, TreeKept, TreeIsSound
<1> QED
  BY <1>1, <1>2, <1>3, PTL DEF Spec
=============================================================================
