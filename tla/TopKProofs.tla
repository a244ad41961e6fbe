---------------------------- MODULE TopKProofs -----------------------------
(***************************************************************************)
(* The ranking of TopK is the exhaustive scan's, for any index, query,     *)
(* capacity and block size: nothing that the loops skip could have won.    *)
(***************************************************************************)
EXTENDS TopK, FiniteSetTheorems, WellFoundedInduction, TLAPS

(***************************************************************************)
(* Numbers and finite sets                                                 *)
(***************************************************************************)

\* A set of numbers has a least one, which serves as the principle of induction: a set
\* that holds 0, and n + 1 when it holds n, holds every number.
LEMMA LeastNumber ==
  ASSUME NEW T \in SUBSET Nat, T # {}
  PROVE  \E x \in T : \A y \in T : x <= y
<1>1. PICK x \in T : \A y \in T : ~(<<y, x>> \in OpToRel(<, Nat))
  BY NatLessThanWellFounded, WFMin
<1>2. ASSUME NEW y \in T PROVE x <= y
  <2>1. x \in Nat /\ y \in Nat
    OBVIOUS
  <2>2. ASSUME y < x PROVE FALSE
    <3>1. <<y, x>> \in OpToRel(<, Nat)
      BY <2>1, <2>2 DEF OpToRel
    <3> QED
      BY <1>1, <3>1
  <2> QED
    BY <2>1, <2>2
<1> QED
  BY <1>2

\* Induction on numbers, for a set (the provers cannot instantiate NatInduction).
LEMMA Induction ==
  ASSUME NEW T, 0 \in T, \A n \in Nat : n \in T => n + 1 \in T
  PROVE  Nat \subseteq T
<1> SUFFICES ASSUME Nat \ T # {} PROVE FALSE
  OBVIOUS
<1>1. PICK x \in Nat \ T : \A y \in Nat \ T : x <= y
  BY LeastNumber
<1>2. x # 0
  BY <1>1
<1>3. x - 1 \in Nat /\ x - 1 \in T
  BY <1>1, <1>2
<1> QED
  BY <1>1, <1>3

\* A finite set of integers that is not empty has a greatest element (Max of
\* FiniteSetsExt).
LEMMA Greatest ==
  ASSUME NEW S \in SUBSET Int, IsFiniteSet(S), S # {}
  PROVE  Max(S) \in S /\ \A y \in S : Max(S) >= y
<1> DEFINE Bounded(n) == \A T \in SUBSET Int :
             IsFiniteSet(T) /\ T # {} /\ Cardinality(T) = n => \E x \in T : \A y \in T : x >= y
           Good == {n \in Nat : Bounded(n)}
<1>1. 0 \in Good
  BY FS_EmptySet
<1>2. ASSUME NEW n \in Nat, n \in Good PROVE n + 1 \in Good
  <2> SUFFICES ASSUME NEW T \in SUBSET Int, IsFiniteSet(T), T # {}, Cardinality(T) = n + 1
               PROVE  \E x \in T : \A y \in T : x >= y
    OBVIOUS
  <2>1. PICK e \in T : TRUE
    OBVIOUS
  <2>2. IsFiniteSet(T \ {e}) /\ Cardinality(T \ {e}) = n
    <3>1. IsFiniteSet(T \ {e}) /\ Cardinality(T \ {e}) = Cardinality(T) - 1
      BY FS_RemoveElement, Zenon
    <3> QED
      BY <3>1
  <2>3. CASE T \ {e} = {}
    BY <2>3
  <2>4. CASE T \ {e} # {}
    <3>1. PICK x \in T \ {e} : \A y \in T \ {e} : x >= y
      BY <1>2, <2>2, <2>4
    <3>2. CASE x >= e
      BY <3>1, <3>2
    <3>3. CASE ~(x >= e)
      <4> \A y \in T : e >= y
        BY <3>1, <3>3
      <4> QED
        OBVIOUS
    <3> QED
      BY <3>2, <3>3
  <2> QED
    BY <2>3, <2>4
<1>3. Cardinality(S) \in Good
  <2> HIDE DEF Good
  <2> QED
    BY <1>1, <1>2, Induction, FS_CardinalityType
<1>4. \E x \in S : \A y \in S : x >= y
  BY <1>3
<1> QED
  BY <1>4 DEF Max

\* A set of numbers that is not empty has a least element (Min of FiniteSetsExt).
LEMMA Least ==
  ASSUME NEW S \in SUBSET Nat, S # {}
  PROVE  Min(S) \in S /\ \A y \in S : Min(S) <= y
<1>1. \E x \in S : \A y \in S : x <= y
  BY LeastNumber
<1> QED
  BY <1>1 DEF Min

\* The values of a function on a finite set are finitely many.
LEMMA FiniteImage ==
  ASSUME NEW f, NEW S, IsFiniteSet(S)
  PROVE  IsFiniteSet({f[x] : x \in S})
<1> DEFINE T == {f[x] : x \in S}
           g == [x \in S |-> f[x]]
<1>1. g \in [S -> T] /\ \A y \in T : \E x \in S : g[x] = y
  OBVIOUS
<1>2. g \in Surjection(S, T)
  BY <1>1, Zenon DEF Surjection
<1> HIDE DEF g, T
<1>3. IsFiniteSet(T)
  BY <1>2, FS_Surjection
<1> QED
  BY <1>3 DEF T

(***************************************************************************)
(* Sums                                                                    *)
(***************************************************************************)

\* The element a sum takes first.
Pick(s) == CHOOSE x \in s : TRUE

\* The equation of the sums of f over the subsets of S.
Sums(g, f, S) ==
  g = [s \in SUBSET S |-> IF s = {} THEN 0 ELSE f[Pick(s)] + g[s \ {Pick(s)}]]

\* SumFunctionOnSet is the solution of that equation, at S.
LEMMA SumIs ==
  ASSUME NEW f, NEW S
  PROVE  SumFunctionOnSet(f, S) = (CHOOSE g : Sums(g, f, S))[S]
BY Zenon DEF SumFunctionOnSet, FoldFunctionOnSet, MapThenFoldSet, Sums, Pick

\* What the equation says of one set.
LEMMA SumsAt ==
  ASSUME NEW g, NEW f, NEW S, Sums(g, f, S), NEW s \in SUBSET S
  PROVE  /\ s = {} => g[s] = 0
         /\ s # {} => Pick(s) \in s /\ g[s] = f[Pick(s)] + g[s \ {Pick(s)}]
<1>1. g[s] = IF s = {} THEN 0 ELSE f[Pick(s)] + g[s \ {Pick(s)}]
  <2> DEFINE h == [u \in SUBSET S |-> IF u = {} THEN 0 ELSE f[Pick(u)] + g[u \ {Pick(u)}]]
  <2>1. g = h
    BY Zenon DEF Sums
  <2>2. h[s] = IF s = {} THEN 0 ELSE f[Pick(s)] + g[s \ {Pick(s)}]
    BY Zenon
  <2> QED
    BY <2>1, <2>2, Zenon
<1>2. s # {} => Pick(s) \in s
  BY Zenon DEF Pick
<1> QED
  BY <1>1, <1>2, Zenon

\* A set without one of its elements is smaller.
LEMMA OneFewer ==
  ASSUME NEW s, IsFiniteSet(s), NEW x \in s, NEW n \in Nat, Cardinality(s) = n + 1
  PROVE  IsFiniteSet(s \ {x}) /\ Cardinality(s \ {x}) = n
<1>1. IsFiniteSet(s \ {x}) /\ Cardinality(s \ {x}) = Cardinality(s) - 1
  BY FS_RemoveElement, Zenon
<1> QED
  BY <1>1

\* g solves the equation for the sets of up to n elements.
SolvedTo(g, f, S, n) ==
  \A s \in SUBSET S : Cardinality(s) <= n =>
    g[s] = IF s = {} THEN 0 ELSE f[Pick(s)] + g[s \ {Pick(s)}]

\* Such a solution extends to sets of one element more.
LEMMA SolutionGrows ==
  ASSUME NEW f, NEW S, IsFiniteSet(S), NEW n \in Nat, NEW g, SolvedTo(g, f, S, n)
  PROVE  \E h : h = [s \in SUBSET S |-> h[s]] /\ SolvedTo(h, f, S, n + 1)
<1> DEFINE Ext(s) == IF s = {} THEN 0 ELSE f[Pick(s)] + g[s \ {Pick(s)}]
           h == [s \in SUBSET S |-> IF Cardinality(s) <= n THEN g[s] ELSE Ext(s)]
<1>1. \A s \in SUBSET S : h[s] = Ext(s)
  <2> SUFFICES ASSUME NEW s \in SUBSET S PROVE h[s] = Ext(s)
    OBVIOUS
  <2>1. h[s] = IF Cardinality(s) <= n THEN g[s] ELSE Ext(s)
    BY Zenon
  <2>2. Cardinality(s) <= n => g[s] = Ext(s)
    BY Zenon DEF SolvedTo
  <2> QED
    BY <2>1, <2>2, Zenon
<1>2. ASSUME NEW s \in SUBSET S, Cardinality(s) <= n + 1, s # {}
      PROVE  h[s \ {Pick(s)}] = g[s \ {Pick(s)}]
  <2>1. Pick(s) \in s
    BY <1>2, Zenon DEF Pick
  <2>2. IsFiniteSet(s)
    BY FS_Subset, Zenon
  <2>3. IsFiniteSet(s \ {Pick(s)}) /\ Cardinality(s \ {Pick(s)}) = Cardinality(s) - 1
    BY <2>1, <2>2, FS_RemoveElement, Zenon
  <2>4. Cardinality(s) \in Nat
    BY <2>2, FS_CardinalityType, Zenon
  <2>5. Cardinality(s \ {Pick(s)}) <= n
    <3> HIDE DEF h
    <3> QED
      BY <1>2, <2>3, <2>4
  <2>6. s \ {Pick(s)} \in SUBSET S
    OBVIOUS
  <2> QED
    BY <2>5, <2>6, Zenon
<1>3. SolvedTo(h, f, S, n + 1)
  <2> SUFFICES ASSUME NEW s \in SUBSET S, Cardinality(s) <= n + 1
               PROVE  h[s] = IF s = {} THEN 0 ELSE f[Pick(s)] + h[s \ {Pick(s)}]
    BY Zenon DEF SolvedTo
  <2> QED
    BY <1>1, <1>2, Zenon
<1>4. h = [s \in SUBSET S |-> h[s]]
  BY Zenon
<1> HIDE DEF h
<1> QED
  BY <1>3, <1>4, Zenon

\* Over a finite set the equation has a solution.
LEMMA SumsExist ==
  ASSUME NEW f, NEW S, IsFiniteSet(S)
  PROVE  Sums(CHOOSE g : Sums(g, f, S), f, S)
<1> DEFINE Good == {n \in Nat : \E g : g = [s \in SUBSET S |-> g[s]] /\ SolvedTo(g, f, S, n)}
<1>1. 0 \in Good
  <2> DEFINE g == [s \in SUBSET S |-> 0]
  <2>1. ASSUME NEW s \in SUBSET S, Cardinality(s) <= 0 PROVE s = {}
    <3>1. IsFiniteSet(s) /\ Cardinality(s) \in Nat
      BY FS_Subset, FS_CardinalityType, Zenon
    <3>2. Cardinality(s) = 0
      BY <2>1, <3>1
    <3> QED
      BY <3>1, <3>2, FS_EmptySet, Zenon
  <2>2. SolvedTo(g, f, S, 0)
    BY <2>1, Zenon DEF SolvedTo
  <2>3. g = [s \in SUBSET S |-> g[s]]
    BY Zenon
  <2> HIDE DEF g
  <2> QED
    BY <2>2, <2>3
<1>2. ASSUME NEW n \in Nat, n \in Good PROVE n + 1 \in Good
  <2>1. PICK g : SolvedTo(g, f, S, n)
    BY <1>2, Zenon
  <2>2. \E h : h = [s \in SUBSET S |-> h[s]] /\ SolvedTo(h, f, S, n + 1)
    BY <2>1, SolutionGrows, Zenon
  <2>3. n + 1 \in Nat
    OBVIOUS
  <2> QED
    BY <2>2, <2>3, Zenon
<1>3. Cardinality(S) \in Nat
  BY FS_CardinalityType, Zenon
<1>4. Cardinality(S) \in Good
  <2> HIDE DEF Good
  <2> QED
    BY <1>1, <1>2, <1>3, Induction
<1>5. PICK g : g = [s \in SUBSET S |-> g[s]] /\ SolvedTo(g, f, S, Cardinality(S))
  BY <1>4, Zenon
<1>6. ASSUME NEW s \in SUBSET S
      PROVE  g[s] = IF s = {} THEN 0 ELSE f[Pick(s)] + g[s \ {Pick(s)}]
  <2>1. Cardinality(s) <= Cardinality(S)
    BY FS_Subset, Zenon
  <2> QED
    BY <1>5, <2>1, Zenon DEF SolvedTo
<1>7. Sums(g, f, S)
  <2>1. [s \in SUBSET S |-> g[s]]
        = [s \in SUBSET S |-> IF s = {} THEN 0 ELSE f[Pick(s)] + g[s \ {Pick(s)}]]
    BY <1>6, Zenon
  <2> QED
    BY <1>5, <2>1, Zenon DEF Sums
<1> QED
  BY <1>7, Zenon

\* Solutions over different sets agree where both are defined.
LEMMA SumsAgree ==
  ASSUME NEW f, NEW S, NEW T, NEW g, NEW h, Sums(g, f, S), Sums(h, f, T),
         NEW u \in SUBSET (S \cap T), IsFiniteSet(u)
  PROVE  g[u] = h[u]
<1> DEFINE Good == {n \in Nat : \A s \in SUBSET u : Cardinality(s) = n => g[s] = h[s]}
<1>0. \A s \in SUBSET u : /\ IsFiniteSet(s) /\ Cardinality(s) \in Nat
                          /\ s \in SUBSET S /\ s \in SUBSET T
  BY FS_Subset, FS_CardinalityType, Zenon
<1>1. 0 \in Good
  <2> SUFFICES ASSUME NEW s \in SUBSET u, Cardinality(s) = 0 PROVE g[s] = h[s]
    OBVIOUS
  <2>1. s = {}
    BY <1>0, FS_EmptySet, Zenon
  <2> QED
    BY <1>0, <2>1, SumsAt, Zenon
<1>2. ASSUME NEW n \in Nat, n \in Good PROVE n + 1 \in Good
  <2> SUFFICES ASSUME NEW s \in SUBSET u, Cardinality(s) = n + 1 PROVE g[s] = h[s]
    OBVIOUS
  <2>1. s # {}
    BY FS_EmptySet
  <2>2. /\ Pick(s) \in s
        /\ g[s] = f[Pick(s)] + g[s \ {Pick(s)}]
        /\ h[s] = f[Pick(s)] + h[s \ {Pick(s)}]
    <3>1. s \in SUBSET S /\ s \in SUBSET T
      BY <1>0, Zenon
    <3>2. Pick(s) \in s /\ g[s] = f[Pick(s)] + g[s \ {Pick(s)}]
      BY <2>1, <3>1, SumsAt
    <3>3. h[s] = f[Pick(s)] + h[s \ {Pick(s)}]
      BY <2>1, <3>1, SumsAt
    <3> QED
      BY <3>2, <3>3
  <2>3. Cardinality(s \ {Pick(s)}) = n
    BY <1>0, <2>2, OneFewer, Zenon
  <2>4. g[s \ {Pick(s)}] = h[s \ {Pick(s)}]
    <3>1. s \ {Pick(s)} \in SUBSET u
      OBVIOUS
    <3> QED
      BY <1>2, <2>3, <3>1, Zenon
  <2> QED
    BY <2>2, <2>4, Zenon
<1>3. Cardinality(u) \in Good
  <2>1. u \in SUBSET u
    OBVIOUS
  <2>2. Cardinality(u) \in Nat
    BY <1>0, <2>1, Zenon
  <2> HIDE DEF Good
  <2> QED
    BY <1>1, <1>2, <2>2, Induction
<1> QED
  BY <1>3, Zenon

\* The sum over a finite set is any solution at that set.
LEMMA SumBy ==
  ASSUME NEW f, NEW S, IsFiniteSet(S), NEW g, Sums(g, f, S), NEW u \in SUBSET S
  PROVE  SumFunctionOnSet(f, u) = g[u]
<1>1. IsFiniteSet(u)
  BY FS_Subset, Zenon
<1> DEFINE h == CHOOSE a : Sums(a, f, u)
<1>2. Sums(h, f, u)
  BY <1>1, SumsExist, Zenon
<1>3. SumFunctionOnSet(f, u) = h[u]
  BY SumIs, Zenon
<1> HIDE DEF h
<1>4. u \in SUBSET (u \cap S)
  OBVIOUS
<1>5. h[u] = g[u]
  BY <1>1, <1>2, <1>4, SumsAgree
<1> QED
  BY <1>3, <1>5

\* Taking one element out of a sum: the order in which a sum is formed does not matter.
LEMMA SumSplit ==
  ASSUME NEW f, NEW S, IsFiniteSet(S), \A y \in S : f[y] \in Nat
  PROVE  /\ SumFunctionOnSet(f, {}) = 0
         /\ SumFunctionOnSet(f, S) \in Nat
         /\ \A x \in S : SumFunctionOnSet(f, S) = f[x] + SumFunctionOnSet(f, S \ {x})
<1> DEFINE g == CHOOSE h : Sums(h, f, S)
           Splits(s) == g[s] \in Nat /\ \A x \in s : g[s] = f[x] + g[s \ {x}]
           Good == {n \in Nat : \A s \in SUBSET S : Cardinality(s) <= n => Splits(s)}
<1>0. Sums(g, f, S)
  BY SumsExist, Zenon
<1> HIDE DEF g
<1>a. \A s \in SUBSET S : IsFiniteSet(s) /\ Cardinality(s) \in Nat
  BY FS_Subset, FS_CardinalityType, Zenon
<1>1. 0 \in Good
  <2> SUFFICES ASSUME NEW s \in SUBSET S, Cardinality(s) <= 0 PROVE Splits(s)
    OBVIOUS
  <2>0. Cardinality(s) = 0
    BY <1>a
  <2>1. s = {}
    BY <1>a, <2>0, FS_EmptySet, Zenon
  <2>2. g[s] = 0
    BY <1>0, <2>1, SumsAt, Zenon
  <2> QED
    BY <2>1, <2>2
<1>2. ASSUME NEW n \in Nat, n \in Good PROVE n + 1 \in Good
  <2> SUFFICES ASSUME NEW s \in SUBSET S, Cardinality(s) = n + 1 PROVE Splits(s)
    <3>1. \A s \in SUBSET S : Cardinality(s) <= n + 1 => Cardinality(s) <= n \/ Cardinality(s) = n + 1
      BY <1>a
    <3>2. \A s \in SUBSET S : Cardinality(s) <= n => Splits(s)
      BY <1>2, Zenon
    <3> HIDE DEF Splits
    <3> QED
      BY <3>1, <3>2
  <2> DEFINE c == Pick(s)
  <2>1. s # {}
    BY FS_EmptySet
  <2>2. c \in s /\ g[s] = f[c] + g[s \ {c}]
    BY <1>0, <2>1, SumsAt
  <2> HIDE DEF c
  <2>3. \A x \in s : s \ {x} \in SUBSET S /\ Cardinality(s \ {x}) = n
    BY <1>a, OneFewer, Zenon
  <2>4. \A x \in s : Splits(s \ {x})
    <3>1. \A x \in s : s \ {x} \in SUBSET S /\ Cardinality(s \ {x}) <= n
      BY <2>3
    <3> QED
      BY <1>2, <3>1, Zenon
  <2>5. f[c] \in Nat /\ g[s \ {c}] \in Nat
    BY <2>2, <2>4
  <2>6. ASSUME NEW x \in s PROVE g[s] = f[x] + g[s \ {x}]
    <3>1. CASE x = c
      BY <2>2, <3>1, Zenon
    <3>2. CASE x # c
      <4>1. x \in s \ {c} /\ c \in s \ {x} /\ (s \ {c}) \ {x} = (s \ {x}) \ {c}
        BY <2>2, <3>2
      <4>2. g[s \ {c}] = f[x] + g[(s \ {c}) \ {x}]
        BY <2>2, <2>4, <4>1, Zenon
      <4>3. g[s \ {x}] = f[c] + g[(s \ {c}) \ {x}]
        BY <2>4, <4>1, Zenon
      <4>4. f[x] \in Nat
        OBVIOUS
      <4>5. g[(s \ {c}) \ {x}] \in Nat
        <5>1. (s \ {c}) \ {x} \in SUBSET (s \ {c}) /\ s \ {c} \in SUBSET S
          OBVIOUS
        <5>2. Cardinality((s \ {c}) \ {x}) <= Cardinality(s \ {c})
          BY <1>a, <5>1, FS_Subset, Zenon
        <5>3. (s \ {c}) \ {x} \in SUBSET S /\ Cardinality((s \ {c}) \ {x}) <= n
          BY <2>2, <2>3, <5>1, <5>2
        <5> QED
          BY <1>2, <5>3, Zenon
      <4> QED
        BY <2>2, <2>5, <4>2, <4>3, <4>4, <4>5
    <3> QED
      BY <3>1, <3>2
  <2>7. g[s] \in Nat
    BY <2>2, <2>5
  <2> QED
    BY <2>6, <2>7
<1>3. \A s \in SUBSET S : Splits(s)
  <2> HIDE DEF Good
  <2>1. Nat \subseteq Good
    BY <1>1, <1>2, Induction
  <2>2. \A s \in SUBSET S : Cardinality(s) \in Good /\ Cardinality(s) <= Cardinality(s)
    BY <1>a, <2>1
  <2> QED
    BY <2>2, Zenon DEF Good
<1>4. \A u \in SUBSET S : SumFunctionOnSet(f, u) = g[u]
  BY <1>0, SumBy
<1>5. g[{}] = 0
  BY <1>0, SumsAt, Zenon
<1> QED
  BY <1>3, <1>4, <1>5, Zenon

\* A sum of less over less is less.
LEMMA SumLess ==
  ASSUME NEW f, NEW g, NEW T, IsFiniteSet(T), NEW S \in SUBSET T,
         \A x \in T : g[x] \in Nat,
         \A x \in S : f[x] \in Nat /\ f[x] <= g[x]
  PROVE  SumFunctionOnSet(f, S) <= SumFunctionOnSet(g, T)
<1> DEFINE F(U) == SumFunctionOnSet(f, U \cap S)
           G(U) == SumFunctionOnSet(g, U)
           Good == {n \in Nat : \A U \in SUBSET T : Cardinality(U) = n => F(U) <= G(U)}
<1>0. \A U \in SUBSET T : /\ IsFiniteSet(U) /\ Cardinality(U) \in Nat
                          /\ IsFiniteSet(U \cap S)
  BY FS_Subset, FS_CardinalityType, Zenon
<1>a. \A U \in SUBSET T : \A y \in U \cap S : f[y] \in Nat
  OBVIOUS
<1>b. \A U \in SUBSET T : \A y \in U : g[y] \in Nat
  OBVIOUS
<1>c. \A U \in SUBSET T :
        /\ F(U) \in Nat
        /\ \A x \in U \cap S : F(U) = f[x] + SumFunctionOnSet(f, (U \cap S) \ {x})
  BY <1>0, <1>a, SumSplit, Zenon
<1>d. \A U \in SUBSET T : G(U) \in Nat /\ \A x \in U : G(U) = g[x] + G(U \ {x})
  BY <1>0, <1>b, SumSplit, Zenon
<1>e. ASSUME NEW U \in SUBSET T, NEW x \in U
      PROVE  F(U) = IF x \in S THEN f[x] + F(U \ {x}) ELSE F(U \ {x})
  <2>1. CASE x \in S
    <3>1. x \in U \cap S /\ (U \cap S) \ {x} = (U \ {x}) \cap S
      BY <2>1
    <3>2. F(U) = f[x] + SumFunctionOnSet(f, (U \cap S) \ {x})
      BY <1>c, <3>1, Zenon
    <3> QED
      BY <2>1, <3>1, <3>2, Zenon
  <2>2. CASE x \notin S
    <3>1. U \cap S = (U \ {x}) \cap S
      BY <2>2
    <3> QED
      BY <2>2, <3>1, Zenon
  <2> QED
    BY <2>1, <2>2
<1>1. 0 \in Good
  <2> SUFFICES ASSUME NEW U \in SUBSET T, Cardinality(U) = 0 PROVE F(U) <= G(U)
    OBVIOUS
  <2>1. U = {} /\ U \cap S = {}
    <3>1. U = {}
      BY <1>0, FS_EmptySet, Zenon
    <3> QED
      BY <3>1
  <2>2. SumFunctionOnSet(f, U) = 0 /\ SumFunctionOnSet(g, U) = 0
    BY <1>0, <2>1, SumSplit, FS_EmptySet, Zenon
  <2> QED
    BY <2>1, <2>2
<1>2. ASSUME NEW n \in Nat, n \in Good PROVE n + 1 \in Good
  <2> SUFFICES ASSUME NEW U \in SUBSET T, Cardinality(U) = n + 1 PROVE F(U) <= G(U)
    OBVIOUS
  <2>1. PICK x \in U : TRUE
    BY FS_EmptySet
  <2>2. U \ {x} \in SUBSET T
    OBVIOUS
  <2>3. Cardinality(U \ {x}) = n
    BY <1>0, OneFewer, Zenon
  <2>4. F(U \ {x}) <= G(U \ {x})
    BY <1>2, <2>2, <2>3, Zenon
  <2>5. F(U \ {x}) \in Nat /\ G(U \ {x}) \in Nat /\ G(U) = g[x] + G(U \ {x})
    BY <1>c, <1>d, <2>2, Zenon
  <2>6. F(U) = IF x \in S THEN f[x] + F(U \ {x}) ELSE F(U \ {x})
    BY <1>e, Zenon
  <2>7. g[x] \in Nat /\ (x \in S => f[x] \in Nat /\ f[x] <= g[x])
    OBVIOUS
  <2> HIDE DEF F, G
  <2> QED
    BY <2>4, <2>5, <2>6, <2>7
<1>3. F(T) <= G(T)
  <2>1. T \in SUBSET T /\ Cardinality(T) \in Nat
    BY <1>0
  <2> HIDE DEF Good
  <2>2. Cardinality(T) \in Good
    BY <1>1, <1>2, <2>1, Induction
  <2> HIDE DEF F, G
  <2> QED
    BY <2>1, <2>2, Zenon DEF Good
<1>4. T \cap S = S
  OBVIOUS
<1> QED
  BY <1>3, <1>4, Zenon

(***************************************************************************)
(* The inductive invariant                                                 *)
(***************************************************************************)

\* The bound of a term in the query is not clamped.
NoClamp == \A t \in Cursors : \A i \in List(t) : postings[t][i] * query[t] <= I32_MAX

\* The heap holds items the cursors have left behind.
Onward == \A f \in heap : \A t \in Cursors : \A i \in rest[t] : f[1] < i

\* The threshold of a full heap is the least score it holds.
Full == k # 0 /\ Cardinality(heap) = k
Brim ==
  /\ Full => (\A f \in heap : threshold <= f[2]) /\ (\E f \in heap : f[2] = threshold)
  /\ ~Full => threshold = 0

\* An entry that cannot enter the heap any more.
Beaten(e) == Cardinality(heap) = k /\ \A f \in heap : Weaker(e, f)

\* What the heap holds are matches with their true scores, and what a cursor passed is
\* beaten; at the end everything is.
Exact ==
  /\ heap \subseteq Matches
  /\ \A e \in Positive(Matches) \ heap : Passed(e[1]) \/ phase = "done" => Beaten(e)

IInv ==
  /\ TypeOK /\ IsFiniteSet(heap)
  /\ NoClamp /\ Onward /\ Brim /\ ReportedIsReal
  /\ ExactWhereItIs => Exact

(***************************************************************************)
(* Lists, cursors and bounds                                               *)
(***************************************************************************)

\* The query's cursors run over finite lists of quantised impacts.
LEMMA Inputs ==
  ASSUME TypeOK
  PROVE  /\ k \in Nat /\ algorithm \in {"Wand", "BlockMaxWand"}
         /\ Cursors \subseteq Terms /\ Cursors \subseteq Nat /\ IsFiniteSet(Cursors)
         /\ Items \subseteq Nat /\ IsFiniteSet(Items)
         /\ \A t \in Cursors :
              /\ query[t] \in Nat
              /\ List(t) \subseteq Items /\ List(t) # {} /\ IsFiniteSet(List(t))
              /\ \A i \in List(t) : postings[t][i] \in Nat
              /\ rest[t] \subseteq List(t)
<1>1. PICK r \in Requests : query = r.query /\ k = r.k /\ algorithm = r.algorithm
  BY DEF TypeOK
<1>2. /\ k \in Nat /\ algorithm \in {"Wand", "BlockMaxWand"}
      /\ DOMAIN query \subseteq Terms /\ \A t \in DOMAIN query : query[t] \in Nat
  BY <1>1, SetsAssumption DEF Quantised
<1>3. Cursors \subseteq Terms /\ Cursors \subseteq Nat /\ IsFiniteSet(Cursors)
  <2>1. Cursors \subseteq Terms
    BY <1>2 DEF Cursors
  <2> QED
    BY <2>1, SetsAssumption, FS_Subset
<1>4. ASSUME NEW t \in Cursors
      PROVE  /\ List(t) \subseteq Items /\ List(t) # {}
             /\ \A i \in List(t) : postings[t][i] \in Nat
             /\ rest[t] \subseteq List(t) /\ query[t] \in Nat
  BY <1>2, <1>3 DEF TypeOK, Cursors, List, Quantised
<1>5. Items \subseteq Nat /\ IsFiniteSet(Items)
  BY SetsAssumption
<1>6. \A t \in Cursors : IsFiniteSet(List(t))
  BY <1>4, <1>5, FS_Subset
<1> QED
  BY <1>2, <1>3, <1>4, <1>5, <1>6

\* A cursor stands on the smallest posting it has not passed.
LEMMA Stands ==
  ASSUME TypeOK, NEW t \in Live
  PROVE  /\ t \in Cursors /\ t \in Nat
         /\ CurrentId(t) \in rest[t] /\ CurrentId(t) \in Nat
         /\ \A i \in rest[t] : i \in Nat /\ CurrentId(t) <= i
<1>1. t \in Cursors /\ rest[t] # {} /\ rest[t] \subseteq Nat /\ t \in Nat
  BY Inputs DEF Live
<1> QED
  BY <1>1, Least DEF CurrentId

\* The loop's sort is a total order of the cursors that are left.
LEMMA Sorted ==
  ASSUME TypeOK
  PROVE  /\ \A s, t \in Live : Before(s, t) \/ Before(t, s)
         /\ \A s, t \in Live : ~Before(s, t) => CurrentId(t) <= CurrentId(s)
         /\ \A s, t \in Live : Before(s, t) => CurrentId(s) <= CurrentId(t)
         /\ \A s, t \in Live : Before(s, t) /\ Before(t, s) => s = t
<1>1. \A t \in Live : t \in Nat /\ CurrentId(t) \in Nat
  BY Stands
<1> QED
  BY <1>1 DEF Before

\* A larger factor makes a larger product.
LEMMA Products ==
  ASSUME NEW x \in Nat, NEW y \in Nat, NEW q \in Nat, x <= y
  PROVE  x * q <= y * q /\ x * q \in Nat /\ y * q \in Nat /\ q * x = x * q
<1>1. PICK d \in Nat : y = x + d
  <2>1. y - x \in Nat /\ y = x + (y - x)
    OBVIOUS
  <2> QED
    BY <2>1
<1>2. y * q = x * q + d * q
  BY <1>1
<1>3. x * q \in Nat /\ d * q \in Nat /\ q * x = x * q
  OBVIOUS
<1> QED
  BY <1>2, <1>3

\* The largest impact of some postings of a list.
LEMMA Impacts ==
  ASSUME TypeOK, NEW t \in Cursors, NEW S \in SUBSET List(t), S # {}
  PROVE  /\ MaxImpact(t, S) \in Nat
         /\ \E j \in S : MaxImpact(t, S) = postings[t][j]
         /\ \A i \in S : postings[t][i] <= MaxImpact(t, S)
<1> DEFINE M == {postings[t][i] : i \in S}
<1>1. M \in SUBSET Int /\ M \subseteq Nat /\ M # {}
  BY Inputs
<1>2. IsFiniteSet(M)
  <2>1. IsFiniteSet(S)
    BY Inputs, FS_Subset
  <2> QED
    BY <2>1, FiniteImage
<1>3. Max(M) \in M /\ \A y \in M : Max(M) >= y
  <2> HIDE DEF M
  <2> QED
    BY <1>1, <1>2, Greatest
<1>4. MaxImpact(t, S) = Max(M)
  BY DEF MaxImpact
<1>5. \A i \in S : postings[t][i] \in M
  OBVIOUS
<1>6. \E j \in S : Max(M) = postings[t][j]
  BY <1>3, Zenon
<1> HIDE DEF M
<1> QED
  BY <1>1, <1>3, <1>4, <1>5, <1>6

\* A term contributes at most its bound.
LEMMA Bounds ==
  ASSUME TypeOK, NoClamp, NEW t \in Cursors
  PROVE  /\ TermUB(t) \in Nat
         /\ TermUB(t) = MaxImpact(t, List(t)) * query[t]
         /\ \A i \in List(t) : /\ query[t] * postings[t][i] \in Nat
                               /\ query[t] * postings[t][i] <= TermUB(t)
<1> DEFINE m == MaxImpact(t, List(t))
<1>1. /\ m \in Nat /\ \E j \in List(t) : m = postings[t][j]
      /\ \A i \in List(t) : postings[t][i] <= m
  BY Inputs, Impacts
<1>2. query[t] \in Nat /\ \A i \in List(t) : postings[t][i] \in Nat
  BY Inputs
<1>3. m * query[t] <= I32_MAX
  BY <1>1 DEF NoClamp
<1> HIDE DEF m
<1>4. m * query[t] \in Nat /\ I32_MAX \in Nat
  BY <1>1, <1>2, BlockAssumption
<1>5. Min({m * query[t], I32_MAX}) = m * query[t]
  <2> DEFINE a == m * query[t]
  <2> HIDE DEF a
  <2>1. a \in Nat /\ I32_MAX \in Nat /\ a <= I32_MAX
    BY <1>3, <1>4 DEF a
  <2>2. /\ Min({a, I32_MAX}) \in {a, I32_MAX}
        /\ \A y \in {a, I32_MAX} : Min({a, I32_MAX}) <= y
    BY <2>1, Least
  <2> QED
    BY <2>1, <2>2 DEF a
<1>6. TermUB(t) = m * query[t]
  BY <1>5 DEF TermUB, m
<1>7. ASSUME NEW i \in List(t)
      PROVE  query[t] * postings[t][i] \in Nat /\ query[t] * postings[t][i] <= m * query[t]
  BY <1>1, <1>2, Products
<1> QED
  BY <1>4, <1>6, <1>7 DEF m

(***************************************************************************)
(* What the pivot says of items that are passed over                       *)
(***************************************************************************)

\* The last of some cursors in the order of the sort.
LEMMA LastOf ==
  ASSUME TypeOK, NEW S \in SUBSET Live, S # {}
  PROVE  \E q \in S : \A s \in S : Before(s, q)
<1>0. \A s \in S : s \in Cursors /\ s \in Nat /\ CurrentId(s) \in Nat
  BY Stands
<1> DEFINE f == [s \in S |-> CurrentId(s)]
           M == {f[s] : s \in S}
           m == Max(M)
           Q == {s \in S : f[s] = m}
           q == Max(Q)
<1>1. IsFiniteSet(S)
  <2>1. S \in SUBSET Cursors
    BY <1>0
  <2> QED
    BY <2>1, Inputs, FS_Subset
<1>2. M \in SUBSET Int /\ M # {} /\ IsFiniteSet(M)
  <2>1. IsFiniteSet(M)
    <3> HIDE DEF f
    <3> QED
      BY <1>1, FiniteImage
  <2> QED
    BY <1>0, <2>1
<1>3. m \in M /\ \A y \in M : m >= y
  <2> HIDE DEF M
  <2> QED
    BY <1>2, Greatest
<1> HIDE DEF m
<1>4. Q \in SUBSET Int /\ Q # {} /\ IsFiniteSet(Q)
  <2>1. IsFiniteSet(Q)
    BY <1>1, FS_Subset
  <2> QED
    BY <1>0, <1>3, <2>1
<1>5. q \in Q /\ \A y \in Q : q >= y
  <2> HIDE DEF Q
  <2> QED
    BY <1>4, Greatest
<1> HIDE DEF q
<1>6. ASSUME NEW s \in S PROVE Before(s, q)
  <2>1. /\ CurrentId(s) \in Nat /\ CurrentId(q) = m /\ m >= CurrentId(s)
        /\ CurrentId(s) = m => s <= q
    BY <1>0, <1>3, <1>5
  <2>2. m \in Nat
    BY <1>0, <1>5, <2>1
  <2> QED
    BY <2>1, <2>2 DEF Before
<1> QED
  BY <1>5, <1>6

\* The first of some cursors in the order of the sort.
LEMMA FirstOf ==
  ASSUME TypeOK, NEW S \in SUBSET Live, S # {}
  PROVE  \E q \in S : \A s \in S : Before(q, s)
<1>0. \A s \in S : s \in Nat /\ CurrentId(s) \in Nat
  BY Stands
<1> DEFINE M == {CurrentId(s) : s \in S}
           m == Min(M)
           Q == {s \in S : CurrentId(s) = m}
           q == Min(Q)
<1>1. m \in M /\ \A y \in M : m <= y
  <2>1. M \in SUBSET Nat /\ M # {}
    BY <1>0
  <2> HIDE DEF M
  <2> QED
    BY <2>1, Least
<1> HIDE DEF m
<1>2. q \in Q /\ \A y \in Q : q <= y
  <2>1. Q \in SUBSET Nat /\ Q # {}
    BY <1>0, <1>1
  <2> HIDE DEF Q
  <2> QED
    BY <2>1, Least
<1> HIDE DEF q
<1>3. ASSUME NEW s \in S PROVE Before(q, s)
  <2>1. /\ CurrentId(s) \in Nat /\ CurrentId(q) = m /\ m <= CurrentId(s)
        /\ CurrentId(s) = m => q <= s
    BY <1>0, <1>1, <1>2
  <2>2. m \in Nat
    BY <1>0, <1>2, <2>1
  <2> QED
    BY <2>1, <2>2 DEF Before
<1> QED
  BY <1>2, <1>3

\* An item no cursor has passed, and at whose cursors the bounds do not add up to more than
\* the threshold, does not score more either.
LEMMA PrunedScore ==
  ASSUME TypeOK, NoClamp, NEW i, ~Passed(i),
         NEW u \in Cursors, i \in List(u),
         \A t \in Live : CurrentId(t) <= i => ~Exceeds(t)
  PROVE  TrueScore(i) <= threshold
<1> DEFINE S == {t \in Cursors : i \in List(t)}
<1>1. ASSUME NEW t \in S PROVE t \in Live /\ CurrentId(t) <= i
  <2>1. t \in Cursors /\ i \in rest[t]
    BY DEF Passed
  <2>2. t \in Live
    BY <2>1 DEF Live
  <2> QED
    BY <2>1, <2>2, Stands
<1>2. PICK q \in S : \A s \in S : Before(s, q)
  <2>1. S \in SUBSET Live /\ S # {}
    BY <1>1
  <2> HIDE DEF S
  <2> QED
    BY <2>1, LastOf
<1> DEFINE B == {s \in Live : Before(s, q)}
           ub == [s \in Live |-> TermUB(s)]
           co == [t \in S |-> query[t] * postings[t][i]]
<1>3. SumFunctionOnSet(ub, B) <= threshold
  <2>1. q \in Live /\ ~Exceeds(q)
    BY <1>1, <1>2
  <2>2. Exceeds(q) <=> SumFunctionOnSet(ub, B) > threshold
    BY Zenon DEF Exceeds
  <2>3. IsFiniteSet(B)
    <3>1. B \in SUBSET Cursors
      BY DEF Live
    <3> QED
      BY <3>1, Inputs, FS_Subset
  <2>4. \A y \in B : ub[y] \in Nat
    BY Bounds, Stands
  <2> HIDE DEF B, ub
  <2>5. SumFunctionOnSet(ub, B) \in Nat
    BY <2>3, <2>4, SumSplit
  <2> QED
    BY <2>1, <2>2, <2>5 DEF TypeOK
<1>4. SumFunctionOnSet(co, S) <= SumFunctionOnSet(ub, B) /\ SumFunctionOnSet(co, S) \in Nat
      /\ SumFunctionOnSet(ub, B) \in Nat
  <2>1. IsFiniteSet(B) /\ S \in SUBSET B /\ IsFiniteSet(S)
    <3>1. B \in SUBSET Cursors /\ S \in SUBSET Cursors /\ S \in SUBSET B
      BY <1>1, <1>2 DEF Live
    <3> QED
      BY <3>1, Inputs, FS_Subset
  <2>2. \A y \in B : ub[y] \in Nat
    BY Bounds, Stands
  <2>3. \A y \in S : co[y] \in Nat /\ co[y] <= ub[y]
    <3>1. \A y \in S : co[y] = query[y] * postings[y][i] /\ ub[y] = TermUB(y)
      BY <1>1
    <3> QED
      BY <3>1, Bounds
  <2> HIDE DEF B, S, ub, co
  <2> QED
    BY <2>1, <2>2, <2>3, SumLess, SumSplit
<1>5. TrueScore(i) = SumFunctionOnSet(co, S)
  BY Zenon DEF TrueScore, ScoreOf
<1> HIDE DEF co, ub, S, B
<1> QED
  BY <1>3, <1>4, <1>5 DEF TypeOK

\* A part of the cursors on an item scores at most what all of them score.
LEMMA Scores ==
  ASSUME TypeOK, NEW i, NEW S \in SUBSET {t \in Cursors : i \in List(t)}
  PROVE  /\ ScoreOf(i, S) \in Nat /\ TrueScore(i) \in Nat
         /\ ScoreOf(i, S) <= TrueScore(i)
<1> DEFINE T == {t \in Cursors : i \in List(t)}
           f == [t \in S |-> query[t] * postings[t][i]]
           g == [t \in T |-> query[t] * postings[t][i]]
<1>1. IsFiniteSet(T) /\ IsFiniteSet(S) /\ S \in SUBSET T
  BY Inputs, FS_Subset
<1>2. /\ \A t \in T : g[t] \in Nat
      /\ \A t \in S : f[t] \in Nat /\ f[t] <= g[t]
  <2>1. \A t \in T : query[t] * postings[t][i] \in Nat
    <3>1. \A t \in T : query[t] \in Nat /\ postings[t][i] \in Nat
      BY Inputs
    <3> QED
      BY <3>1
  <2>2. \A t \in S : f[t] = g[t] /\ g[t] = query[t] * postings[t][i]
    BY <1>1
  <2>3. \A t \in T : g[t] = query[t] * postings[t][i]
    OBVIOUS
  <2> HIDE DEF f, g, T
  <2> QED
    BY <1>1, <2>1, <2>2, <2>3
<1>3. ScoreOf(i, S) = SumFunctionOnSet(f, S) /\ TrueScore(i) = SumFunctionOnSet(g, T)
  BY Zenon DEF ScoreOf, TrueScore
<1> HIDE DEF f, g, T
<1> QED
  BY <1>1, <1>2, <1>3, SumLess, SumSplit

(***************************************************************************)
(* The heap                                                                *)
(***************************************************************************)

\* Entries are ordered strictly and totally.
LEMMA WeakerOrders ==
  ASSUME NEW a \in Nat \X Nat, NEW b \in Nat \X Nat, NEW c \in Nat \X Nat
  PROVE  /\ ~Weaker(a, a)
         /\ a # b => Weaker(a, b) \/ Weaker(b, a)
         /\ Weaker(a, b) => ~Weaker(b, a)
         /\ Weaker(a, b) /\ Weaker(b, c) => Weaker(a, c)
<1>1. /\ a = <<a[1], a[2]>> /\ a[1] \in Nat /\ a[2] \in Nat
      /\ b = <<b[1], b[2]>> /\ b[1] \in Nat /\ b[2] \in Nat
      /\ c = <<c[1], c[2]>> /\ c[1] \in Nat /\ c[2] \in Nat
  OBVIOUS
<1>2. a # b => a[1] # b[1] \/ a[2] # b[2]
  BY <1>1
<1> QED
  BY <1>1, <1>2 DEF Weaker

\* The root of a heap that is not empty is its weakest entry.
LEMMA Weakest ==
  ASSUME NEW S \in SUBSET (Nat \X Nat), IsFiniteSet(S), S # {}
  PROVE  Root(S) \in S /\ \A f \in S \ {Root(S)} : Weaker(Root(S), f)
<1> DEFINE Has(T) == \E e \in T : \A f \in T \ {e} : Weaker(e, f)
           Good == {n \in Nat : \A T \in SUBSET (Nat \X Nat) :
                      IsFiniteSet(T) /\ T # {} /\ Cardinality(T) = n => Has(T)}
<1>1. 0 \in Good
  BY FS_EmptySet
<1>2. ASSUME NEW n \in Nat, n \in Good PROVE n + 1 \in Good
  <2> SUFFICES ASSUME NEW T \in SUBSET (Nat \X Nat), IsFiniteSet(T), T # {}, Cardinality(T) = n + 1
               PROVE  Has(T)
    OBVIOUS
  <2>1. PICK x \in T : TRUE
    OBVIOUS
  <2>2. IsFiniteSet(T \ {x}) /\ Cardinality(T \ {x}) = n
    BY OneFewer
  <2>3. CASE T \ {x} = {}
    BY <2>3
  <2>4. CASE T \ {x} # {}
    <3>1. PICK e \in T \ {x} : \A f \in (T \ {x}) \ {e} : Weaker(e, f)
      BY <1>2, <2>2, <2>4
    <3>2. Weaker(e, x) \/ Weaker(x, e)
      BY WeakerOrders
    <3>3. CASE Weaker(e, x)
      BY <3>1, <3>3
    <3>4. CASE Weaker(x, e)
      <4>1. ASSUME NEW f \in T \ {x} PROVE Weaker(x, f)
        <5>1. CASE f = e
          BY <3>4, <5>1
        <5>2. CASE f # e
          BY <3>1, <3>4, <5>2, WeakerOrders
        <5> QED
          BY <5>1, <5>2
      <4> QED
        BY <4>1
    <3> QED
      BY <3>2, <3>3, <3>4
  <2> QED
    BY <2>3, <2>4
<1>3. Has(S)
  <2>1. Cardinality(S) \in Nat
    BY FS_CardinalityType
  <2> HIDE DEF Good
  <2>2. Cardinality(S) \in Good
    BY <1>1, <1>2, <2>1, Induction
  <2> HIDE DEF Has
  <2> QED
    BY <2>2 DEF Good
<1> QED
  BY <1>3 DEF Root

(***************************************************************************)
(* The steps of the loop                                                   *)
(***************************************************************************)

\* A step leaves the index, the query and what is derived from them.
LEMMA SameIndex ==
  ASSUME UNCHANGED input
  PROVE  /\ Cursors' = Cursors /\ \A t : List(t)' = List(t)
         /\ Matches' = Matches /\ \A i : TrueScore(i)' = TrueScore(i)
         /\ ExactWhereItIs' = ExactWhereItIs /\ NoClamp' = NoClamp
         /\ \A S : Positive(S)' = Positive(S)
         /\ \A e, f : Weaker(e, f)' = Weaker(e, f)
         /\ k' = k
<1>1. postings' = postings /\ query' = query /\ k' = k /\ algorithm' = algorithm
  BY DEF input
<1>2. (\A t : List(t)' = List(t)) /\ Cursors' = Cursors
  BY <1>1, Zenon DEF List, Cursors
<1>3. \A i : TrueScore(i)' = TrueScore(i)
  BY <1>1, <1>2, Zenon DEF TrueScore, ScoreOf, List, Cursors
<1>4. Matches' = Matches
  <2>1. (UNION {List(t) : t \in Cursors})' = UNION {List(t) : t \in Cursors}
    BY <1>2
  <2> QED
    BY <1>3, <2>1 DEF Matches
<1>5. ExactWhereItIs' = ExactWhereItIs /\ NoClamp' = NoClamp
  BY <1>1, <1>2, Zenon DEF ExactWhereItIs, NoClamp, List, Cursors
<1> QED
  BY <1>1, <1>2, <1>3, <1>4, <1>5 DEF Positive, Weaker

\* The matches are the items of the query's lists with their scores.
LEMMA MatchesAre ==
  ASSUME TypeOK, NEW e \in Matches
  PROVE  /\ e \in Nat \X Nat /\ e = <<e[1], TrueScore(e[1])>> /\ e[2] = TrueScore(e[1])
         /\ e[1] \in Items /\ \E t \in Cursors : e[1] \in List(t)
<1>1. PICK i \in UNION {List(t) : t \in Cursors} : e = <<i, TrueScore(i)>>
  BY Zenon DEF Matches
<1>2. PICK t \in Cursors : i \in List(t)
  BY <1>1
<1>3. i \in Items /\ i \in Nat
  BY <1>2, Inputs
<1>4. TrueScore(i) \in Nat
  BY Scores
<1> QED
  BY <1>1, <1>2, <1>3, <1>4

\* Moving one cursor forward is safe when what it passes cannot beat the threshold.
LEMMA SeekKeeps ==
  ASSUME IInv, phase = "run", UNCHANGED <<input, heap, threshold, phase>>,
         NEW t \in Cursors, NEW x, rest' = Seek(t, x),
         ExactWhereItIs =>
           \A i \in rest[t] : ~(i >= x) /\ ~Passed(i) => TrueScore(i) <= threshold
  PROVE  IInv'
<1>0. TypeOK /\ UNCHANGED input
  BY DEF IInv, input
<1>1. /\ Cursors' = Cursors /\ \A s : List(s)' = List(s)
      /\ Matches' = Matches /\ \A i : TrueScore(i)' = TrueScore(i)
      /\ ExactWhereItIs' = ExactWhereItIs /\ NoClamp' = NoClamp
      /\ k' = k
  BY <1>0, SameIndex
<1>2. /\ \A s \in Cursors : rest'[s] = IF s = t THEN {i \in rest[t] : i >= x} ELSE rest[s]
      /\ \A s \in Terms : rest'[s] \subseteq rest[s]
      /\ rest' \in [Terms -> SUBSET Items]
  <2>1. rest \in [Terms -> SUBSET Items] /\ Cursors \subseteq Terms
    BY <1>0, Inputs DEF TypeOK
  <2> QED
    BY <2>1 DEF Seek
<1>3. TypeOK' /\ IsFiniteSet(heap)'
  <2>1. postings' = postings /\ query' = query /\ algorithm' = algorithm
    BY DEF input
  <2>2. \A s \in Terms : (rest[s] \subseteq List(s))'
    BY <1>0, <1>1, <1>2 DEF TypeOK
  <2> QED
    BY <1>0, <1>1, <1>2, <2>1, <2>2 DEF TypeOK, IInv, List
<1>4. NoClamp' /\ Brim' /\ ReportedIsReal'
  BY <1>1 DEF IInv, Brim, Full, ReportedIsReal
<1>5. Onward'
  <2>1. Cursors \subseteq Terms
    BY <1>0, Inputs
  <2> QED
    BY <1>1, <1>2, <2>1 DEF IInv, Onward
<1>6. ASSUME ExactWhereItIs PROVE Exact'
  <2>1. heap' \subseteq Matches'
    BY <1>1, <1>6 DEF IInv, Exact
  <2>2. ASSUME NEW e \in Positive(Matches) \ heap, Passed(e[1])' PROVE Beaten(e)
    <3>1. CASE Passed(e[1])
      BY <1>6, <3>1 DEF IInv, Exact
    <3>2. CASE ~Passed(e[1])
      <4>1. e \in Matches /\ e[2] > 0
        BY DEF Positive
      <4>2. PICK s \in Cursors : e[1] \in List(s) \ rest'[s]
        BY <1>1, <2>2 DEF Passed
      <4>3. e[1] \in rest[s]
        BY <3>2, <4>2 DEF Passed
      <4>4. s = t /\ ~(e[1] >= x)
        BY <1>2, <4>2, <4>3
      <4>5. e[2] = TrueScore(e[1]) /\ e[2] \in Nat /\ e[1] \in Nat
        BY <1>0, <4>1, MatchesAre
      <4>6. e[2] <= threshold
        BY <1>6, <3>2, <4>3, <4>4, <4>5
      <4>7. Full
        BY <4>1, <4>5, <4>6 DEF IInv, Brim
      <4>8. ASSUME NEW f \in heap PROVE Weaker(e, f)
        <5>1. f[1] < e[1] /\ threshold <= f[2]
          BY <4>3, <4>7 DEF IInv, Onward, Brim
        <5>2. f[1] \in Nat /\ f[2] \in Nat /\ threshold \in Nat
          BY <1>0, SetsAssumption DEF TypeOK
        <5> QED
          BY <4>5, <4>6, <5>1, <5>2 DEF Weaker
      <4> QED
        BY <4>7, <4>8 DEF Beaten, Full
    <3> QED
      BY <3>1, <3>2
  <2>3. \A e : Beaten(e)' = Beaten(e)
    BY <1>1 DEF Beaten, Weaker
  <2>4. \A S : Positive(S)' = Positive(S)
    BY DEF Positive
  <2> QED
    BY <1>1, <2>1, <2>2, <2>3, <2>4 DEF Exact, Positive
<1> QED
  BY <1>1, <1>3, <1>4, <1>5, <1>6 DEF IInv

\* An item before the pivot that no cursor has passed cannot beat the threshold.
LEMMA BelowPivot ==
  ASSUME TypeOK, NoClamp, NEW p \in Live, IsPivot(p), NEW u \in Cursors, NEW i \in rest[u],
         ~(i >= CurrentId(p)), ~Passed(i)
  PROVE  TrueScore(i) <= threshold
<1>1. i \in List(u) /\ i \in Nat
  BY Inputs
<1>2. ASSUME NEW t \in Live, CurrentId(t) <= i PROVE ~Exceeds(t)
  <2>1. CurrentId(t) \in Nat /\ CurrentId(p) \in Nat
    BY Stands
  <2>2. ~(CurrentId(p) <= CurrentId(t))
    BY <1>1, <1>2, <2>1
  <2>3. ~Before(p, t)
    BY <2>2, Sorted
  <2> QED
    BY <2>3 DEF IsPivot
<1> QED
  BY <1>1, <1>2, PrunedScore

\* The cursor that choose_advance takes.
LEMMA Advances ==
  ASSUME TypeOK, NEW p \in Live
  PROVE  /\ ChooseAdvance(p) \in Live
         /\ Behind(p) # {} => ChooseAdvance(p) \in Behind(p)
         /\ Behind(p) = {} => \A t \in Live : Before(ChooseAdvance(p), t)
<1>1. ASSUME Behind(p) # {} PROVE ChooseAdvance(p) \in Behind(p)
  <2>1. Behind(p) \in SUBSET Nat
    BY Stands DEF Behind
  <2>2. Min(Behind(p)) \in Behind(p)
    BY <1>1, <2>1, Least
  <2> QED
    BY <1>1, <2>2 DEF ChooseAdvance
<1>2. ASSUME Behind(p) = {}
      PROVE  ChooseAdvance(p) \in Live /\ \A t \in Live : Before(ChooseAdvance(p), t)
  <2>4. \E s \in Live : \A t \in Live : Before(s, t)
    BY FirstOf
  <2>5. First \in Live /\ \A t \in Live : Before(First, t)
    BY <2>4 DEF First
  <2> QED
    BY <1>2, <2>5 DEF ChooseAdvance
<1> QED
  BY <1>1, <1>2 DEF Behind

\* Seeking to the pivot loses nothing.
LEMMA SeekToPivotKeeps ==
  ASSUME IInv, NEW p \in Terms, SeekToPivot(p)
  PROVE  IInv'
<1>0. TypeOK /\ NoClamp /\ p \in Live /\ IsPivot(p) /\ Behind(p) # {} /\ phase = "run"
  BY DEF IInv, SeekToPivot, IsPivot
<1> DEFINE t == ChooseAdvance(p)
           x == CurrentId(p)
<1>1. t \in Cursors
  BY <1>0, Advances DEF Live
<1>2. rest' = Seek(t, x) /\ UNCHANGED <<input, heap, threshold, phase>>
  BY Zenon DEF SeekToPivot
<1>3. \A i \in rest[t] : ~(i >= x) /\ ~Passed(i) => TrueScore(i) <= threshold
  BY <1>0, <1>1, BelowPivot
<1> HIDE DEF t, x
<1> QED
  BY <1>0, <1>1, <1>2, <1>3, SeekKeeps

\* Returning leaves out nothing: without a pivot no item left can beat the threshold.
LEMMA ReturnKeeps ==
  ASSUME IInv, Return
  PROVE  IInv'
<1>0. TypeOK /\ NoClamp /\ UNCHANGED input /\ rest' = rest /\ heap' = heap
      /\ threshold' = threshold /\ phase' = "done"
  BY DEF IInv, Return, input
<1>1. /\ Cursors' = Cursors /\ \A s : List(s)' = List(s)
      /\ Matches' = Matches /\ \A i : TrueScore(i)' = TrueScore(i)
      /\ ExactWhereItIs' = ExactWhereItIs /\ NoClamp' = NoClamp
      /\ k' = k
  BY <1>0, SameIndex
<1>2. TypeOK' /\ IsFiniteSet(heap)'
  <2>1. postings' = postings /\ query' = query /\ algorithm' = algorithm
    BY <1>0 DEF input
  <2> QED
    BY <1>0, <1>1, <2>1 DEF TypeOK, IInv, List
<1>3. NoClamp' /\ Onward' /\ Brim' /\ ReportedIsReal'
  BY <1>0, <1>1 DEF IInv, Onward, Brim, Full, ReportedIsReal
<1>4. ASSUME ExactWhereItIs PROVE Exact'
  <2>1. heap' \subseteq Matches'
    BY <1>0, <1>1, <1>4 DEF IInv, Exact
  <2>2. ASSUME NEW e \in Positive(Matches) \ heap PROVE Beaten(e)
    <3>0. e \in Matches /\ e[2] > 0 /\ e[2] = TrueScore(e[1]) /\ e[2] \in Nat
      BY <1>0, MatchesAre DEF Positive
    <3>1. CASE Passed(e[1])
      BY <1>4, <3>1 DEF IInv, Exact
    <3>2. CASE k = 0
      <4>1. heap = {} /\ Cardinality(heap) = k
        <5>1. IsFiniteSet(heap) /\ Cardinality(heap) <= 0
          BY <1>0, <3>2 DEF IInv, TypeOK
        <5>2. Cardinality(heap) = 0
          BY <5>1, FS_CardinalityType
        <5> QED
          BY <3>2, <5>1, <5>2, FS_EmptySet
      <4> QED
        BY <4>1 DEF Beaten
    <3>3. CASE ~Passed(e[1]) /\ k # 0
      <4>1. \A t \in Live : ~Exceeds(t)
        <5> SUFFICES ASSUME NEW t \in Live, Exceeds(t) PROVE FALSE
          OBVIOUS
        <5>1. \A q \in Live : ~IsPivot(q)
          BY <3>3 DEF Return
        <5> DEFINE X == {s \in Live : Exceeds(s)}
        <5>2. PICK q \in X : \A s \in X : Before(q, s)
          <6>1. X \in SUBSET Live /\ X # {}
            OBVIOUS
          <6> HIDE DEF X
          <6> QED
            BY <1>0, <6>1, FirstOf
        <5> QED
          BY <5>1, <5>2 DEF IsPivot
      <4>2. PICK u \in Cursors : e[1] \in List(u)
        BY <1>0, <3>0, MatchesAre
      <4>3. e[2] <= threshold
        BY <1>0, <3>0, <3>3, <4>1, <4>2, PrunedScore
      <4>4. Full
        BY <3>0, <4>3 DEF IInv, Brim
      <4>5. e[1] \in rest[u]
        BY <3>3, <4>2 DEF Passed
      <4>6. ASSUME NEW f \in heap PROVE Weaker(e, f)
        <5>1. f[1] < e[1] /\ threshold <= f[2]
          BY <4>4, <4>5 DEF IInv, Onward, Brim
        <5>2. f[1] \in Nat /\ f[2] \in Nat /\ threshold \in Nat /\ e[1] \in Nat
          BY <1>0, <3>0, MatchesAre, SetsAssumption DEF TypeOK
        <5> QED
          BY <3>0, <4>3, <5>1, <5>2 DEF Weaker
      <4> QED
        BY <4>4, <4>6 DEF Beaten, Full
    <3> QED
      BY <3>1, <3>2, <3>3
  <2>3. \A e : Beaten(e)' = Beaten(e)
    BY <1>0, <1>1 DEF Beaten, Weaker
  <2> QED
    BY <1>0, <1>1, <2>1, <2>2, <2>3 DEF Exact, Positive
<1> QED
  BY <1>1, <1>2, <1>3, <1>4 DEF IInv

\* What an offer does to the heap: the entry is added while there is room, replaces the
\* weakest when its score is above the threshold, or is refused.
Added(e, h) == Cardinality(heap) < k /\ h = heap \cup {e}
Replaces(e, h) ==
  /\ Full /\ e[2] > threshold
  /\ \E r \in heap : /\ r[2] = threshold /\ \A f \in heap \ {r} : Weaker(r, f)
                     /\ h = (heap \ {r}) \cup {e}
Refused(e, h) == Full /\ ~(e[2] > threshold) /\ h = heap

\* The threshold belongs to a heap h as Brim says.
Fits(h, th) ==
  /\ Cardinality(h) = k => (\A f \in h : th <= f[2]) /\ (\E f \in h : f[2] = th)
  /\ Cardinality(h) # k => th = 0

\* An offer of an item beyond all that the heap holds keeps the heap and its threshold in
\* order; on a tie the heap keeps what it has.
LEMMA Offers ==
  ASSUME IInv, k # 0, NEW item \in Items, NEW score \in Nat,
         \A f \in heap : f[1] < item, Offer(item, score)
  PROVE  LET e == <<item, score>> IN
         /\ Added(e, heap') \/ Replaces(e, heap') \/ Refused(e, heap')
         /\ heap' \in SUBSET (Items \X Nat) /\ IsFiniteSet(heap')
         /\ Cardinality(heap') <= k /\ threshold' \in Nat
         /\ Cardinality(heap) = k => Cardinality(heap') = k
         /\ Fits(heap', threshold')
<1> DEFINE e == <<item, score>>
<1>0. /\ TypeOK /\ k \in Nat /\ threshold \in Nat /\ Items \subseteq Nat
      /\ heap \in SUBSET (Items \X Nat) /\ IsFiniteSet(heap) /\ Cardinality(heap) <= k
      /\ Cardinality(heap) \in Nat /\ e \in Items \X Nat /\ e[1] = item /\ e[2] = score
  <2>1. TypeOK /\ IsFiniteSet(heap)
    BY DEF IInv
  <2> QED
    BY <2>1, Inputs, FS_CardinalityType DEF TypeOK
<1>1. e \notin heap
  <2>1. e \in heap => item < item
    BY <1>0
  <2> QED
    BY <1>0, <2>1
<1>2. ASSUME NEW h \in SUBSET (Items \X Nat), IsFiniteSet(h), h # {}
      PROVE  /\ Root(h) \in h /\ Root(h)[2] \in Nat
             /\ \A f \in h \ {Root(h)} : Weaker(Root(h), f)
             /\ \A f \in h : Root(h)[2] <= f[2]
  <2>1. h \in SUBSET (Nat \X Nat)
    BY <1>0
  <2>2. Root(h) \in h /\ \A f \in h \ {Root(h)} : Weaker(Root(h), f)
    BY <1>2, <2>1, Weakest
  <2>3. \A f \in h : f[2] \in Nat
    BY <2>1
  <2> QED
    BY <2>2, <2>3 DEF Weaker
<1>3. CASE Cardinality(heap) < k
  <2>1. /\ heap' = heap \cup {e}
        /\ threshold' = IF Cardinality(heap) + 1 = k THEN Root(heap')[2] ELSE threshold
    BY <1>3 DEF Offer
  <2>2. IsFiniteSet(heap') /\ Cardinality(heap') = Cardinality(heap) + 1
    BY <1>0, <1>1, <2>1, FS_AddElement
  <2>3. heap' \in SUBSET (Items \X Nat) /\ heap' # {}
    BY <1>0, <2>1
  <2>4. threshold = 0
    BY <1>0, <1>3 DEF IInv, Brim, Full
  <2>5. Added(e, heap')
    BY <1>3, <2>1 DEF Added
  <2>6. threshold' \in Nat /\ Fits(heap', threshold')
    BY <1>0, <1>2, <2>1, <2>2, <2>3, <2>4 DEF Fits
  <2> QED
    BY <1>0, <1>3, <2>2, <2>3, <2>5, <2>6
<1>4. CASE ~(Cardinality(heap) < k)
  <2>0. Full /\ heap # {}
    BY <1>0, <1>4, FS_EmptySet DEF Full
  <2> DEFINE r == Root(heap)
  <2>1. /\ r \in heap /\ r[2] \in Nat /\ \A f \in heap \ {r} : Weaker(r, f)
        /\ \A f \in heap : r[2] <= f[2]
    BY <1>0, <1>2, <2>0
  <2>2. r[2] = threshold
    BY <1>0, <2>0, <2>1 DEF IInv, Brim
  <2> HIDE DEF r
  <2>3. CASE WouldEnter(item, score)
    <3>1. heap' = (heap \ {r}) \cup {e} /\ threshold' = Root(heap')[2]
      BY <1>4, <2>3 DEF Offer, r
    <3>2. score > threshold
      <4>1. ASSUME NEW f \in heap, item < f[1] PROVE FALSE
        <5>1. f[1] \in Nat /\ item \in Nat /\ f[1] < item
          BY <1>0
        <5> QED
          BY <4>1, <5>1
      <4> QED
        BY <2>3, <4>1 DEF WouldEnter
    <3>3. IsFiniteSet(heap \ {r}) /\ Cardinality(heap \ {r}) = Cardinality(heap) - 1
      BY <1>0, <2>1, FS_RemoveElement
    <3>4. IsFiniteSet(heap') /\ Cardinality(heap') = Cardinality(heap)
      <4> DEFINE h == heap \ {r}
      <4>1. e \notin h /\ IsFiniteSet(h) /\ Cardinality(h) = Cardinality(heap) - 1 /\ heap' = h \cup {e}
        BY <1>1, <3>1, <3>3
      <4> HIDE DEF h, e
      <4>2. IsFiniteSet(h \cup {e}) /\ Cardinality(h \cup {e}) = Cardinality(h) + 1
        BY <4>1, FS_AddElement, Zenon
      <4> QED
        BY <1>0, <4>1, <4>2
    <3>5. heap' \in SUBSET (Items \X Nat) /\ heap' # {}
      BY <1>0, <3>1
    <3>6. Replaces(e, heap')
      BY <1>0, <2>0, <2>1, <2>2, <3>1, <3>2 DEF Replaces
    <3>7. Cardinality(heap') = k
      BY <2>0, <3>4 DEF Full
    <3>8. threshold' \in Nat /\ Fits(heap', threshold')
      BY <1>2, <3>1, <3>4, <3>5, <3>7 DEF Fits
    <3> QED
      BY <1>0, <3>4, <3>5, <3>6, <3>7, <3>8
  <2>4. CASE ~WouldEnter(item, score)
    <3>1. heap' = heap /\ threshold' = threshold
      BY <1>4, <2>4 DEF Offer
    <3>2. ~(score > threshold)
      BY <2>4 DEF WouldEnter
    <3>3. Fits(heap', threshold')
      BY <2>0, <3>1 DEF Fits, Full, IInv, Brim
    <3>4. Refused(e, heap')
      BY <1>0, <2>0, <3>1, <3>2 DEF Refused
    <3> QED
      BY <1>0, <2>0, <3>1, <3>3, <3>4
  <2> QED
    BY <2>3, <2>4
<1> QED
  BY <1>3, <1>4

\* Scoring the pivot's item keeps the invariant: the item's score is its true one unless a
\* cursor passed it, and then it is refused.
LEMMA ScoreKeeps ==
  ASSUME IInv, NEW p \in Terms, Score(p)
  PROVE  IInv'
<1> DEFINE item == CurrentId(p)
           here == {t \in Live : CurrentId(t) = item}
           score == ScoreOf(item, here)
           e == <<item, score>>
<1>0. /\ TypeOK /\ NoClamp /\ p \in Live /\ phase = "run" /\ k \in Nat /\ k # 0 /\ Behind(p) = {}
      /\ UNCHANGED input /\ phase' = phase
      /\ Offer(item, score)
      /\ rest' = [t \in Terms |-> IF t \in here THEN rest[t] \ {item} ELSE rest[t]]
  <2>1. TypeOK /\ NoClamp /\ p \in Live /\ phase = "run" /\ k > 0 /\ Behind(p) = {}
        /\ UNCHANGED input /\ phase' = phase
    BY DEF IInv, Score, IsPivot, input
  <2>2. Offer(item, score) /\ rest' = [t \in Terms |-> IF t \in here THEN rest[t] \ {item} ELSE rest[t]]
    BY Zenon DEF Score
  <2> QED
    BY <2>1, <2>2, Inputs
<1>1. /\ Cursors' = Cursors /\ \A s : List(s)' = List(s)
      /\ Matches' = Matches /\ \A i : TrueScore(i)' = TrueScore(i)
      /\ ExactWhereItIs' = ExactWhereItIs /\ NoClamp' = NoClamp
      /\ k' = k
  BY <1>0, SameIndex
<1>2. /\ item \in rest[p] /\ p \in Cursors /\ item \in List(p) /\ item \in Items /\ item \in Nat
      /\ here \in SUBSET {t \in Cursors : item \in List(t)}
  <2>1. \A t \in Live : t \in Cursors /\ CurrentId(t) \in rest[t] /\ rest[t] \subseteq List(t)
    BY <1>0, Stands, Inputs
  <2> QED
    BY <1>0, <2>1, Stands, Inputs
<1>3. score \in Nat /\ TrueScore(item) \in Nat /\ score <= TrueScore(item)
  <2> HIDE DEF here, item
  <2> QED
    BY <1>0, <1>2, Scores
<1>4. \A t \in Cursors : \A i \in rest[t] : i \in Nat /\ item <= i /\ (i = item => t \in here)
  <2> SUFFICES ASSUME NEW t \in Cursors, NEW i \in rest[t]
               PROVE  i \in Nat /\ item <= i /\ (i = item => t \in here)
    OBVIOUS
  <2>1. t \in Live
    BY DEF Live
  <2>2. CurrentId(t) \in Nat /\ i \in Nat /\ CurrentId(t) <= i
    BY <1>0, <2>1, Stands
  <2>3. ~(CurrentId(t) < item)
    BY <1>0, <2>1 DEF Behind
  <2> QED
    BY <1>2, <2>1, <2>2, <2>3
<1>5. \A t \in Terms : rest'[t] = IF t \in here THEN rest[t] \ {item} ELSE rest[t]
  BY <1>0
<1>6. \A f \in heap : f[1] < item
  BY <1>2 DEF IInv, Onward
<1> HIDE DEF here, score
<1>7. ~Passed(item) => score = TrueScore(item)
  <2> SUFFICES ASSUME ~Passed(item) PROVE score = TrueScore(item)
    OBVIOUS
  <2>1. here = {t \in Cursors : item \in List(t)}
    BY <1>2, <1>4 DEF Passed
  <2> QED
    BY <2>1, Zenon DEF score, TrueScore
<1> HIDE DEF item
<1>8. /\ Added(e, heap') \/ Replaces(e, heap') \/ Refused(e, heap')
      /\ heap' \in SUBSET (Items \X Nat) /\ IsFiniteSet(heap')
      /\ Cardinality(heap') <= k /\ threshold' \in Nat
      /\ Cardinality(heap) = k => Cardinality(heap') = k
      /\ Fits(heap', threshold')
  BY <1>0, <1>2, <1>3, <1>6, Offers
<1>9. e[1] = item /\ e[2] = score /\ e \in Nat \X Nat
  BY <1>2, <1>3
<1> HIDE DEF e
<1>10. heap' \subseteq heap \cup {e}
  BY <1>8 DEF Added, Replaces, Refused
<1>11. TypeOK' /\ IsFiniteSet(heap)'
  <2>1. postings' = postings /\ query' = query /\ algorithm' = algorithm
    BY <1>0 DEF input
  <2>2. rest' \in [Terms -> SUBSET Items] /\ \A t \in Terms : rest'[t] \subseteq rest[t]
    BY <1>0, <1>5 DEF TypeOK
  <2>3. \A t \in Terms : (rest[t] \subseteq List(t))'
    BY <1>0, <1>1, <2>2 DEF TypeOK
  <2> QED
    BY <1>0, <1>1, <1>8, <2>1, <2>2, <2>3 DEF TypeOK, List
<1>12. Onward'
  <2> SUFFICES ASSUME NEW f \in heap', NEW t \in Cursors, NEW i \in rest'[t] PROVE f[1] < i
    BY <1>1 DEF Onward
  <2>1. i \in rest[t] /\ i \in Nat /\ item < i
    <3>1. rest'[t] = IF t \in here THEN rest[t] \ {item} ELSE rest[t]
      BY <1>0, <1>5, Inputs
    <3> QED
      BY <1>2, <1>4, <3>1
  <2>2. CASE f \in heap
    BY <2>1, <2>2 DEF IInv, Onward
  <2>3. CASE f = e
    BY <1>9, <2>1, <2>3
  <2> QED
    BY <1>10, <2>2, <2>3
<1>13. NoClamp' /\ Brim'
  BY <1>0, <1>1, <1>8 DEF Brim, Full, Fits
<1>14. ReportedIsReal'
  <2> SUFFICES ASSUME NEW f \in heap'
               PROVE  /\ \E t \in Cursors : f[1] \in List(t)
                      /\ f[2] <= TrueScore(f[1])
                      /\ \A g \in heap' : f[1] = g[1] => f = g
    BY <1>1 DEF ReportedIsReal
  <2>1. CASE f \in heap
    <3>1. f[1] # item
      <4>1. f[1] < item /\ f[1] \in Nat
        BY <1>0, <1>6, <2>1, SetsAssumption DEF TypeOK
      <4> QED
        BY <1>2, <4>1
    <3> QED
      BY <1>9, <1>10, <2>1, <3>1 DEF IInv, ReportedIsReal
  <2>2. CASE f = e
    <3>1. ASSUME NEW g \in heap PROVE g[1] # item
      <4>1. g[1] < item /\ g[1] \in Nat
        BY <1>0, <1>6, SetsAssumption DEF TypeOK
      <4> QED
        BY <1>2, <4>1
    <3> QED
      BY <1>2, <1>3, <1>9, <1>10, <2>2, <3>1
  <2> QED
    BY <1>10, <2>1, <2>2
<1>15. ASSUME ExactWhereItIs PROVE Exact'
  <2>0. heap \subseteq Matches /\ \A d \in Positive(Matches) \ heap : Passed(d[1]) => Beaten(d)
    BY <1>15 DEF IInv, Exact
  <2>1. ASSUME e \in heap', e \notin heap PROVE e \in Matches
    <3> DEFINE d == <<item, TrueScore(item)>>
    <3>1. d \in Matches
      BY <1>2 DEF Matches
    <3>2. CASE score = TrueScore(item)
      BY <3>1, <3>2 DEF e
    <3>3. CASE score # TrueScore(item)
      <4>1. Passed(item) /\ d[2] > 0 /\ d[1] = item /\ d[2] = TrueScore(item)
        BY <1>3, <1>7, <3>3
      <4>2. d \notin heap
        <5>1. d \in heap => item < item
          BY <1>6, <4>1
        <5> QED
          BY <1>2, <5>1
      <4> HIDE DEF d
      <4>3. Beaten(d)
        BY <2>0, <3>1, <4>1, <4>2 DEF Positive
      <4>4. Full
        BY <1>0, <4>3 DEF Beaten, Full
      <4>5. d[2] <= threshold
        <5>1. PICK f \in heap : f[2] = threshold
          BY <4>4 DEF IInv, Brim
        <5>2. Weaker(d, f) /\ threshold \in Nat
          BY <1>0, <4>3 DEF Beaten, TypeOK
        <5> QED
          BY <1>3, <4>1, <5>1, <5>2 DEF Weaker
      <4>6. ~(e[2] > threshold)
        BY <1>0, <1>3, <1>9, <4>1, <4>5 DEF TypeOK
      <4>7. ~(Cardinality(heap) < k)
        BY <1>0, <4>4 DEF Full
      <4> QED
        BY <1>8, <2>1, <4>6, <4>7 DEF Added, Replaces, Refused
    <3> QED
      BY <3>2, <3>3
  <2>2. heap' \subseteq Matches'
    BY <1>1, <1>10, <2>0, <2>1
  <2>3. ASSUME NEW d \in Positive(Matches) \ heap', Passed(d[1])'
        PROVE  Cardinality(heap') = k /\ \A f \in heap' : Weaker(d, f)
    <3>0. d \in Matches /\ d[2] > 0 /\ d \in Nat \X Nat /\ d[2] = TrueScore(d[1])
      BY <1>0, MatchesAre DEF Positive
    <3>a. heap \subseteq Nat \X Nat /\ threshold \in Nat
      BY <1>0, SetsAssumption DEF TypeOK
    <3>1. ASSUME Full, NEW r \in heap, r[2] = threshold, e[2] > threshold PROVE Weaker(r, e)
      BY <3>1, <3>a DEF Weaker
    <3>2. CASE d \in heap
      <4>1. Replaces(e, heap')
        BY <1>8, <3>2 DEF Added, Refused
      <4>2. PICK r \in heap : /\ r[2] = threshold /\ \A f \in heap \ {r} : Weaker(r, f)
                              /\ heap' = (heap \ {r}) \cup {e}
        BY <4>1 DEF Replaces
      <4>3. d = r
        BY <3>2, <4>2
      <4>4. Weaker(r, e)
        BY <3>1, <4>1, <4>2 DEF Replaces
      <4>5. Cardinality(heap') = k
        BY <1>8, <4>1 DEF Replaces, Full
      <4> QED
        BY <4>2, <4>3, <4>4, <4>5
    <3>3. CASE d \notin heap /\ Passed(d[1])
      <4>1. Beaten(d)
        BY <2>0, <3>0, <3>3 DEF Positive
      <4>2. Full /\ Cardinality(heap') = k
        BY <1>0, <1>8, <4>1 DEF Beaten, Full
      <4>3. CASE Refused(e, heap')
        BY <4>1, <4>2, <4>3 DEF Refused, Beaten
      <4>4. CASE Replaces(e, heap')
        <5>1. PICK r \in heap : /\ r[2] = threshold /\ \A f \in heap \ {r} : Weaker(r, f)
                                /\ heap' = (heap \ {r}) \cup {e}
          BY <4>4 DEF Replaces
        <5>2. Weaker(r, e) /\ Weaker(d, r) /\ \A f \in heap : Weaker(d, f)
          BY <3>1, <4>1, <4>2, <4>4, <5>1 DEF Replaces, Beaten
        <5>3. Weaker(d, e)
          BY <1>9, <3>0, <3>a, <5>1, <5>2, WeakerOrders
        <5> QED
          BY <4>2, <5>1, <5>2, <5>3
      <4> QED
        BY <1>0, <1>8, <4>2, <4>3, <4>4 DEF Added, Full
    <3>4. CASE d \notin heap /\ ~Passed(d[1])
      <4>1. PICK t \in Cursors : d[1] \in List(t) \ rest'[t]
        BY <1>1, <2>3 DEF Passed
      <4>2. d[1] \in rest[t]
        BY <3>4, <4>1 DEF Passed
      <4>3. d[1] = item
        BY <1>0, <1>5, <4>1, <4>2, Inputs
      <4>4. d = e
        BY <1>0, <1>7, <3>0, <3>4, <4>3, MatchesAre DEF e
      <4>5. Refused(e, heap')
        BY <1>8, <2>3, <4>4 DEF Added, Replaces
      <4>6. Full /\ heap' = heap /\ ~(score > threshold)
        BY <1>9, <4>5 DEF Refused
      <4>7. ASSUME NEW f \in heap PROVE Weaker(d, f)
        <5>1. f[1] < item /\ threshold <= f[2] /\ f[1] \in Nat /\ f[2] \in Nat
          BY <1>6, <3>a, <4>6 DEF IInv, Brim
        <5> QED
          BY <1>2, <1>3, <1>9, <3>a, <4>4, <4>6, <5>1 DEF Weaker
      <4> QED
        BY <4>6, <4>7 DEF Full
    <3> QED
      BY <3>2, <3>3, <3>4
  <2>4. ASSUME NEW d \in Positive(Matches) \ heap', Passed(d[1])' PROVE Beaten(d)'
    BY <1>1, <2>3, <2>4 DEF Beaten, Weaker
  <2> QED
    BY <1>0, <1>1, <2>2, <2>4 DEF Exact, Positive
<1> QED
  BY <1>1, <1>11, <1>12, <1>13, <1>14, <1>15 DEF IInv

(***************************************************************************)
(* Block-Max WAND's skips                                                  *)
(***************************************************************************)

\* The blocks of a list: its last item ends one, and the block that ends first at or after
\* an item holds every posting from the item to its end.
LEMMA Blocks ==
  ASSUME TypeOK, NEW t \in Cursors
  PROVE  /\ BlockLast(t) \subseteq List(t) /\ List(t) \subseteq Nat
         /\ Max(List(t)) \in BlockLast(t) /\ \A i \in List(t) : i <= Max(List(t))
         /\ \A n \in Nat : Reaches(t, n) =>
              /\ BlockEnd(t, n) \in BlockLast(t) /\ BlockEnd(t, n) >= n
              /\ \A i \in List(t) : n <= i /\ i <= BlockEnd(t, n) => i \in Block(t, BlockEnd(t, n))
<1>1. List(t) \subseteq Nat /\ List(t) # {} /\ IsFiniteSet(List(t)) /\ BlockLast(t) \subseteq List(t)
  BY Inputs DEF BlockLast
<1>2. Max(List(t)) \in List(t) /\ \A i \in List(t) : Max(List(t)) >= i
  <2>1. List(t) \in SUBSET Int
    BY <1>1
  <2> QED
    BY <1>1, <2>1, Greatest
<1>3. Max(List(t)) \in BlockLast(t)
  BY <1>2 DEF BlockLast
<1>4. ASSUME NEW n \in Nat, Reaches(t, n)
      PROVE  /\ BlockEnd(t, n) \in BlockLast(t) /\ BlockEnd(t, n) >= n
             /\ \A i \in List(t) : n <= i /\ i <= BlockEnd(t, n) => i \in Block(t, BlockEnd(t, n))
  <2> DEFINE E == {l \in BlockLast(t) : l >= n}
  <2>1. E \in SUBSET Nat /\ E # {}
    BY <1>1, <1>4 DEF Reaches
  <2>2. Min(E) \in E /\ \A y \in E : Min(E) <= y
    <3> HIDE DEF E
    <3> QED
      BY <2>1, Least
  <2>3. BlockEnd(t, n) = Min(E)
    BY DEF BlockEnd
  <2>4. ASSUME NEW i \in List(t), n <= i, i <= Min(E) PROVE i \in Block(t, Min(E))
    <3>1. ASSUME NEW l \in BlockLast(t), l < Min(E) PROVE l < i
      <4>1. l \in Nat /\ i \in Nat /\ Min(E) \in Nat /\ l \notin E
        BY <1>1, <2>1, <2>2, <3>1
      <4> QED
        BY <2>4, <4>1
    <3> QED
      BY <2>4, <3>1 DEF Block
  <2> QED
    BY <2>2, <2>3, <2>4
<1> QED
  BY <1>1, <1>2, <1>3, <1>4

\* A list that fits in one block: its bound is the block's.
LEMMA OneBlock ==
  ASSUME TypeOK, NoClamp, NEW t \in Cursors, Cardinality(List(t)) <= BLOCK_SIZE,
         NEW n \in Nat, Reaches(t, n)
  PROVE  MaxImpact(t, Block(t, BlockEnd(t, n))) * query[t] = TermUB(t)
<1> DEFINE m == Max(List(t))
<1>1. /\ List(t) \subseteq Nat /\ BlockLast(t) \subseteq List(t) /\ m \in BlockLast(t)
      /\ IsFiniteSet(List(t)) /\ \A i \in List(t) : i <= m
  BY Blocks, Inputs
<1> HIDE DEF m
<1>2. ASSUME NEW l \in BlockLast(t) PROVE l = m
  <2> DEFINE L == {j \in List(t) : j <= l}
  <2> SUFFICES ASSUME Cardinality(L) % BLOCK_SIZE = 0 PROVE l = m
    BY DEF BlockLast, m
  <2>1. IsFiniteSet(L) /\ Cardinality(L) <= Cardinality(List(t))
        /\ (Cardinality(List(t)) = Cardinality(L) => List(t) = L)
    BY <1>1, FS_Subset
  <2>2. l \in L /\ L # {}
    BY <1>1
  <2>3. Cardinality(L) \in Nat /\ Cardinality(L) # 0 /\ Cardinality(List(t)) \in Nat
    BY <1>1, <2>1, <2>2, FS_CardinalityType, FS_EmptySet
  <2>4. Cardinality(L) = Cardinality(List(t))
    <3> DEFINE c == Cardinality(L)
    <3> HIDE DEF c
    <3>1. c \in Nat /\ c # 0 /\ c <= BLOCK_SIZE /\ c % BLOCK_SIZE = 0 /\ BLOCK_SIZE \in Nat
      BY <2>1, <2>3, BlockAssumption DEF c
    <3>2. c = BLOCK_SIZE
      <4>1. CASE c < BLOCK_SIZE
        <5>1. c % BLOCK_SIZE = c
          BY <3>1, <4>1
        <5> QED
          BY <3>1, <5>1
      <4> QED
        BY <3>1, <4>1
    <3> QED
      BY <2>1, <2>3, <3>1, <3>2 DEF c
  <2>5. m \in L
    BY <1>1, <2>1, <2>4
  <2> QED
    BY <1>1, <2>5
<1>3. BlockEnd(t, n) = m
  BY <1>2, Blocks
<1>4. Block(t, m) = List(t)
  <2>1. \A i \in List(t) : i \in Nat /\ i <= m
    BY <1>1
  <2>2. \A l \in BlockLast(t) : ~(l < m)
    <3>1. m \in Nat
      BY <1>1
    <3> QED
      BY <1>2, <3>1
  <2> QED
    BY <2>1, <2>2 DEF Block
<1> QED
  BY <1>3, <1>4, Bounds

\* A cursor reaches its own item.
LEMMA OwnReach ==
  ASSUME TypeOK, NEW t \in Live
  PROVE  Reaches(t, CurrentId(t))
<1>1. t \in Cursors /\ CurrentId(t) \in List(t)
  BY Stands, Inputs
<1>2. Max(List(t)) \in BlockLast(t) /\ CurrentId(t) <= Max(List(t)) /\ Max(List(t)) \in Nat
      /\ CurrentId(t) \in Nat
  BY <1>1, Blocks
<1> QED
  BY <1>2 DEF Reaches

\* What the blocks at the pivot contribute.
BlockBounds(p) ==
  [t \in Live |-> IF Reaches(t, CurrentId(p))
                  THEN MaxImpact(t, Block(t, BlockEnd(t, CurrentId(p)))) * query[t]
                  ELSE 0]
UpTo(p) == {t \in Live : Before(t, p)}

\* Block bounds are numbers, over finitely many cursors.
LEMMA BlockBoundsAre ==
  ASSUME TypeOK, NEW p \in Live
  PROVE  /\ BlockUB(p) = SumFunctionOnSet(BlockBounds(p), UpTo(p))
         /\ IsFiniteSet(UpTo(p)) /\ p \in UpTo(p)
         /\ \A t \in UpTo(p) : BlockBounds(p)[t] \in Nat
         /\ BlockUB(p) \in Nat
<1>1. BlockUB(p) = SumFunctionOnSet(BlockBounds(p), UpTo(p))
  BY Zenon DEF BlockUB, BlockBounds, UpTo
<1>2. IsFiniteSet(UpTo(p))
  <2>1. UpTo(p) \in SUBSET Cursors
    BY DEF UpTo, Live
  <2> QED
    BY <2>1, Inputs, FS_Subset
<1>3. p \in UpTo(p)
  BY Sorted DEF UpTo
<1>4. ASSUME NEW t \in UpTo(p) PROVE BlockBounds(p)[t] \in Nat
  <2> DEFINE n == CurrentId(p)
             B == Block(t, BlockEnd(t, n))
  <2>1. t \in Live /\ t \in Cursors /\ n \in Nat /\ query[t] \in Nat
    BY Stands, Inputs DEF UpTo
  <2>2. BlockBounds(p)[t] = IF Reaches(t, n) THEN MaxImpact(t, B) * query[t] ELSE 0
    BY <2>1 DEF BlockBounds
  <2>3. Reaches(t, n) => MaxImpact(t, B) \in Nat
    <3> SUFFICES ASSUME Reaches(t, n) PROVE MaxImpact(t, B) \in Nat
      OBVIOUS
    <3>1. BlockEnd(t, n) \in List(t) /\ n <= BlockEnd(t, n) /\ BlockEnd(t, n) <= BlockEnd(t, n)
      BY <2>1, Blocks
    <3>2. BlockEnd(t, n) \in B
      BY <2>1, <3>1, Blocks
    <3>3. B \in SUBSET List(t)
      BY DEF Block
    <3> HIDE DEF B
    <3> QED
      BY <2>1, <3>2, <3>3, Impacts
  <2> HIDE DEF B, n
  <2> QED
    BY <2>1, <2>2, <2>3
<1>5. BlockUB(p) \in Nat
  BY <1>1, <1>2, <1>4, SumSplit
<1> QED
  BY <1>1, <1>2, <1>3, <1>4, <1>5

\* With one list a skip passes only postings of the pivot's block.
LEMMA OneListSkips ==
  ASSUME TypeOK, NEW p \in Live, Cardinality(Cursors) <= 1, BlockUB(p) <= threshold
  PROVE  /\ ChooseAdvance(p) = p
         /\ \A i \in rest[p] : ~(i >= NextBlockTarget(p)) => TrueScore(i) <= threshold
<1> DEFINE n == CurrentId(p)
           E == BlockEnd(p, n)
<1>1. Cursors = {p}
  <2>1. p \in Cursors /\ IsFiniteSet(Cursors)
    BY Stands, Inputs
  <2>2. Cardinality(Cursors) = 1
    <3>1. Cardinality(Cursors) \in Nat /\ Cardinality(Cursors) # 0
      BY <2>1, FS_CardinalityType, FS_EmptySet
    <3> QED
      BY <3>1
  <2>3. PICK x : Cursors = {x}
    BY <2>1, <2>2, FS_Singleton
  <2> QED
    BY <2>1, <2>3
<1>2. Live = {p} /\ ChooseAdvance(p) = p
  <2>1. Live = {p}
    BY <1>1 DEF Live
  <2> QED
    BY <2>1, Advances
<1>3. n \in Nat /\ Reaches(p, n) /\ \A i \in rest[p] : n <= i /\ i \in Nat /\ i \in List(p)
  BY <1>1, Stands, OwnReach, Inputs
<1>4. /\ E \in Nat /\ n <= E /\ E \in List(p)
      /\ \A i \in List(p) : n <= i /\ i <= E => i \in Block(p, E)
  BY <1>1, <1>3, Blocks
<1>5. NextBlockTarget(p) = E + 1
  <2> DEFINE R == {s \in Live : Before(s, p) /\ Reaches(s, CurrentId(p))}
             ends == {BlockEnd(t, CurrentId(p)) : t \in R}
  <2>1. R = {p}
    BY <1>2, <1>3, Sorted
  <2>2. ends = {E}
    BY <2>1
  <2>3. NextBlockTarget(p) = (IF ends # {} THEN Min(ends) ELSE CurrentId(p)) + 1
    BY Zenon DEF NextBlockTarget
  <2> HIDE DEF ends, E
  <2>4. Min({E}) = E
    <3>1. {E} \in SUBSET Nat /\ {E} # {}
      BY <1>4
    <3> QED
      BY <3>1, Least
  <2> QED
    BY <2>2, <2>3, <2>4
<1> HIDE DEF n, E
<1>6. ASSUME NEW i \in rest[p], ~(i >= NextBlockTarget(p)) PROVE TrueScore(i) <= threshold
  <2> DEFINE S == {t \in Cursors : i \in List(t)}
             co == [t \in S |-> query[t] * postings[t][i]]
             B == Block(p, E)
  <2>1. S = {p}
    BY <1>1, <1>3
  <2>2. i \in B /\ B \in SUBSET List(p)
    BY <1>3, <1>4, <1>5, <1>6 DEF Block
  <2>3. postings[p][i] \in Nat /\ MaxImpact(p, B) \in Nat /\ query[p] \in Nat
        /\ postings[p][i] <= MaxImpact(p, B)
    <3> HIDE DEF B
    <3> QED
      BY <1>1, <2>2, Inputs, Impacts
  <2>4. query[p] * postings[p][i] \in Nat /\ query[p] * postings[p][i] <= MaxImpact(p, B) * query[p]
    <3> HIDE DEF B
    <3> QED
      BY <2>3, Products
  <2>5. BlockBounds(p)[p] = MaxImpact(p, B) * query[p]
    BY <1>3, Zenon DEF BlockBounds, n, E
  <2>6. /\ BlockUB(p) = SumFunctionOnSet(BlockBounds(p), UpTo(p)) /\ BlockUB(p) \in Nat
        /\ IsFiniteSet(UpTo(p)) /\ S \in SUBSET UpTo(p)
        /\ \A t \in UpTo(p) : BlockBounds(p)[t] \in Nat
    BY <2>1, BlockBoundsAre
  <2>7. \A t \in S : co[t] \in Nat /\ co[t] <= BlockBounds(p)[t]
    BY <2>1, <2>4, <2>5
  <2>8. TrueScore(i) = SumFunctionOnSet(co, S) /\ TrueScore(i) \in Nat
    <3>1. TrueScore(i) \in Nat
      BY Scores
    <3> QED
      BY <3>1, Zenon DEF TrueScore, ScoreOf
  <2> HIDE DEF co, S, B
  <2>9. TrueScore(i) <= BlockUB(p)
    BY <2>6, <2>7, <2>8, SumLess
  <2> QED
    BY <2>6, <2>8, <2>9 DEF TypeOK
<1> QED
  BY <1>2, <1>6

\* With two lists of one block a skip seems possible only when the other list ends before
\* the pivot: then its cursor is the one that moves.
LEMMA TwoListsSkip ==
  ASSUME TypeOK, NoClamp, NEW p \in Live, IsPivot(p), BlockUB(p) <= threshold,
         Cardinality(Cursors) = 2, \A t \in Cursors : Cardinality(List(t)) <= BLOCK_SIZE
  PROVE  \A i \in rest[ChooseAdvance(p)] : ~(i >= CurrentId(p))
<1> DEFINE n == CurrentId(p)
<1>1. n \in Nat /\ p \in Cursors /\ threshold \in Nat /\ UpTo(p) \subseteq Live
  BY Stands DEF TypeOK, UpTo
<1>2. PICK u \in UpTo(p) : ~Reaches(u, n)
  <2> SUFFICES ASSUME \A t \in UpTo(p) : Reaches(t, n) PROVE FALSE
    OBVIOUS
  <2> DEFINE ub == [s \in Live |-> TermUB(s)]
  <2>1. \A t \in UpTo(p) : BlockBounds(p)[t] = ub[t] /\ ub[t] \in Nat
    <3> SUFFICES ASSUME NEW t \in UpTo(p) PROVE BlockBounds(p)[t] = ub[t] /\ ub[t] \in Nat
      OBVIOUS
    <3>1. t \in Live /\ t \in Cursors /\ Reaches(t, n)
      BY <1>1, Stands
    <3>2. BlockBounds(p)[t] = MaxImpact(t, Block(t, BlockEnd(t, n))) * query[t]
      BY <3>1, Zenon DEF BlockBounds
    <3>3. MaxImpact(t, Block(t, BlockEnd(t, n))) * query[t] = TermUB(t)
      BY <1>1, <3>1, OneBlock
    <3>4. TermUB(t) \in Nat
      BY <3>1, Bounds
    <3> QED
      BY <3>1, <3>2, <3>3, <3>4
  <2>2. SumFunctionOnSet(ub, UpTo(p)) > threshold
    BY Zenon DEF IsPivot, Exceeds, UpTo
  <2>3. /\ BlockUB(p) = SumFunctionOnSet(BlockBounds(p), UpTo(p)) /\ BlockUB(p) \in Nat
        /\ IsFiniteSet(UpTo(p)) /\ UpTo(p) \in SUBSET UpTo(p)
        /\ \A t \in UpTo(p) : BlockBounds(p)[t] \in Nat
    BY BlockBoundsAre
  <2> HIDE DEF ub
  <2>4. \A t \in UpTo(p) : ub[t] \in Nat /\ ub[t] <= BlockBounds(p)[t]
    BY <2>1, <2>3
  <2>5. SumFunctionOnSet(ub, UpTo(p)) <= SumFunctionOnSet(BlockBounds(p), UpTo(p))
    BY <2>3, <2>4, SumLess
  <2>6. SumFunctionOnSet(ub, UpTo(p)) \in Nat
    BY <2>3, <2>4, SumSplit
  <2> QED
    BY <1>1, <2>2, <2>3, <2>5, <2>6
<1>3. u \in Live /\ u \in Cursors /\ u # p
  BY <1>1, <1>2, OwnReach, Stands
<1>4. \A i \in rest[u] : i \in Nat /\ i < n
  <2> SUFFICES ASSUME NEW i \in rest[u] PROVE i \in Nat /\ i < n
    OBVIOUS
  <2>1. i \in List(u)
    BY <1>3, Inputs
  <2>2. i \in Nat /\ i <= Max(List(u)) /\ Max(List(u)) \in BlockLast(u) /\ Max(List(u)) \in Nat
    BY <1>3, <2>1, Blocks
  <2> QED
    BY <1>1, <1>2, <2>2 DEF Reaches
<1>5. u \in Behind(p)
  BY <1>3, <1>4, Stands DEF Behind
<1>6. Cursors = {p, u}
  <2>1. IsFiniteSet(Cursors) /\ {p, u} \in SUBSET Cursors
    BY <1>1, <1>3, Inputs
  <2>2. Cardinality({p, u}) = 2
    <3>1. IsFiniteSet({p}) /\ Cardinality({p}) = 1
      BY FS_Singleton
    <3>2. Cardinality({p} \cup {u}) = 2
      BY <1>3, <3>1, FS_AddElement
    <3>3. {p} \cup {u} = {p, u}
      OBVIOUS
    <3> QED
      BY <3>2, <3>3
  <2> QED
    BY <2>1, <2>2, FS_Subset
<1>7. ChooseAdvance(p) = u
  <2>1. ChooseAdvance(p) \in Behind(p)
    BY <1>5, Advances
  <2>2. ChooseAdvance(p) \in Cursors /\ ChooseAdvance(p) # p
    BY <1>1, <2>1 DEF Behind, Live
  <2> QED
    BY <1>6, <2>2
<1> QED
  BY <1>1, <1>4, <1>7

\* Where the loops are exact, skipping a block loses nothing.
LEMMA SkipBlockKeeps ==
  ASSUME IInv, NEW p \in Terms, SkipBlock(p)
  PROVE  IInv'
<1> DEFINE t == ChooseAdvance(p)
           x == NextBlockTarget(p)
<1>0. /\ TypeOK /\ NoClamp /\ p \in Live /\ IsPivot(p) /\ phase = "run"
      /\ algorithm = "BlockMaxWand" /\ BlockUB(p) <= threshold
  BY DEF IInv, SkipBlock, IsPivot, Skippable
<1>1. t \in Cursors
  BY <1>0, Advances DEF Live
<1>2. rest' = Seek(t, x) /\ UNCHANGED <<input, heap, threshold, phase>>
  BY Zenon DEF SkipBlock
<1>3. ASSUME ExactWhereItIs, NEW i \in rest[t], ~(i >= x), ~Passed(i)
      PROVE  TrueScore(i) <= threshold
  <2>1. CASE Cardinality(Cursors) <= 1
    BY <1>0, <1>3, <2>1, OneListSkips
  <2>2. CASE /\ Cardinality(Cursors) = 2
             /\ \A s \in Cursors : Cardinality(List(s)) <= BLOCK_SIZE
    <3>1. ~(i >= CurrentId(p))
      BY <1>0, <2>2, TwoListsSkip
    <3> QED
      BY <1>0, <1>1, <1>3, <3>1, BelowPivot
  <2> QED
    BY <1>0, <1>3, <2>1, <2>2 DEF ExactWhereItIs
<1> HIDE DEF t, x
<1> QED
  BY <1>0, <1>1, <1>2, <1>3, SeekKeeps

(***************************************************************************)
(* The theorem                                                             *)
(***************************************************************************)

\* The loop starts with every cursor at the start of its list and an empty heap.
LEMMA Starts ==
  ASSUME Unclamped, Init
  PROVE  IInv
<1>1. PICK r \in Requests : query = r.query /\ k = r.k /\ algorithm = r.algorithm
  BY DEF Init
<1>2. /\ DOMAIN query \subseteq Terms /\ k \in Nat /\ postings \in Indexes
      /\ DOMAIN postings = Terms /\ \A t \in Terms : Quantised(postings[t], Items)
  BY <1>1, SetsAssumption DEF Init, Quantised
<1>3. /\ heap = {} /\ threshold = 0 /\ phase = "run"
      /\ rest = [t \in Terms |-> IF t \in DOMAIN query THEN DOMAIN postings[t] ELSE {}]
  BY DEF Init
<1>4. IsFiniteSet({}) /\ Cardinality({}) = 0
  BY FS_EmptySet
<1>5. TypeOK
  <2>1. rest \in [Terms -> SUBSET Items] /\ \A t \in Terms : rest[t] \subseteq List(t)
    BY <1>2, <1>3 DEF List, Quantised
  <2>2. Cardinality(heap) <= k
    BY <1>2, <1>3, <1>4
  <2> QED
    BY <1>1, <1>2, <1>3, <2>1, <2>2 DEF TypeOK
<1>6. NoClamp
  BY <1>1, <1>2 DEF NoClamp, Unclamped, Cursors, List
<1>7. Onward /\ Brim /\ ReportedIsReal
  BY <1>2, <1>3, <1>4 DEF Onward, Brim, Full, ReportedIsReal
<1>8. \A i : ~Passed(i)
  BY <1>2, <1>3 DEF Passed, Cursors, List
<1>9. Exact
  BY <1>3, <1>8 DEF Exact
<1> QED
  BY <1>3, <1>4, <1>5, <1>6, <1>7, <1>9 DEF IInv

\* Steps that change nothing.
LEMMA StutterKeeps ==
  ASSUME IInv, UNCHANGED vars
  PROVE  IInv'
<1>0. TypeOK /\ UNCHANGED input /\ rest' = rest /\ heap' = heap
      /\ threshold' = threshold /\ phase' = phase
  BY DEF IInv, vars, input
<1>1. /\ Cursors' = Cursors /\ \A s : List(s)' = List(s)
      /\ Matches' = Matches /\ \A i : TrueScore(i)' = TrueScore(i)
      /\ ExactWhereItIs' = ExactWhereItIs /\ NoClamp' = NoClamp
      /\ k' = k
  BY <1>0, SameIndex
<1>2. TypeOK' /\ IsFiniteSet(heap)'
  <2>1. postings' = postings /\ query' = query /\ algorithm' = algorithm
    BY <1>0 DEF input
  <2> QED
    BY <1>0, <1>1, <2>1 DEF TypeOK, IInv, List
<1>3. NoClamp' /\ Onward' /\ Brim' /\ ReportedIsReal'
  BY <1>0, <1>1 DEF IInv, Onward, Brim, Full, ReportedIsReal
<1>4. ASSUME ExactWhereItIs PROVE Exact'
  <2>1. \A e : Beaten(e)' = Beaten(e) /\ Passed(e[1])' = Passed(e[1])
    BY <1>0, <1>1 DEF Beaten, Weaker, Passed
  <2> QED
    BY <1>0, <1>1, <1>4, <2>1 DEF IInv, Exact, Positive
<1> QED
  BY <1>1, <1>2, <1>3, <1>4 DEF IInv

\* When the loop has returned, what it holds are the k best: whatever is better than an
\* entry of the heap is in the heap as well, and all of a full heap is better than what is
\* left out.
LEMMA HeapIsScan ==
  ASSUME IInv, Exact, phase = "done"
  PROVE  Positive(heap) = Positive(ExhaustiveScan)
<1>0. /\ TypeOK /\ k \in Nat /\ IsFiniteSet(heap) /\ Cardinality(heap) \in Nat
      /\ Cardinality(heap) <= k /\ heap \subseteq Matches
      /\ \A e \in Matches : e \in Nat \X Nat /\ e[2] \in Nat
  <2>1. TypeOK /\ IsFiniteSet(heap)
    BY DEF IInv
  <2> QED
    BY <2>1, Inputs, FS_CardinalityType, MatchesAre DEF TypeOK, Exact
<1>1. IsFiniteSet(Matches)
  <2> DEFINE f == [i \in Items |-> <<i, TrueScore(i)>>]
             T == {f[i] : i \in Items}
  <2>1. IsFiniteSet(T)
    <3>1. IsFiniteSet(Items)
      BY <1>0, Inputs
    <3> HIDE DEF f
    <3> QED
      BY <3>1, FiniteImage
  <2>2. Matches \in SUBSET T
    <3>1. \A e \in Matches : e[1] \in Items /\ e = <<e[1], TrueScore(e[1])>>
      BY <1>0, MatchesAre
    <3>2. \A e \in Matches : e = f[e[1]]
      BY <3>1
    <3> HIDE DEF f
    <3> QED
      BY <3>1, <3>2
  <2> HIDE DEF T
  <2> QED
    BY <2>1, <2>2, FS_Subset
<1>2. ASSUME NEW e \in Positive(heap) PROVE e \in ExhaustiveScan
  <2> DEFINE W == {f \in Matches : Weaker(e, f)}
  <2>1. e \in heap /\ e \in Matches /\ e[2] > 0
    BY <1>0 DEF Positive
  <2>2. ASSUME NEW f \in W PROVE f \in heap \ {e}
    <3>1. f \in Matches /\ f[2] > 0 /\ f # e
      BY <1>0, <2>1, WeakerOrders DEF Weaker
    <3>2. f \notin heap => Weaker(f, e)
      BY <2>1, <3>1 DEF Exact, Beaten, Positive
    <3>3. ~Weaker(f, e)
      BY <1>0, <2>1, WeakerOrders
    <3> QED
      BY <3>1, <3>2, <3>3
  <2>3. IsFiniteSet(heap \ {e}) /\ Cardinality(heap \ {e}) = Cardinality(heap) - 1
    BY <1>0, <2>1, FS_RemoveElement
  <2>4. W \in SUBSET (heap \ {e})
    BY <2>2
  <2> HIDE DEF W
  <2>5. IsFiniteSet(W) /\ Cardinality(W) <= Cardinality(heap) - 1
    BY <2>3, <2>4, FS_Subset
  <2>6. Cardinality(W) \in Nat
    BY <2>5, FS_CardinalityType
  <2>7. Cardinality(W) < k
    BY <1>0, <2>5, <2>6
  <2> QED
    BY <2>1, <2>7 DEF ExhaustiveScan, W
<1>3. ASSUME NEW e \in Positive(ExhaustiveScan) PROVE e \in heap
  <2> DEFINE W == {f \in Matches : Weaker(e, f)}
  <2>1. e \in Matches /\ e[2] > 0 /\ Cardinality(W) < k
    BY DEF Positive, ExhaustiveScan
  <2> SUFFICES ASSUME e \notin heap PROVE FALSE
    OBVIOUS
  <2>2. Cardinality(heap) = k /\ \A f \in heap : Weaker(e, f)
    BY <2>1 DEF Exact, Beaten, Positive
  <2>3. heap \in SUBSET W /\ W \in SUBSET Matches
    BY <1>0, <2>2
  <2> HIDE DEF W
  <2>4. IsFiniteSet(W) /\ Cardinality(heap) <= Cardinality(W)
    BY <1>1, <2>3, FS_Subset
  <2>5. Cardinality(W) \in Nat
    BY <2>4, FS_CardinalityType
  <2> QED
    BY <1>0, <2>1, <2>2, <2>4, <2>5
<1> QED
  BY <1>2, <1>3 DEF Positive

\* For every index, query, k and block size in which no bound is clamped, top_k's ranking
\* is the exhaustive scan's: at every turn of run_wand and run_bmw the heap holds real
\* matches, WAND passes nothing that could displace one of them, and what WAND returns, and
\* Block-Max WAND for one list or for two lists of one block, are exactly the k best.
THEOREM LoopsAreExact ==
  ASSUME Unclamped
  PROVE  Spec => []RankingIsExact
<1>1. Init => IInv
  BY Starts
<1>2. IInv /\ [Next]_vars => IInv'
  <2> SUFFICES ASSUME IInv, [Next]_vars PROVE IInv'
    OBVIOUS
  <2>1. CASE Return
    BY <2>1, ReturnKeeps
  <2>2. ASSUME NEW p \in Terms, SkipBlock(p) PROVE IInv'
    BY <2>2, SkipBlockKeeps
  <2>3. ASSUME NEW p \in Terms, Score(p) PROVE IInv'
    BY <2>3, ScoreKeeps
  <2>4. ASSUME NEW p \in Terms, SeekToPivot(p) PROVE IInv'
    BY <2>4, SeekToPivotKeeps
  <2>5. CASE UNCHANGED vars
    BY <2>5, StutterKeeps
  <2> QED
    BY <2>1, <2>2, <2>3, <2>4, <2>5 DEF Next
<1>3. IInv => RankingIsExact
  <2> SUFFICES ASSUME IInv PROVE RankingIsExact
    OBVIOUS
  <2>1. WandIsExact
    BY HeapIsScan DEF IInv, WandIsExact, ExactTopK
  <2>2. PassedCannotWin
    BY DEF IInv, PassedCannotWin, ExactWhereItIs, Exact, Beaten
  <2> QED
    BY <2>1, <2>2 DEF IInv, RankingIsExact
<1> QED
  BY <1>1, <1>2, <1>3, PTL DEF Spec
=============================================================================
