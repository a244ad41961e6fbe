----------------------------- MODULE LawsProofs -----------------------------
(***************************************************************************)
(* The laws of the pure parts, for every input the code can be handed.     *)
(***************************************************************************)
EXTENDS Laws, FiniteSetTheorems, SequenceTheorems, WellFoundedInduction, TLAPS

(***************************************************************************)
(* Numbers and loops                                                       *)
(***************************************************************************)

\* A set of numbers that is not empty has a least one.
LEMMA LeastNumber ==
  ASSUME NEW T \in SUBSET Nat, T # {}
  PROVE  \E x \in T : \A y \in T : x <= y
<1>1. PICK x \in T : \A y \in T : ~(<<y, x>> \in OpToRel(<, Nat))
  BY NatLessThanWellFounded, WFMin
<1>2. ASSUME NEW y \in T PROVE x <= y
  <2>1. x \in Nat /\ y \in Nat
    OBVIOUS
  <2>2. ASSUME y < x PROVE FALSE
    <3>1. <<y, x>> \in OpToRel(<, Nat)
      BY <2>1, <2>2 DEF OpToRel
    <3> QED
      BY <1>1, <3>1
  <2> QED
    BY <2>1, <2>2
<1> QED
  BY <1>2

\* Induction on numbers, for a set (the provers cannot instantiate NatInduction).
LEMMA Induction ==
  ASSUME NEW T, 0 \in T, \A n \in Nat : n \in T => n + 1 \in T
  PROVE  Nat \subseteq T
<1> SUFFICES ASSUME Nat \ T # {} PROVE FALSE
  OBVIOUS
<1>1. PICK x \in Nat \ T : \A y \in Nat \ T : x <= y
  BY LeastNumber
<1>2. x # 0
  BY <1>1
<1>3. x - 1 \in Nat /\ x - 1 \in T
  BY <1>1, <1>2
<1> QED
  BY <1>1, <1>3

\* The first n rounds of a loop: f[m] is the state after m of them.
Rounds(f, S, s, step, n) ==
  /\ f \in [0..n -> S]
  /\ f[0] = s
  /\ \A m \in 0..(n - 1) : f[m + 1] = step[m + 1][f[m]]

\* A loop has its first n rounds, for every n.
LEMMA RoundsExist ==
  ASSUME NEW S, NEW s \in S, NEW step \in [Nat -> [S -> S]], NEW n \in Nat
  PROVE  \E f : Rounds(f, S, s, step, n)
<1> DEFINE Good == {k \in Nat : \E f : Rounds(f, S, s, step, k)}
<1>1. 0 \in Good
  <2> DEFINE f == [m \in 0..0 |-> s]
  <2>1. Rounds(f, S, s, step, 0)
    BY DEF Rounds
  <2> QED
    BY <2>1
<1>2. ASSUME NEW k \in Nat, k \in Good PROVE k + 1 \in Good
  <2>1. PICK f : Rounds(f, S, s, step, k)
    BY <1>2
  <2> DEFINE g == [m \in 0..(k + 1) |-> IF m = k + 1 THEN step[k + 1][f[k]] ELSE f[m]]
  <2>2. f \in [0..k -> S] /\ f[0] = s /\ k \in 0..k
    BY <2>1 DEF Rounds
  <2>3. step[k + 1][f[k]] \in S
    BY <2>2
  <2>4. g \in [0..(k + 1) -> S] /\ g[0] = s
    BY <2>2, <2>3
  <2>5. ASSUME NEW m \in 0..k PROVE g[m + 1] = step[m + 1][g[m]]
    <3>1. g[m] = f[m]
      OBVIOUS
    <3>2. CASE m = k
      <4>1. g[k + 1] = step[k + 1][f[k]]
        OBVIOUS
      <4> HIDE DEF g
      <4> QED
        BY <3>1, <3>2, <4>1
    <3>3. CASE m # k
      <4>1. m \in 0..(k - 1) /\ g[m + 1] = f[m + 1]
        BY <3>3
      <4> QED
        BY <2>1, <3>1, <4>1 DEF Rounds
    <3> QED
      BY <3>2, <3>3
  <2>6. Rounds(g, S, s, step, k + 1)
    <3> HIDE DEF g
    <3>1. 0..((k + 1) - 1) = 0..k
      OBVIOUS
    <3> QED
      BY <2>4, <2>5, <3>1 DEF Rounds
  <2> QED
    BY <2>6
<1> HIDE DEF Good
<1>3. n \in Good
  BY <1>1, <1>2, Induction
<1> QED
  BY <1>3 DEF Good

\* There is only one way through them.
LEMMA RoundsAgree ==
  ASSUME NEW S, NEW s, NEW step, NEW n \in Nat, NEW m \in Nat, NEW f, NEW g,
         Rounds(f, S, s, step, n), Rounds(g, S, s, step, m),
         NEW k \in Nat, k <= n, k <= m
  PROVE  f[k] = g[k]
<1> DEFINE Good == {j \in Nat : j <= n /\ j <= m => f[j] = g[j]}
<1>1. 0 \in Good
  BY DEF Rounds
<1>2. ASSUME NEW j \in Nat, j \in Good PROVE j + 1 \in Good
  <2> SUFFICES ASSUME j + 1 <= n, j + 1 <= m PROVE f[j + 1] = g[j + 1]
    OBVIOUS
  <2>1. f[j] = g[j]
    BY <1>2
  <2>2. j \in 0..(n - 1) /\ j \in 0..(m - 1)
    OBVIOUS
  <2> QED
    BY <2>1, <2>2 DEF Rounds
<1> HIDE DEF Good
<1>3. k \in Good
  BY <1>1, <1>2, Induction
<1> QED
  BY <1>3 DEF Good

IsLoop(f, S, s, step) ==
  f \in [Nat -> S] /\ f[0] = s /\ \A n \in Nat : f[n + 1] = step[n + 1][f[n]]

\* A loop has a state after every number of rounds: a function on the numbers may be
\* defined by what each value makes of the one before.
LEMMA Loops ==
  ASSUME NEW S, NEW s \in S, NEW step \in [Nat -> [S -> S]]
  PROVE  \E f : IsLoop(f, S, s, step)
<1> DEFINE R(n) == CHOOSE f : Rounds(f, S, s, step, n)
           f == [n \in Nat |-> R(n)[n]]
<1>1. \A n \in Nat : Rounds(R(n), S, s, step, n)
  BY RoundsExist
<1> HIDE DEF R
<1>2. f \in [Nat -> S]
  <2> SUFFICES ASSUME NEW n \in Nat PROVE R(n)[n] \in S
    OBVIOUS
  <2> QED
    BY <1>1 DEF Rounds
<1>3. f[0] = s
  BY <1>1 DEF Rounds
<1>4. ASSUME NEW n \in Nat PROVE f[n + 1] = step[n + 1][f[n]]
  <2>1. f[n + 1] = R(n + 1)[n + 1] /\ f[n] = R(n)[n]
    OBVIOUS
  <2>2. R(n + 1)[n] = R(n)[n]
    BY <1>1, RoundsAgree
  <2>3. n \in 0..((n + 1) - 1)
    OBVIOUS
  <2>4. R(n + 1)[n + 1] = step[n + 1][R(n + 1)[n]]
    BY <1>1, <2>3 DEF Rounds
  <2> QED
    BY <2>1, <2>2, <2>4
<1> HIDE DEF f
<1> QED
  BY <1>2, <1>3, <1>4 DEF IsLoop

(***************************************************************************)
(* Bitmap fields                                                           *)
(***************************************************************************)

\* The halvings of a number and the number of the highest bits, as BitsOf and
\* extract_field define them.
Halvings(n) ==
  LET halved[j \in Nat] == IF j = 0 THEN n ELSE halved[j - 1] \div 2
  IN  halved
Bit(bm, b) == IF b \in bm THEN 1 ELSE 0
Tops(bm, low, width) ==
  LET top[j \in Nat] ==
        IF j = 0 THEN 0
        ELSE 2 * top[j - 1] + (IF low + width - j \in bm THEN 1 ELSE 0)
  IN  top

\* Each halving is half of the one before.
LEMMA HalvingsStep ==
  ASSUME NEW n \in Nat
  PROVE  /\ Halvings(n) \in [Nat -> Nat]
         /\ Halvings(n)[0] = n
         /\ \A j \in Nat : Halvings(n)[j + 1] = Halvings(n)[j] \div 2
<1> DEFINE Eq(h) == h = [j \in Nat |-> IF j = 0 THEN n ELSE h[j - 1] \div 2]
           step == [j \in Nat |-> [x \in Nat |-> x \div 2]]
<1>1. step \in [Nat -> [Nat -> Nat]]
  OBVIOUS
<1>2. PICK f : IsLoop(f, Nat, n, step)
  <2> HIDE DEF step
  <2> QED
    BY <1>1, Loops
<1>3. ASSUME NEW j \in Nat PROVE f[j + 1] = f[j] \div 2
  <2>1. \A m, x \in Nat : step[m][x] = x \div 2
    OBVIOUS
  <2> HIDE DEF step
  <2>2. f[j] \in Nat /\ j + 1 \in Nat /\ f[j + 1] = step[j + 1][f[j]]
    BY <1>2 DEF IsLoop
  <2> QED
    BY <2>1, <2>2
<1>4. Eq(f)
  <2>1. ASSUME NEW j \in Nat PROVE f[j] = IF j = 0 THEN n ELSE f[j - 1] \div 2
    <3>1. CASE j # 0
      <4>1. j - 1 \in Nat /\ (j - 1) + 1 = j
        BY <3>1
      <4> QED
        BY <1>3, <3>1, <4>1
    <3> QED
      BY <1>2, <3>1 DEF IsLoop
  <2>2. f = [j \in Nat |-> f[j]]
    BY <1>2 DEF IsLoop
  <2> QED
    BY <2>1, <2>2
<1> DEFINE h == Halvings(n)
<1>5. Eq(h)
  BY <1>4 DEF Halvings
<1> HIDE DEF h
<1>6. h[0] = n
  BY <1>5
<1>7. ASSUME NEW j \in Nat PROVE h[j + 1] = h[j] \div 2
  BY <1>5
<1> DEFINE Good == {j \in Nat : h[j] \in Nat}
<1>8. Nat \subseteq Good
  <2>1. 0 \in Good
    BY <1>6
  <2>2. ASSUME NEW j \in Nat, j \in Good PROVE j + 1 \in Good
    BY <1>7, <2>2
  <2> HIDE DEF Good
  <2> QED
    BY <2>1, <2>2, Induction
<1>9. h \in [Nat -> Nat]
  <2>1. h = [j \in Nat |-> h[j]]
    BY <1>5
  <2> QED
    BY <1>8, <2>1
<1> QED
  BY <1>6, <1>7, <1>9 DEF h

\* Each number has one bit more than the one before.
LEMMA TopsStep ==
  ASSUME NEW bm, NEW low \in Int, NEW width \in Int
  PROVE  /\ Tops(bm, low, width) \in [Nat -> Nat]
         /\ Tops(bm, low, width)[0] = 0
         /\ \A j \in Nat : Tops(bm, low, width)[j + 1] = 2 * Tops(bm, low, width)[j] + Bit(bm, low + width - (j + 1))
<1> DEFINE Eq(t) == t = [j \in Nat |-> IF j = 0 THEN 0
                            ELSE 2 * t[j - 1] + (IF low + width - j \in bm THEN 1 ELSE 0)]
           step == [j \in Nat |-> [x \in Nat |-> 2 * x + (IF low + width - j \in bm THEN 1 ELSE 0)]]
<1>1. step \in [Nat -> [Nat -> Nat]]
  OBVIOUS
<1>2. PICK f : IsLoop(f, Nat, 0, step)
  <2> HIDE DEF step
  <2> QED
    BY <1>1, Loops
<1>3. ASSUME NEW j \in Nat
      PROVE  f[j + 1] = 2 * f[j] + (IF low + width - (j + 1) \in bm THEN 1 ELSE 0)
  <2>1. \A m, x \in Nat : step[m][x] = 2 * x + (IF low + width - m \in bm THEN 1 ELSE 0)
    OBVIOUS
  <2> HIDE DEF step
  <2>2. f[j] \in Nat /\ j + 1 \in Nat /\ f[j + 1] = step[j + 1][f[j]]
    BY <1>2 DEF IsLoop
  <2> QED
    BY <2>1, <2>2
<1>4. Eq(f)
  <2>1. ASSUME NEW j \in Nat
        PROVE  f[j] = IF j = 0 THEN 0 ELSE 2 * f[j - 1] + (IF low + width - j \in bm THEN 1 ELSE 0)
    <3>1. CASE j # 0
      <4>1. j - 1 \in Nat /\ (j - 1) + 1 = j
        BY <3>1
      <4> QED
        BY <1>3, <3>1, <4>1
    <3> QED
      BY <1>2, <3>1 DEF IsLoop
  <2>2. f = [j \in Nat |-> f[j]]
    BY <1>2 DEF IsLoop
  <2> QED
    BY <2>1, <2>2
<1> DEFINE t == Tops(bm, low, width)
<1>5. Eq(t)
  BY <1>4 DEF Tops
<1> HIDE DEF t
<1>6. t[0] = 0
  BY <1>5
<1>7. ASSUME NEW j \in Nat PROVE t[j + 1] = 2 * t[j] + Bit(bm, low + width - (j + 1))
  BY <1>5 DEF Bit
<1> DEFINE Good == {j \in Nat : t[j] \in Nat}
<1>8. Nat \subseteq Good
  <2>1. 0 \in Good
    BY <1>6
  <2>2. ASSUME NEW j \in Nat, j \in Good PROVE j + 1 \in Good
    BY <1>7, <2>2 DEF Bit
  <2> HIDE DEF Good
  <2> QED
    BY <2>1, <2>2, Induction
<1>9. t \in [Nat -> Nat]
  <2>1. t = [j \in Nat |-> t[j]]
    BY <1>5
  <2> QED
    BY <1>8, <2>1
<1> QED
  BY <1>6, <1>7, <1>9 DEF t

\* The definitions in terms of the two functions.
LEMMA BitsBy ==
  ASSUME NEW n, NEW low, NEW width
  PROVE  BitsOf(n, low, width) =
           {low + j : j \in {i \in 0..(width - 1) : Halvings(n)[i] % 2 = 1}}
BY DEF BitsOf, Halvings

\* Likewise for reading.
LEMMA ReadBy ==
  ASSUME NEW bm, NEW low, NEW width
  PROVE  extract_field(bm, low, width) = Tops(bm, low, width)[width]
BY DEF extract_field, Tops

\* What a field reads depends on its own bits only.
LEMMA ReadLocal ==
  ASSUME NEW bm, NEW bn, NEW low \in Nat, NEW width \in Nat,
         \A b \in low..(low + width - 1) : b \in bm <=> b \in bn
  PROVE  extract_field(bm, low, width) = extract_field(bn, low, width)
<1> DEFINE t == Tops(bm, low, width)
           u == Tops(bn, low, width)
           Good == {j \in Nat : j <= width => t[j] = u[j]}
<1>1. /\ t[0] = 0 /\ u[0] = 0
      /\ \A j \in Nat : t[j + 1] = 2 * t[j] + Bit(bm, low + width - (j + 1))
      /\ \A j \in Nat : u[j + 1] = 2 * u[j] + Bit(bn, low + width - (j + 1))
  BY TopsStep
<1> HIDE DEF t, u
<1>2. 0 \in Good
  BY <1>1
<1>3. ASSUME NEW j \in Nat, j \in Good PROVE j + 1 \in Good
  <2> SUFFICES ASSUME j + 1 <= width PROVE t[j + 1] = u[j + 1]
    OBVIOUS
  <2>1. low + width - (j + 1) \in low..(low + width - 1)
    OBVIOUS
  <2>2. Bit(bm, low + width - (j + 1)) = Bit(bn, low + width - (j + 1))
    BY <2>1 DEF Bit
  <2>3. t[j] = u[j]
    BY <1>3
  <2> QED
    BY <1>1, <2>2, <2>3
<1>4. width \in Good
  <2> HIDE DEF Good
  <2> QED
    BY <1>2, <1>3, Induction
<1> QED
  BY <1>4, ReadBy DEF t, u

\* A number that the field is wide enough for is read back as it was written.
LEMMA ReadBackWritten ==
  ASSUME NEW n \in Nat, NEW bm, NEW low \in Nat, NEW width \in Nat, Halvings(n)[width] = 0
  PROVE  extract_field(write_field(n, bm, low, width), low, width) = n
<1> DEFINE h == Halvings(n)
           bn == write_field(n, bm, low, width)
           t == Tops(bn, low, width)
           Good == {j \in Nat : j <= width => t[j] = h[width - j]}
<1>1. /\ t[0] = 0
      /\ \A j \in Nat : t[j + 1] = 2 * t[j] + Bit(bn, low + width - (j + 1))
  BY TopsStep
<1>2. h \in [Nat -> Nat] /\ h[0] = n /\ \A j \in Nat : h[j + 1] = h[j] \div 2
  BY HalvingsStep
<1>3. ASSUME NEW i \in 0..(width - 1) PROVE Bit(bn, low + i) = h[i] % 2
  <2>1. low + i \in bn <=> low + i \in BitsOf(n, low, width)
    BY DEF write_field
  <2>2. BitsOf(n, low, width) = {low + j : j \in {k \in 0..(width - 1) : h[k] % 2 = 1}}
    BY BitsBy
  <2> HIDE DEF bn, h
  <2>3. low + i \in bn <=> h[i] % 2 = 1
    BY <2>1, <2>2
  <2>4. h[i] % 2 \in {0, 1}
    <3>1. h[i] \in Nat
      BY <1>2
    <3> QED
      BY <3>1
  <2> QED
    BY <2>3, <2>4 DEF Bit
<1> HIDE DEF t, h, bn
<1>4. 0 \in Good
  BY <1>1 DEF h
<1>5. ASSUME NEW j \in Nat, j \in Good PROVE j + 1 \in Good
  <2> SUFFICES ASSUME j + 1 <= width PROVE t[j + 1] = h[width - (j + 1)]
    OBVIOUS
  <2> DEFINE i == width - (j + 1)
  <2>1. i \in 0..(width - 1) /\ i + 1 = width - j /\ low + width - (j + 1) = low + i
    OBVIOUS
  <2> HIDE DEF i
  <2>2. t[j] = h[i + 1]
    BY <1>5, <2>1
  <2>3. h[i + 1] = h[i] \div 2 /\ h[i] \in Nat
    BY <1>2, <2>1
  <2>4. t[j + 1] = 2 * t[j] + (h[i] % 2)
    BY <1>1, <1>3, <2>1
  <2>5. t[j + 1] = h[i]
    BY <2>2, <2>3, <2>4
  <2> QED
    BY <2>5 DEF i
<1>6. width \in Good
  <2> HIDE DEF Good
  <2> QED
    BY <1>4, <1>5, Induction
<1> QED
  BY <1>2, <1>6, ReadBy DEF t, bn

\* How wide a number of a few bits is.
LEMMA Narrow ==
  ASSUME NEW n \in Nat
  PROVE  /\ n < 2 => Halvings(n)[1] = 0
         /\ n < 4 => Halvings(n)[2] = 0
         /\ n < 8 => Halvings(n)[3] = 0
         /\ n < 16 => Halvings(n)[4] = 0
         /\ n < 64 => Halvings(n)[6] = 0
<1> DEFINE h == Halvings(n)
<1>1. h \in [Nat -> Nat] /\ h[0] = n /\ \A j \in Nat : h[j + 1] = h[j] \div 2
  BY HalvingsStep
<1> HIDE DEF h
<1>2. /\ h[1] = h[0] \div 2 /\ h[2] = h[1] \div 2 /\ h[3] = h[2] \div 2
      /\ h[4] = h[3] \div 2 /\ h[5] = h[4] \div 2 /\ h[6] = h[5] \div 2
  BY <1>1
<1>3. h[1] \in Nat /\ h[2] \in Nat /\ h[3] \in Nat /\ h[4] \in Nat /\ h[5] \in Nat /\ h[6] \in Nat
  BY <1>1, SMTT(40)
<1>4. /\ n < 64 => h[1] < 32 /\ h[2] < 16 /\ h[3] < 8 /\ h[4] < 4 /\ h[5] < 2 /\ h[6] = 0
      /\ n < 16 => h[1] < 8 /\ h[2] < 4 /\ h[3] < 2 /\ h[4] = 0
      /\ n < 8 => h[1] < 4 /\ h[2] < 2 /\ h[3] = 0
      /\ n < 4 => h[1] < 2 /\ h[2] = 0
      /\ n < 2 => h[1] = 0
  BY <1>1, <1>2, <1>3
<1> QED
  BY <1>4 DEF h

\* The values of a field are numbers that it is wide enough for.
Roomy(f) ==
  /\ f.low \in Nat /\ f.width \in Nat
  /\ \A r \in f.legal :
       /\ r \in Nat
       /\ \/ f.width = 1 /\ r < 2
          \/ f.width = 2 /\ r < 4
          \/ f.width = 3 /\ r < 8
          \/ f.width = 4 /\ r < 16
          \/ f.width = 6 /\ r < 64

\* No bit belongs to two fields of a layout.
Below(f, g) == f.low + f.width <= g.low
Apart(layout) ==
  \A f, g \in DOMAIN layout : f # g => Below(layout[f], layout[g]) \/ Below(layout[g], layout[f])

\* A field that is wide enough for its values reads back what was written into it.
LEMMA ReadsWritten ==
  ASSUME NEW f, Roomy(f), NEW raw \in f.legal, NEW bm
  PROVE  Reads(f, Writes(f, raw, bm)) = raw
<1>1. f.low \in Nat /\ f.width \in Nat /\ raw \in Nat /\ Halvings(raw)[f.width] = 0
  BY Narrow DEF Roomy
<1>2. extract_field(write_field(raw, bm, f.low, f.width), f.low, f.width) = raw
  BY <1>1, ReadBackWritten
<1> QED
  BY <1>2 DEF Reads, Writes, from_raw

\* What a field reads is left alone by any change of bits outside it.
LEMMA ReadsOutside ==
  ASSUME NEW g, g.low \in Nat, g.width \in Nat, NEW bm, NEW bn,
         \A b \in FieldBits(g) : b \in bm <=> b \in bn
  PROVE  Reads(g, bm) = Reads(g, bn)
<1>1. extract_field(bm, g.low, g.width) = extract_field(bn, g.low, g.width)
  BY ReadLocal DEF FieldBits
<1> QED
  BY <1>1 DEF Reads

\* Writing a field leaves every bit outside it alone.
LEMMA WriteOutside ==
  ASSUME NEW n, NEW bm, NEW low \in Nat, NEW width \in Nat, NEW b \in Int,
         b < low \/ b >= low + width
  PROVE  b \in write_field(n, bm, low, width) <=> b \in bm
<1>1. b \notin low..(low + width - 1)
  OBVIOUS
<1>2. b \notin BitsOf(n, low, width)
  <2>1. BitsOf(n, low, width) =
          {low + j : j \in {i \in 0..(width - 1) : Halvings(n)[i] % 2 = 1}}
    BY BitsBy
  <2>2. ASSUME NEW j \in 0..(width - 1) PROVE b # low + j
    OBVIOUS
  <2> QED
    BY <2>1, <2>2
<1> QED
  BY <1>1, <1>2 DEF write_field

\* So a field apart from the one written keeps its value.
LEMMA ReadsOther ==
  ASSUME NEW f, NEW g, f.low \in Nat, f.width \in Nat, g.low \in Nat, g.width \in Nat,
         Below(f, g) \/ Below(g, f), NEW raw, NEW bm
  PROVE  Reads(g, Writes(f, raw, bm)) = Reads(g, bm)
<1>1. ASSUME NEW b \in FieldBits(g)
      PROVE  b \in write_field(raw, bm, f.low, f.width) <=> b \in bm
  <2>1. b \in Int /\ (b < f.low \/ b >= f.low + f.width)
    BY SMTT(40) DEF FieldBits, Below
  <2> QED
    BY <2>1, WriteOutside
<1> QED
  BY <1>1, ReadsOutside DEF Writes

\* Each layout is made of fields wide enough for their values, apart from each other.
LEMMA LayoutsAreSound ==
  ASSUME NEW l \in DOMAIN Layouts
  PROVE  Apart(Layouts[l]) /\ \A f \in DOMAIN Layouts[l] : Roomy(Layouts[l][f])
<1> USE DEF Field, Apart, Below, Roomy, Layouts
<1>1. CASE l = "adjective"
  BY <1>1 DEF Adjectives, State, AdjectiveSensitivity, AdjectiveExportability, Trust, Active,
     Pending, Contested, Accepted, Superseded, Decayed, Withdrawn, Expired, Rejected,
     Tombstoned, Normal, Elevated, Restricted, Secret
<1>2. CASE l = "drawer"
  BY <1>2 DEF DrawerOperational, CaptureChannel, ContentKind
<1>3. CASE l = "tunnel"
  BY <1>3 DEF TunnelOperational, TunnelDirection, TunnelLifecycle, TunnelOriginClass, TunnelStrength
<1>4. CASE l = "proposal"
  BY <1>4 DEF ProposalOperational, ProposalKind, ProposalTargetObjectType,
     ProposalConfirmationSource, ProposalGeneratedByClass, ProposalConfidenceBucket
<1>5. CASE l = "kg_fact"
  BY <1>5 DEF KGFactOperational, KGExtractorClass, KGAssertionKind, KGSpecificity, KGConfidenceBand
<1>6. CASE l = "diary"
  BY <1>6 DEF DiaryOperational, DiaryEventClass, DiarySeverity, DiaryActorClass,
     DiaryBatchMembership
<1>7. CASE l = "association"
  BY <1>7 DEF AssociationOperational, AssociationDecayClass, AssociationArity
<1>8. CASE l = "learned"
  BY <1>8 DEF LearnedOperational, RefreshPolicy, DriftSeverity, LearnMode, LearnedReferenceSource
<1>9. CASE l = "provenance"
  BY <1>9 DEF Provenance, SourceType, Channel, ProvCaptureChannel, Confirmation, Confidence,
     Sensitivity, EnrichmentStatus
<1> QED
  BY <1>1, <1>2, <1>3, <1>4, <1>5, <1>6, <1>7, <1>8, <1>9

\* A field of one bit reads that bit.
LEMMA OneBit ==
  ASSUME NEW bm, NEW b \in Nat
  PROVE  extract_field(bm, b, 1) = Bit(bm, b)
<1> DEFINE t == Tops(bm, b, 1)
<1>1. t[0] = 0 /\ \A j \in Nat : t[j + 1] = 2 * t[j] + Bit(bm, b + 1 - (j + 1))
  BY TopsStep
<1>2. b + 1 - (0 + 1) = b
  OBVIOUS
<1> HIDE DEF t
<1>3. t[1] = Bit(bm, b)
  BY <1>1, <1>2 DEF Bit
<1> QED
  BY <1>3, ReadBy DEF t

\* The empty bitmap reads as zeros.
LEMMA ReadNone ==
  ASSUME NEW low \in Nat, NEW width \in Nat
  PROVE  extract_field({}, low, width) = 0
<1> DEFINE t == Tops({}, low, width)
           Good == {j \in Nat : t[j] = 0}
<1>1. t[0] = 0 /\ \A j \in Nat : t[j + 1] = 2 * t[j] + Bit({}, low + width - (j + 1))
  BY TopsStep
<1> HIDE DEF t
<1>2. 0 \in Good
  BY <1>1
<1>3. ASSUME NEW j \in Nat, j \in Good PROVE j + 1 \in Good
  BY <1>1, <1>3 DEF Bit
<1>4. width \in Good
  <2> HIDE DEF Good
  <2> QED
    BY <1>2, <1>3, Induction
<1> QED
  BY <1>4, ReadBy DEF t

\* The writers of the proposals' bitmap, field by field.
LEMMA ComposedIsWritten ==
  ASSUME NEW k \in ProposalKind.legal, NEW a \in 0..3, NEW g \in 0..3,
         NEW c \in ProposalConfidenceBucket.legal
  PROVE  ComposedReads(<<k, a, g, c>>)
<1> DEFINE K == ProposalKind
           T == ProposalTargetObjectType
           S == ProposalConfirmationSource
           G == ProposalGeneratedByClass
           C == ProposalConfidenceBucket
           kind == Writes(K, k, {})
           target == Writes(T, a, kind)
           made == Writes(G, g, target)
           zero == Writes(T, 0, kind)
           source == Writes(S, a, zero)
           by == Writes(G, g, source)
<1>1. /\ Roomy(K) /\ Roomy(T) /\ Roomy(S) /\ Roomy(G) /\ Roomy(C)
      /\ Below(K, T) /\ Below(T, S) /\ Below(S, G) /\ Below(G, C)
      /\ Below(K, S) /\ Below(K, G) /\ Below(K, C) /\ Below(T, G) /\ Below(T, C) /\ Below(S, C)
  BY DEF Roomy, Below, Field, ProposalKind, ProposalTargetObjectType,
     ProposalConfirmationSource, ProposalGeneratedByClass, ProposalConfidenceBucket
<1>2. k \in K.legal /\ a \in T.legal /\ a \in S.legal /\ g \in G.legal /\ c \in C.legal
  BY DEF Field, ProposalKind, ProposalTargetObjectType,
     ProposalConfirmationSource, ProposalGeneratedByClass
<1>3. /\ compose_operational(k, a, g, c) = Writes(C, c, made)
      /\ propose_operational(k, a, g, c) = Writes(C, c, by)
  BY DEF compose_operational, propose_operational, Writes, Field, ProposalKind,
     ProposalTargetObjectType, ProposalConfirmationSource, ProposalGeneratedByClass,
     ProposalConfidenceBucket
<1>4. /\ K.low \in Nat /\ K.width \in Nat /\ T.low \in Nat /\ T.width \in Nat
      /\ S.low \in Nat /\ S.width \in Nat /\ G.low \in Nat /\ G.width \in Nat
      /\ C.low \in Nat /\ C.width \in Nat
  BY <1>1 DEF Roomy
<1> HIDE DEF K, T, S, G, C
<1>5. Reads(K, kind) = k /\ Reads(K, target) = k /\ Reads(K, made) = k
  BY <1>1, <1>2, <1>4, ReadsWritten, ReadsOther
<1>6. Reads(T, target) = a /\ Reads(T, made) = a
  BY <1>1, <1>2, <1>4, ReadsWritten, ReadsOther
<1>7. Reads(G, made) = g /\ Reads(G, by) = g
  BY <1>1, <1>2, <1>4, ReadsWritten, ReadsOther
<1>8. Reads(K, zero) = k /\ Reads(K, source) = k /\ Reads(K, by) = k
  BY <1>1, <1>2, <1>4, <1>5, ReadsOther
<1>9. Reads(S, source) = a /\ Reads(S, by) = a
  BY <1>1, <1>2, <1>4, ReadsWritten, ReadsOther
<1> HIDE DEF made, by
<1>10. /\ Reads(K, Writes(C, c, made)) = k /\ Reads(T, Writes(C, c, made)) = a
       /\ Reads(G, Writes(C, c, made)) = g /\ Reads(C, Writes(C, c, made)) = c
  BY <1>1, <1>2, <1>4, <1>5, <1>6, <1>7, ReadsWritten, ReadsOther
<1>11. /\ Reads(K, Writes(C, c, by)) = k /\ Reads(S, Writes(C, c, by)) = a
       /\ Reads(G, Writes(C, c, by)) = g /\ Reads(C, Writes(C, c, by)) = c
  BY <1>1, <1>2, <1>4, <1>7, <1>8, <1>9, ReadsWritten, ReadsOther
<1>12. LET r == <<k, a, g, c>> IN r[1] = k /\ r[2] = a /\ r[3] = g /\ r[4] = c
  OBVIOUS
<1> QED
  BY <1>3, <1>10, <1>11, <1>12 DEF ComposedReads, K, T, S, G, C

\* The writer of a new learned reference's bitmap, field by field.
LEMMA LearnedIsWritten ==
  ASSUME NEW ingested \in BOOLEAN
  PROVE  LET bm == learn_operational(16, ingested, 3)
         IN  /\ Reads(RefreshPolicy, bm) = 16
             /\ (Reads(LearnMode, bm) = 1) <=> ingested
             /\ Reads(LearnedReferenceSource, bm) = 3
             /\ Reads(DriftSeverity, bm) = 0
<1> DEFINE P == RefreshPolicy
           D == DriftSeverity
           M == LearnMode
           L == LearnedReferenceSource
           policy == Writes(P, 16, {})
           mode == write_flag(ingested, policy, 12)
           bm == Writes(L, 3, mode)
<1>1. learn_operational(16, ingested, 3) = bm
  BY DEF learn_operational, Writes, Field, RefreshPolicy, LearnedReferenceSource
<1>2. /\ Roomy(P) /\ Roomy(D) /\ Roomy(M) /\ Roomy(L)
      /\ Below(P, D) /\ Below(P, M) /\ Below(P, L) /\ Below(D, M) /\ Below(D, L) /\ Below(M, L)
      /\ 16 \in P.legal /\ 3 \in L.legal /\ 0 \in D.legal
  BY DEF Roomy, Below, Field, RefreshPolicy, DriftSeverity, LearnMode, LearnedReferenceSource
<1>3. /\ P.low \in Nat /\ P.width \in Nat /\ D.low \in Nat /\ D.width \in Nat
      /\ M.low \in Nat /\ M.width \in Nat /\ L.low \in Nat /\ L.width \in Nat
  BY <1>2 DEF Roomy
<1>4. /\ \A b \in FieldBits(P) : b # 12
      /\ \A b \in FieldBits(D) : b # 12
  BY DEF FieldBits, Field, RefreshPolicy, DriftSeverity
<1>5. Reads(P, mode) = Reads(P, policy) /\ Reads(D, mode) = Reads(D, policy)
  <2>1. \A b : b # 12 => (b \in mode <=> b \in policy)
    BY DEF write_flag
  <2> HIDE DEF mode, policy, P, D
  <2> QED
    BY <1>3, <1>4, <2>1, ReadsOutside
<1>6. (Reads(M, mode) = 1) <=> ingested
  <2>1. 12 \in mode <=> ingested
    BY DEF write_flag
  <2>2. Reads(M, mode) = Bit(mode, 12)
    <3> HIDE DEF mode
    <3>1. extract_field(mode, 12, 1) = Bit(mode, 12)
      BY OneBit
    <3> QED
      BY <3>1 DEF Reads, from_raw, Bit, Field, LearnMode
  <2> HIDE DEF mode
  <2> QED
    BY <2>1, <2>2 DEF Bit
<1>7. Reads(D, {}) = 0
  <2>1. extract_field({}, D.low, D.width) = 0
    BY <1>3, ReadNone
  <2> QED
    BY <1>2, <2>1 DEF Reads, from_raw
<1> HIDE DEF P, D, M, L, mode
<1>8. Reads(P, policy) = 16 /\ Reads(D, policy) = 0
  BY <1>2, <1>3, <1>7, ReadsWritten, ReadsOther
<1> HIDE DEF policy
<1>9. Reads(L, bm) = 3 /\ Reads(P, bm) = 16 /\ Reads(D, bm) = 0 /\ Reads(M, bm) = Reads(M, mode)
  BY <1>2, <1>3, <1>5, <1>8, ReadsWritten, ReadsOther
<1> HIDE DEF bm
<1> QED
  BY <1>1, <1>6, <1>9 DEF P, D, M, L

\* Retiring a tunnel and taking it back touch one bit, the one that is_retired reads.
LEMMA RetiredIsABit ==
  ASSUME NEW bm
  PROVE  /\ \A f \in DOMAIN TunnelOperational \ {"is_retired"} :
              /\ Reads(TunnelOperational[f], with_retired(bm)) = Reads(TunnelOperational[f], bm)
              /\ Reads(TunnelOperational[f], with_unretired(bm)) = Reads(TunnelOperational[f], bm)
         /\ Reads(TunnelOperational.is_retired, with_retired(bm)) = 1
         /\ Reads(TunnelOperational.is_retired, with_unretired(with_retired(bm))) = 0
<1>1. /\ \A b : b # 13 => (b \in with_retired(bm) <=> b \in bm)
      /\ \A b : b # 13 => (b \in with_unretired(bm) <=> b \in bm)
      /\ 13 \in with_retired(bm)
      /\ 13 \notin with_unretired(with_retired(bm))
  BY DEF with_retired, with_unretired, IS_RETIRED_BIT
<1>2. ASSUME NEW f \in DOMAIN TunnelOperational, f # "is_retired"
      PROVE  /\ TunnelOperational[f].low \in Nat /\ TunnelOperational[f].width \in Nat
             /\ \A b \in FieldBits(TunnelOperational[f]) : b # 13
  BY <1>2 DEF FieldBits, Field, TunnelOperational, TunnelDirection, TunnelLifecycle,
     TunnelOriginClass, TunnelStrength
<1>3. \A bn : Reads(TunnelOperational.is_retired, bn) = Bit(bn, 13)
  <2> TAKE bn
  <2>1. extract_field(bn, 13, 1) = Bit(bn, 13)
    BY OneBit
  <2> QED
    BY <2>1 DEF Reads, from_raw, Bit, Field, TunnelOperational
<1>4. ASSUME NEW f \in DOMAIN TunnelOperational \ {"is_retired"}
      PROVE  /\ Reads(TunnelOperational[f], with_retired(bm)) = Reads(TunnelOperational[f], bm)
             /\ Reads(TunnelOperational[f], with_unretired(bm)) = Reads(TunnelOperational[f], bm)
  BY <1>1, <1>2, ReadsOutside
<1> QED
  BY <1>1, <1>3, <1>4 DEF Bit

\* A slot of the audit gate and a field that the accessors read are the same.
SlotIs(slot, field) ==
  /\ slot.low = field.low
  /\ slot.width = field.width
  /\ slot.values # {} => slot.values = field.legal

\* The slots the audit gate is given are the fields the accessors read.
LEMMA SlotsAreFields ==
  \A bitmap \in DOMAIN union_slots : \A s \in DOMAIN union_slots[bitmap] :
    SlotIs(union_slots[bitmap][s],
            (IF bitmap = "provenance" THEN Provenance ELSE DrawerOperational)[s])
<1>1. DOMAIN union_slots = {"operational", "provenance"}
  BY DEF union_slots
<1>2. ASSUME NEW s \in DOMAIN union_slots["provenance"]
      PROVE  SlotIs(union_slots["provenance"][s], Provenance[s])
  <2>0. s \in {"source_type", "channel", "prov_capture_channel", "confirmation", "confidence",
               "sensitivity_at_capture", "enrichment_status"}
    BY DEF union_slots
  <2>1. CASE s = "source_type"
    BY <2>1 DEF union_slots, SlotIs, Slot, Field, Provenance, SourceType
  <2>2. CASE s = "channel"
    BY <2>2 DEF union_slots, SlotIs, Slot, Field, Provenance, Channel
  <2>3. CASE s = "prov_capture_channel"
    BY <2>3 DEF union_slots, SlotIs, Slot, Field, Provenance, ProvCaptureChannel
  <2>4. CASE s = "confirmation"
    BY <2>4 DEF union_slots, SlotIs, Slot, Field, Provenance, Confirmation
  <2>5. CASE s = "confidence"
    BY <2>5 DEF union_slots, SlotIs, Slot, Field, Provenance, Confidence
  <2>6. CASE s = "sensitivity_at_capture"
    BY <2>6 DEF union_slots, SlotIs, Slot, Field, Provenance, Sensitivity
  <2>7. CASE s = "enrichment_status"
    BY <2>7 DEF union_slots, SlotIs, Slot, Field, Provenance, EnrichmentStatus
  <2> QED
    BY <2>0, <2>1, <2>2, <2>3, <2>4, <2>5, <2>6, <2>7
<1>3. ASSUME NEW s \in DOMAIN union_slots["operational"]
      PROVE  SlotIs(union_slots["operational"][s], DrawerOperational[s])
  <2>0. s \in {"capture_channel", "content_kind", "feature_flags", "state_extension",
               "lineage_clustering"}
    BY DEF union_slots
  <2>1. CASE s = "capture_channel"
    BY <2>1 DEF union_slots, SlotIs, Slot, Field, DrawerOperational, CaptureChannel
  <2>2. CASE s = "content_kind"
    BY <2>2 DEF union_slots, SlotIs, Slot, Field, DrawerOperational, ContentKind
  <2>3. CASE s = "feature_flags"
    BY <2>3 DEF union_slots, SlotIs, Slot, Field, DrawerOperational
  <2>4. CASE s = "state_extension"
    BY <2>4 DEF union_slots, SlotIs, Slot, Field, DrawerOperational
  <2>5. CASE s = "lineage_clustering"
    BY <2>5 DEF union_slots, SlotIs, Slot, Field, DrawerOperational
  <2> QED
    BY <2>0, <2>1, <2>2, <2>3, <2>4, <2>5
<1> QED
  BY <1>1, <1>2, <1>3

(***************************************************************************)
(* The calendar                                                            *)
(***************************************************************************)

\* A day of an era of 400 years that begin in March: century c of it, four years q of that,
\* year r of those, day doy of the year, which has a 366th day before a leap year's March.
IsDay(c, q, r, doy) ==
  /\ 0 <= c /\ c <= 3 /\ 0 <= q /\ q <= 24 /\ 0 <= r /\ r <= 3 /\ 0 <= doy /\ doy <= 365
  /\ doy = 365 => r = 3 /\ (q < 24 \/ c = 3)
DayOfEra(c, q, r, doy) == 36524 * c + 1461 * q + 365 * r + doy
YearOfEra(c, q, r) == 100 * c + 4 * q + r

\* Every day of the era has these parts.
LEMMA DayHasParts ==
  ASSUME NEW doe \in Int, 0 <= doe, doe <= 146096
  PROVE  \E c, q, r, doy \in Int : IsDay(c, q, r, doy) /\ doe = DayOfEra(c, q, r, doy)
<1>1. PICK c, rem \in Int : /\ 0 <= c /\ c <= 3 /\ 0 <= rem /\ rem <= 36524
                            /\ rem = 36524 => c = 3
                            /\ doe = 36524 * c + rem
  <2>1. CASE doe = 146096
    BY <2>1
  <2>2. CASE doe # 146096
    <3>1. PICK c \in Int : c = doe \div 36524
      OBVIOUS
    <3>2. /\ 0 <= c /\ c <= 3 /\ 0 <= doe - 36524 * c /\ doe - 36524 * c < 36524
      BY <2>2, <3>1
    <3> QED
      BY <3>2
  <2> QED
    BY <2>1, <2>2
<1>2. PICK q, rem2 \in Int : /\ 0 <= q /\ q <= 24 /\ 0 <= rem2 /\ rem2 <= 1460
                             /\ rem = 1461 * q + rem2
  <2>1. PICK q \in Int : q = rem \div 1461
    OBVIOUS
  <2>2. 0 <= q /\ q <= 24 /\ 0 <= rem - 1461 * q /\ rem - 1461 * q <= 1460
    BY <1>1, <2>1
  <2> QED
    BY <2>2
<1>3. PICK r, doy \in Int : /\ 0 <= r /\ r <= 3 /\ 0 <= doy /\ doy <= 365
                            /\ doy = 365 => r = 3 /\ rem2 = 1460
                            /\ rem2 = 365 * r + doy
  <2>1. CASE rem2 = 1460
    BY <2>1
  <2>2. CASE rem2 # 1460
    <3>1. PICK r \in Int : r = rem2 \div 365
      OBVIOUS
    <3>2. 0 <= r /\ r <= 3 /\ 0 <= rem2 - 365 * r /\ rem2 - 365 * r < 365
      BY <1>2, <2>2, <3>1
    <3> QED
      BY <3>2
  <2> QED
    BY <2>1, <2>2
<1>4. IsDay(c, q, r, doy) /\ doe = DayOfEra(c, q, r, doy)
  BY <1>1, <1>2, <1>3 DEF IsDay, DayOfEra
<1> QED
  BY <1>4

\* The year that civil_from_days computes from such a day.
LEMMA YearOfDay ==
  ASSUME NEW c \in Int, NEW q \in Int, NEW r \in Int, NEW doy \in Int, IsDay(c, q, r, doy),
         NEW doe \in Int, doe = DayOfEra(c, q, r, doy), NEW yoe \in Int, yoe = YearOfEra(c, q, r)
  PROVE  year_of_era(doe) = yoe
<1>1. PICK k, s \in Int : /\ k = (IF 24 * c + q + 365 * r + doy >= 1460 THEN 1 ELSE 0)
                          /\ s = doy - k
  OBVIOUS
<1>2. 0 <= s /\ s <= 364
  BY <1>1 DEF IsDay
<1>3. PICK x, y, z \in Int : x = doe \div 1460 /\ y = doe \div 36524 /\ z = doe \div 146096
  OBVIOUS
<1>4. x = 25 * c + q + k
  <2>1. 1460 * (25 * c + q + k) <= doe /\ doe < 1460 * (25 * c + q + k) + 1460
    BY <1>1 DEF IsDay, DayOfEra
  <2> QED
    BY <1>3, <2>1
<1>5. y - z = c
  <2>1. CASE doe = 146096
    BY <1>3, <2>1 DEF IsDay, DayOfEra
  <2>2. CASE doe # 146096
    <3>1. 36524 * c <= doe /\ doe < 36524 * c + 36524
      BY <2>2 DEF IsDay, DayOfEra
    <3>2. 0 <= doe /\ doe < 146096
      BY <2>2 DEF IsDay, DayOfEra
    <3> QED
      BY <1>3, <3>1, <3>2
  <2> QED
    BY <2>1, <2>2
<1>6. doe - x + y - z = 365 * yoe + s
  BY <1>1, <1>4, <1>5 DEF DayOfEra, YearOfEra
<1>7. (365 * yoe + s) \div 365 = yoe
  BY <1>2
<1> QED
  BY <1>3, <1>6, <1>7 DEF year_of_era

\* What days_from_civil computes from that year.
LEMMA DayOfYear ==
  ASSUME NEW c \in Int, NEW q \in Int, NEW r \in Int, NEW doy \in Int, IsDay(c, q, r, doy),
         NEW doe \in Int, doe = DayOfEra(c, q, r, doy), NEW yoe \in Int, yoe = YearOfEra(c, q, r)
  PROVE  /\ doe = days_before_year(yoe) + doy /\ days_before_year(yoe) \in Int
         /\ 0 <= yoe /\ yoe <= 399 /\ 0 <= doe /\ doe <= 146096
<1>1. 0 <= yoe /\ yoe <= 399 /\ 0 <= doe /\ doe <= 146096
  BY DEF IsDay, DayOfEra, YearOfEra
<1>2. PICK x, y \in Int : x = yoe \div 4 /\ y = yoe \div 100
  OBVIOUS
<1>3. x = 25 * c + q
  <2>1. 4 * (25 * c + q) <= yoe /\ yoe < 4 * (25 * c + q) + 4
    BY DEF IsDay, YearOfEra
  <2> QED
    BY <1>2, <2>1
<1>4. y = c
  <2>1. 100 * c <= yoe /\ yoe < 100 * c + 100
    BY DEF IsDay, YearOfEra
  <2> QED
    BY <1>2, <2>1
<1>5. doe = 365 * yoe + x - y + doy
  BY <1>3, <1>4 DEF DayOfEra, YearOfEra
<1> QED
  BY <1>1, <1>2, <1>5 DEF days_before_year

\* The month that civil_from_days computes from a day of the year.
LEMMA MonthOfDay ==
  ASSUME NEW doy \in Int, 0 <= doy, doy <= 365
  PROVE  \E mp, d \in Int : /\ 0 <= mp /\ mp <= 11 /\ 1 <= d /\ d <= 31
                            /\ mp = month_of_year(doy)
                            /\ d = doy - days_before_month(mp) + 1
<1>1. PICK mp \in Int : mp = (5 * doy + 2) \div 153
  OBVIOUS
<1>2. PICK s \in Int : s = (153 * mp + 2) \div 5
  OBVIOUS
<1>3. 153 * mp <= 5 * doy + 2 /\ 5 * doy + 2 < 153 * mp + 153
  BY <1>1
<1>4. 5 * s <= 153 * mp + 2 /\ 153 * mp + 2 < 5 * s + 5
  BY <1>2
<1>5. 0 <= mp /\ mp <= 11 /\ 1 <= doy - s + 1 /\ doy - s + 1 <= 31
  BY <1>3, <1>4
<1> QED
  BY <1>1, <1>2, <1>5 DEF days_before_month, month_of_year

\* The days of the month mp of a year that begins in March, and a long February.
MonthLength(mp) == IF mp = 11 THEN 29 ELSE IF mp \in {1, 3, 6, 8} THEN 30 ELSE 31

\* And back: the month of a day is the one it was made from.
LEMMA DayOfMonth ==
  ASSUME NEW mp \in Int, 0 <= mp, mp <= 11, NEW d \in Int, 1 <= d, d <= MonthLength(mp),
         NEW doy \in Int, doy = days_before_month(mp) + d - 1
  PROVE  /\ month_of_year(doy) = mp
         /\ 0 <= doy /\ doy <= 365
         /\ doy = 365 => mp = 11 /\ d = 29
<1>1. mp \in 0..11
  OBVIOUS
<1>2. CASE mp \in {0, 2, 4, 5, 7, 9, 10}
  BY <1>2 DEF days_before_month, month_of_year, MonthLength
<1>3. CASE mp \in {1, 3, 6, 8}
  BY <1>3 DEF days_before_month, month_of_year, MonthLength
<1>4. CASE mp = 11
  BY <1>4 DEF days_before_month, month_of_year, MonthLength
<1> QED
  BY <1>1, <1>2, <1>3, <1>4

\* civil_from_days, step by step.
LEMMA CivilBy ==
  ASSUME NEW z0 \in Int, NEW z \in Int, NEW era \in Int, NEW doe \in Int, NEW yoe \in Int,
         NEW doy \in Int, NEW mp \in Int, NEW m \in Int,
         z = z0 + EpochShift, era = z \div DaysPerEra, doe = z - era * DaysPerEra,
         yoe = year_of_era(doe), doy = doe - days_before_year(yoe), mp = month_of_year(doy),
         m = IF mp < 10 THEN mp + 3 ELSE mp - 9
  PROVE  civil_from_days(z0) = <<(yoe + era * 400) + (IF m <= 2 THEN 1 ELSE 0), m,
                                 doy - days_before_month(mp) + 1>>
BY SMT DEF civil_from_days

\* days_from_civil, step by step.
LEMMA DaysBy ==
  ASSUME NEW y0 \in Int, NEW m \in Int, NEW d \in Int, NEW y \in Int, NEW era \in Int,
         NEW yoe \in Int, NEW mp \in Int, NEW doy \in Int,
         y = (IF m <= 2 THEN y0 - 1 ELSE y0),
         era = y \div 400, yoe = y - era * 400,
         mp = (IF m > 2 THEN m - 3 ELSE m + 9),
         doy = days_before_month(mp) + d - 1
  PROVE  days_from_civil(y0, m, d) = era * DaysPerEra + (days_before_year(yoe) + doy) - EpochShift
BY SMT DEF days_from_civil

\* The parts are integers.
LEMMA PartsAreIntegers ==
  /\ DaysPerEra \in Int /\ EpochShift \in Int
  /\ \A n \in Int : /\ days_before_year(n) \in Int /\ year_of_era(n) \in Int
                    /\ days_before_month(n) \in Int /\ month_of_year(n) \in Int
BY DEF DaysPerEra, EpochShift, days_before_year, year_of_era, days_before_month, month_of_year

\* The date of a day is one whose day is that day.
LEMMA DateOfDay ==
  ASSUME NEW z0 \in Int
  PROVE  \E y, m, d \in Int : /\ civil_from_days(z0) = <<y, m, d>>
                              /\ 1 <= m /\ m <= 12 /\ 1 <= d /\ d <= 31
                              /\ days_from_civil(y, m, d) = z0
                              /\ z0 >= 0 => y >= 1
<1>1. PICK z, era, doe \in Int : z = z0 + 719468 /\ era = z \div 146097 /\ doe = z - era * 146097
  OBVIOUS
<1>2. 0 <= doe /\ doe <= 146096
  BY <1>1
<1>3. PICK c, q, r, doy \in Int : IsDay(c, q, r, doy) /\ doe = DayOfEra(c, q, r, doy)
  BY <1>2, DayHasParts
<1>4. PICK yoe \in Int : yoe = YearOfEra(c, q, r)
  BY DEF YearOfEra
<1>5. yoe = year_of_era(doe)
  BY <1>3, <1>4, YearOfDay
<1>6. PICK x \in Int : x = days_before_year(yoe)
  BY PartsAreIntegers
<1>7. doe = x + doy /\ 0 <= yoe /\ yoe <= 399
  BY <1>3, <1>4, <1>6, DayOfYear
<1>8. doy = doe - x /\ 0 <= doy /\ doy <= 365
  BY <1>3, <1>7 DEF IsDay
<1>9. PICK mp, d \in Int : /\ 0 <= mp /\ mp <= 11 /\ 1 <= d /\ d <= 31
                           /\ mp = month_of_year(doy)
                           /\ d = doy - days_before_month(mp) + 1
  BY <1>8, MonthOfDay
<1>10. PICK m, y1, y \in Int : /\ m = (IF mp < 10 THEN mp + 3 ELSE mp - 9)
                               /\ y1 = yoe + era * 400
                               /\ y = y1 + (IF m <= 2 THEN 1 ELSE 0)
  OBVIOUS
<1>11. civil_from_days(z0) = <<y, m, d>>
  <2>1. z = z0 + EpochShift /\ era = z \div DaysPerEra /\ doe = z - era * DaysPerEra
    BY <1>1 DEF EpochShift, DaysPerEra
  <2>2. civil_from_days(z0) = <<(yoe + era * 400) + (IF m <= 2 THEN 1 ELSE 0), m,
                                doy - days_before_month(mp) + 1>>
    BY <2>1, <1>5, <1>6, <1>8, <1>9, <1>10, CivilBy
  <2> QED
    BY <1>9, <1>10, <2>2
<1>12. 1 <= m /\ m <= 12
  BY <1>9, <1>10
<1>13. /\ y1 = (IF m <= 2 THEN y - 1 ELSE y)
       /\ mp = (IF m > 2 THEN m - 3 ELSE m + 9)
  BY <1>9, <1>10
<1>14. era = y1 \div 400 /\ yoe = y1 - era * 400
  BY <1>7, <1>10
<1>15. doy = days_before_month(mp) + d - 1
  <2>1. PICK s \in Int : s = days_before_month(mp)
    BY PartsAreIntegers
  <2> QED
    BY <1>9, <2>1
<1>16. days_from_civil(y, m, d) = era * DaysPerEra + (x + doy) - EpochShift
  BY <1>6, <1>13, <1>14, <1>15, DaysBy
<1>17. days_from_civil(y, m, d) = z0
  BY <1>1, <1>7, <1>16 DEF DaysPerEra, EpochShift
<1>18. z0 >= 0 => y >= 1
  BY <1>1, <1>7, <1>10
<1> QED
  BY <1>11, <1>12, <1>9, <1>17, <1>18

\* The days of month m of year y.
Length(y, m) == days_in_months(y)[m]

\* A year before which a leap day falls ends a cycle of four, unless it ends a century that
\* does not end the era.
YearAfter(era, c, q, r) == 400 * era + 100 * c + 4 * q + r + 1
LEMMA LeapParts ==
  ASSUME NEW era \in Int, NEW c \in Int, NEW q \in Int, NEW r \in Int,
         0 <= c, c <= 3, 0 <= q, q <= 24, 0 <= r, r <= 3,
         NEW y \in Int, y = YearAfter(era, c, q, r)
  PROVE  is_leap(y) <=> (r = 3 /\ (q < 24 \/ c = 3))
<1> USE DEF YearAfter
<1>1. y % 4 = 0 <=> r = 3
  <2>1. CASE r = 3
    <3>1. y = 4 * (100 * era + 25 * c + q + 1)
      BY <2>1
    <3> QED
      BY <2>1, <3>1
  <2>2. CASE r # 3
    <3>1. y = 4 * (100 * era + 25 * c + q) + (r + 1)
      OBVIOUS
    <3> QED
      BY <2>2, <3>1
  <2> QED
    BY <2>1, <2>2
<1>2. y % 100 = 0 <=> (r = 3 /\ q = 24)
  <2>1. PICK s \in Int : s = 4 * q + r + 1
    OBVIOUS
  <2>2. y = 100 * (4 * era + c) + s /\ 1 <= s /\ s <= 100
    BY <2>1
  <2>3. y % 100 = 0 <=> s = 100
    BY <2>2
  <2> QED
    BY <2>1, <2>3
<1>3. y % 400 = 0 <=> (r = 3 /\ q = 24 /\ c = 3)
  <2>1. PICK s \in Int : s = 100 * c + 4 * q + r + 1
    OBVIOUS
  <2>2. y = 400 * era + s /\ 1 <= s /\ s <= 400
    BY <2>1
  <2>3. y % 400 = 0 <=> s = 400
    BY <2>2
  <2> QED
    BY <2>1, <2>3
<1> QED
  BY <1>1, <1>2, <1>3 DEF is_leap

\* Months counted from March, and how long they are.
LEMMA LengthBy ==
  ASSUME NEW y \in Int, NEW m \in Int, 1 <= m, m <= 12,
         NEW mp \in Int, mp = (IF m > 2 THEN m - 3 ELSE m + 9)
  PROVE  /\ 0 <= mp /\ mp <= 11 /\ Length(y, m) \in Int
         /\ mp # 11 => Length(y, m) = MonthLength(mp)
         /\ mp = 11 => m = 2 /\ Length(y, m) = (IF is_leap(y) THEN 29 ELSE 28)
         /\ m = (IF mp < 10 THEN mp + 3 ELSE mp - 9)
<1> USE DEF Length, days_in_months, MonthLength
<1>1. CASE m = 1
  BY <1>1
<1>2. CASE m = 2
  BY <1>2
<1>3. CASE m = 3
  BY <1>3
<1>4. CASE m = 4
  BY <1>4
<1>5. CASE m = 5
  BY <1>5
<1>6. CASE m = 6
  BY <1>6
<1>7. CASE m = 7
  BY <1>7
<1>8. CASE m = 8
  BY <1>8
<1>9. CASE m = 9
  BY <1>9
<1>10. CASE m = 10
  BY <1>10
<1>11. CASE m = 11
  BY <1>11
<1>12. CASE m = 12
  BY <1>12
<1> QED
  BY <1>1, <1>2, <1>3, <1>4, <1>5, <1>6, <1>7, <1>8, <1>9, <1>10, <1>11, <1>12

\* A date that exists is the date of its day.
LEMMA DayOfDate ==
  ASSUME NEW y \in Int, NEW m \in Int, NEW d \in Int, 1 <= m, m <= 12, 1 <= d, d <= Length(y, m)
  PROVE  civil_from_days(days_from_civil(y, m, d)) = <<y, m, d>>
<1>a. PICK y1 \in Int : y1 = (IF m <= 2 THEN y - 1 ELSE y)
  OBVIOUS
<1>b. PICK mp \in Int : mp = (IF m > 2 THEN m - 3 ELSE m + 9)
  OBVIOUS
<1>c. PICK era \in Int : era = y1 \div 400
  OBVIOUS
<1>d. PICK yoe \in Int : yoe = y1 - era * 400
  OBVIOUS
<1>1. /\ y1 = (IF m <= 2 THEN y - 1 ELSE y)
      /\ era = y1 \div 400 /\ yoe = y1 - era * 400
      /\ mp = (IF m > 2 THEN m - 3 ELSE m + 9)
  BY <1>a, <1>b, <1>c, <1>d
<1>2. 0 <= yoe /\ yoe <= 399
  BY <1>1
<1>3. PICK c, q, r \in Int : /\ 0 <= c /\ c <= 3 /\ 0 <= q /\ q <= 24 /\ 0 <= r /\ r <= 3
                             /\ yoe = YearOfEra(c, q, r)
  <2>1. PICK c, s \in Int : c = yoe \div 100 /\ s = yoe - 100 * c
    OBVIOUS
  <2>2. 0 <= c /\ c <= 3 /\ 0 <= s /\ s <= 99
    BY <1>2, <2>1
  <2>3. PICK q, r \in Int : q = s \div 4 /\ r = s - 4 * q
    OBVIOUS
  <2>4. 0 <= q /\ q <= 24 /\ 0 <= r /\ r <= 3
    BY <2>2, <2>3
  <2>5. yoe = YearOfEra(c, q, r)
    BY <2>1, <2>3 DEF YearOfEra
  <2> QED
    BY <2>2, <2>4, <2>5
<1>4. /\ 0 <= mp /\ mp <= 11
      /\ mp # 11 => Length(y, m) = MonthLength(mp)
      /\ mp = 11 => m = 2 /\ Length(y, m) = (IF is_leap(y) THEN 29 ELSE 28)
      /\ m = (IF mp < 10 THEN mp + 3 ELSE mp - 9)
  BY <1>1, LengthBy
<1>5. d <= MonthLength(mp)
  BY <1>4 DEF MonthLength
<1>6. PICK doy \in Int : doy = days_before_month(mp) + d - 1
  BY PartsAreIntegers
<1>7. month_of_year(doy) = mp /\ 0 <= doy /\ doy <= 365 /\ (doy = 365 => mp = 11 /\ d = 29)
  BY <1>4, <1>5, <1>6, DayOfMonth
<1>8. doy = 365 => r = 3 /\ (q < 24 \/ c = 3)
  <2> SUFFICES ASSUME doy = 365 PROVE r = 3 /\ (q < 24 \/ c = 3)
    OBVIOUS
  <2>1. is_leap(y) /\ m = 2
    BY <1>4, <1>7
  <2>2. yoe = y1 - era * 400 /\ y1 = y - 1
    BY <1>1, <2>1
  <2>3. yoe = 100 * c + 4 * q + r
    BY <1>3 DEF YearOfEra
  <2>4. y = YearAfter(era, c, q, r)
    BY <2>2, <2>3 DEF YearAfter
  <2>5. is_leap(y) <=> (r = 3 /\ (q < 24 \/ c = 3))
    BY <1>3, <2>4, LeapParts
  <2> QED
    BY <2>1, <2>5
<1>9. IsDay(c, q, r, doy)
  BY <1>3, <1>7, <1>8 DEF IsDay
<1>10. PICK doe \in Int : doe = DayOfEra(c, q, r, doy)
  BY DEF DayOfEra
<1>11. PICK x \in Int : x = days_before_year(yoe)
  BY PartsAreIntegers
<1>12. year_of_era(doe) = yoe
  BY <1>3, <1>9, <1>10, YearOfDay
<1>13. doe = x + doy /\ 0 <= doe /\ doe <= 146096
  BY <1>3, <1>9, <1>10, <1>11, DayOfYear, SMTT(40)
<1>14. PICK z0 \in Int : z0 = days_from_civil(y, m, d) /\ z0 = era * 146097 + doe - 719468
  <2>1. days_from_civil(y, m, d) = era * DaysPerEra + (x + doy) - EpochShift
    BY <1>1, <1>6, <1>11, DaysBy
  <2> QED
    BY <1>13, <2>1 DEF DaysPerEra, EpochShift
<1>15. PICK z \in Int : z = z0 + 719468
  OBVIOUS
<1>16. era = z \div 146097 /\ doe = z - era * 146097
  <2>1. z = 146097 * era + doe
    BY <1>14, <1>15
  <2>2. 0 <= doe /\ doe < 146097
    BY <1>13
  <2> QED
    BY <2>1, <2>2
<1>17. z = z0 + EpochShift /\ era = z \div DaysPerEra /\ doe = z - era * DaysPerEra
  BY <1>15, <1>16 DEF DaysPerEra, EpochShift
<1>18. doy = doe - days_before_year(yoe)
  BY <1>11, <1>13
<1>19. civil_from_days(z0) = <<(yoe + era * 400) + (IF m <= 2 THEN 1 ELSE 0), m,
                               doy - days_before_month(mp) + 1>>
  <2>1. m = IF mp < 10 THEN mp + 3 ELSE mp - 9
    BY <1>4
  <2>2. mp = month_of_year(doy) /\ yoe = year_of_era(doe)
    BY <1>7, <1>12
  <2> QED
    BY SMTT(30), <2>1, <2>2, <1>17, <1>18 DEF civil_from_days
<1>20. (yoe + era * 400) + (IF m <= 2 THEN 1 ELSE 0) = y
  BY <1>1
<1>21. doy - days_before_month(mp) + 1 = d
  <2>1. PICK s \in Int : s = days_before_month(mp)
    BY PartsAreIntegers
  <2> QED
    BY <1>6, <2>1
<1> QED
  BY <1>14, <1>19, <1>20, <1>21

\* The days before the first of March of year y.
MarchDays(y) == (y \div 400) * DaysPerEra + days_before_year(y - (y \div 400) * 400)

LEMMA MarchDaysBy ==
  ASSUME NEW y \in Int, NEW era \in Int, NEW c \in Int, NEW q \in Int, NEW r \in Int,
         0 <= c, c <= 3, 0 <= q, q <= 24, 0 <= r, r <= 3,
         y + 1 = YearAfter(era, c, q, r)
  PROVE  MarchDays(y) = 146097 * era + 36524 * c + 1461 * q + 365 * r
<1>1. PICK yoe \in Int : yoe = 100 * c + 4 * q + r
  OBVIOUS
<1>2. y = 400 * era + yoe /\ 0 <= yoe /\ yoe <= 399
  BY <1>1 DEF YearAfter
<1>3. y \div 400 = era
  BY <1>2
<1>4. y - (y \div 400) * 400 = yoe
  BY <1>2, <1>3
<1>5. IsDay(c, q, r, 0)
  BY DEF IsDay
<1>6. yoe = YearOfEra(c, q, r)
  BY <1>1 DEF YearOfEra
<1>7. PICK x \in Int : x = days_before_year(yoe)
  BY PartsAreIntegers
<1>8. PICK doe \in Int : doe = DayOfEra(c, q, r, 0)
  BY DEF DayOfEra
<1>9. doe = x
  BY <1>5, <1>6, <1>7, <1>8, DayOfYear, SMTT(40)
<1>10. MarchDays(y) = era * DaysPerEra + x
  BY <1>3, <1>4, <1>7 DEF MarchDays
<1> QED
  BY <1>8, <1>9, <1>10 DEF DayOfEra, DaysPerEra

LEMMA YearHasParts ==
  ASSUME NEW y \in Int
  PROVE  \E era, c, q, r \in Int : /\ 0 <= c /\ c <= 3 /\ 0 <= q /\ q <= 24 /\ 0 <= r /\ r <= 3
                                   /\ y + 1 = YearAfter(era, c, q, r)
<1>1. PICK era \in Int : era = y \div 400
  OBVIOUS
<1>2. PICK t \in Int : t = y - 400 * era /\ 0 <= t /\ t <= 399
  BY <1>1
<1>3. PICK c \in Int : c = t \div 100
  OBVIOUS
<1>4. PICK s \in Int : s = t - 100 * c /\ 0 <= s /\ s <= 99 /\ 0 <= c /\ c <= 3
  BY <1>2, <1>3
<1>5. PICK q \in Int : q = s \div 4
  OBVIOUS
<1>6. PICK r \in Int : r = s - 4 * q /\ 0 <= r /\ r <= 3 /\ 0 <= q /\ q <= 24
  BY <1>4, <1>5
<1>7. y + 1 = YearAfter(era, c, q, r)
  BY <1>2, <1>4, <1>6 DEF YearAfter
<1> QED
  BY <1>4, <1>6, <1>7

\* From one first of March to the next: the leap day, if any, is the next year's.
LEMMA MarchToMarch ==
  ASSUME NEW y \in Int
  PROVE  /\ MarchDays(y) \in Int
         /\ MarchDays(y + 1) = MarchDays(y) + days_in_year(y + 1)
<1>1. PICK era, c, q, r \in Int : /\ 0 <= c /\ c <= 3 /\ 0 <= q /\ q <= 24 /\ 0 <= r /\ r <= 3
                                  /\ y + 1 = YearAfter(era, c, q, r)
  BY YearHasParts
<1>2. MarchDays(y) = 146097 * era + 36524 * c + 1461 * q + 365 * r
  BY <1>1, MarchDaysBy
<1>3. PICK y1 \in Int : y1 = y + 1
  OBVIOUS
<1>4. is_leap(y1) <=> (r = 3 /\ (q < 24 \/ c = 3))
  BY <1>1, <1>3, LeapParts
<1>5. CASE r < 3
  <2>1. PICK r1 \in Int : r1 = r + 1 /\ 0 <= r1 /\ r1 <= 3
    BY <1>1, <1>5
  <2>2. y1 + 1 = YearAfter(era, c, q, r1)
    BY <1>1, <1>3, <2>1 DEF YearAfter
  <2>3. MarchDays(y1) = 146097 * era + 36524 * c + 1461 * q + 365 * r1
    BY <1>1, <2>1, <2>2, MarchDaysBy
  <2> QED
    BY <1>2, <1>3, <1>4, <1>5, <2>1, <2>3 DEF days_in_year
<1>6. CASE r = 3 /\ q < 24
  <2>1. PICK q1 \in Int : q1 = q + 1 /\ 0 <= q1 /\ q1 <= 24
    BY <1>1, <1>6
  <2>2. y1 + 1 = YearAfter(era, c, q1, 0)
    BY <1>1, <1>3, <1>6, <2>1 DEF YearAfter
  <2>3. MarchDays(y1) = 146097 * era + 36524 * c + 1461 * q1 + 365 * 0
    BY <1>1, <2>1, <2>2, MarchDaysBy
  <2> QED
    BY <1>2, <1>3, <1>4, <1>6, <2>1, <2>3 DEF days_in_year
<1>7. CASE r = 3 /\ q = 24 /\ c < 3
  <2>1. PICK c1 \in Int : c1 = c + 1 /\ 0 <= c1 /\ c1 <= 3
    BY <1>1, <1>7
  <2>2. y1 + 1 = YearAfter(era, c1, 0, 0)
    BY <1>1, <1>3, <1>7, <2>1 DEF YearAfter
  <2>3. MarchDays(y1) = 146097 * era + 36524 * c1 + 1461 * 0 + 365 * 0
    BY <1>1, <2>1, <2>2, MarchDaysBy
  <2> QED
    BY <1>2, <1>3, <1>4, <1>7, <2>1, <2>3 DEF days_in_year
<1>8. CASE r = 3 /\ q = 24 /\ c = 3
  <2>1. PICK era1 \in Int : era1 = era + 1
    OBVIOUS
  <2>2. y1 + 1 = YearAfter(era1, 0, 0, 0)
    BY <1>1, <1>3, <1>8, <2>1 DEF YearAfter
  <2>3. MarchDays(y1) = 146097 * era1 + 36524 * 0 + 1461 * 0 + 365 * 0
    BY <2>1, <2>2, MarchDaysBy
  <2> QED
    BY <1>2, <1>3, <1>4, <1>8, <2>1, <2>3 DEF days_in_year
<1> QED
  BY <1>1, <1>5, <1>6, <1>7, <1>8

\* days_from_civil in terms of the years that begin in March.
MarchYear(y, m) == IF m <= 2 THEN y - 1 ELSE y
MarchMonth(m) == IF m > 2 THEN m - 3 ELSE m + 9
LEMMA DaysOfDate ==
  ASSUME NEW y \in Int, NEW m \in Int, NEW d \in Int, NEW y1 \in Int, NEW mp \in Int,
         y1 = MarchYear(y, m), mp = MarchMonth(m)
  PROVE  days_from_civil(y, m, d) = MarchDays(y1) + (days_before_month(mp) + d - 1) - EpochShift
<1>1. PICK era \in Int : era = y1 \div 400
  OBVIOUS
<1>2. PICK yoe \in Int : yoe = y1 - era * 400
  OBVIOUS
<1>3. PICK s \in Int : s = days_before_month(mp)
  BY PartsAreIntegers
<1>4. PICK doy \in Int : doy = days_before_month(mp) + d - 1
  BY <1>3
<1>5. PICK x, e, k \in Int : x = days_before_year(yoe) /\ e = EpochShift /\ k = era * DaysPerEra
  BY PartsAreIntegers
<1>6. days_from_civil(y, m, d) = era * DaysPerEra + (days_before_year(yoe) + doy) - EpochShift
  BY <1>1, <1>2, <1>4, DaysBy DEF MarchYear, MarchMonth
<1>7. MarchDays(y1) = k + x
  BY <1>1, <1>2, <1>5 DEF MarchDays
<1>8. days_from_civil(y, m, d) = k + (x + doy) - e
  BY <1>5, <1>6
<1>9. k + (x + doy) - e = (k + x) + doy - e
  OBVIOUS
<1>10. days_from_civil(y, m, d) = MarchDays(y1) + doy - EpochShift
  BY <1>5, <1>7, <1>8, <1>9
<1> QED
  BY <1>4, <1>10

\* The first of each month is as far from the first of March before it as the months between
\* are long.
FirstsOfMonths(y, a, b, e) ==
  /\ days_from_civil(y, 1, 1) = a + 306 - e /\ days_from_civil(y, 2, 1) = a + 337 - e
  /\ days_from_civil(y, 3, 1) = b - e /\ days_from_civil(y, 4, 1) = b + 31 - e
  /\ days_from_civil(y, 5, 1) = b + 61 - e /\ days_from_civil(y, 6, 1) = b + 92 - e
  /\ days_from_civil(y, 7, 1) = b + 122 - e /\ days_from_civil(y, 8, 1) = b + 153 - e
  /\ days_from_civil(y, 9, 1) = b + 184 - e /\ days_from_civil(y, 10, 1) = b + 214 - e
  /\ days_from_civil(y, 11, 1) = b + 245 - e /\ days_from_civil(y, 12, 1) = b + 275 - e
LEMMA FirstOfMonth ==
  ASSUME NEW y \in Int, NEW y1 \in Int, y1 = y - 1
  PROVE  FirstsOfMonths(y, MarchDays(y1), MarchDays(y), EpochShift)
<1>1. PICK a, b, e \in Int : a = MarchDays(y1) /\ b = MarchDays(y) /\ e = EpochShift
  BY MarchToMarch, PartsAreIntegers
<1>2. /\ days_before_month(10) = 306 /\ days_before_month(11) = 337
      /\ days_before_month(0) = 0 /\ days_before_month(1) = 31
      /\ days_before_month(2) = 61 /\ days_before_month(3) = 92
      /\ days_before_month(4) = 122 /\ days_before_month(5) = 153
      /\ days_before_month(6) = 184 /\ days_before_month(7) = 214
      /\ days_before_month(8) = 245 /\ days_before_month(9) = 275
  BY DEF days_before_month
<1>6. /\ MarchYear(y, 1) = y1 /\ MarchYear(y, 2) = y1
      /\ \A m \in 3..12 : MarchYear(y, m) = y
      /\ MarchMonth(1) = 10 /\ MarchMonth(2) = 11 /\ MarchMonth(3) = 0 /\ MarchMonth(4) = 1
      /\ MarchMonth(5) = 2 /\ MarchMonth(6) = 3 /\ MarchMonth(7) = 4 /\ MarchMonth(8) = 5
      /\ MarchMonth(9) = 6 /\ MarchMonth(10) = 7 /\ MarchMonth(11) = 8 /\ MarchMonth(12) = 9
  BY DEF MarchYear, MarchMonth
<1>3. /\ days_from_civil(y, 1, 1) = a + (days_before_month(10) + 1 - 1) - e
      /\ days_from_civil(y, 2, 1) = a + (days_before_month(11) + 1 - 1) - e
  BY <1>1, <1>6, DaysOfDate
<1>4. /\ days_from_civil(y, 3, 1) = b + (days_before_month(0) + 1 - 1) - e
      /\ days_from_civil(y, 4, 1) = b + (days_before_month(1) + 1 - 1) - e
      /\ days_from_civil(y, 5, 1) = b + (days_before_month(2) + 1 - 1) - e
      /\ days_from_civil(y, 6, 1) = b + (days_before_month(3) + 1 - 1) - e
  BY <1>1, <1>6, DaysOfDate
<1>5. /\ days_from_civil(y, 7, 1) = b + (days_before_month(4) + 1 - 1) - e
      /\ days_from_civil(y, 8, 1) = b + (days_before_month(5) + 1 - 1) - e
      /\ days_from_civil(y, 9, 1) = b + (days_before_month(6) + 1 - 1) - e
      /\ days_from_civil(y, 10, 1) = b + (days_before_month(7) + 1 - 1) - e
      /\ days_from_civil(y, 11, 1) = b + (days_before_month(8) + 1 - 1) - e
      /\ days_from_civil(y, 12, 1) = b + (days_before_month(9) + 1 - 1) - e
  BY <1>1, <1>6, DaysOfDate
<1> QED
  BY <1>1, <1>2, <1>3, <1>4, <1>5 DEF FirstsOfMonths

LEMMA NewYear ==
  ASSUME NEW y \in Int, NEW next \in Int, next = y + 1
  PROVE  /\ days_from_civil(y, 1, 1) \in Int
         /\ days_from_civil(next, 1, 1) = days_from_civil(y, 1, 1) + days_in_year(y)
         /\ days_from_civil(y, 12, 1) + 31 = days_from_civil(y, 1, 1) + days_in_year(y)
<1>1. PICK y1 \in Int : y1 = y - 1
  OBVIOUS
<1>2. days_in_year(y) \in Int
  BY DEF days_in_year
<1>3. PICK a, b, e \in Int : /\ a = MarchDays(y1) /\ b = MarchDays(y) /\ e = EpochShift
                             /\ b = a + days_in_year(y)
  <2>1. MarchDays(y1 + 1) = MarchDays(y1) + days_in_year(y1 + 1) /\ MarchDays(y1) \in Int
    BY MarchToMarch
  <2>2. y1 + 1 = y
    BY <1>1
  <2>3. MarchDays(y) \in Int
    BY MarchToMarch
  <2> QED
    BY <2>1, <2>2, <2>3, PartsAreIntegers
<1>4. FirstsOfMonths(y, a, b, e)
  BY <1>1, <1>3, FirstOfMonth
<1>5. y = next - 1
  OBVIOUS
<1>6. FirstsOfMonths(next, b, MarchDays(next), e)
  BY <1>3, <1>5, FirstOfMonth
<1>7. days_from_civil(y, 1, 1) = a + 306 - e /\ days_from_civil(y, 12, 1) = b + 275 - e
  BY <1>4 DEF FirstsOfMonths
<1>8. days_from_civil(next, 1, 1) = b + 306 - e
  BY <1>6 DEF FirstsOfMonths
<1> QED
  BY <1>2, <1>3, <1>7, <1>8

LEMMA NextMonth ==
  ASSUME NEW y \in Int, NEW m \in Int, 1 <= m, m <= 11
  PROVE  /\ days_from_civil(y, m, 1) \in Int
         /\ days_from_civil(y, m + 1, 1) = days_from_civil(y, m, 1) + Length(y, m)
<1>1. PICK y1 \in Int : y1 = y - 1
  OBVIOUS
<1>2. PICK a, b, e \in Int : /\ a = MarchDays(y1) /\ b = MarchDays(y) /\ e = EpochShift
                             /\ b = a + days_in_year(y)
  <2>1. MarchDays(y1 + 1) = MarchDays(y1) + days_in_year(y1 + 1) /\ MarchDays(y1) \in Int
    BY MarchToMarch
  <2>2. y1 + 1 = y
    BY <1>1
  <2>3. MarchDays(y) \in Int
    BY MarchToMarch
  <2> QED
    BY <2>1, <2>2, <2>3, PartsAreIntegers
<1>3. FirstsOfMonths(y, a, b, e)
  BY <1>1, <1>2, FirstOfMonth
<1>4. /\ Length(y, 1) = 31 /\ Length(y, 2) = (IF is_leap(y) THEN 29 ELSE 28)
      /\ Length(y, 3) = 31 /\ Length(y, 4) = 30 /\ Length(y, 5) = 31 /\ Length(y, 6) = 30
      /\ Length(y, 7) = 31 /\ Length(y, 8) = 31 /\ Length(y, 9) = 30 /\ Length(y, 10) = 31
      /\ Length(y, 11) = 30
  BY DEF Length, days_in_months
<1>5. m \in 1..11
  OBVIOUS
<1> QED
  BY <1>2, <1>3, <1>4, <1>5 DEF FirstsOfMonths, days_in_year

\* The same loop as an equation, for a step that does not count its rounds.
Repeats(f, S, s, step) ==
  f \in [Nat -> S] /\ f = [n \in Nat |-> IF n = 0 THEN s ELSE step[f[n - 1]]]
LEMMA LoopEquation ==
  ASSUME NEW S, NEW s \in S, NEW step \in [S -> S]
  PROVE  \E f : Repeats(f, S, s, step)
<1> DEFINE steps == [n \in Nat |-> step]
<1>1. steps \in [Nat -> [S -> S]]
  OBVIOUS
<1>2. \A n \in Nat : steps[n] = step
  OBVIOUS
<1> HIDE DEF steps
<1>3. PICK f : IsLoop(f, S, s, steps)
  BY <1>1, Loops
<1>4. ASSUME NEW n \in Nat PROVE f[n] = IF n = 0 THEN s ELSE step[f[n - 1]]
  <2>1. CASE n # 0
    <3>1. n - 1 \in Nat /\ (n - 1) + 1 = n
      BY <2>1
    <3> QED
      BY <1>2, <1>3, <2>1, <3>1 DEF IsLoop
  <2> QED
    BY <1>3, <2>1 DEF IsLoop
<1>5. f = [n \in Nat |-> f[n]]
  BY <1>3 DEF IsLoop
<1> QED
  BY <1>3, <1>4, <1>5 DEF IsLoop, Repeats

\* A loop written as a recursive function is that function: its state before the first round,
\* and what each round makes of the state.
Defines(g, s, step) ==
  g = CHOOSE h : h = [n \in Nat |-> IF n = 0 THEN s ELSE step[h[n - 1]]]
LEMMA LoopDefined ==
  ASSUME NEW S, NEW s \in S, NEW step \in [S -> S], NEW g, Defines(g, s, step)
  PROVE  /\ g[0] = s
         /\ \A n \in Nat : g[n] \in S /\ g[n + 1] = step[g[n]]
<1> DEFINE Eq(h) == h = [n \in Nat |-> IF n = 0 THEN s ELSE step[h[n - 1]]]
<1>1. PICK f : Eq(f)
  <2>1. PICK f : Repeats(f, S, s, step)
    BY LoopEquation
  <2> QED
    BY <2>1 DEF Repeats
<1>2. Eq(g)
  BY <1>1 DEF Defines
<1>3. g[0] = s
  BY <1>2
<1>4. ASSUME NEW n \in Nat PROVE g[n + 1] = step[g[n]]
  BY <1>2
<1> HIDE DEF Eq
<1> DEFINE Good == {n \in Nat : g[n] \in S}
<1>5. Nat \subseteq Good
  <2>1. 0 \in Good
    BY <1>3
  <2>2. ASSUME NEW n \in Nat, n \in Good PROVE n + 1 \in Good
    BY <1>4, <2>2
  <2> HIDE DEF Good
  <2> QED
    BY <2>1, <2>2, Induction
<1> QED
  BY <1>3, <1>4, <1>5

\* The rounds of the two loops of estate_verbs.rs.
YearStep(was) ==
  IF was[2] < days_in_year(was[1]) THEN was
  ELSE <<was[1] + 1, was[2] - days_in_year(was[1])>>
YearRound == [was \in Int \X Int |-> YearStep(was)]
YearRounds(days) ==
  LET after[n \in Nat] == IF n = 0 THEN <<1970, days>> ELSE YearRound[after[n - 1]]
  IN  after
MonthStep(months, was) ==
  IF was[1] > 12 \/ was[2] < months[was[1]] THEN was
  ELSE <<was[1] + 1, was[2] - months[was[1]]>>
MonthRound(months) == [was \in (Nat \ {0}) \X Int |-> MonthStep(months, was)]
MonthRounds(months, days) ==
  LET after[n \in Nat] == IF n = 0 THEN <<1, days>> ELSE MonthRound(months)[after[n - 1]]
  IN  after

LEMMA YearLoopRounds ==
  ASSUME NEW days \in Int
  PROVE  /\ year_loop(days) = YearRounds(days)[days \div 365]
         /\ YearRounds(days)[0] = <<1970, days>>
         /\ \A n \in Nat : YearRounds(days)[n + 1] = YearStep(YearRounds(days)[n])
<1> DEFINE S == Int \X Int
           s == <<1970, days>>
           step == YearRound
<1>1. s \in S
  OBVIOUS
<1>2. step \in [S -> S]
  <2> SUFFICES ASSUME NEW x \in S PROVE YearStep(x) \in S
    BY DEF YearRound
  <2>1. x[1] \in Int /\ x[2] \in Int /\ days_in_year(x[1]) \in Int
    BY DEF days_in_year
  <2> QED
    BY <2>1 DEF YearStep
<1>3. \A x \in S : step[x] = YearStep(x)
  BY DEF YearRound
<1> DEFINE g == YearRounds(days)
<1>4. Defines(g, s, step)
  BY DEF YearRounds, Defines
<1>5. year_loop(days) = g[days \div 365]
  BY DEF year_loop, YearRounds, YearRound, YearStep
<1> HIDE DEF S, s, step, g
<1>6. /\ g[0] = s
      /\ \A n \in Nat : g[n] \in S /\ g[n + 1] = step[g[n]]
  BY <1>1, <1>2, <1>4, LoopDefined
<1> QED
  BY <1>3, <1>5, <1>6 DEF g, s

LEMMA MonthLoopRounds ==
  ASSUME NEW days \in Int, NEW months \in [1..12 -> Int]
  PROVE  /\ month_loop(months, days) = <<MonthRounds(months, days)[12][1], MonthRounds(months, days)[12][2] + 1>>
         /\ MonthRounds(months, days)[0] = <<1, days>>
         /\ \A n \in Nat : MonthRounds(months, days)[n + 1] = MonthStep(months, MonthRounds(months, days)[n])
<1> DEFINE S == (Nat \ {0}) \X Int
           s == <<1, days>>
           step == MonthRound(months)
<1>1. s \in S
  OBVIOUS
<1>2. step \in [S -> S]
  <2> SUFFICES ASSUME NEW x \in S PROVE MonthStep(months, x) \in S
    BY DEF MonthRound
  <2>1. x[1] \in Nat \ {0} /\ x[2] \in Int /\ (~(x[1] > 12) => months[x[1]] \in Int)
    OBVIOUS
  <2> QED
    BY <2>1 DEF MonthStep
<1>3. \A x \in S : step[x] = MonthStep(months, x)
  BY DEF MonthRound
<1> DEFINE g == MonthRounds(months, days)
<1>4. Defines(g, s, step)
  BY DEF MonthRounds, Defines
<1>5. month_loop(months, days) = <<g[12][1], g[12][2] + 1>>
  BY DEF month_loop, MonthRounds, MonthRound, MonthStep
<1> HIDE DEF S, s, step, g
<1>6. /\ g[0] = s
      /\ \A n \in Nat : g[n] \in S /\ g[n + 1] = step[g[n]]
  BY <1>1, <1>2, <1>4, LoopDefined
<1> QED
  BY <1>3, <1>5, <1>6 DEF g, s

\* The days of a month follow one another.
LEMMA DaysOfMonth ==
  ASSUME NEW y \in Int, NEW m \in Int, NEW d \in Int
  PROVE  /\ days_from_civil(y, m, 1) \in Int
         /\ days_from_civil(y, m, d) = days_from_civil(y, m, 1) + d - 1
<1>1. PICK y1, mp \in Int : y1 = MarchYear(y, m) /\ mp = MarchMonth(m)
  BY DEF MarchYear, MarchMonth
<1>2. PICK a, b, e \in Int : a = MarchDays(y1) /\ b = days_before_month(mp) /\ e = EpochShift
  BY MarchToMarch, PartsAreIntegers
<1>3. \A x \in Int : days_from_civil(y, m, x) = a + (b + x - 1) - e
  BY <1>1, <1>2, DaysOfDate
<1> QED
  BY <1>3

LEMMA FirstsAreIntegers ==
  ASSUME NEW y \in Int, NEW m \in Int
  PROVE  days_from_civil(y, m, 1) \in Int
BY DaysOfMonth

\* After any round of the year loop: the days left are those after the first of the year it
\* has come to, and it has come a year further each round unless they end in that year.
YearInv(days, n, y, left) ==
  /\ y >= 1970 /\ left >= 0
  /\ days_from_civil(y, 1, 1) + left = days
  /\ days >= 365 * (y - 1970) + left
  /\ left < days_in_year(y) \/ y = 1970 + n

LEMMA YearLoop ==
  ASSUME NEW days \in Nat
  PROVE  \E y, left \in Int : /\ year_loop(days) = <<y, left>>
                              /\ 0 <= left /\ left < days_in_year(y)
                              /\ days_from_civil(y, 1, 1) + left = days
<1> DEFINE g == YearRounds(days)
<1>1. /\ year_loop(days) = g[days \div 365] /\ g[0] = <<1970, days>>
      /\ \A n \in Nat : g[n + 1] = YearStep(g[n])
  BY YearLoopRounds
<1> HIDE DEF g
<1> DEFINE Good == {n \in Nat : \E y, left \in Int : g[n] = <<y, left>> /\ YearInv(days, n, y, left)}
<1>2. 0 \in Good
  <2>1. days_from_civil(1970, 1, 1) = 0
    BY SMT DEF days_from_civil, days_before_year, days_before_month, DaysPerEra, EpochShift
  <2>2. YearInv(days, 0, 1970, days)
    BY <2>1 DEF YearInv
  <2> QED
    BY <1>1, <2>2
<1>3. ASSUME NEW n \in Nat, n \in Good PROVE n + 1 \in Good
  <2>1. PICK y, left \in Int : g[n] = <<y, left>> /\ YearInv(days, n, y, left)
    BY <1>3
  <2>2. PICK l \in Int : l = days_in_year(y) /\ l >= 365
    BY DEF days_in_year
  <2>3. CASE left < l
    <3>1. g[n + 1] = <<y, left>>
      <4>1. YearStep(<<y, left>>) = <<y, left>>
        BY <2>2, <2>3 DEF YearStep
      <4> QED
        BY <1>1, <2>1, <4>1
    <3>2. YearInv(days, n + 1, y, left)
      BY <2>1, <2>2, <2>3 DEF YearInv
    <3> QED
      BY <3>1, <3>2
  <2>4. CASE left >= l
    <3>1. PICK y1, left1 \in Int : y1 = y + 1 /\ left1 = left - l
      OBVIOUS
    <3>2. g[n + 1] = <<y1, left1>>
      <4>1. YearStep(<<y, left>>) = <<y1, left1>>
        BY <2>2, <2>4, <3>1 DEF YearStep
      <4> QED
        BY <1>1, <2>1, <4>1
    <3>3. /\ days_from_civil(y, 1, 1) \in Int
          /\ days_from_civil(y1, 1, 1) = days_from_civil(y, 1, 1) + l
      BY <2>2, <3>1, NewYear
    <3>4. YearInv(days, n + 1, y1, left1)
      BY <2>1, <2>2, <2>4, <3>1, <3>3 DEF YearInv
    <3> QED
      BY <3>2, <3>4
  <2> QED
    BY <2>2, <2>3, <2>4
<1>4. Nat \subseteq Good
  <2> HIDE DEF Good
  <2> QED
    BY <1>2, <1>3, Induction
<1>5. PICK k \in Nat : k = days \div 365 /\ days < 365 * k + 365
  OBVIOUS
<1>6. PICK y, left \in Int : g[k] = <<y, left>> /\ YearInv(days, k, y, left)
  BY <1>4
<1>7. left < days_in_year(y)
  <2>1. PICK l \in Int : l = days_in_year(y) /\ l >= 365
    BY DEF days_in_year
  <2> QED
    BY <1>5, <1>6, <2>1 DEF YearInv
<1> QED
  BY <1>1, <1>5, <1>6, <1>7 DEF YearInv

\* The same of the months of a year, which the days left cannot run past.
MonthInv(y, days, n, m, left) ==
  /\ m >= 1 /\ m <= 12 /\ left >= 0
  /\ days_from_civil(y, m, 1) + left = days_from_civil(y, 1, 1) + days
  /\ left < Length(y, m) \/ m = 1 + n

LEMMA MonthLoop ==
  ASSUME NEW y \in Int, NEW days \in Int, 0 <= days, days < days_in_year(y)
  PROVE  \E m, d \in Int : /\ month_loop(days_in_months(y), days) = <<m, d>>
                           /\ 1 <= m /\ m <= 12 /\ 1 <= d /\ d <= Length(y, m)
                           /\ days_from_civil(y, m, 1) + d - 1 = days_from_civil(y, 1, 1) + days
<1> DEFINE g == MonthRounds(days_in_months(y), days)
<1>0. days_in_months(y) \in [1..12 -> Int]
  BY DEF days_in_months
<1>1. /\ month_loop(days_in_months(y), days) = <<g[12][1], g[12][2] + 1>> /\ g[0] = <<1, days>>
      /\ \A n \in Nat : g[n + 1] = MonthStep(days_in_months(y), g[n])
  BY <1>0, MonthLoopRounds
<1> HIDE DEF g
<1>2. \A m \in 1..12 : Length(y, m) \in Int /\ days_in_months(y)[m] = Length(y, m)
  BY <1>0 DEF Length
<1>3. PICK j \in Int : j = days_from_civil(y, 1, 1)
  BY NewYear
<1>4. days_from_civil(y, 12, 1) + 31 = j + days_in_year(y) /\ Length(y, 12) = 31
  <2>1. Length(y, 12) = 31
    BY DEF Length, days_in_months
  <2> QED
    BY <1>3, <2>1, NewYear
<1> DEFINE Good == {n \in Nat : \E m, left \in Int : g[n] = <<m, left>> /\ MonthInv(y, days, n, m, left)}
<1>5. 0 \in Good
  <2>1. MonthInv(y, days, 0, 1, days)
    BY DEF MonthInv
  <2> QED
    BY <1>1, <2>1
<1>6. ASSUME NEW n \in Nat, n \in Good PROVE n + 1 \in Good
  <2>1. PICK m, left \in Int : g[n] = <<m, left>> /\ MonthInv(y, days, n, m, left)
    BY <1>6
  <2>2. PICK l \in Int : l = Length(y, m) /\ l = days_in_months(y)[m]
    BY <1>2, <2>1 DEF MonthInv
  <2>3. CASE left < l
    <3>1. g[n + 1] = <<m, left>>
      <4>1. MonthStep(days_in_months(y), <<m, left>>) = <<m, left>>
        BY <2>2, <2>3 DEF MonthStep
      <4> QED
        BY <1>1, <2>1, <4>1
    <3>2. MonthInv(y, days, n + 1, m, left)
      BY <2>1, <2>2, <2>3 DEF MonthInv
    <3> QED
      BY <3>1, <3>2
  <2>4. CASE left >= l
    <3>1. m <= 11
      <4>1. PICK k \in Int : k = days_in_year(y)
        BY DEF days_in_year
      <4> SUFFICES ASSUME m = 12 PROVE FALSE
        BY <2>1 DEF MonthInv
      <4>2. PICK x \in Int : x = days_from_civil(y, 12, 1) /\ x + 31 = j + k
        BY <1>3, <1>4, <4>1, FirstsAreIntegers
      <4> QED
        BY <1>3, <1>4, <2>1, <2>2, <2>4, <4>1, <4>2 DEF MonthInv
    <3>2. PICK m1, left1 \in Int : m1 = m + 1 /\ left1 = left - l
      OBVIOUS
    <3>3. g[n + 1] = <<m1, left1>>
      <4>1. MonthStep(days_in_months(y), <<m, left>>) = <<m1, left1>>
        BY <2>2, <2>4, <3>1, <3>2 DEF MonthStep
      <4> QED
        BY <1>1, <2>1, <4>1
    <3>4. /\ days_from_civil(y, m, 1) \in Int
          /\ days_from_civil(y, m1, 1) = days_from_civil(y, m, 1) + l
      <4>1. 1 <= m
        BY <2>1 DEF MonthInv
      <4>2. /\ days_from_civil(y, m, 1) \in Int
            /\ days_from_civil(y, m + 1, 1) = days_from_civil(y, m, 1) + Length(y, m)
        BY <3>1, <4>1, NextMonth
      <4> QED
        BY <2>2, <3>2, <4>2
    <3>5. MonthInv(y, days, n + 1, m1, left1)
      BY <1>3, <2>1, <2>2, <2>4, <3>1, <3>2, <3>4 DEF MonthInv
    <3> QED
      BY <3>3, <3>5
  <2> QED
    BY <2>2, <2>3, <2>4
<1>7. Nat \subseteq Good
  <2> HIDE DEF Good
  <2> QED
    BY <1>5, <1>6, Induction
<1>8. PICK m, left \in Int : g[12] = <<m, left>> /\ MonthInv(y, days, 12, m, left)
  BY <1>7
<1>9. left < Length(y, m)
  BY <1>8 DEF MonthInv
<1>10. PICK l \in Int : l = Length(y, m)
  BY <1>2, <1>8 DEF MonthInv
<1>11. PICK d \in Int : d = left + 1
  OBVIOUS
<1>12. month_loop(days_in_months(y), days) = <<m, d>>
  BY <1>1, <1>8, <1>11
<1>13. days_from_civil(y, m, 1) \in Int
  BY <1>8, FirstsAreIntegers DEF MonthInv
<1> QED
  BY <1>3, <1>8, <1>9, <1>10, <1>11, <1>12, <1>13 DEF MonthInv

\* The hour, minute, second and millisecond of a time of day make that time.
LEMMA ClockAddsUp ==
  ASSUME NEW ms \in Int, 0 <= ms
  PROVE  \E h, n, s, k \in Int : /\ clock(ms) = <<h, n, s, k>> /\ k = ms % 1000
                                 /\ ((h * 60 + n) * 60 + s) * 1000 = ms - k
<1>1. PICK secs \in Int : secs = ms \div 1000
  OBVIOUS
<1>2. PICK k \in Int : k = ms % 1000 /\ secs * 1000 = ms - k
  BY <1>1
<1>3. PICK h \in Int : h = secs \div 3600
  OBVIOUS
<1>4. PICK r \in Int : r = secs % 3600 /\ secs = 3600 * h + r
  BY <1>3
<1>5. PICK n \in Int : n = r \div 60
  OBVIOUS
<1>6. PICK s \in Int : s = secs % 60
  OBVIOUS
<1>7. r = 60 * n + s
  <2>1. PICK u \in Int : u = r % 60 /\ r = 60 * n + u /\ 0 <= u /\ u < 60
    BY <1>5
  <2>2. secs = 60 * (60 * h + n) + u
    BY <1>4, <2>1
  <2>3. s = u
    BY <1>6, <2>1, <2>2
  <2> QED
    BY <2>1, <2>3
<1>8. clock(ms) = <<h, n, s, k>>
  BY <1>1, <1>2, <1>3, <1>4, <1>5, <1>6 DEF clock
<1>9. (h * 60 + n) * 60 + s = secs
  BY <1>4, <1>7
<1> QED
  BY <1>2, <1>8, <1>9

\* CorpusKit's reader counts the days of a date as the store does, from the year 1 on.
UtcDay(y0, m, d) ==
  LET y == IF m <= 2 THEN y0 - 1 ELSE y0
      era == (IF y >= 0 THEN y ELSE y - 399) \div 400
      yoe == y - era * 400
      mp == IF m > 2 THEN m - 3 ELSE m + 9
      doe == days_before_year(yoe) + (days_before_month(mp) + d - 1)
  IN  era * DaysPerEra + doe - EpochShift
LEMMA UtcBy ==
  ASSUME NEW y0 \in Int, NEW m \in Int, NEW d \in Int, NEW y \in Int, NEW era \in Int,
         NEW yoe \in Int, NEW mp \in Int, NEW doy \in Int,
         y = (IF m <= 2 THEN y0 - 1 ELSE y0),
         era = (IF y >= 0 THEN y ELSE y - 399) \div 400, yoe = y - era * 400,
         mp = (IF m > 2 THEN m - 3 ELSE m + 9),
         doy = days_before_month(mp) + d - 1
  PROVE  UtcDay(y0, m, d) = era * DaysPerEra + (days_before_year(yoe) + doy) - EpochShift
BY SMT DEF UtcDay
LEMMA UtcDays ==
  ASSUME NEW y \in Int, NEW m \in Int, NEW d \in Int, y >= 1
  PROVE  UtcDay(y, m, d) = days_from_civil(y, m, d)
<1>1. PICK y1 \in Int : y1 = (IF m <= 2 THEN y - 1 ELSE y)
  OBVIOUS
<1>2. PICK mp \in Int : mp = (IF m > 2 THEN m - 3 ELSE m + 9)
  OBVIOUS
<1>3. PICK era \in Int : era = y1 \div 400
  OBVIOUS
<1>4. PICK yoe \in Int : yoe = y1 - era * 400
  OBVIOUS
<1>5. PICK doy \in Int : doy = days_before_month(mp) + d - 1
  BY PartsAreIntegers
<1>6. era = (IF y1 >= 0 THEN y1 ELSE y1 - 399) \div 400
  BY <1>1, <1>3
<1>7. days_from_civil(y, m, d) = era * DaysPerEra + (days_before_year(yoe) + doy) - EpochShift
  BY <1>1, <1>2, <1>3, <1>4, <1>5, DaysBy
<1>8. UtcDay(y, m, d) = era * DaysPerEra + (days_before_year(yoe) + doy) - EpochShift
  BY <1>1, <1>2, <1>4, <1>5, <1>6, UtcBy
<1> QED
  BY <1>7, <1>8

\* Concatenation, kept apart from the solver's own account of sequences.
Cat(s, t) == s \o t
LEMMA CatParts ==
  ASSUME NEW S, NEW s \in Seq(S), NEW t \in Seq(S)
  PROVE  /\ Cat(s, t) \in Seq(S)
         /\ Len(Cat(s, t)) = Len(s) + Len(t)
         /\ \A i \in 1..Len(s) + Len(t) :
              Cat(s, t)[i] = IF i <= Len(s) THEN s[i] ELSE t[i - Len(s)]
BY ConcatProperties, Zenon DEF Cat

LEMMA DateJoins ==
  ASSUME NEW u \in Seq(Int), NEW v \in Seq(Int), NEW a \in Seq(Int),
         Len(u) = 1, Len(v) = 2, Len(a) = 3, a[1] = u[1], a[2] = v[1], a[3] = v[2]
  PROVE  Cat(u, v) = a
<1>1. Cat(u, v) \in Seq(Int) /\ Len(Cat(u, v)) = Len(u) + Len(v)
  BY CatParts, Zenon
<1>2. \A i \in 1..Len(u) + Len(v) : Cat(u, v)[i] = IF i <= Len(u) THEN u[i] ELSE v[i - Len(u)]
  BY CatParts, Zenon
<1>3. Len(u) + Len(v) = 3
  OBVIOUS
<1>4. \A i \in 1..3 : Cat(u, v)[i] = IF i <= 1 THEN u[i] ELSE v[i - 1]
  BY <1>2, <1>3
<1>5. Cat(u, v)[1] = u[1] /\ Cat(u, v)[2] = v[1] /\ Cat(u, v)[3] = v[2]
  BY <1>4
<1>6. \A i \in 1..3 : Cat(u, v)[i] = a[i]
  BY <1>5
<1>7. Len(Cat(u, v)) = 3
  BY <1>1
<1> QED
  BY <1>1, <1>6, <1>7, SeqEqual, Zenon

LEMMA DateThenClock ==
  ASSUME NEW a \in Seq(Int), NEW b \in Seq(Int), Len(a) = 3, Len(b) = 4
  PROVE  /\ Len(Cat(a, b)) = 7
         /\ Cat(a, b)[1] = a[1] /\ Cat(a, b)[2] = a[2] /\ Cat(a, b)[3] = a[3]
         /\ Cat(a, b)[4] = b[1] /\ Cat(a, b)[5] = b[2] /\ Cat(a, b)[6] = b[3] /\ Cat(a, b)[7] = b[4]
<1>1. Len(Cat(a, b)) = Len(a) + Len(b)
  BY CatParts, Zenon
<1>2. \A i \in 1..Len(a) + Len(b) : Cat(a, b)[i] = IF i <= Len(a) THEN a[i] ELSE b[i - Len(a)]
  BY CatParts, Zenon
<1>3. Len(a) + Len(b) = 7
  OBVIOUS
<1>4. \A i \in 1..7 : Cat(a, b)[i] = IF i <= 3 THEN a[i] ELSE b[i - 3]
  BY <1>2, <1>3
<1> QED
  BY <1>1, <1>3, <1>4

\* The text of a moment: seven numbers, whichever way they are put together.
Reads7(iso, date, time, y, m, d, h, n, s, k) ==
  /\ Cat(Cat(<<y>>, <<m, d>>), time) = iso
  /\ Len(iso) = 7 /\ iso[1] = y /\ iso[2] = m /\ iso[3] = d
  /\ iso[4] = h /\ iso[5] = n /\ iso[6] = s /\ iso[7] = k
LEMMA SevenNumbers ==
  ASSUME NEW y \in Int, NEW m \in Int, NEW d \in Int, NEW h \in Int, NEW n \in Int, NEW s \in Int,
         NEW k \in Int, NEW date, NEW time, date = <<y, m, d>>, time = <<h, n, s, k>>,
         NEW iso, iso = Cat(date, time)
  PROVE  Reads7(iso, date, time, y, m, d, h, n, s, k)
<1>1. date \in Seq(Int) /\ Len(date) = 3 /\ date[1] = y /\ date[2] = m /\ date[3] = d
  OBVIOUS
<1>2. time \in Seq(Int) /\ Len(time) = 4 /\ time[1] = h /\ time[2] = n /\ time[3] = s /\ time[4] = k
  OBVIOUS
<1> DEFINE u == <<y>>
           v == <<m, d>>
<1>3. u \in Seq(Int) /\ Len(u) = 1 /\ u[1] = y /\ v \in Seq(Int) /\ Len(v) = 2 /\ v[1] = m /\ v[2] = d
  OBVIOUS
<1> HIDE DEF u, v
<1>4. Cat(u, v) = date
  BY <1>1, <1>3, DateJoins, Zenon
<1>5. /\ Len(Cat(date, time)) = 7
      /\ Cat(date, time)[1] = date[1] /\ Cat(date, time)[2] = date[2] /\ Cat(date, time)[3] = date[3]
      /\ Cat(date, time)[4] = time[1] /\ Cat(date, time)[5] = time[2]
      /\ Cat(date, time)[6] = time[3] /\ Cat(date, time)[7] = time[4]
  BY <1>1, <1>2, DateThenClock, ZenonT(60)
<1>6. /\ Len(iso) = 7 /\ iso[1] = y /\ iso[2] = m /\ iso[3] = d
      /\ iso[4] = h /\ iso[5] = n /\ iso[6] = s /\ iso[7] = k
  BY <1>1, <1>2, <1>5, Zenon
<1>7. Cat(Cat(u, v), time) = iso
  BY <1>4, Zenon
<1> QED
  BY <1>6, <1>7, Zenon DEF u, v, Reads7

\* A moment written by the store is found again by the store, and to the second by
\* CorpusKit; the loops write the same text.
LEMMA TimeIsRead ==
  ASSUME NEW day \in Nat, NEW ms \in Int, 0 <= ms, NEW t, t = Time(day, ms)
  PROVE  /\ epoch_to_iso8601(t) = format_iso8601(t)
         /\ parse_iso8601(format_iso8601(t)) = t
         /\ parse_iso8601_utc(format_iso8601(t)) = Time(day, ms - (ms % 1000))
<1>1. PICK y, m, d \in Int : /\ civil_from_days(day) = <<y, m, d>>
                             /\ 1 <= m /\ m <= 12 /\ 1 <= d /\ d <= 31
                             /\ days_from_civil(y, m, d) = day /\ y >= 1
  BY DateOfDay
<1>2. PICK h, n, s, k \in Int : /\ clock(ms) = <<h, n, s, k>> /\ k = ms % 1000
                                /\ ((h * 60 + n) * 60 + s) * 1000 = ms - k
  BY ClockAddsUp
<1>3. t.day = day /\ t.ms = ms
  BY DEF Time
<1> DEFINE iso == format_iso8601(t)
<1>4. iso = Cat(civil_from_days(day), clock(ms))
  BY <1>3, Zenon DEF format_iso8601, Cat
<1> HIDE DEF iso
<1>0. /\ Cat(Cat(<<y>>, <<m, d>>), clock(ms)) = iso
      /\ Len(iso) = 7 /\ iso[1] = y /\ iso[2] = m /\ iso[3] = d
      /\ iso[4] = h /\ iso[5] = n /\ iso[6] = s /\ iso[7] = k
  <2>1. civil_from_days(day) = <<y, m, d>> /\ clock(ms) = <<h, n, s, k>>
    BY <1>1, <1>2
  <2>2. Reads7(iso, civil_from_days(day), clock(ms), y, m, d, h, n, s, k)
    BY <1>4, <2>1, SevenNumbers
  <2> QED
    BY <2>2, Zenon DEF Reads7
<1>5. epoch_to_iso8601(t) = iso
  <2>1. PICK y2, left \in Int : /\ year_loop(day) = <<y2, left>>
                                /\ 0 <= left /\ left < days_in_year(y2)
                                /\ days_from_civil(y2, 1, 1) + left = day
    BY YearLoop
  <2>2. PICK m2, d2 \in Int : /\ month_loop(days_in_months(y2), left) = <<m2, d2>>
                              /\ 1 <= m2 /\ m2 <= 12 /\ 1 <= d2 /\ d2 <= Length(y2, m2)
                              /\ days_from_civil(y2, m2, 1) + d2 - 1 = days_from_civil(y2, 1, 1) + left
    BY <2>1, MonthLoop
  <2>3. days_from_civil(y2, m2, d2) = day
    BY <2>1, <2>2, DaysOfMonth
  <2>4. civil_from_days(day) = <<y2, m2, d2>>
    BY <2>2, <2>3, DayOfDate
  <2>5. y2 = y /\ m2 = m /\ d2 = d
    BY <1>1, <2>4
  <2>6. year_loop(day)[1] = y2 /\ year_loop(day)[2] = left
    BY <2>1
  <2>7. epoch_to_iso8601(t) = Cat(Cat(<<year_loop(day)[1]>>,
                                      month_loop(days_in_months(year_loop(day)[1]), year_loop(day)[2])),
                                  clock(ms))
    BY <1>3, Zenon DEF epoch_to_iso8601, Cat
  <2>8. epoch_to_iso8601(t) = Cat(Cat(<<y2>>, month_loop(days_in_months(y2), left)), clock(ms))
    BY <2>6, <2>7, Zenon
  <2>9. epoch_to_iso8601(t) = Cat(Cat(<<y2>>, <<m2, d2>>), clock(ms))
    BY <2>2, <2>8, Zenon
  <2> QED
    BY <1>0, <2>5, <2>9, Zenon
<1>7. parse_iso8601(iso) = Time(day, ((h * 60 + n) * 60 + s) * 1000 + k)
  <2>1. parse_iso8601(iso) = Time(days_from_civil(iso[1], iso[2], iso[3]),
                                  ((iso[4] * 60 + iso[5]) * 60 + iso[6]) * 1000 + iso[7])
    BY <1>0 DEF parse_iso8601
  <2> QED
    BY <1>1, <1>0, <2>1
<1>8. ((h * 60 + n) * 60 + s) * 1000 + k = ms
  BY <1>2
<1>9. parse_iso8601_utc(iso) = Time(day, ((h * 60 + n) * 60 + s) * 1000)
  <2>1. Len(iso) >= 6 /\ iso[2] \in 1..12 /\ iso[3] \in 1..31
    BY <1>1, <1>0
  <2>2. parse_iso8601_utc(iso) = Time(UtcDay(iso[1], iso[2], iso[3]),
                                      ((iso[4] * 60 + iso[5]) * 60 + iso[6]) * 1000)
    BY <2>1, Zenon DEF parse_iso8601_utc, UtcDay
  <2>3. UtcDay(y, m, d) = day
    BY <1>1, UtcDays, SMTT(40)
  <2> QED
    BY <1>0, <2>2, <2>3
<1> QED
  BY <1>2, <1>5, <1>7, <1>8, <1>9 DEF iso

(***************************************************************************)
(* Rows and the manifest                                                   *)
(***************************************************************************)

\* What two functions merged say.
Merges(m, f, g) ==
  /\ m = [x \in DOMAIN f \cup DOMAIN g |-> IF x \in DOMAIN f THEN f[x] ELSE g[x]]
  /\ DOMAIN m = DOMAIN f \cup DOMAIN g
  /\ \A k \in DOMAIN f : m[k] = f[k]
  /\ \A k \in DOMAIN g : k \notin DOMAIN f => m[k] = g[k]
LEMMA Merged ==
  ASSUME NEW f, NEW g
  PROVE  Merges(f ++ g, f, g)
<1>1. f ++ g = [x \in DOMAIN f \cup DOMAIN g |-> IF x \in DOMAIN f THEN f[x] ELSE g[x]]
  BY ZenonT(90) DEF ++
<1> QED
  BY <1>1, SMTT(40) DEF Merges

\* Two functions say the same of k.
SameAt(f, g, k) ==
  (k \in DOMAIN f <=> k \in DOMAIN g) /\ (k \in DOMAIN f => f[k] = g[k])
LEMMA MergedAlike ==
  ASSUME NEW f, NEW g, NEW p, NEW q, NEW k, SameAt(f, g, k), SameAt(p, q, k)
  PROVE  SameAt(f ++ p, g ++ q, k)
<1>m. Merges(f ++ p, f, p) /\ Merges(g ++ q, g, q)
  BY Merged, Zenon
<1>1. /\ DOMAIN (f ++ p) = DOMAIN f \cup DOMAIN p
      /\ k \in DOMAIN f => (f ++ p)[k] = f[k]
      /\ k \in DOMAIN p /\ k \notin DOMAIN f => (f ++ p)[k] = p[k]
  BY <1>m DEF Merges
<1>2. /\ DOMAIN (g ++ q) = DOMAIN g \cup DOMAIN q
      /\ k \in DOMAIN g => (g ++ q)[k] = g[k]
      /\ k \in DOMAIN q /\ k \notin DOMAIN g => (g ++ q)[k] = q[k]
  BY <1>m DEF Merges
<1> QED
  BY <1>1, <1>2, ZenonT(60) DEF SameAt

\* What read_manifest says of a key depends on what is stored under it alone.
LEMMA ManifestReadsOneKey ==
  ASSUME NEW s, NEW t, NEW k, k \in DOMAIN s, k \in DOMAIN t, s[k] = t[k]
  PROVE  SameAt(read_manifest(s), read_manifest(t), k)
<1> DEFINE at(m, j) == IF j \in DOMAIN m THEN m[j] ELSE Blank
           or_default(m, j, d) == IF at(m, j) = Blank THEN d ELSE at(m, j).v
           get_int(m, j, d) == IF at(m, j).as = "digits" THEN at(m, j).v ELSE d
           get_date(m, j) == IF at(m, j).as = "iso" THEN parse_iso8601(at(m, j).v) ELSE Time(0, 0)
           A(m) == [j \in {"estate_uuid", "estate_name", "owner_identifier", "tables_present"} |-> at(m, j).v]
           B(m) == [j \in {"manifest_version", "schema_version"} |-> or_default(m, j, "1.0")]
           C(m) == [lattice_citation |-> or_default(m, "lattice_citation", "UDC:2024+Wikidata:2024-Q3"),
                    framework_profile |-> or_default(m, "framework_profile", "unspecified_v0"),
                    framework_profile_definition |-> or_default(m, "framework_profile_definition", "{}"),
                    zoom_window_low |-> get_int(m, "zoom_window_low", 0),
                    zoom_window_high |-> get_int(m, "zoom_window_high", 99)]
           D(m) == [j \in {"access_posture", "provenance_defaults"} |-> get_int(m, j, 0)]
           E(m) == [active_storage_mode |-> get_int(m, "active_storage_mode", 8)]
           F(m) == [j \in {"created_at", "last_modified"} |-> get_date(m, j)]
           G(m) == [j \in {"bitmap_layout_version", "provenance_bitmap_version"} |-> or_default(m, j, "v1.0")]
           H(m) == [j \in OPTIONAL \ {"tiny_model_training_corpus_size"} |->
                      IF j \in DOMAIN m THEN m[j].v ELSE None]
           I(m) == [tiny_model_training_corpus_size |-> get_int(m, "tiny_model_training_corpus_size", None)]
<1>1. /\ read_manifest(s) = A(s) ++ B(s) ++ C(s) ++ D(s) ++ E(s) ++ F(s) ++ G(s) ++ H(s) ++ I(s)
      /\ read_manifest(t) = A(t) ++ B(t) ++ C(t) ++ D(t) ++ E(t) ++ F(t) ++ G(t) ++ H(t) ++ I(t)
  BY Zenon DEF read_manifest
<1>2. at(s, k) = at(t, k)
  OBVIOUS
<1> HIDE DEF at
<1>3. SameAt(A(s), A(t), k)
  BY <1>2 DEF SameAt
<1>4. SameAt(B(s), B(t), k)
  BY <1>2 DEF SameAt
<1>5. SameAt(C(s), C(t), k)
  <2>1. DOMAIN C(s) = DOMAIN C(t)
    OBVIOUS
  <2>2. ASSUME k \in DOMAIN C(s) PROVE C(s)[k] = C(t)[k]
    <3>1. k \in {"lattice_citation", "framework_profile", "framework_profile_definition",
                 "zoom_window_low", "zoom_window_high"}
      BY <2>2
    <3>2. CASE k = "lattice_citation"
      BY <1>2, <3>2
    <3>3. CASE k = "framework_profile"
      BY <1>2, <3>3
    <3>4. CASE k = "framework_profile_definition"
      BY <1>2, <3>4, ZenonT(60)
    <3>5. CASE k = "zoom_window_low"
      BY <1>2, <3>5
    <3>6. CASE k = "zoom_window_high"
      BY <1>2, <3>6
    <3> QED
      BY <3>1, <3>2, <3>3, <3>4, <3>5, <3>6
  <2> QED
    BY <2>1, <2>2 DEF SameAt
<1>6. SameAt(D(s), D(t), k)
  BY <1>2 DEF SameAt
<1>7. SameAt(E(s), E(t), k)
  BY <1>2 DEF SameAt
<1>8. SameAt(F(s), F(t), k)
  BY <1>2 DEF SameAt
<1>9. SameAt(G(s), G(t), k)
  BY <1>2 DEF SameAt
<1>10. SameAt(H(s), H(t), k)
  BY DEF SameAt
<1>11. SameAt(I(s), I(t), k)
  BY <1>2 DEF SameAt
<1> HIDE DEF A, B, C, D, E, F, G, H, I
<1>12. SameAt(A(s) ++ B(s) ++ C(s), A(t) ++ B(t) ++ C(t), k)
  BY <1>3, <1>4, <1>5, MergedAlike
<1>13. SameAt(A(s) ++ B(s) ++ C(s) ++ D(s) ++ E(s), A(t) ++ B(t) ++ C(t) ++ D(t) ++ E(t), k)
  BY <1>6, <1>7, <1>12, MergedAlike
<1>14. SameAt(A(s) ++ B(s) ++ C(s) ++ D(s) ++ E(s) ++ F(s) ++ G(s),
             A(t) ++ B(t) ++ C(t) ++ D(t) ++ E(t) ++ F(t) ++ G(t), k)
  BY <1>8, <1>9, <1>13, MergedAlike
<1>15. SameAt(A(s) ++ B(s) ++ C(s) ++ D(s) ++ E(s) ++ F(s) ++ G(s) ++ H(s) ++ I(s),
             A(t) ++ B(t) ++ C(t) ++ D(t) ++ E(t) ++ F(t) ++ G(t) ++ H(t) ++ I(t), k)
  BY <1>10, <1>11, <1>14, MergedAlike, SMTT(40)
<1> QED
  BY <1>1, <1>15

\* The required keys, and those written when an opening stops after n of them.
LEMMA RequiredKeys ==
  /\ {REQUIRED[i] : i \in 1..Len(REQUIRED)} = {REQUIRED[k] : k \in DOMAIN REQUIRED}
  /\ \A n \in 0..Len(REQUIRED) : {REQUIRED[i] : i \in 1..n} \subseteq ManifestKeys
  /\ ManifestKeys = {"estate_uuid", "estate_name", "owner_identifier", "tables_present"}
                      \cup {"manifest_version", "schema_version"}
                      \cup {"lattice_citation", "framework_profile", "framework_profile_definition",
                            "zoom_window_low", "zoom_window_high"}
                      \cup {"access_posture", "provenance_defaults"} \cup {"active_storage_mode"}
                      \cup {"created_at", "last_modified"}
                      \cup {"bitmap_layout_version", "provenance_bitmap_version"}
                      \cup (OPTIONAL \ {"tiny_model_training_corpus_size"})
                      \cup {"tiny_model_training_corpus_size"}
<1>1. Len(REQUIRED) = 18 /\ DOMAIN REQUIRED = 1..18
  BY DEF REQUIRED
<1>2. \A n \in 0..Len(REQUIRED) : {REQUIRED[i] : i \in 1..n} \subseteq ManifestKeys
  <2> SUFFICES ASSUME NEW n \in 0..18, NEW i \in 1..n PROVE i \in DOMAIN REQUIRED
    BY <1>1 DEF ManifestKeys
  <2> QED
    BY <1>1
<1>3. {REQUIRED[j] : j \in DOMAIN REQUIRED} =
        {"manifest_version", "schema_version", "estate_uuid", "estate_name",
         "owner_identifier", "lattice_citation", "framework_profile",
         "framework_profile_definition", "zoom_window_low", "zoom_window_high",
         "access_posture", "provenance_defaults", "active_storage_mode",
         "tables_present", "created_at", "last_modified", "bitmap_layout_version",
         "provenance_bitmap_version"}
  <2>1. /\ REQUIRED[1] = "manifest_version" /\ REQUIRED[2] = "schema_version"
        /\ REQUIRED[3] = "estate_uuid" /\ REQUIRED[4] = "estate_name"
        /\ REQUIRED[5] = "owner_identifier" /\ REQUIRED[6] = "lattice_citation"
        /\ REQUIRED[7] = "framework_profile" /\ REQUIRED[8] = "framework_profile_definition"
        /\ REQUIRED[9] = "zoom_window_low" /\ REQUIRED[10] = "zoom_window_high"
        /\ REQUIRED[11] = "access_posture" /\ REQUIRED[12] = "provenance_defaults"
        /\ REQUIRED[13] = "active_storage_mode" /\ REQUIRED[14] = "tables_present"
        /\ REQUIRED[15] = "created_at" /\ REQUIRED[16] = "last_modified"
        /\ REQUIRED[17] = "bitmap_layout_version" /\ REQUIRED[18] = "provenance_bitmap_version"
    BY DEF REQUIRED
  <2>2. \A j \in 1..18 : j = 1 \/ j = 2 \/ j = 3 \/ j = 4 \/ j = 5 \/ j = 6 \/ j = 7 \/ j = 8
          \/ j = 9 \/ j = 10 \/ j = 11 \/ j = 12 \/ j = 13 \/ j = 14 \/ j = 15 \/ j = 16
          \/ j = 17 \/ j = 18
    OBVIOUS
  <2> QED
    BY <1>1, <2>1, <2>2
<1> QED
  BY <1>1, <1>2, <1>3 DEF ManifestKeys, OPTIONAL

\* Every key of the manifest is read, whatever is stored.
LEMMA ManifestReadsEveryKey ==
  ASSUME NEW s
  PROVE  DOMAIN read_manifest(s) = ManifestKeys
<1> DEFINE at(m, j) == IF j \in DOMAIN m THEN m[j] ELSE Blank
           or_default(m, j, d) == IF at(m, j) = Blank THEN d ELSE at(m, j).v
           get_int(m, j, d) == IF at(m, j).as = "digits" THEN at(m, j).v ELSE d
           get_date(m, j) == IF at(m, j).as = "iso" THEN parse_iso8601(at(m, j).v) ELSE Time(0, 0)
           A(m) == [j \in {"estate_uuid", "estate_name", "owner_identifier", "tables_present"} |-> at(m, j).v]
           B(m) == [j \in {"manifest_version", "schema_version"} |-> or_default(m, j, "1.0")]
           C(m) == [lattice_citation |-> or_default(m, "lattice_citation", "UDC:2024+Wikidata:2024-Q3"),
                    framework_profile |-> or_default(m, "framework_profile", "unspecified_v0"),
                    framework_profile_definition |-> or_default(m, "framework_profile_definition", "{}"),
                    zoom_window_low |-> get_int(m, "zoom_window_low", 0),
                    zoom_window_high |-> get_int(m, "zoom_window_high", 99)]
           D(m) == [j \in {"access_posture", "provenance_defaults"} |-> get_int(m, j, 0)]
           E(m) == [active_storage_mode |-> get_int(m, "active_storage_mode", 8)]
           F(m) == [j \in {"created_at", "last_modified"} |-> get_date(m, j)]
           G(m) == [j \in {"bitmap_layout_version", "provenance_bitmap_version"} |-> or_default(m, j, "v1.0")]
           H(m) == [j \in OPTIONAL \ {"tiny_model_training_corpus_size"} |->
                      IF j \in DOMAIN m THEN m[j].v ELSE None]
           I(m) == [tiny_model_training_corpus_size |-> get_int(m, "tiny_model_training_corpus_size", None)]
<1>1. read_manifest(s) = A(s) ++ B(s) ++ C(s) ++ D(s) ++ E(s) ++ F(s) ++ G(s) ++ H(s) ++ I(s)
  BY Zenon DEF read_manifest
<1> HIDE DEF at, or_default, get_int, get_date
<1>2. /\ DOMAIN A(s) = {"estate_uuid", "estate_name", "owner_identifier", "tables_present"}
      /\ DOMAIN B(s) = {"manifest_version", "schema_version"}
      /\ DOMAIN C(s) = {"lattice_citation", "framework_profile", "framework_profile_definition",
                        "zoom_window_low", "zoom_window_high"}
      /\ DOMAIN D(s) = {"access_posture", "provenance_defaults"}
      /\ DOMAIN E(s) = {"active_storage_mode"}
      /\ DOMAIN F(s) = {"created_at", "last_modified"}
      /\ DOMAIN G(s) = {"bitmap_layout_version", "provenance_bitmap_version"}
      /\ DOMAIN H(s) = OPTIONAL \ {"tiny_model_training_corpus_size"}
      /\ DOMAIN I(s) = {"tiny_model_training_corpus_size"}
  BY SMTT(40)
<1> HIDE DEF A, B, C, D, E, F, G, H, I
<1>m. /\ Merges(A(s) ++ B(s), A(s), B(s))
      /\ Merges(A(s) ++ B(s) ++ C(s), A(s) ++ B(s), C(s))
      /\ Merges(A(s) ++ B(s) ++ C(s) ++ D(s), A(s) ++ B(s) ++ C(s), D(s))
      /\ Merges(A(s) ++ B(s) ++ C(s) ++ D(s) ++ E(s), A(s) ++ B(s) ++ C(s) ++ D(s), E(s))
      /\ Merges(A(s) ++ B(s) ++ C(s) ++ D(s) ++ E(s) ++ F(s),
                A(s) ++ B(s) ++ C(s) ++ D(s) ++ E(s), F(s))
      /\ Merges(A(s) ++ B(s) ++ C(s) ++ D(s) ++ E(s) ++ F(s) ++ G(s),
                A(s) ++ B(s) ++ C(s) ++ D(s) ++ E(s) ++ F(s), G(s))
      /\ Merges(A(s) ++ B(s) ++ C(s) ++ D(s) ++ E(s) ++ F(s) ++ G(s) ++ H(s),
                A(s) ++ B(s) ++ C(s) ++ D(s) ++ E(s) ++ F(s) ++ G(s), H(s))
      /\ Merges(A(s) ++ B(s) ++ C(s) ++ D(s) ++ E(s) ++ F(s) ++ G(s) ++ H(s) ++ I(s),
                A(s) ++ B(s) ++ C(s) ++ D(s) ++ E(s) ++ F(s) ++ G(s) ++ H(s), I(s))
  BY Merged, ZenonT(60)
<1>3. DOMAIN (A(s) ++ B(s) ++ C(s)) = DOMAIN A(s) \cup DOMAIN B(s) \cup DOMAIN C(s)
  BY <1>m, SMTT(40) DEF Merges
<1>4. DOMAIN (A(s) ++ B(s) ++ C(s) ++ D(s) ++ E(s)) =
        DOMAIN (A(s) ++ B(s) ++ C(s)) \cup DOMAIN D(s) \cup DOMAIN E(s)
  BY <1>m DEF Merges
<1>5. DOMAIN (A(s) ++ B(s) ++ C(s) ++ D(s) ++ E(s) ++ F(s) ++ G(s)) =
        DOMAIN (A(s) ++ B(s) ++ C(s) ++ D(s) ++ E(s)) \cup DOMAIN F(s) \cup DOMAIN G(s)
  BY <1>m DEF Merges
<1>6. DOMAIN (A(s) ++ B(s) ++ C(s) ++ D(s) ++ E(s) ++ F(s) ++ G(s) ++ H(s) ++ I(s)) =
        DOMAIN (A(s) ++ B(s) ++ C(s) ++ D(s) ++ E(s) ++ F(s) ++ G(s))
          \cup DOMAIN H(s) \cup DOMAIN I(s)
  BY <1>m DEF Merges
<1> QED
  BY <1>1, <1>2, <1>3, <1>4, <1>5, <1>6, RequiredKeys

\* An opening after another: what stood there stands, every required key is
\* there, and one more opening finds nothing to write.
Completed(set, u, a, v, b) ==
  LET second == populate_v1_manifest_defaults(set, Len(REQUIRED), u, a)
      third == populate_v1_manifest_defaults(second, Len(REQUIRED), v, b)
  IN  /\ \A k \in DOMAIN set : k \in DOMAIN second /\ second[k] = set[k]
      /\ {REQUIRED[k] : k \in DOMAIN REQUIRED} \subseteq DOMAIN second
      /\ third = second
LEMMA OpenedAgain ==
  ASSUME NEW set, NEW u, NEW v, NEW a, NEW b
  PROVE  Completed(set, u, a, v, b)
<1> DEFINE R == {REQUIRED[i] : i \in 1..Len(REQUIRED)}
           D(w, t) == LET defaults == v1_defaults(w, t) IN [k \in R |-> defaults[k]]
           second == set ++ D(u, a)
           third == second ++ D(v, b)
<1>1. /\ populate_v1_manifest_defaults(set, Len(REQUIRED), u, a) = second
      /\ populate_v1_manifest_defaults(second, Len(REQUIRED), v, b) = third
  BY Zenon DEF populate_v1_manifest_defaults
<1>2. DOMAIN D(u, a) = R /\ DOMAIN D(v, b) = R
  OBVIOUS
<1>3. R = {REQUIRED[k] : k \in DOMAIN REQUIRED}
  BY RequiredKeys, SMTT(40)
<1> HIDE DEF D, R
<1>m. Merges(second, set, D(u, a)) /\ Merges(third, second, D(v, b))
  BY Merged, Zenon
<1>4. /\ DOMAIN second = DOMAIN set \cup R
      /\ \A k \in DOMAIN set : second[k] = set[k]
  BY <1>2, <1>m DEF Merges
<1>5. third = second
  <2>1. second = [x \in DOMAIN set \cup R |-> second[x]]
    BY <1>2, <1>m DEF Merges
  <2>2. third = [x \in DOMAIN second \cup R |->
                   IF x \in DOMAIN second THEN second[x] ELSE D(v, b)[x]]
    BY <1>2, <1>m DEF Merges
  <2> HIDE DEF second, third
  <2> QED
    BY <1>4, <2>1, <2>2, SMTT(40)
<1> HIDE DEF second, third
<1> QED
  BY <1>1, <1>3, <1>4, <1>5, Zenon DEF Completed

(***************************************************************************)
(* Codecs                                                                  *)
(***************************************************************************)

\* A function says v of c, or nothing.
At(f, c, v) == c \in DOMAIN f /\ f[c] = v
Silent(f, c) == c \notin DOMAIN f

\* Of two functions merged the first that says something is believed.
LEMMA AtFirst ==
  ASSUME NEW f, NEW g, NEW c, NEW v, At(f, c, v)
  PROVE  At(f ++ g, c, v)
<1>1. Merges(f ++ g, f, g)
  BY Merged, Zenon
<1> QED
  BY <1>1 DEF At, Merges
LEMMA AtSecond ==
  ASSUME NEW f, NEW g, NEW c, NEW v, At(g, c, v), Silent(f, c)
  PROVE  At(f ++ g, c, v)
<1>1. Merges(f ++ g, f, g)
  BY Merged, Zenon
<1> QED
  BY <1>1 DEF At, Silent, Merges
LEMMA AtNeither ==
  ASSUME NEW f, NEW g, NEW c, Silent(f, c), Silent(g, c)
  PROVE  Silent(f ++ g, c)
<1>1. Merges(f ++ g, f, g)
  BY Merged, Zenon
<1> QED
  BY <1>1 DEF Silent, Merges

\* A column as a table declares it.
Mandatory(type) == [type |-> type, nullable |-> FALSE, default |-> NoDefault]
Optional(type) == [type |-> type, nullable |-> TRUE, default |-> NoDefault]
Filled(value) == [type |-> value.type, nullable |-> FALSE, default |-> value]
NoText == Text("")
FirstKind == Integer(1)
LEMMA RequiredSays ==
  ASSUME NEW type, NEW names, NEW c
  PROVE  /\ c \in names => At(Required(type, names), c, Mandatory(type))
         /\ c \notin names => Silent(Required(type, names), c)
BY DEF Required, Columns, Mandatory, At, Silent
LEMMA NullableSays ==
  ASSUME NEW type, NEW names, NEW c
  PROVE  /\ c \in names => At(Nullable(type, names), c, Optional(type))
         /\ c \notin names => Silent(Nullable(type, names), c)
BY DEF Nullable, Columns, Optional, At, Silent
LEMMA DefaultedSays ==
  ASSUME NEW value, NEW names, NEW c
  PROVE  /\ c \in names => At(Defaulted(value, names), c, Filled(value))
         /\ c \notin names => Silent(Defaulted(value, names), c)
BY DEF Defaulted, Columns, Filled, At, Silent

\* A field of an entity, and the fields it has.
Of(e, c) == e[c]
HasFields(e, names) == DOMAIN e = names

\* What a codec writes: the tagged value of each field, Null for a None.
OptTyped(type, v) == IF v = None THEN Null ELSE Typed(type, v)
Writing(type, e, names) == [c \in names |-> Typed(type, e[c])]
WritingOpt(type, e, names) == [c \in names |-> OptTyped(type, e[c])]
LEMMA WritingSays ==
  ASSUME NEW type, NEW e, NEW names, NEW c
  PROVE  /\ c \in names => At(Writing(type, e, names), c, Typed(type, Of(e, c)))
         /\ c \notin names => Silent(Writing(type, e, names), c)
BY DEF Writing, Of, At, Silent
LEMMA WritingOptSays ==
  ASSUME NEW type, NEW e, NEW names, NEW c
  PROVE  /\ c \in names => At(WritingOpt(type, e, names), c, OptTyped(type, Of(e, c)))
         /\ c \notin names => Silent(WritingOpt(type, e, names), c)
BY DEF WritingOpt, Of, At, Silent

\* And what it reads, in one of several ways.
ReadAs(way, v) ==
  CASE way = "string" -> string_value_of(v)
    [] way = "opt_string" -> opt_string_value_of(v)
    [] way = "i64" -> i64_value_of(v)
    [] way = "opt_int" -> opt_int_value_of(v)
    [] way = "opt_float" -> opt_float_value_of(v)
    [] way = "hlc" -> hlc_value_of(v)
    [] way = "merkle_root" -> opt_merkle_root_value_of(v)
    [] way = "tunnel_kind" -> TunnelKind_from_raw(i64_value_of(v))
    [] way = "source_kind" -> SourceKind_from_raw(i64_value_of(v))
    [] way = "recalled_at" -> recalled_at_string(v)
Cell(row, c) == IF c \in DOMAIN row THEN row[c] ELSE Null
Reading(way, row, names) == [c \in names |-> ReadAs(way, Cell(row, c))]
LEMMA ReadingSays ==
  ASSUME NEW way, NEW row, NEW names, NEW c
  PROVE  /\ c \in names => At(Reading(way, row, names), c, ReadAs(way, Cell(row, c)))
         /\ c \notin names => Silent(Reading(way, row, names), c)
BY DEF Reading, At, Silent

\* A value as a backend hands it back from a column.
Handed(backend, column, v) ==
  IF backend = "memory" THEN v
  ELSE CASE v.type = "text" /\ backend = "typed" /\ column.type = "timestamp" ->
              Timestamp(parse_iso8601(v.val))
         [] v.type \in {"bitmap", "hlc"} -> Integer(v.val)
         [] v.type = "timestamp" /\ backend = "plain" -> Integer(v.val)
         [] v.type = "timestamp" /\ backend = "raw" -> Text(format_iso8601(v.val))
         [] v.type = "json" -> Blob(v.val)
         [] v.type = "uuid" -> Text(v.val)
         [] OTHER -> v
LEMMA HandedBack ==
  ASSUME NEW b, NEW columns, NEW values, NEW c, NEW v, c \in DOMAIN columns, At(values, c, v)
  PROVE  Cell(ReadBack(b, columns, values), c) = Handed(b, columns[c], v)
<1>1. ReadBack(b, columns, values) =
        [k \in DOMAIN columns |->
           IF k \in DOMAIN values THEN Handed(b, columns[k], values[k])
           ELSE IF columns[k].default # NoDefault THEN columns[k].default ELSE Null]
  BY Zenon DEF ReadBack, Handed
<1> QED
  BY <1>1 DEF At, Cell

\* What is written in a column of its type, and how it is read.
Pair(type, way) ==
  \/ type = "text" /\ way = "string"
  \/ type \in {"int", "bitmap", "timestamp"} /\ way \in {"i64", "opt_int"}
  \/ type = "hlc" /\ way = "hlc"
OptPair(type, way) ==
  \/ type = "text" /\ way = "opt_string"
  \/ type \in {"int", "timestamp"} /\ way = "opt_int"
  \/ type = "float" /\ way = "opt_float"
LEMMA Pairs ==
  /\ Pair("text", "string") /\ Pair("int", "i64") /\ Pair("bitmap", "i64") /\ Pair("timestamp", "i64")
  /\ Pair("timestamp", "opt_int") /\ Pair("hlc", "hlc")
  /\ OptPair("text", "opt_string") /\ OptPair("int", "opt_int") /\ OptPair("timestamp", "opt_int")
  /\ OptPair("float", "opt_float")
BY DEF Pair, OptPair
\* What is read of a value that was stored in a column of its type.
LEMMA TypedIsRead ==
  ASSUME NEW b \in {"memory", "typed", "plain"}, NEW column, NEW type, NEW x, NEW way,
         column.type = type, Pair(type, way)
  PROVE  ReadAs(way, Handed(b, column, Typed(type, x))) = x
BY DEF Pair, ReadAs, Handed, Typed, Integer, Timestamp, Text, Blob, string_value_of, i64_value_of,
       opt_int_value_of, hlc_value_of
LEMMA OptTypedIsRead ==
  ASSUME NEW b \in {"memory", "typed", "plain"}, NEW column, NEW type, NEW x, NEW way,
         column.type = type, OptPair(type, way)
  PROVE  ReadAs(way, Handed(b, column, OptTyped(type, x))) = x
BY DEF OptPair, ReadAs, Handed, OptTyped, Typed, Null, Integer, Timestamp, Text, Blob,
   opt_string_value_of,
       opt_int_value_of, opt_float_value_of

\* A column of a type, and a value that its column accepts: where none is
\* given the column does without.
IsOf(columns, c, type) == c \in DOMAIN columns /\ columns[c].type = type
Stores(columns, values, c) ==
  /\ c \in DOMAIN values => c \in DOMAIN columns /\ Fits(values[c], columns[c])
  /\ c \in DOMAIN columns \ DOMAIN values => columns[c].nullable \/ columns[c].default # NoDefault
LEMMA ColumnTypes ==
  ASSUME NEW columns, NEW c, NEW type
  PROVE  /\ At(columns, c, Mandatory(type)) => IsOf(columns, c, type)
         /\ At(columns, c, Optional(type)) => IsOf(columns, c, type)
         /\ At(columns, c, Filled(NoText)) => IsOf(columns, c, "text")
         /\ At(columns, c, Filled(FirstKind)) => IsOf(columns, c, "int")
<1>1. Mandatory(type).type = type /\ Optional(type).type = type
  BY DEF Mandatory, Optional
<1>2. Filled(NoText).type = "text"
  BY DEF Filled, NoText, Text, Typed
<1>3. Filled(FirstKind).type = "int"
  BY DEF Filled, FirstKind, Integer, Typed
<1> QED
  BY <1>1, <1>2, <1>3 DEF At, IsOf
LEMMA StoresTyped ==
  ASSUME NEW columns, NEW values, NEW c, NEW type, NEW x,
         IsOf(columns, c, type), At(values, c, Typed(type, x))
  PROVE  Stores(columns, values, c)
BY SMTT(40) DEF IsOf, At, Typed, Stores, Fits
LEMMA StoresOptTyped ==
  ASSUME NEW columns, NEW values, NEW c, NEW type, NEW x,
         At(columns, c, Optional(type)), At(values, c, OptTyped(type, x))
  PROVE  Stores(columns, values, c)
BY DEF At, Typed, OptTyped, Null, Optional, Stores, Fits
LEMMA StoresNothing ==
  ASSUME NEW columns, NEW values, NEW c, Silent(values, c)
  PROVE  /\ Silent(columns, c) => Stores(columns, values, c)
         /\ \A type : At(columns, c, Optional(type)) => Stores(columns, values, c)
BY DEF At, Silent, Optional, Stores

\* A field written as it is, and one that may be None, read back.
LEMMA FieldIsRead ==
  ASSUME NEW b \in {"memory", "typed", "plain"}, NEW columns, NEW values, NEW c, NEW x,
         NEW type, NEW way, Pair(type, way), IsOf(columns, c, type), At(values, c, Typed(type, x))
  PROVE  ReadAs(way, Cell(ReadBack(b, columns, values), c)) = x
<1>1. Cell(ReadBack(b, columns, values), c) = Handed(b, columns[c], Typed(type, x))
  BY HandedBack DEF IsOf
<1> QED
  BY <1>1, TypedIsRead DEF IsOf
LEMMA OptFieldIsRead ==
  ASSUME NEW b \in {"memory", "typed", "plain"}, NEW columns, NEW values, NEW c, NEW x,
         NEW type, NEW way, OptPair(type, way), At(columns, c, Optional(type)),
         At(values, c, OptTyped(type, x))
  PROVE  ReadAs(way, Cell(ReadBack(b, columns, values), c)) = x
<1>1. c \in DOMAIN columns /\ columns[c].type = type
  BY DEF At, Optional
<1>2. Cell(ReadBack(b, columns, values), c) = Handed(b, columns[c], OptTyped(type, x))
  BY <1>1, HandedBack, SMTT(40)
<1> QED
  BY <1>1, <1>2, OptTypedIsRead

\* What EntityRoundTrips says of an entity of a table.
RoundTrips(table, e) ==
  LET columns == tables[table].columns
      values == Values(table, e)
  IN  /\ DOMAIN values \subseteq DOMAIN columns
      /\ \A c \in DOMAIN columns :
           IF c \in DOMAIN values THEN Fits(values[c], columns[c])
           ELSE columns[c].nullable \/ columns[c].default # NoDefault
      /\ tables[table].key \subseteq DOMAIN values
      /\ \A ix \in indices[table] :
           ix \subseteq DOMAIN columns \cup DOMAIN tables[table].generated
      /\ \A b \in BackendsOf(table) :
           LET row == ReadBack(b, columns, values)
               read == FromRow(table, row)
           IN  /\ DOMAIN e \subseteq DOMAIN read
               /\ \A c \in DOMAIN e : read[c] = e[c]
               /\ table = "vectors" =>
                    LET light == decode_stored_vector_light(row)
                    IN  \A c \in DOMAIN light : light[c] = e[c]
               /\ table = "chunks" =>
                    chunk_source_pair(row) = <<e["id"], e["source_id"]>>
               /\ table = "corpus_provider_counts" =>
                    growth_anchor(row) = <<e["doc_count"], e["vocab_size"]>>

\* LocusKit's tables are read from three backends.
LEMMA LocusBackends ==
  ASSUME NEW table,
         table \notin {"chunks", "corpus_metadata", "corpus_provider_basis",
                       "corpus_provider_counts", "removed_sources"}
  PROVE  BackendsOf(table) = {"memory", "typed", "plain"}
BY DEF BackendsOf, CorpusTables

\* The parts of a round trip of a LocusKit table together.
LEMMA LocusRoundTrip ==
  ASSUME NEW table, NEW e, NEW columns, NEW values,
         table \notin {"chunks", "corpus_metadata", "corpus_provider_basis",
                       "corpus_provider_counts", "removed_sources", "vectors"},
         tables[table].columns = columns, Values(table, e) = values,
         \A c : Stores(columns, values, c),
         tables[table].key \subseteq DOMAIN values,
         \A ix \in indices[table] : ix \subseteq DOMAIN columns \cup DOMAIN tables[table].generated,
         \A b \in {"memory", "typed", "plain"} : \A c \in DOMAIN e :
           At(FromRow(table, ReadBack(b, columns, values)), c, Of(e, c))
  PROVE  RoundTrips(table, e)
<1>1. /\ DOMAIN values \subseteq DOMAIN columns
      /\ \A c \in DOMAIN columns :
           IF c \in DOMAIN values THEN Fits(values[c], columns[c])
           ELSE columns[c].nullable \/ columns[c].default # NoDefault
  BY DEF Stores
<1>2. ASSUME NEW b \in BackendsOf(table)
      PROVE  /\ DOMAIN e \subseteq DOMAIN FromRow(table, ReadBack(b, columns, values))
             /\ \A c \in DOMAIN e : FromRow(table, ReadBack(b, columns, values))[c] = e[c]
  <2>1. b \in {"memory", "typed", "plain"}
    BY LocusBackends
  <2> QED
    BY <2>1 DEF At, Of
<1>3. table # "vectors" /\ table # "chunks" /\ table # "corpus_provider_counts"
  OBVIOUS
<1> QED
  BY <1>1, <1>2, <1>3, Zenon DEF RoundTrips


\* The tables whose rows have codecs, by name.
LEMMA TableOf ==
  /\ tables["drawers"] = drawers_table
  /\ tables["tunnels"] = tunnels_table
  /\ tables["diary"] = diary_table
  /\ tables["kg_facts"] = kg_facts_table
  /\ tables["proposals"] = proposals_table
  /\ tables["associations"] = associations_table
  /\ tables["learned_references"] = learned_references_table
  /\ tables["source_catalog"] = source_catalog_table
  /\ tables["recall_trace"] = recall_trace_table
  /\ tables["nodes"] = nodes_table
  /\ tables["vectors"] = vectors_table
  /\ tables["chunks"] = chunks_table
  /\ tables["corpus_provider_basis"] = corpus_provider_basis_table
  /\ tables["corpus_provider_counts"] = corpus_provider_counts_table
  /\ tables["removed_sources"] = removed_sources_table
<1>m. Merges(tables, CorpusTables, EstateTables)
  BY Merged, Zenon DEF tables
<1>1. tables["drawers"] = drawers_table
  BY <1>m DEF Merges, CorpusTables, EstateTables
<1>2. tables["tunnels"] = tunnels_table
  BY <1>m DEF Merges, CorpusTables, EstateTables
<1>3. tables["diary"] = diary_table
  BY <1>m DEF Merges, CorpusTables, EstateTables
<1>4. tables["kg_facts"] = kg_facts_table
  BY <1>m DEF Merges, CorpusTables, EstateTables
<1>5. tables["proposals"] = proposals_table
  BY <1>m DEF Merges, CorpusTables, EstateTables
<1>6. tables["associations"] = associations_table
  BY <1>m DEF Merges, CorpusTables, EstateTables
<1>7. tables["learned_references"] = learned_references_table
  BY <1>m DEF Merges, CorpusTables, EstateTables
<1>8. tables["source_catalog"] = source_catalog_table
  BY <1>m DEF Merges, CorpusTables, EstateTables
<1>9. tables["recall_trace"] = recall_trace_table
  BY <1>m DEF Merges, CorpusTables, EstateTables
<1>10. tables["nodes"] = nodes_table
  BY <1>m DEF Merges, CorpusTables, EstateTables
<1>11. tables["vectors"] = vectors_table
  BY <1>m DEF Merges, CorpusTables, EstateTables
<1>12. tables["chunks"] = chunks_table
  BY <1>m DEF Merges, CorpusTables, EstateTables
<1>13. tables["corpus_provider_basis"] = corpus_provider_basis_table
  BY <1>m DEF Merges, CorpusTables, EstateTables
<1>14. tables["corpus_provider_counts"] = corpus_provider_counts_table
  BY <1>m DEF Merges, CorpusTables, EstateTables
<1>15. tables["removed_sources"] = removed_sources_table
  BY <1>m DEF Merges, CorpusTables, EstateTables
<1> QED
  BY <1>1, <1>2, <1>3, <1>4, <1>5, <1>6, <1>7, <1>8, <1>9, <1>10, <1>11, <1>12, <1>13, <1>14, <1>15

\* The columns each table is indexed by.
LEMMA IndicesOf ==
  /\ indices["kg_facts"] = {{"sourceDrawerID"}, {"subject"}, {"g_state_cluster"}}
  /\ indices["diary"] = {{"agentName"}, {"wing"}, {"filedAt"}}
  /\ indices["proposals"] = {{"targetRowID"}, {"udcCode"}, {"g_state_cluster"}}
  /\ indices["associations"] = {{"sourceWing", "sourceRoom"}, {"targetWing", "targetRoom"}, {"udcCode"}}
  /\ indices["learned_references"] = {{"handle"}, {"sourceCatalogID"}, {"udcCode"}}
  /\ indices["tunnels"] = {{"sourceWing", "sourceRoom"}, {"targetWing", "targetRoom"},
                          {"kind_id", "sourceDrawerId"}, {"kind_id", "targetDrawerId"}}
  /\ indices["source_catalog"] = {{"handle"}}
  /\ indices["recall_trace"] = {{"target"}, {"recalledAt"}}
  /\ indices["drawers"] = {{"parent_node_id"}, {"sourceFile"}, {"tombstonedAt"}, {"lineageID"}, {"udcCode"},
                          {"g_provenance_source"}, {"g_provenance_confirmation"},
                          {"g_operational_channel"}, {"g_state_cluster"}}
  /\ indices["nodes"] = {{"parent_id"}, {"parent_id", "lookup_name"}, {"depth", "lookup_name"}}
  /\ indices["removed_sources"] = {}
  /\ indices["corpus_provider_basis"] = {}
  /\ indices["corpus_provider_counts"] = {}
  /\ indices["chunks"] = {{"source_id"}, {"hlc"}}
  /\ indices["vectors"] = {{"item_id"}, {"model_id", "item_id"}, {"filed_at", "item_id"}}
<1>m. Merges(indices, TableIndices, [t \in DOMAIN tables |-> {}])
  BY Merged, Zenon DEF indices
<1>t. Merges(tables, CorpusTables, EstateTables)
  BY Merged, Zenon DEF tables
<1>1. indices["kg_facts"] = {{"sourceDrawerID"}, {"subject"}, {"g_state_cluster"}}
  <2>1. /\ "kg_facts" \in DOMAIN TableIndices
        /\ TableIndices["kg_facts"] = {{"sourceDrawerID"}, {"subject"}, {"g_state_cluster"}}
    BY DEF TableIndices
  <2> QED
    BY <1>m, <2>1 DEF Merges
<1>2. indices["diary"] = {{"agentName"}, {"wing"}, {"filedAt"}}
  <2>1. /\ "diary" \in DOMAIN TableIndices
        /\ TableIndices["diary"] = {{"agentName"}, {"wing"}, {"filedAt"}}
    BY DEF TableIndices
  <2> QED
    BY <1>m, <2>1 DEF Merges
<1>3. indices["proposals"] = {{"targetRowID"}, {"udcCode"}, {"g_state_cluster"}}
  <2>1. /\ "proposals" \in DOMAIN TableIndices
        /\ TableIndices["proposals"] = {{"targetRowID"}, {"udcCode"}, {"g_state_cluster"}}
    BY DEF TableIndices
  <2> QED
    BY <1>m, <2>1 DEF Merges
<1>4. indices["associations"] = {{"sourceWing", "sourceRoom"}, {"targetWing", "targetRoom"}, {"udcCode"}}
  <2>1. /\ "associations" \in DOMAIN TableIndices
        /\ TableIndices["associations"] = {{"sourceWing", "sourceRoom"}, {"targetWing", "targetRoom"}, {"udcCode"}}
    BY DEF TableIndices
  <2> QED
    BY <1>m, <2>1 DEF Merges
<1>5. indices["learned_references"] = {{"handle"}, {"sourceCatalogID"}, {"udcCode"}}
  <2>1. /\ "learned_references" \in DOMAIN TableIndices
        /\ TableIndices["learned_references"] = {{"handle"}, {"sourceCatalogID"}, {"udcCode"}}
    BY DEF TableIndices
  <2> QED
    BY <1>m, <2>1 DEF Merges
<1>6. indices["tunnels"] = {{"sourceWing", "sourceRoom"}, {"targetWing", "targetRoom"},
                          {"kind_id", "sourceDrawerId"}, {"kind_id", "targetDrawerId"}}
  <2>1. /\ "tunnels" \in DOMAIN TableIndices
        /\ TableIndices["tunnels"] = {{"sourceWing", "sourceRoom"}, {"targetWing", "targetRoom"},
            {"kind_id", "sourceDrawerId"}, {"kind_id", "targetDrawerId"}}
    BY DEF TableIndices
  <2> QED
    BY <1>m, <2>1 DEF Merges
<1>7. indices["source_catalog"] = {{"handle"}}
  <2>1. /\ "source_catalog" \in DOMAIN TableIndices
        /\ TableIndices["source_catalog"] = {{"handle"}}
    BY DEF TableIndices
  <2> QED
    BY <1>m, <2>1 DEF Merges
<1>8. indices["recall_trace"] = {{"target"}, {"recalledAt"}}
  <2>1. /\ "recall_trace" \in DOMAIN TableIndices
        /\ TableIndices["recall_trace"] = {{"target"}, {"recalledAt"}}
    BY DEF TableIndices
  <2> QED
    BY <1>m, <2>1 DEF Merges
<1>9. indices["drawers"] = {{"parent_node_id"}, {"sourceFile"}, {"tombstonedAt"}, {"lineageID"}, {"udcCode"},
                          {"g_provenance_source"}, {"g_provenance_confirmation"},
                          {"g_operational_channel"}, {"g_state_cluster"}}
  <2>1. /\ "drawers" \in DOMAIN TableIndices
        /\ TableIndices["drawers"] = {{"parent_node_id"}, {"sourceFile"}, {"tombstonedAt"}, {"lineageID"}, {"udcCode"},
            {"g_provenance_source"}, {"g_provenance_confirmation"},
            {"g_operational_channel"}, {"g_state_cluster"}}
    BY DEF TableIndices
  <2> QED
    BY <1>m, <2>1 DEF Merges
<1>10. indices["nodes"] = {{"parent_id"}, {"parent_id", "lookup_name"}, {"depth", "lookup_name"}}
  <2>1. /\ "nodes" \in DOMAIN TableIndices
        /\ TableIndices["nodes"] = {{"parent_id"}, {"parent_id", "lookup_name"}, {"depth", "lookup_name"}}
    BY DEF TableIndices
  <2> QED
    BY <1>m, <2>1 DEF Merges
<1>11. indices["removed_sources"] = {}
  <2>1. "removed_sources" \in DOMAIN tables
    BY <1>t DEF Merges, CorpusTables
  <2>2. "removed_sources" \notin DOMAIN TableIndices
    BY DEF TableIndices
  <2> QED
    BY <1>m, <2>1, <2>2 DEF Merges
<1>12. indices["corpus_provider_basis"] = {}
  <2>1. "corpus_provider_basis" \in DOMAIN tables
    BY <1>t DEF Merges, CorpusTables
  <2>2. "corpus_provider_basis" \notin DOMAIN TableIndices
    BY DEF TableIndices
  <2> QED
    BY <1>m, <2>1, <2>2 DEF Merges
<1>13. indices["corpus_provider_counts"] = {}
  <2>1. "corpus_provider_counts" \in DOMAIN tables
    BY <1>t DEF Merges, CorpusTables
  <2>2. "corpus_provider_counts" \notin DOMAIN TableIndices
    BY DEF TableIndices
  <2> QED
    BY <1>m, <2>1, <2>2 DEF Merges
<1>14. indices["chunks"] = {{"source_id"}, {"hlc"}}
  <2>1. /\ "chunks" \in DOMAIN TableIndices
        /\ TableIndices["chunks"] = {{"source_id"}, {"hlc"}}
    BY DEF TableIndices
  <2> QED
    BY <1>m, <2>1 DEF Merges
<1>15. indices["vectors"] = {{"item_id"}, {"model_id", "item_id"}, {"filed_at", "item_id"}}
  <2>1. /\ "vectors" \in DOMAIN TableIndices
        /\ TableIndices["vectors"] = {{"item_id"}, {"model_id", "item_id"}, {"filed_at", "item_id"}}
    BY DEF TableIndices
  <2> QED
    BY <1>m, <2>1 DEF Merges
<1> QED
  BY <1>1, <1>2, <1>3, <1>4, <1>5, <1>6, <1>7, <1>8, <1>9, <1>10, <1>11, <1>12, <1>13, <1>14, <1>15

\* A fact is read back as it was written.
LEMMA KGFactSurvives ==
  ASSUME NEW e,
         HasFields(e, {"id", "subject", "predicate", "object", "sourceDrawerID",
                       "adjectiveBitmap", "operationalBitmap", "provenanceBitmap", "filedAt"})
  PROVE  RoundTrips("kg_facts", e)
<1> DEFINE columns == kg_facts_table.columns
           values == kg_fact_values(e)
<1>1. columns =
        Required("text", {"id", "subject", "predicate", "object", "sourceDrawerID"})
          ++ Required("bitmap", {"adjectiveBitmap", "operationalBitmap", "provenanceBitmap"})
          ++ Required("timestamp", {"filedAt"}) ++ Nullable("json", {"ext"})
  BY DEF kg_facts_table, Table
<1>2. values =
        Writing("text", e, {"id", "subject", "predicate", "object", "sourceDrawerID"})
          ++ Writing("bitmap", e, {"adjectiveBitmap", "operationalBitmap", "provenanceBitmap"})
          ++ Writing("timestamp", e, {"filedAt"})
  BY Zenon DEF kg_fact_values, Put, Text, Bitmap, Timestamp, Writing
<1> HIDE DEF columns, values
<1>3. /\ \A c \in {"id", "subject", "predicate", "object", "sourceDrawerID"} :
           At(columns, c, Mandatory("text"))
      /\ \A c \in {"adjectiveBitmap", "operationalBitmap", "provenanceBitmap"} :
           At(columns, c, Mandatory("bitmap"))
      /\ At(columns, "filedAt", Mandatory("timestamp"))
      /\ At(columns, "ext", Optional("json"))
      /\ \A c : \/ c \in {"id", "subject", "predicate", "object", "sourceDrawerID",
                          "adjectiveBitmap", "operationalBitmap", "provenanceBitmap", "filedAt",
                          "ext"}
                \/ Silent(columns, c)
  BY <1>1, RequiredSays, NullableSays, DefaultedSays, AtFirst, AtSecond, AtNeither
<1>4. /\ \A c \in {"id", "subject", "predicate", "object", "sourceDrawerID"} :
           At(values, c, Typed("text", Of(e, c)))
      /\ \A c \in {"adjectiveBitmap", "operationalBitmap", "provenanceBitmap"} :
           At(values, c, Typed("bitmap", Of(e, c)))
      /\ At(values, "filedAt", Typed("timestamp", Of(e, "filedAt")))
      /\ \A c : \/ c \in {"id", "subject", "predicate", "object", "sourceDrawerID",
                          "adjectiveBitmap", "operationalBitmap", "provenanceBitmap", "filedAt"}
                \/ Silent(values, c)
  BY <1>2, WritingSays, AtFirst, AtSecond, AtNeither
<1>5. \A c : Stores(columns, values, c)
  BY <1>3, <1>4, ColumnTypes, StoresTyped, StoresOptTyped, StoresNothing
<1>6. ASSUME NEW b \in {"memory", "typed", "plain"}
      PROVE  \A c \in DOMAIN e : At(kg_fact_from_row(ReadBack(b, columns, values)), c, Of(e, c))
  <2> DEFINE row == ReadBack(b, columns, values)
             read == kg_fact_from_row(row)
  <2>1. read =
          Reading("string", row, {"id", "subject", "predicate", "object", "sourceDrawerID"})
            ++ Reading("i64", row, {"adjectiveBitmap", "operationalBitmap", "provenanceBitmap",
                                    "filedAt"})
    BY DEF kg_fact_from_row, Take, Reading, ReadAs, Cell
  <2> HIDE DEF row, read
  <2>2. /\ \A c \in {"id", "subject", "predicate", "object", "sourceDrawerID"} :
             At(read, c, ReadAs("string", Cell(row, c)))
        /\ \A c \in {"adjectiveBitmap", "operationalBitmap", "provenanceBitmap", "filedAt"} :
             At(read, c, ReadAs("i64", Cell(row, c)))
    BY <2>1, ReadingSays, AtFirst, AtSecond, AtNeither, SMTT(40)
  <2> QED
    BY <1>3, <1>4, <2>2, ColumnTypes, Pairs, FieldIsRead, OptFieldIsRead
       DEF row, read, HasFields
<1>7. /\ tables["kg_facts"].columns = columns /\ tables["kg_facts"].key = {"id"}
      /\ tables["kg_facts"].generated = [g_state_cluster |-> Bits("adjectiveBitmap", 0, 6)]
  <2>1. tables["kg_facts"] = kg_facts_table
    BY TableOf
  <2>2. kg_facts_table.key = {"id"} /\ kg_facts_table.generated =
          [g_state_cluster |-> Bits("adjectiveBitmap", 0, 6)]
    BY SMTT(40) DEF kg_facts_table, Table
  <2> QED
    BY <2>1, <2>2 DEF columns
<1>8. indices["kg_facts"] = {{"sourceDrawerID"}, {"subject"}, {"g_state_cluster"}}
  BY IndicesOf
<1>9. Values("kg_facts", e) = values /\ \A row : FromRow("kg_facts", row) = kg_fact_from_row(row)
  BY DEF Values, FromRow, values
<1>10. /\ {"id"} \subseteq DOMAIN values
       /\ \A ix \in indices["kg_facts"] : ix \subseteq DOMAIN columns \cup {"g_state_cluster"}
  BY <1>3, <1>4, <1>8 DEF At
<1>11. DOMAIN tables["kg_facts"].generated = {"g_state_cluster"}
  BY <1>7
<1> QED
  BY <1>5, <1>6, <1>7, <1>9, <1>10, <1>11, LocusRoundTrip

\* A diary entry is read back as it was written.
LEMMA DiaryEntrySurvives ==
  ASSUME NEW e,
         HasFields(e, {"id", "agentName", "entry", "topic", "wing", "room", "embeddingModelID",
                       "filedAt", "tombstonedAt", "removedByBatch", "rewardProvenance",
                       "operationalBitmap", "reward"})
  PROVE  RoundTrips("diary", e)
<1> DEFINE columns == diary_table.columns
           values == diary_values(e)
<1>1. columns =
        Required("text", {"id", "agentName", "entry", "topic", "wing", "room", "embeddingModelID"})
          ++ Nullable("text", {"removedByBatch", "rewardProvenance"})
          ++ Required("timestamp", {"filedAt"}) ++ Nullable("timestamp", {"tombstonedAt"})
          ++ Required("bitmap", {"operationalBitmap"}) ++ Nullable("float", {"reward"})
          ++ Nullable("json", {"ext"})
  BY DEF diary_table, Table
<1>2. values =
        Writing("text", e, {"id", "agentName", "entry", "topic", "wing", "room",
                            "embeddingModelID"})
          ++ Writing("timestamp", e, {"filedAt"}) ++ WritingOpt("timestamp", e, {"tombstonedAt"})
          ++ WritingOpt("text", e, {"removedByBatch", "rewardProvenance"})
          ++ Writing("bitmap", e, {"operationalBitmap"}) ++ WritingOpt("float", e, {"reward"})
  BY Zenon DEF diary_values, Put, PutOpt, Text, Bitmap, Timestamp, Float, Writing, WritingOpt,
     OptTyped
<1> HIDE DEF columns, values
<1>3. /\ \A c \in {"id", "agentName", "entry", "topic", "wing", "room", "embeddingModelID"} :
           At(columns, c, Mandatory("text"))
      /\ \A c \in {"removedByBatch", "rewardProvenance"} : At(columns, c, Optional("text"))
      /\ At(columns, "filedAt", Mandatory("timestamp"))
      /\ At(columns, "tombstonedAt", Optional("timestamp"))
      /\ At(columns, "operationalBitmap", Mandatory("bitmap"))
      /\ At(columns, "reward", Optional("float"))
      /\ At(columns, "ext", Optional("json"))
      /\ \A c : \/ c \in {"id", "agentName", "entry", "topic", "wing", "room", "embeddingModelID",
                          "removedByBatch", "rewardProvenance", "filedAt", "tombstonedAt",
                          "operationalBitmap", "reward", "ext"}
                \/ Silent(columns, c)
  BY <1>1, RequiredSays, NullableSays, DefaultedSays, AtFirst, AtSecond, AtNeither
<1>4. /\ \A c \in {"id", "agentName", "entry", "topic", "wing", "room", "embeddingModelID"} :
           At(values, c, Typed("text", Of(e, c)))
      /\ At(values, "filedAt", Typed("timestamp", Of(e, "filedAt")))
      /\ At(values, "tombstonedAt", OptTyped("timestamp", Of(e, "tombstonedAt")))
      /\ \A c \in {"removedByBatch", "rewardProvenance"} : At(values, c, OptTyped("text", Of(e, c)))
      /\ At(values, "operationalBitmap", Typed("bitmap", Of(e, "operationalBitmap")))
      /\ At(values, "reward", OptTyped("float", Of(e, "reward")))
      /\ \A c : \/ c \in {"id", "agentName", "entry", "topic", "wing", "room", "embeddingModelID",
                          "filedAt", "tombstonedAt", "removedByBatch", "rewardProvenance",
                          "operationalBitmap", "reward"}
                \/ Silent(values, c)
  BY <1>2, WritingSays, WritingOptSays, AtFirst, AtSecond, AtNeither
<1>5. \A c : Stores(columns, values, c)
  BY <1>3, <1>4, ColumnTypes, StoresTyped, StoresOptTyped, StoresNothing
<1>6. ASSUME NEW b \in {"memory", "typed", "plain"}
      PROVE  \A c \in DOMAIN e : At(diary_from_row(ReadBack(b, columns, values)), c, Of(e, c))
  <2> DEFINE row == ReadBack(b, columns, values)
             read == diary_from_row(row)
  <2>1. read =
          Reading("string", row, {"id", "agentName", "entry", "topic", "wing", "room",
                                  "embeddingModelID"})
            ++ Reading("i64", row, {"filedAt", "operationalBitmap"})
            ++ Reading("opt_int", row, {"tombstonedAt"})
            ++ Reading("opt_string", row, {"removedByBatch", "rewardProvenance"})
            ++ Reading("opt_float", row, {"reward"})
    BY DEF diary_from_row, Take, Reading, ReadAs, Cell
  <2> HIDE DEF row, read
  <2>2. /\ \A c \in {"id", "agentName", "entry", "topic", "wing", "room", "embeddingModelID"} :
             At(read, c, ReadAs("string", Cell(row, c)))
        /\ \A c \in {"filedAt", "operationalBitmap"} : At(read, c, ReadAs("i64", Cell(row, c)))
        /\ At(read, "tombstonedAt", ReadAs("opt_int", Cell(row, "tombstonedAt")))
        /\ \A c \in {"removedByBatch", "rewardProvenance"} :
             At(read, c, ReadAs("opt_string", Cell(row, c)))
        /\ At(read, "reward", ReadAs("opt_float", Cell(row, "reward")))
    BY <2>1, ReadingSays, AtFirst, AtSecond, AtNeither
  <2> QED
    BY <1>3, <1>4, <2>2, ColumnTypes, Pairs, FieldIsRead, OptFieldIsRead
       DEF row, read, HasFields
<1>7. /\ tables["diary"].columns = columns /\ tables["diary"].key = {"id"}
  <2>1. tables["diary"] = diary_table
    BY TableOf
  <2>2. diary_table.key = {"id"}
    BY SMTT(40) DEF diary_table, Table
  <2> QED
    BY <2>1, <2>2 DEF columns
<1>8. indices["diary"] = {{"agentName"}, {"wing"}, {"filedAt"}}
  BY IndicesOf
<1>9. Values("diary", e) = values /\ \A row : FromRow("diary", row) = diary_from_row(row)
  BY DEF Values, FromRow, values
<1>10. /\ {"id"} \subseteq DOMAIN values
       /\ \A ix \in indices["diary"] : ix \subseteq DOMAIN columns
  BY <1>3, <1>4, <1>8 DEF At
<1> QED
  BY <1>5, <1>6, <1>7, <1>9, <1>10, LocusRoundTrip

\* A proposal is read back as it was written.
LEMMA ProposalSurvives ==
  ASSUME NEW e,
         HasFields(e, {"id", "targetRowID", "justification", "candidateState", "adjectiveBitmap",
                       "operationalBitmap", "provenanceBitmap", "udcCode", "udcFacets",
                       "wikidataQID", "wikidataQidsSecondary", "filedAt"})
  PROVE  RoundTrips("proposals", e)
<1> DEFINE columns == proposals_table.columns
           values == proposal_values(e)
<1>1. columns =
        Required("text", {"id", "targetRowID"})
          ++ Nullable("text", {"justification"})
          ++ Required("bitmap", {"candidateState", "adjectiveBitmap", "operationalBitmap",
                                 "provenanceBitmap"})
          ++ (Defaulted(NoText, {"udcCode"})
                ++ Nullable("text", {"udcFacets", "wikidataQID", "wikidataQidsSecondary"}))
          ++ Required("timestamp", {"filedAt"}) ++ Nullable("json", {"ext"})
  BY DEF proposals_table, lattice_columns, Table, NoText
<1>2. values =
        Writing("text", e, {"id", "targetRowID"})
          ++ WritingOpt("text", e, {"justification"})
          ++ Writing("bitmap", e, {"candidateState", "adjectiveBitmap", "operationalBitmap",
                                   "provenanceBitmap"})
          ++ (Writing("text", e, {"udcCode"})
                ++ WritingOpt("text", e, {"udcFacets", "wikidataQID", "wikidataQidsSecondary"}))
          ++ Writing("timestamp", e, {"filedAt"})
  BY Zenon DEF proposal_values, lattice_values, Put, PutOpt, Text, Bitmap, Timestamp, Writing,
     WritingOpt, OptTyped
<1> HIDE DEF columns, values
<1>3. /\ \A c \in {"id", "targetRowID"} : At(columns, c, Mandatory("text"))
      /\ \A c \in {"justification", "udcFacets", "wikidataQID", "wikidataQidsSecondary"} :
           At(columns, c, Optional("text"))
      /\ \A c \in {"candidateState", "adjectiveBitmap", "operationalBitmap", "provenanceBitmap"} :
           At(columns, c, Mandatory("bitmap"))
      /\ At(columns, "udcCode", Filled(NoText))
      /\ At(columns, "filedAt", Mandatory("timestamp"))
      /\ At(columns, "ext", Optional("json"))
      /\ \A c : \/ c \in {"id", "targetRowID", "justification", "candidateState",
                          "adjectiveBitmap", "operationalBitmap", "provenanceBitmap", "udcCode",
                          "udcFacets", "wikidataQID", "wikidataQidsSecondary", "filedAt", "ext"}
                \/ Silent(columns, c)
  BY <1>1, RequiredSays, NullableSays, DefaultedSays, AtFirst, AtSecond, AtNeither
<1>4. /\ \A c \in {"id", "targetRowID", "udcCode"} : At(values, c, Typed("text", Of(e, c)))
      /\ \A c \in {"justification", "udcFacets", "wikidataQID", "wikidataQidsSecondary"} :
           At(values, c, OptTyped("text", Of(e, c)))
      /\ \A c \in {"candidateState", "adjectiveBitmap", "operationalBitmap", "provenanceBitmap"} :
           At(values, c, Typed("bitmap", Of(e, c)))
      /\ At(values, "filedAt", Typed("timestamp", Of(e, "filedAt")))
      /\ \A c : \/ c \in {"id", "targetRowID", "justification", "candidateState",
                          "adjectiveBitmap", "operationalBitmap", "provenanceBitmap", "udcCode",
                          "udcFacets", "wikidataQID", "wikidataQidsSecondary", "filedAt"}
                \/ Silent(values, c)
  BY <1>2, WritingSays, WritingOptSays, AtFirst, AtSecond, AtNeither
<1>5. \A c : Stores(columns, values, c)
  BY <1>3, <1>4, ColumnTypes, StoresTyped, StoresOptTyped, StoresNothing
<1>6. ASSUME NEW b \in {"memory", "typed", "plain"}
      PROVE  \A c \in DOMAIN e : At(proposal_from_row(ReadBack(b, columns, values)), c, Of(e, c))
  <2> DEFINE row == ReadBack(b, columns, values)
             read == proposal_from_row(row)
  <2>1. read =
          Reading("string", row, {"id", "targetRowID"})
            ++ Reading("opt_string", row, {"justification"})
            ++ Reading("i64", row, {"candidateState", "adjectiveBitmap", "operationalBitmap",
                                    "provenanceBitmap", "filedAt"})
            ++ (Reading("string", row, {"udcCode"})
                  ++ Reading("opt_string", row, {"udcFacets", "wikidataQID",
                                                 "wikidataQidsSecondary"}))
    BY DEF proposal_from_row, lattice_from_row, Take, Reading, ReadAs, Cell
  <2> HIDE DEF row, read
  <2>2. /\ \A c \in {"id", "targetRowID", "udcCode"} : At(read, c, ReadAs("string", Cell(row, c)))
        /\ \A c \in {"justification", "udcFacets", "wikidataQID", "wikidataQidsSecondary"} :
             At(read, c, ReadAs("opt_string", Cell(row, c)))
        /\ \A c \in {"candidateState", "adjectiveBitmap", "operationalBitmap", "provenanceBitmap",
                     "filedAt"} : At(read, c, ReadAs("i64", Cell(row, c)))
    BY <2>1, ReadingSays, AtFirst, AtSecond, AtNeither
  <2> QED
    BY <1>3, <1>4, <2>2, ColumnTypes, Pairs, FieldIsRead, OptFieldIsRead
       DEF row, read, HasFields
<1>7. /\ tables["proposals"].columns = columns /\ tables["proposals"].key = {"id"}
      /\ tables["proposals"].generated = [g_state_cluster |-> Bits("adjectiveBitmap", 0, 6)]
  <2>1. tables["proposals"] = proposals_table
    BY TableOf
  <2>2. proposals_table.key = {"id"} /\ proposals_table.generated =
          [g_state_cluster |-> Bits("adjectiveBitmap", 0, 6)]
    BY SMTT(40) DEF proposals_table, Table
  <2> QED
    BY <2>1, <2>2 DEF columns
<1>8. indices["proposals"] = {{"targetRowID"}, {"udcCode"}, {"g_state_cluster"}}
  BY IndicesOf
<1>9. Values("proposals", e) = values /\ \A row : FromRow("proposals", row) = proposal_from_row(row)
  BY DEF Values, FromRow, values
<1>10. /\ {"id"} \subseteq DOMAIN values
       /\ \A ix \in indices["proposals"] : ix \subseteq DOMAIN columns \cup {"g_state_cluster"}
  BY <1>3, <1>4, <1>8 DEF At
<1>11. DOMAIN tables["proposals"].generated = {"g_state_cluster"}
  BY <1>7
<1> QED
  BY <1>5, <1>6, <1>7, <1>9, <1>10, <1>11, LocusRoundTrip

\* An association is read back as it was written.
LEMMA AssociationSurvives ==
  ASSUME NEW e,
         HasFields(e, {"id", "sourceWing", "sourceRoom", "targetWing", "targetRoom", "label",
                       "addedBy", "sourceDrawerId", "targetDrawerId", "removedByBatch", "filedAt",
                       "tombstonedAt", "adjectiveBitmap", "operationalBitmap", "provenanceBitmap",
                       "udcCode", "udcFacets", "wikidataQID", "wikidataQidsSecondary"})
  PROVE  RoundTrips("associations", e)
<1> DEFINE columns == associations_table.columns
           values == association_values(e)
<1>1. columns =
        Required("text", {"id", "sourceWing", "sourceRoom", "targetWing", "targetRoom", "label",
                          "addedBy"})
          ++ Nullable("text", {"sourceDrawerId", "targetDrawerId", "removedByBatch"})
          ++ Required("timestamp", {"filedAt"}) ++ Nullable("timestamp", {"tombstonedAt"})
          ++ Required("bitmap", {"adjectiveBitmap", "operationalBitmap", "provenanceBitmap"})
          ++ Nullable("json", {"ext"})
          ++ (Defaulted(NoText, {"udcCode"})
                ++ Nullable("text", {"udcFacets", "wikidataQID", "wikidataQidsSecondary"}))
  BY DEF associations_table, edge_columns, lattice_columns, Table, NoText
<1>2. values =
        Writing("text", e, {"id", "sourceWing", "sourceRoom", "targetWing", "targetRoom", "label",
                            "addedBy"})
          ++ WritingOpt("text", e, {"sourceDrawerId", "targetDrawerId", "removedByBatch"})
          ++ Writing("timestamp", e, {"filedAt"}) ++ WritingOpt("timestamp", e, {"tombstonedAt"})
          ++ Writing("bitmap", e, {"adjectiveBitmap", "operationalBitmap", "provenanceBitmap"})
          ++ (Writing("text", e, {"udcCode"})
                ++ WritingOpt("text", e, {"udcFacets", "wikidataQID", "wikidataQidsSecondary"}))
  BY Zenon DEF association_values, edge_values, lattice_values, Put, PutOpt, Text, Bitmap,
     Timestamp, Writing, WritingOpt, OptTyped
<1> HIDE DEF columns, values
<1>3. /\ \A c \in {"id", "sourceWing", "sourceRoom", "targetWing", "targetRoom", "label",
                   "addedBy"} : At(columns, c, Mandatory("text"))
      /\ \A c \in {"sourceDrawerId", "targetDrawerId", "removedByBatch", "udcFacets",
                   "wikidataQID", "wikidataQidsSecondary"} : At(columns, c, Optional("text"))
      /\ At(columns, "filedAt", Mandatory("timestamp"))
      /\ At(columns, "tombstonedAt", Optional("timestamp"))
      /\ \A c \in {"adjectiveBitmap", "operationalBitmap", "provenanceBitmap"} :
           At(columns, c, Mandatory("bitmap"))
      /\ At(columns, "ext", Optional("json"))
      /\ At(columns, "udcCode", Filled(NoText))
      /\ \A c : \/ c \in {"id", "sourceWing", "sourceRoom", "targetWing", "targetRoom", "label",
                          "addedBy", "sourceDrawerId", "targetDrawerId", "removedByBatch",
                          "filedAt", "tombstonedAt", "adjectiveBitmap", "operationalBitmap",
                          "provenanceBitmap", "ext", "udcCode", "udcFacets", "wikidataQID",
                          "wikidataQidsSecondary"}
                \/ Silent(columns, c)
  BY <1>1, RequiredSays, NullableSays, DefaultedSays, AtFirst, AtSecond, AtNeither
<1>4. /\ \A c \in {"id", "sourceWing", "sourceRoom", "targetWing", "targetRoom", "label",
                   "addedBy", "udcCode"} : At(values, c, Typed("text", Of(e, c)))
      /\ \A c \in {"sourceDrawerId", "targetDrawerId", "removedByBatch", "udcFacets",
                   "wikidataQID", "wikidataQidsSecondary"} :
           At(values, c, OptTyped("text", Of(e, c)))
      /\ At(values, "filedAt", Typed("timestamp", Of(e, "filedAt")))
      /\ At(values, "tombstonedAt", OptTyped("timestamp", Of(e, "tombstonedAt")))
      /\ \A c \in {"adjectiveBitmap", "operationalBitmap", "provenanceBitmap"} :
           At(values, c, Typed("bitmap", Of(e, c)))
      /\ \A c : \/ c \in {"id", "sourceWing", "sourceRoom", "targetWing", "targetRoom", "label",
                          "addedBy", "sourceDrawerId", "targetDrawerId", "removedByBatch",
                          "filedAt", "tombstonedAt", "adjectiveBitmap", "operationalBitmap",
                          "provenanceBitmap", "udcCode", "udcFacets", "wikidataQID",
                          "wikidataQidsSecondary"}
                \/ Silent(values, c)
  BY <1>2, WritingSays, WritingOptSays, AtFirst, AtSecond, AtNeither
<1>5. \A c : Stores(columns, values, c)
  BY <1>3, <1>4, ColumnTypes, StoresTyped, StoresOptTyped, StoresNothing
<1>6. ASSUME NEW b \in {"memory", "typed", "plain"}
      PROVE  \A c \in DOMAIN e : At(association_from_row(ReadBack(b, columns, values)), c, Of(e, c))
  <2> DEFINE row == ReadBack(b, columns, values)
             read == association_from_row(row)
  <2>1. read =
          Reading("string", row, {"id", "sourceWing", "sourceRoom", "targetWing", "targetRoom",
                                  "label", "addedBy"})
            ++ Reading("opt_string", row, {"sourceDrawerId", "targetDrawerId", "removedByBatch"})
            ++ Reading("i64", row, {"filedAt", "adjectiveBitmap", "operationalBitmap",
                                    "provenanceBitmap"})
            ++ Reading("opt_int", row, {"tombstonedAt"})
            ++ (Reading("string", row, {"udcCode"})
                  ++ Reading("opt_string", row, {"udcFacets", "wikidataQID",
                                                 "wikidataQidsSecondary"}))
    BY DEF association_from_row, edge_from_row, lattice_from_row, Take, Reading, ReadAs, Cell
  <2> HIDE DEF row, read
  <2>2. /\ \A c \in {"id", "sourceWing", "sourceRoom", "targetWing", "targetRoom", "label",
                     "addedBy", "udcCode"} : At(read, c, ReadAs("string", Cell(row, c)))
        /\ \A c \in {"sourceDrawerId", "targetDrawerId", "removedByBatch", "udcFacets",
                     "wikidataQID", "wikidataQidsSecondary"} :
             At(read, c, ReadAs("opt_string", Cell(row, c)))
        /\ \A c \in {"filedAt", "adjectiveBitmap", "operationalBitmap", "provenanceBitmap"} :
             At(read, c, ReadAs("i64", Cell(row, c)))
        /\ At(read, "tombstonedAt", ReadAs("opt_int", Cell(row, "tombstonedAt")))
    BY <2>1, ReadingSays, AtFirst, AtSecond, AtNeither
  <2> QED
    BY <1>3, <1>4, <2>2, ColumnTypes, Pairs, FieldIsRead, OptFieldIsRead
       DEF row, read, HasFields
<1>7. /\ tables["associations"].columns = columns /\ tables["associations"].key = {"id"}
  <2>1. tables["associations"] = associations_table
    BY TableOf
  <2>2. associations_table.key = {"id"}
    BY SMTT(40) DEF associations_table, Table
  <2> QED
    BY <2>1, <2>2 DEF columns
<1>8. indices["associations"] = {{"sourceWing", "sourceRoom"}, {"targetWing", "targetRoom"}, {"udcCode"}}
  BY IndicesOf
<1>9. /\ Values("associations", e) = values
      /\ \A row : FromRow("associations", row) = association_from_row(row)
  BY DEF Values, FromRow, values
<1>10. /\ {"id"} \subseteq DOMAIN values
       /\ \A ix \in indices["associations"] : ix \subseteq DOMAIN columns
  BY <1>3, <1>4, <1>8 DEF At
<1> QED
  BY <1>5, <1>6, <1>7, <1>9, <1>10, LocusRoundTrip

\* A learned reference is read back as it was written.
LEMMA LearnedReferenceSurvives ==
  ASSUME NEW e,
         HasFields(e, {"id", "sourceCatalogID", "handle", "addedBy", "filedAt", "tombstonedAt",
                       "removedByBatch", "udcCode", "udcFacets", "wikidataQID",
                       "wikidataQidsSecondary", "adjectiveBitmap", "operationalBitmap",
                       "provenanceBitmap"})
  PROVE  RoundTrips("learned_references", e)
<1> DEFINE columns == learned_references_table.columns
           values == learned_reference_values(e)
<1>1. columns =
        Required("text", {"id", "sourceCatalogID", "handle", "addedBy"})
          ++ Required("timestamp", {"filedAt"}) ++ Nullable("timestamp", {"tombstonedAt"})
          ++ Nullable("text", {"removedByBatch"})
          ++ (Defaulted(NoText, {"udcCode"})
                ++ Nullable("text", {"udcFacets", "wikidataQID", "wikidataQidsSecondary"}))
          ++ Required("bitmap", {"adjectiveBitmap", "operationalBitmap", "provenanceBitmap"})
          ++ Nullable("json", {"ext"})
  BY DEF learned_references_table, lattice_columns, Table, NoText
<1>2. values =
        Writing("text", e, {"id", "sourceCatalogID", "handle", "addedBy"})
          ++ Writing("timestamp", e, {"filedAt"}) ++ WritingOpt("timestamp", e, {"tombstonedAt"})
          ++ WritingOpt("text", e, {"removedByBatch"})
          ++ (Writing("text", e, {"udcCode"})
                ++ WritingOpt("text", e, {"udcFacets", "wikidataQID", "wikidataQidsSecondary"}))
          ++ Writing("bitmap", e, {"adjectiveBitmap", "operationalBitmap", "provenanceBitmap"})
  BY Zenon DEF learned_reference_values, lattice_values, Put, PutOpt, Text, Bitmap, Timestamp,
     Writing, WritingOpt, OptTyped
<1> HIDE DEF columns, values
<1>3. /\ \A c \in {"id", "sourceCatalogID", "handle", "addedBy"} : At(columns, c, Mandatory("text"))
      /\ At(columns, "filedAt", Mandatory("timestamp"))
      /\ At(columns, "tombstonedAt", Optional("timestamp"))
      /\ \A c \in {"removedByBatch", "udcFacets", "wikidataQID", "wikidataQidsSecondary"} :
           At(columns, c, Optional("text"))
      /\ At(columns, "udcCode", Filled(NoText))
      /\ \A c \in {"adjectiveBitmap", "operationalBitmap", "provenanceBitmap"} :
           At(columns, c, Mandatory("bitmap"))
      /\ At(columns, "ext", Optional("json"))
      /\ \A c : \/ c \in {"id", "sourceCatalogID", "handle", "addedBy", "filedAt", "tombstonedAt",
                          "removedByBatch", "udcCode", "udcFacets", "wikidataQID",
                          "wikidataQidsSecondary", "adjectiveBitmap", "operationalBitmap",
                          "provenanceBitmap", "ext"}
                \/ Silent(columns, c)
  BY <1>1, RequiredSays, NullableSays, DefaultedSays, AtFirst, AtSecond, AtNeither
<1>4. /\ \A c \in {"id", "sourceCatalogID", "handle", "addedBy", "udcCode"} :
           At(values, c, Typed("text", Of(e, c)))
      /\ At(values, "filedAt", Typed("timestamp", Of(e, "filedAt")))
      /\ At(values, "tombstonedAt", OptTyped("timestamp", Of(e, "tombstonedAt")))
      /\ \A c \in {"removedByBatch", "udcFacets", "wikidataQID", "wikidataQidsSecondary"} :
           At(values, c, OptTyped("text", Of(e, c)))
      /\ \A c \in {"adjectiveBitmap", "operationalBitmap", "provenanceBitmap"} :
           At(values, c, Typed("bitmap", Of(e, c)))
      /\ \A c : \/ c \in {"id", "sourceCatalogID", "handle", "addedBy", "filedAt", "tombstonedAt",
                          "removedByBatch", "udcCode", "udcFacets", "wikidataQID",
                          "wikidataQidsSecondary", "adjectiveBitmap", "operationalBitmap",
                          "provenanceBitmap"}
                \/ Silent(values, c)
  BY <1>2, WritingSays, WritingOptSays, AtFirst, AtSecond, AtNeither
<1>5. \A c : Stores(columns, values, c)
  BY <1>3, <1>4, ColumnTypes, StoresTyped, StoresOptTyped, StoresNothing
<1>6. ASSUME NEW b \in {"memory", "typed", "plain"}
      PROVE  \A c \in DOMAIN e : At(learned_reference_from_row(ReadBack(b, columns, values)), c, Of(e, c))
  <2> DEFINE row == ReadBack(b, columns, values)
             read == learned_reference_from_row(row)
  <2>1. read =
          Reading("string", row, {"id", "sourceCatalogID", "handle", "addedBy"})
            ++ Reading("i64", row, {"filedAt", "adjectiveBitmap", "operationalBitmap",
                                    "provenanceBitmap"})
            ++ Reading("opt_int", row, {"tombstonedAt"})
            ++ Reading("opt_string", row, {"removedByBatch"})
            ++ (Reading("string", row, {"udcCode"})
                  ++ Reading("opt_string", row, {"udcFacets", "wikidataQID",
                                                 "wikidataQidsSecondary"}))
    BY DEF learned_reference_from_row, lattice_from_row, Take, Reading, ReadAs, Cell
  <2> HIDE DEF row, read
  <2>2. /\ \A c \in {"id", "sourceCatalogID", "handle", "addedBy", "udcCode"} :
             At(read, c, ReadAs("string", Cell(row, c)))
        /\ \A c \in {"filedAt", "adjectiveBitmap", "operationalBitmap", "provenanceBitmap"} :
             At(read, c, ReadAs("i64", Cell(row, c)))
        /\ At(read, "tombstonedAt", ReadAs("opt_int", Cell(row, "tombstonedAt")))
        /\ \A c \in {"removedByBatch", "udcFacets", "wikidataQID", "wikidataQidsSecondary"} :
             At(read, c, ReadAs("opt_string", Cell(row, c)))
    BY <2>1, ReadingSays, AtFirst, AtSecond, AtNeither
  <2> QED
    BY <1>3, <1>4, <2>2, ColumnTypes, Pairs, FieldIsRead, OptFieldIsRead
       DEF row, read, HasFields
<1>7. /\ tables["learned_references"].columns = columns /\ tables["learned_references"].key = {"id"}
  <2>1. tables["learned_references"] = learned_references_table
    BY TableOf
  <2>2. learned_references_table.key = {"id"}
    BY SMTT(40) DEF learned_references_table, Table
  <2> QED
    BY <2>1, <2>2 DEF columns
<1>8. indices["learned_references"] = {{"handle"}, {"sourceCatalogID"}, {"udcCode"}}
  BY IndicesOf
<1>9. /\ Values("learned_references", e) = values
      /\ \A row : FromRow("learned_references", row) = learned_reference_from_row(row)
  BY DEF Values, FromRow, values
<1>10. /\ {"id"} \subseteq DOMAIN values
       /\ \A ix \in indices["learned_references"] : ix \subseteq DOMAIN columns
  BY <1>3, <1>4, <1>8 DEF At
<1> QED
  BY <1>5, <1>6, <1>7, <1>9, <1>10, LocusRoundTrip

\* A row has all the columns of its table.
LEMMA RowColumns ==
  ASSUME NEW b, NEW columns, NEW values, NEW c, NEW x, At(columns, c, x)
  PROVE  c \in DOMAIN ReadBack(b, columns, values)
BY Zenon DEF ReadBack, At

\* A kind that has a name is read as it is; an unknown one would not be.
LEMMA KindIsRead ==
  ASSUME NEW v, NEW x
  PROVE  /\ ReadAs("i64", v) = x /\ x \in 0..9 => ReadAs("tunnel_kind", v) = x
         /\ ReadAs("i64", v) = x /\ x \in 0..5 => ReadAs("source_kind", v) = x
BY DEF ReadAs, TunnelKind_from_raw, SourceKind_from_raw

\* A tunnel of a kind that has a name is read back as it was written.
LEMMA TunnelSurvives ==
  ASSUME NEW e,
         HasFields(e, {"id", "sourceWing", "sourceRoom", "targetWing", "targetRoom", "label",
                       "addedBy", "sourceDrawerId", "targetDrawerId", "removedByBatch", "filedAt",
                       "tombstonedAt", "adjectiveBitmap", "operationalBitmap", "provenanceBitmap",
                       "kind_id", "order_key"}),
         Of(e, "kind_id") \in 0..9
  PROVE  RoundTrips("tunnels", e)
<1> DEFINE columns == tunnels_table.columns
           values == tunnel_values(e)
<1>1. columns =
        (Required("text", {"id", "sourceWing", "sourceRoom", "targetWing", "targetRoom", "label",
                           "addedBy"})
           ++ Nullable("text", {"sourceDrawerId", "targetDrawerId", "removedByBatch"})
           ++ Required("timestamp", {"filedAt"})
           ++ Nullable("timestamp", {"tombstonedAt"})
           ++ Required("bitmap", {"adjectiveBitmap", "operationalBitmap", "provenanceBitmap"})
           ++ Nullable("json", {"ext"}))
          ++ Defaulted(FirstKind, {"kind_id"}) ++ Nullable("float", {"order_key"})
  BY DEF tunnels_table, edge_columns, Table, FirstKind
<1>2. values =
        (Writing("text", e, {"id", "sourceWing", "sourceRoom", "targetWing", "targetRoom",
                             "label", "addedBy"})
           ++ WritingOpt("text", e, {"sourceDrawerId", "targetDrawerId", "removedByBatch"})
           ++ Writing("timestamp", e, {"filedAt"})
           ++ WritingOpt("timestamp", e, {"tombstonedAt"})
           ++ Writing("bitmap", e, {"adjectiveBitmap", "operationalBitmap", "provenanceBitmap"}))
          ++ Writing("int", e, {"kind_id"}) ++ WritingOpt("float", e, {"order_key"})
  BY Zenon DEF tunnel_values, edge_values, Put, PutOpt, Text, Bitmap, Timestamp, Integer, Float,
     Writing, WritingOpt, OptTyped
<1> HIDE DEF columns, values
<1>3. /\ \A c \in {"id", "sourceWing", "sourceRoom", "targetWing", "targetRoom", "label",
                   "addedBy"} : At(columns, c, Mandatory("text"))
      /\ \A c \in {"sourceDrawerId", "targetDrawerId", "removedByBatch"} :
           At(columns, c, Optional("text"))
      /\ At(columns, "filedAt", Mandatory("timestamp"))
      /\ At(columns, "tombstonedAt", Optional("timestamp"))
      /\ \A c \in {"adjectiveBitmap", "operationalBitmap", "provenanceBitmap"} :
           At(columns, c, Mandatory("bitmap"))
      /\ At(columns, "ext", Optional("json"))
      /\ At(columns, "kind_id", Filled(FirstKind))
      /\ At(columns, "order_key", Optional("float"))
      /\ \A c : \/ c \in {"id", "sourceWing", "sourceRoom", "targetWing", "targetRoom", "label",
                          "addedBy", "sourceDrawerId", "targetDrawerId", "removedByBatch",
                          "filedAt", "tombstonedAt", "adjectiveBitmap", "operationalBitmap",
                          "provenanceBitmap", "ext", "kind_id", "order_key"}
                \/ Silent(columns, c)
  BY <1>1, RequiredSays, NullableSays, DefaultedSays, AtFirst, AtSecond, AtNeither
<1>4. /\ \A c \in {"id", "sourceWing", "sourceRoom", "targetWing", "targetRoom", "label",
                   "addedBy"} : At(values, c, Typed("text", Of(e, c)))
      /\ \A c \in {"sourceDrawerId", "targetDrawerId", "removedByBatch"} :
           At(values, c, OptTyped("text", Of(e, c)))
      /\ At(values, "filedAt", Typed("timestamp", Of(e, "filedAt")))
      /\ At(values, "tombstonedAt", OptTyped("timestamp", Of(e, "tombstonedAt")))
      /\ \A c \in {"adjectiveBitmap", "operationalBitmap", "provenanceBitmap"} :
           At(values, c, Typed("bitmap", Of(e, c)))
      /\ At(values, "kind_id", Typed("int", Of(e, "kind_id")))
      /\ At(values, "order_key", OptTyped("float", Of(e, "order_key")))
      /\ \A c : \/ c \in {"id", "sourceWing", "sourceRoom", "targetWing", "targetRoom", "label",
                          "addedBy", "sourceDrawerId", "targetDrawerId", "removedByBatch",
                          "filedAt", "tombstonedAt", "adjectiveBitmap", "operationalBitmap",
                          "provenanceBitmap", "kind_id", "order_key"}
                \/ Silent(values, c)
  BY <1>2, WritingSays, WritingOptSays, AtFirst, AtSecond, AtNeither
<1>5. \A c : Stores(columns, values, c)
  BY <1>3, <1>4, ColumnTypes, StoresTyped, StoresOptTyped, StoresNothing
<1>6. ASSUME NEW b \in {"memory", "typed", "plain"}
      PROVE  \A c \in DOMAIN e : At(tunnel_from_row(ReadBack(b, columns, values)), c, Of(e, c))
  <2> DEFINE row == ReadBack(b, columns, values)
             read == tunnel_from_row(row)
  <2>0. "kind_id" \in DOMAIN row
    BY <1>3, RowColumns
  <2>1. read =
          (Reading("string", row, {"id", "sourceWing", "sourceRoom", "targetWing", "targetRoom",
                                   "label", "addedBy"})
             ++ Reading("opt_string", row, {"sourceDrawerId", "targetDrawerId", "removedByBatch"})
             ++ Reading("i64", row, {"filedAt", "adjectiveBitmap", "operationalBitmap",
                                     "provenanceBitmap"})
             ++ Reading("opt_int", row, {"tombstonedAt"}))
            ++ Reading("opt_float", row, {"order_key"}) ++ Reading("tunnel_kind", row, {"kind_id"})
    BY <2>0 DEF tunnel_from_row, edge_from_row, Take, Reading, ReadAs, Cell
  <2> HIDE DEF row, read
  <2>2. /\ \A c \in {"id", "sourceWing", "sourceRoom", "targetWing", "targetRoom", "label",
                     "addedBy"} : At(read, c, ReadAs("string", Cell(row, c)))
        /\ \A c \in {"sourceDrawerId", "targetDrawerId", "removedByBatch"} :
             At(read, c, ReadAs("opt_string", Cell(row, c)))
        /\ \A c \in {"filedAt", "adjectiveBitmap", "operationalBitmap", "provenanceBitmap"} :
             At(read, c, ReadAs("i64", Cell(row, c)))
        /\ At(read, "tombstonedAt", ReadAs("opt_int", Cell(row, "tombstonedAt")))
        /\ At(read, "order_key", ReadAs("opt_float", Cell(row, "order_key")))
        /\ At(read, "kind_id", ReadAs("tunnel_kind", Cell(row, "kind_id")))
    BY <2>1, ReadingSays, AtFirst, AtSecond, AtNeither
  <2> QED
    BY <1>3, <1>4, <2>2, ColumnTypes, Pairs, FieldIsRead, OptFieldIsRead, KindIsRead
       DEF row, read, HasFields
<1>7. /\ tables["tunnels"].columns = columns /\ tables["tunnels"].key = {"id"}
  <2>1. tables["tunnels"] = tunnels_table
    BY TableOf
  <2>2. tunnels_table.key = {"id"}
    BY SMTT(40) DEF tunnels_table, Table
  <2> QED
    BY <2>1, <2>2 DEF columns
<1>8. indices["tunnels"] = {{"sourceWing", "sourceRoom"}, {"targetWing", "targetRoom"},
                        {"kind_id", "sourceDrawerId"}, {"kind_id", "targetDrawerId"}}
  BY IndicesOf
<1>9. Values("tunnels", e) = values /\ \A row : FromRow("tunnels", row) = tunnel_from_row(row)
  BY DEF Values, FromRow, values
<1>10. /\ {"id"} \subseteq DOMAIN values
       /\ \A ix \in indices["tunnels"] : ix \subseteq DOMAIN columns
  BY <1>3, <1>4, <1>8 DEF At
<1> QED
  BY <1>5, <1>6, <1>7, <1>9, <1>10, LocusRoundTrip

\* A catalogued source of a kind that has a name is read back as it was written.
LEMMA SourceSurvives ==
  ASSUME NEW e,
         HasFields(e, {"id", "handle", "addedBy", "kind", "firstSeen", "udcCode", "udcFacets",
                       "wikidataQID", "wikidataQidsSecondary"}),
         Of(e, "kind") \in 0..5
  PROVE  RoundTrips("source_catalog", e)
<1> DEFINE columns == source_catalog_table.columns
           values == source_catalog_values(e)
<1>1. columns =
        Required("text", {"id", "handle", "addedBy"})
          ++ Required("int", {"kind"}) ++ Required("timestamp", {"firstSeen"})
          ++ (Defaulted(NoText, {"udcCode"})
                ++ Nullable("text", {"udcFacets", "wikidataQID", "wikidataQidsSecondary"}))
          ++ Nullable("json", {"ext"})
  BY DEF source_catalog_table, lattice_columns, Table, NoText
<1>2. values =
        Writing("text", e, {"id", "handle", "addedBy"})
          ++ Writing("int", e, {"kind"}) ++ Writing("timestamp", e, {"firstSeen"})
          ++ (Writing("text", e, {"udcCode"})
                ++ WritingOpt("text", e, {"udcFacets", "wikidataQID", "wikidataQidsSecondary"}))
  BY Zenon DEF source_catalog_values, lattice_values, Put, PutOpt, Text, Timestamp, Integer,
     Writing, WritingOpt, OptTyped
<1> HIDE DEF columns, values
<1>3. /\ \A c \in {"id", "handle", "addedBy"} : At(columns, c, Mandatory("text"))
      /\ At(columns, "kind", Mandatory("int"))
      /\ At(columns, "firstSeen", Mandatory("timestamp"))
      /\ At(columns, "udcCode", Filled(NoText))
      /\ \A c \in {"udcFacets", "wikidataQID", "wikidataQidsSecondary"} :
           At(columns, c, Optional("text"))
      /\ At(columns, "ext", Optional("json"))
      /\ \A c : \/ c \in {"id", "handle", "addedBy", "kind", "firstSeen", "udcCode", "udcFacets",
                          "wikidataQID", "wikidataQidsSecondary", "ext"}
                \/ Silent(columns, c)
  BY <1>1, RequiredSays, NullableSays, DefaultedSays, AtFirst, AtSecond, AtNeither
<1>4. /\ \A c \in {"id", "handle", "addedBy", "udcCode"} : At(values, c, Typed("text", Of(e, c)))
      /\ At(values, "kind", Typed("int", Of(e, "kind")))
      /\ At(values, "firstSeen", Typed("timestamp", Of(e, "firstSeen")))
      /\ \A c \in {"udcFacets", "wikidataQID", "wikidataQidsSecondary"} :
           At(values, c, OptTyped("text", Of(e, c)))
      /\ \A c : \/ c \in {"id", "handle", "addedBy", "kind", "firstSeen", "udcCode", "udcFacets",
                          "wikidataQID", "wikidataQidsSecondary"}
                \/ Silent(values, c)
  BY <1>2, WritingSays, WritingOptSays, AtFirst, AtSecond, AtNeither
<1>5. \A c : Stores(columns, values, c)
  BY <1>3, <1>4, ColumnTypes, StoresTyped, StoresOptTyped, StoresNothing
<1>6. ASSUME NEW b \in {"memory", "typed", "plain"}
      PROVE  \A c \in DOMAIN e : At(source_catalog_from_row(ReadBack(b, columns, values)), c, Of(e, c))
  <2> DEFINE row == ReadBack(b, columns, values)
             read == source_catalog_from_row(row)
  <2>0. "kind" \in DOMAIN row
    BY <1>3, RowColumns
  <2>1. read =
          Reading("string", row, {"id", "handle", "addedBy"})
            ++ Reading("source_kind", row, {"kind"}) ++ Reading("i64", row, {"firstSeen"})
            ++ (Reading("string", row, {"udcCode"})
                  ++ Reading("opt_string", row, {"udcFacets", "wikidataQID",
                                                 "wikidataQidsSecondary"}))
    BY <2>0, SMTT(40) DEF source_catalog_from_row, lattice_from_row, Take, Reading, ReadAs, Cell
  <2> HIDE DEF row, read
  <2>2. /\ \A c \in {"id", "handle", "addedBy", "udcCode"} :
             At(read, c, ReadAs("string", Cell(row, c)))
        /\ At(read, "kind", ReadAs("source_kind", Cell(row, "kind")))
        /\ At(read, "firstSeen", ReadAs("i64", Cell(row, "firstSeen")))
        /\ \A c \in {"udcFacets", "wikidataQID", "wikidataQidsSecondary"} :
             At(read, c, ReadAs("opt_string", Cell(row, c)))
    BY <2>1, ReadingSays, AtFirst, AtSecond, AtNeither
  <2> QED
    BY <1>3, <1>4, <2>2, ColumnTypes, Pairs, FieldIsRead, OptFieldIsRead, KindIsRead
       DEF row, read, HasFields
<1>7. /\ tables["source_catalog"].columns = columns /\ tables["source_catalog"].key = {"id"}
  <2>1. tables["source_catalog"] = source_catalog_table
    BY TableOf
  <2>2. source_catalog_table.key = {"id"}
    BY SMTT(40) DEF source_catalog_table, Table
  <2> QED
    BY <2>1, <2>2 DEF columns
<1>8. indices["source_catalog"] = {{"handle"}}
  BY IndicesOf
<1>9. /\ Values("source_catalog", e) = values
      /\ \A row : FromRow("source_catalog", row) = source_catalog_from_row(row)
  BY DEF Values, FromRow, values
<1>10. /\ {"id"} \subseteq DOMAIN values
       /\ \A ix \in indices["source_catalog"] : ix \subseteq DOMAIN columns
  BY <1>3, <1>4, <1>8 DEF At
<1> QED
  BY <1>5, <1>6, <1>7, <1>9, <1>10, LocusRoundTrip

\* A moment whose text can be read back.
Written(iso) == \E t : iso = format_iso8601(t) /\ parse_iso8601(iso) = t

\* A text in a timestamp column: a typed backend hands back the moment it
\* parses, which is written as that text again.
LEMMA RecalledIsRead ==
  ASSUME NEW b \in {"memory", "typed", "plain"}, NEW columns, NEW values, NEW c, NEW x,
         At(columns, c, Mandatory("timestamp")), At(values, c, Typed("text", x)), Written(x)
  PROVE  /\ ReadAs("recalled_at", Cell(ReadBack(b, columns, values), c)) = x
         /\ Stores(columns, values, c)
<1>1. columns[c].type = "timestamp" /\ c \in DOMAIN columns
  BY DEF At, Mandatory
<1>2. Cell(ReadBack(b, columns, values), c) = Handed(b, columns[c], Typed("text", x))
  BY <1>1, HandedBack
<1>3. CASE b = "typed"
  <2>1. Handed(b, columns[c], Typed("text", x)) = Timestamp(parse_iso8601(x))
    BY <1>1, <1>3 DEF Handed, Typed
  <2>2. ReadAs("recalled_at", Timestamp(parse_iso8601(x))) = format_iso8601(parse_iso8601(x))
    BY DEF ReadAs, recalled_at_string, Timestamp, Typed
  <2>3. format_iso8601(parse_iso8601(x)) = x
    BY Zenon DEF Written
  <2> QED
    BY <1>1, <1>2, <2>1, <2>2, <2>3 DEF Stores, Fits, At, Typed
<1>4. CASE b # "typed"
  <2>1. Handed(b, columns[c], Typed("text", x)) = Typed("text", x)
    BY <1>1, <1>4 DEF Handed, Typed
  <2>2. ReadAs("recalled_at", Typed("text", x)) = x
    BY DEF ReadAs, recalled_at_string, Typed
  <2> QED
    BY <1>1, <1>2, <2>1, <2>2 DEF Stores, Fits, At, Typed
<1> QED
  BY <1>3, <1>4

\* A recall with the text of a moment is read back as it was written.
LEMMA RecallTraceSurvives ==
  ASSUME NEW e,
         HasFields(e, {"id", "target", "recalledAt", "score", "operationalBitmap"}),
         Written(Of(e, "recalledAt"))
  PROVE  RoundTrips("recall_trace", e)
<1> DEFINE columns == recall_trace_table.columns
           values == recall_trace_values(e)
<1>1. columns =
        Required("text", {"id", "target"})
          ++ Required("timestamp", {"recalledAt"}) ++ Nullable("float", {"score"})
          ++ Required("bitmap", {"operationalBitmap"}) ++ Nullable("json", {"ext"})
  BY DEF recall_trace_table, Table
<1>2. values =
        Writing("text", e, {"id", "target", "recalledAt"})
          ++ WritingOpt("float", e, {"score"}) ++ Writing("bitmap", e, {"operationalBitmap"})
  BY Zenon DEF recall_trace_values, Put, PutOpt, Text, Bitmap, Float, Writing, WritingOpt, OptTyped
<1> HIDE DEF columns, values
<1>3. /\ \A c \in {"id", "target"} : At(columns, c, Mandatory("text"))
      /\ At(columns, "recalledAt", Mandatory("timestamp"))
      /\ At(columns, "score", Optional("float"))
      /\ At(columns, "operationalBitmap", Mandatory("bitmap"))
      /\ At(columns, "ext", Optional("json"))
      /\ \A c : \/ c \in {"id", "target", "recalledAt", "score", "operationalBitmap", "ext"}
                \/ Silent(columns, c)
  BY <1>1, RequiredSays, NullableSays, DefaultedSays, AtFirst, AtSecond, AtNeither
<1>4. /\ \A c \in {"id", "target", "recalledAt"} : At(values, c, Typed("text", Of(e, c)))
      /\ At(values, "score", OptTyped("float", Of(e, "score")))
      /\ At(values, "operationalBitmap", Typed("bitmap", Of(e, "operationalBitmap")))
      /\ \A c : \/ c \in {"id", "target", "recalledAt", "score", "operationalBitmap"}
                \/ Silent(values, c)
  BY <1>2, WritingSays, WritingOptSays, AtFirst, AtSecond, AtNeither
<1>5. \A c : Stores(columns, values, c)
  BY <1>3, <1>4, ColumnTypes, StoresTyped, StoresOptTyped, StoresNothing, RecalledIsRead
<1>6. ASSUME NEW b \in {"memory", "typed", "plain"}
      PROVE  \A c \in DOMAIN e : At(recall_trace_from_row(ReadBack(b, columns, values)), c, Of(e, c))
  <2> DEFINE row == ReadBack(b, columns, values)
             read == recall_trace_from_row(row)
  <2>0. "recalledAt" \in DOMAIN row
    BY <1>3, RowColumns
  <2>1. read =
          Reading("string", row, {"id", "target"})
            ++ Reading("recalled_at", row, {"recalledAt"}) ++ Reading("opt_float", row, {"score"})
            ++ Reading("i64", row, {"operationalBitmap"})
    BY <2>0 DEF recall_trace_from_row, Take, Reading, ReadAs, Cell
  <2> HIDE DEF row, read
  <2>2. /\ \A c \in {"id", "target"} : At(read, c, ReadAs("string", Cell(row, c)))
        /\ At(read, "recalledAt", ReadAs("recalled_at", Cell(row, "recalledAt")))
        /\ At(read, "score", ReadAs("opt_float", Cell(row, "score")))
        /\ At(read, "operationalBitmap", ReadAs("i64", Cell(row, "operationalBitmap")))
    BY <2>1, ReadingSays, AtFirst, AtSecond, AtNeither
  <2> QED
    BY <1>3, <1>4, <2>2, ColumnTypes, Pairs, FieldIsRead, OptFieldIsRead, RecalledIsRead
       DEF row, read, HasFields
<1>7. /\ tables["recall_trace"].columns = columns /\ tables["recall_trace"].key = {"id"}
  <2>1. tables["recall_trace"] = recall_trace_table
    BY TableOf
  <2>2. recall_trace_table.key = {"id"}
    BY SMTT(40) DEF recall_trace_table, Table
  <2> QED
    BY <2>1, <2>2 DEF columns
<1>8. indices["recall_trace"] = {{"target"}, {"recalledAt"}}
  BY IndicesOf
<1>9. /\ Values("recall_trace", e) = values
      /\ \A row : FromRow("recall_trace", row) = recall_trace_from_row(row)
  BY DEF Values, FromRow, values
<1>10. /\ {"id"} \subseteq DOMAIN values
       /\ \A ix \in indices["recall_trace"] : ix \subseteq DOMAIN columns
  BY <1>3, <1>4, <1>8 DEF At
<1> QED
  BY <1>5, <1>6, <1>7, <1>9, <1>10, LocusRoundTrip

\* A column that is written whatever the entity says.
Single(name, v) == [c \in {name} |-> v]
LEMMA SingleSays ==
  ASSUME NEW name, NEW v, NEW c
  PROVE  /\ At(Single(name, v), name, v)
         /\ c # name => Silent(Single(name, v), c)
BY DEF Single, At, Silent

\* A drawer with a lineage and an event time.
Placed(e) ==
  Of(e, "lineageID") # "" /\ ParsesAsUuid(Of(e, "lineageID")) /\ Of(e, "eventTime") # None
LEMMA DrawerSurvives ==
  ASSUME NEW e,
         HasFields(e, {"id", "content", "parent_node_id", "addedBy", "embeddingModelID",
                       "lineageID", "udcCode", "sourceFile", "removedByBatch", "udcFacets",
                       "wikidataQID", "wikidataQidsSecondary", "chunkIndex", "filedAt",
                       "eventTime", "tombstonedAt", "provenance", "adjectiveBitmap",
                       "operationalBitmap"}),
         Placed(e)
  PROVE  RoundTrips("drawers", e)
<1> DEFINE columns == drawers_table.columns
           values == drawer_values(e, "fingerprint")
<1>1. columns =
        Required("text", {"id", "content", "parent_node_id", "addedBy", "embeddingModelID"})
          ++ Nullable("text", {"sourceFile", "removedByBatch", "keyID"})
          ++ Nullable("int", {"chunkIndex"}) ++ Required("timestamp", {"filedAt"})
          ++ Nullable("timestamp", {"eventTime", "tombstonedAt"})
          ++ Required("bitmap", {"provenance", "adjectiveBitmap", "operationalBitmap"})
          ++ Defaulted(NoText, {"lineageID"})
          ++ (Defaulted(NoText, {"udcCode"})
                ++ Nullable("text", {"udcFacets", "wikidataQID", "wikidataQidsSecondary"}))
          ++ Nullable("json", {"ext"}) ++ Nullable("blob", {"content_hash", "content_fingerprint"})
  BY DEF drawers_table, lattice_columns, Table, NoText
<1>2. values =
        Writing("text", e, {"id", "content", "parent_node_id", "addedBy", "embeddingModelID",
                            "lineageID", "udcCode"})
          ++ WritingOpt("text", e, {"sourceFile", "removedByBatch", "udcFacets", "wikidataQID",
                                    "wikidataQidsSecondary"})
          ++ WritingOpt("int", e, {"chunkIndex"})
          ++ Writing("timestamp", e, {"filedAt", "eventTime"})
          ++ WritingOpt("timestamp", e, {"tombstonedAt"})
          ++ Writing("bitmap", e, {"provenance", "adjectiveBitmap", "operationalBitmap"})
          ++ Single("content_fingerprint", Typed("blob", "fingerprint"))
  <2>1. [content_fingerprint |-> Typed("blob", "fingerprint")] =
          Single("content_fingerprint", Typed("blob", "fingerprint"))
    BY DEF Single
  <2> QED
    BY <2>1, Zenon DEF drawer_values, Put, PutOpt, Text, Bitmap, Timestamp, Integer, Blob, Writing,
                       WritingOpt, OptTyped
<1> HIDE DEF columns, values
<1>3. /\ \A c \in {"id", "content", "parent_node_id", "addedBy", "embeddingModelID"} :
           At(columns, c, Mandatory("text"))
      /\ \A c \in {"sourceFile", "removedByBatch", "keyID", "udcFacets", "wikidataQID",
                   "wikidataQidsSecondary"} : At(columns, c, Optional("text"))
      /\ At(columns, "chunkIndex", Optional("int"))
      /\ At(columns, "filedAt", Mandatory("timestamp"))
      /\ \A c \in {"eventTime", "tombstonedAt"} : At(columns, c, Optional("timestamp"))
      /\ \A c \in {"provenance", "adjectiveBitmap", "operationalBitmap"} :
           At(columns, c, Mandatory("bitmap"))
      /\ \A c \in {"lineageID", "udcCode"} : At(columns, c, Filled(NoText))
      /\ At(columns, "ext", Optional("json"))
      /\ \A c \in {"content_hash", "content_fingerprint"} : At(columns, c, Optional("blob"))
      /\ \A c : \/ c \in {"id", "content", "parent_node_id", "addedBy", "embeddingModelID",
                          "sourceFile", "removedByBatch", "keyID", "chunkIndex", "filedAt",
                          "eventTime", "tombstonedAt", "provenance", "adjectiveBitmap",
                          "operationalBitmap", "lineageID", "udcCode", "udcFacets", "wikidataQID",
                          "wikidataQidsSecondary", "ext", "content_hash", "content_fingerprint"}
                \/ Silent(columns, c)
  BY <1>1, RequiredSays, NullableSays, DefaultedSays, AtFirst, AtSecond, AtNeither
<1>4. /\ \A c \in {"id", "content", "parent_node_id", "addedBy", "embeddingModelID", "lineageID",
                   "udcCode"} : At(values, c, Typed("text", Of(e, c)))
      /\ \A c \in {"sourceFile", "removedByBatch", "udcFacets", "wikidataQID",
                   "wikidataQidsSecondary"} : At(values, c, OptTyped("text", Of(e, c)))
      /\ At(values, "chunkIndex", OptTyped("int", Of(e, "chunkIndex")))
      /\ \A c \in {"filedAt", "eventTime"} : At(values, c, Typed("timestamp", Of(e, c)))
      /\ At(values, "tombstonedAt", OptTyped("timestamp", Of(e, "tombstonedAt")))
      /\ \A c \in {"provenance", "adjectiveBitmap", "operationalBitmap"} :
           At(values, c, Typed("bitmap", Of(e, c)))
      /\ At(values, "content_fingerprint", Typed("blob", "fingerprint"))
      /\ \A c : \/ c \in {"id", "content", "parent_node_id", "addedBy", "embeddingModelID",
                          "lineageID", "udcCode", "sourceFile", "removedByBatch", "udcFacets",
                          "wikidataQID", "wikidataQidsSecondary", "chunkIndex", "filedAt",
                          "eventTime", "tombstonedAt", "provenance", "adjectiveBitmap",
                          "operationalBitmap", "content_fingerprint"}
                \/ Silent(values, c)
  BY <1>2, WritingSays, WritingOptSays, SingleSays, AtFirst, AtSecond, AtNeither
<1>5. \A c : Stores(columns, values, c)
  BY <1>3, <1>4, ColumnTypes, StoresTyped, StoresOptTyped, StoresNothing
<1>6. ASSUME NEW b \in {"memory", "typed", "plain"}
      PROVE  \A c \in DOMAIN e : At(drawer_from_row(ReadBack(b, columns, values)), c, Of(e, c))
  <2> DEFINE row == ReadBack(b, columns, values)
             read == drawer_from_row(row)
  <2>0. /\ "lineageID" \in DOMAIN row /\ "filedAt" \in DOMAIN row /\ "eventTime" \in DOMAIN row
        /\ ReadAs("string", Cell(row, "lineageID")) = Of(e, "lineageID")
        /\ ReadAs("opt_int", Cell(row, "eventTime")) = Of(e, "eventTime")
    BY <1>3, <1>4, RowColumns, ColumnTypes, Pairs, FieldIsRead
  <2>1. PICK tail :
          /\ read =
               Reading("string", row, {"id", "content", "parent_node_id", "addedBy",
                                       "embeddingModelID", "udcCode"})
                 ++ Reading("opt_string", row, {"sourceFile", "removedByBatch", "udcFacets",
                                                "wikidataQID", "wikidataQidsSecondary"})
                 ++ Reading("opt_int", row, {"chunkIndex", "tombstonedAt"})
                 ++ Reading("i64", row, {"provenance", "adjectiveBitmap", "operationalBitmap"})
                 ++ tail
          /\ At(tail, "lineageID", ReadAs("string", Cell(row, "lineageID")))
          /\ At(tail, "filedAt", ReadAs("i64", Cell(row, "filedAt")))
          /\ At(tail, "eventTime", ReadAs("opt_int", Cell(row, "eventTime")))
    <3> DEFINE raw == string_value_of(row["lineageID"])
               filed_at == i64_value_of(row["filedAt"])
               event == opt_int_value_of(row["eventTime"])
    <3>1. /\ raw = ReadAs("string", Cell(row, "lineageID"))
          /\ filed_at = ReadAs("i64", Cell(row, "filedAt"))
          /\ event = ReadAs("opt_int", Cell(row, "eventTime"))
      <4> HIDE DEF row
      <4> QED
        BY <2>0 DEF Cell, ReadAs
    <3>2. raw # "" /\ ParsesAsUuid(raw) /\ event # None
      <4> HIDE DEF raw, event
      <4> QED
        BY <2>0, <3>1 DEF Placed
    <3> DEFINE tail == [lineageID |-> raw, filedAt |-> filed_at, eventTime |-> event]
    <3>3. /\ At(tail, "lineageID", ReadAs("string", Cell(row, "lineageID")))
          /\ At(tail, "filedAt", ReadAs("i64", Cell(row, "filedAt")))
          /\ At(tail, "eventTime", ReadAs("opt_int", Cell(row, "eventTime")))
      <4> HIDE DEF raw, filed_at, event, row
      <4> QED
        BY <3>1 DEF At
    <3> HIDE DEF row
    <3>4. read =
            Take(row, string_value_of, {"id", "content", "parent_node_id", "addedBy",
                                        "embeddingModelID", "udcCode"})
              ++ Take(row, opt_string_value_of, {"sourceFile", "removedByBatch", "udcFacets",
                                                 "wikidataQID", "wikidataQidsSecondary"})
              ++ Take(row, opt_int_value_of, {"chunkIndex", "tombstonedAt"})
              ++ Take(row, i64_value_of, {"provenance", "adjectiveBitmap", "operationalBitmap"})
              ++ tail
      BY <3>2 DEF drawer_from_row
    <3> HIDE DEF read, tail
    <3> QED
      BY <3>3, <3>4 DEF Take, Reading, ReadAs, Cell
  <2> HIDE DEF row, read
  <2>2. /\ \A c \in {"id", "content", "parent_node_id", "addedBy", "embeddingModelID", "udcCode",
                     "lineageID"} : At(read, c, ReadAs("string", Cell(row, c)))
        /\ \A c \in {"sourceFile", "removedByBatch", "udcFacets", "wikidataQID",
                     "wikidataQidsSecondary"} : At(read, c, ReadAs("opt_string", Cell(row, c)))
        /\ \A c \in {"chunkIndex", "tombstonedAt", "eventTime"} :
             At(read, c, ReadAs("opt_int", Cell(row, c)))
        /\ \A c \in {"provenance", "adjectiveBitmap", "operationalBitmap", "filedAt"} :
             At(read, c, ReadAs("i64", Cell(row, c)))
    BY <2>1, ReadingSays, AtFirst, AtSecond, AtNeither
  <2> QED
    BY <1>3, <1>4, <2>2, ColumnTypes, Pairs, FieldIsRead, OptFieldIsRead
       DEF row, read, HasFields
<1>7. /\ tables["drawers"].columns = columns /\ tables["drawers"].key = {"id"}
      /\ tables["drawers"].generated = [g_state_cluster |-> Bits("adjectiveBitmap", 0, 6),
           g_provenance_source |-> Bits("provenance", 0, 4),
           g_provenance_confirmation |-> Bits("provenance", 4, 3),
           g_operational_channel |-> Bits("operationalBitmap", 0, 4)]
  <2>1. tables["drawers"] = drawers_table
    BY TableOf
  <2>2. drawers_table.key = {"id"} /\ drawers_table.generated =
          [g_state_cluster |-> Bits("adjectiveBitmap", 0, 6),
           g_provenance_source |-> Bits("provenance", 0, 4),
           g_provenance_confirmation |-> Bits("provenance", 4, 3),
           g_operational_channel |-> Bits("operationalBitmap", 0, 4)]
    BY SMTT(40) DEF drawers_table, Table
  <2> QED
    BY <2>1, <2>2 DEF columns
<1>8. indices["drawers"] = {{"parent_node_id"}, {"sourceFile"}, {"tombstonedAt"}, {"lineageID"}, {"udcCode"},
                        {"g_provenance_source"}, {"g_provenance_confirmation"},
                        {"g_operational_channel"}, {"g_state_cluster"}}
  BY IndicesOf
<1>9. Values("drawers", e) = values /\ \A row : FromRow("drawers", row) = drawer_from_row(row)
  BY DEF Values, FromRow, values
<1>10. /\ {"id"} \subseteq DOMAIN values
       /\ \A ix \in indices["drawers"] :
            ix \subseteq DOMAIN columns \cup {"g_state_cluster", "g_provenance_source",
                                              "g_provenance_confirmation",
                                              "g_operational_channel"}
  BY <1>3, <1>4, <1>8 DEF At
<1>11. DOMAIN tables["drawers"].generated = {"g_state_cluster", "g_provenance_source",
                                             "g_provenance_confirmation", "g_operational_channel"}
  BY <1>7
<1> QED
  BY <1>5, <1>6, <1>7, <1>9, <1>10, <1>11, LocusRoundTrip

\* A column nothing was written in reads as None.
LEMMA NothingIsRead ==
  ASSUME NEW b, NEW columns, NEW values, NEW c, At(columns, c, Optional("text")), Silent(values, c)
  PROVE  ReadAs("opt_string", Cell(ReadBack(b, columns, values), c)) = None
<1>1. ReadBack(b, columns, values) =
        [k \in DOMAIN columns |->
           IF k \in DOMAIN values THEN Handed(b, columns[k], values[k])
           ELSE IF columns[k].default # NoDefault THEN columns[k].default ELSE Null]
  BY Zenon DEF ReadBack, Handed
<1>2. Cell(ReadBack(b, columns, values), c) = Null
  BY <1>1 DEF Cell, Silent, At, Optional
<1> QED
  BY <1>2 DEF ReadAs, opt_string_value_of, Null, Typed

\* A node with an id and a clock reading; a root has no parent.
Named(e) == ParsesAsUuid(Of(e, "id")) /\ Of(e, "created_hlc") # None
LEMMA NodeSurvives ==
  ASSUME NEW e,
         HasFields(e, {"id", "display_name", "lookup_name", "parent_id", "depth", "lifecycle",
                       "created_hlc", "created_at", "updated_at"}),
         Named(e)
  PROVE  RoundTrips("nodes", e)
<1> DEFINE columns == nodes_table.columns
           values == node_values(e)
           parent == IF e.parent_id = None THEN <<>> ELSE Put(e, Text, {"parent_id"})
<1>1. columns =
        Required("text", {"id", "display_name", "lookup_name"})
          ++ Nullable("text", {"parent_id"}) ++ Required("int", {"depth", "lifecycle"})
          ++ Required("hlc", {"created_hlc"}) ++ Nullable("hlc", {"tombstoned_hlc"})
          ++ Nullable("timestamp", {"tombstoned_at"}) ++ Nullable("blob", {"merkle_root"})
          ++ Required("timestamp", {"created_at", "updated_at"}) ++ Nullable("json", {"ext"})
  BY DEF nodes_table, Table
<1>2. values =
        Writing("text", e, {"id", "display_name", "lookup_name"})
          ++ parent ++ Writing("int", e, {"depth", "lifecycle"})
          ++ Writing("hlc", e, {"created_hlc"})
          ++ Writing("timestamp", e, {"created_at", "updated_at"})
  BY ZenonT(60) DEF node_values, Put, Text, Timestamp, Integer, Hlc, Writing
<1>12. /\ \/ Of(e, "parent_id") # None
             /\ At(parent, "parent_id", OptTyped("text", Of(e, "parent_id")))
          \/ Of(e, "parent_id") = None /\ Silent(parent, "parent_id")
       /\ \A c : c # "parent_id" => Silent(parent, c)
  <2>1. CASE e.parent_id = None
    <3>1. parent = <<>>
      BY <2>1
    <3> HIDE DEF parent
    <3> QED
      BY <2>1, <3>1, SMTT(40) DEF Silent, Of
  <2>2. CASE e.parent_id # None
    <3>1. parent = WritingOpt("text", e, {"parent_id"})
      BY <2>2 DEF Put, Text, WritingOpt, OptTyped
    <3> HIDE DEF parent
    <3> QED
      BY <2>2, <3>1, WritingOptSays DEF Of
  <2> QED
    BY <2>1, <2>2
<1> HIDE DEF columns, values, parent
<1>3. /\ \A c \in {"id", "display_name", "lookup_name"} : At(columns, c, Mandatory("text"))
      /\ At(columns, "parent_id", Optional("text"))
      /\ \A c \in {"depth", "lifecycle"} : At(columns, c, Mandatory("int"))
      /\ At(columns, "created_hlc", Mandatory("hlc"))
      /\ At(columns, "tombstoned_hlc", Optional("hlc"))
      /\ At(columns, "tombstoned_at", Optional("timestamp"))
      /\ At(columns, "merkle_root", Optional("blob"))
      /\ \A c \in {"created_at", "updated_at"} : At(columns, c, Mandatory("timestamp"))
      /\ At(columns, "ext", Optional("json"))
      /\ \A c : \/ c \in {"id", "display_name", "lookup_name", "parent_id", "depth", "lifecycle",
                          "created_hlc", "tombstoned_hlc", "tombstoned_at", "merkle_root",
                          "created_at", "updated_at", "ext"}
                \/ Silent(columns, c)
  BY <1>1, RequiredSays, NullableSays, DefaultedSays, AtFirst, AtSecond, AtNeither
<1>4. /\ \A c \in {"id", "display_name", "lookup_name"} : At(values, c, Typed("text", Of(e, c)))
      /\ \/ Of(e, "parent_id") # None
            /\ At(values, "parent_id", OptTyped("text", Of(e, "parent_id")))
         \/ Of(e, "parent_id") = None /\ Silent(values, "parent_id")
      /\ \A c \in {"depth", "lifecycle"} : At(values, c, Typed("int", Of(e, c)))
      /\ At(values, "created_hlc", Typed("hlc", Of(e, "created_hlc")))
      /\ \A c \in {"created_at", "updated_at"} : At(values, c, Typed("timestamp", Of(e, c)))
      /\ \A c : \/ c \in {"id", "display_name", "lookup_name", "parent_id", "depth", "lifecycle",
                          "created_hlc", "created_at", "updated_at"}
                \/ Silent(values, c)
  BY <1>2, <1>12, WritingSays, AtFirst, AtSecond, AtNeither
<1>5. \A c : Stores(columns, values, c)
  BY <1>3, <1>4, ColumnTypes, StoresTyped, StoresOptTyped, StoresNothing
<1>6. ASSUME NEW b \in {"memory", "typed", "plain"}
      PROVE  \A c \in DOMAIN e : At(node_from_row(ReadBack(b, columns, values)), c, Of(e, c))
  <2> DEFINE row == ReadBack(b, columns, values)
             read == node_from_row(row)
  <2>0. /\ "id" \in DOMAIN row /\ "created_hlc" \in DOMAIN row
        /\ ReadAs("string", Cell(row, "id")) = Of(e, "id")
        /\ ReadAs("hlc", Cell(row, "created_hlc")) = Of(e, "created_hlc")
    BY <1>3, <1>4, RowColumns, ColumnTypes, Pairs, FieldIsRead
  <2>1. read =
          Reading("string", row, {"id", "display_name", "lookup_name"})
            ++ Reading("opt_string", row, {"parent_id", "ext"})
            ++ Reading("i64", row, {"depth", "lifecycle", "created_at", "updated_at"})
            ++ Reading("hlc", row, {"created_hlc"}) ++ Reading("hlc", row, {"tombstoned_hlc"})
            ++ Reading("opt_int", row, {"tombstoned_at"})
            ++ Reading("merkle_root", row, {"merkle_root"})
    <3> DEFINE hlc == hlc_value_of(row["created_hlc"])
    <3>1. /\ string_value_of(row["id"]) = ReadAs("string", Cell(row, "id"))
          /\ hlc = ReadAs("hlc", Cell(row, "created_hlc"))
      <4> HIDE DEF row
      <4> QED
        BY <2>0 DEF Cell, ReadAs
    <3>2. ParsesAsUuid(string_value_of(row["id"])) /\ hlc # None
      BY <2>0, <3>1 DEF Named
    <3>3. [created_hlc |-> hlc] = Reading("hlc", row, {"created_hlc"})
      <4> HIDE DEF row, hlc
      <4> QED
        BY <3>1 DEF Reading
    <3> HIDE DEF row
    <3>4. read =
            Take(row, string_value_of, {"id", "display_name", "lookup_name"})
              ++ Take(row, opt_string_value_of, {"parent_id", "ext"})
              ++ Take(row, i64_value_of, {"depth", "lifecycle", "created_at", "updated_at"})
              ++ [created_hlc |-> hlc] ++ Take(row, hlc_value_of, {"tombstoned_hlc"})
              ++ Take(row, opt_int_value_of, {"tombstoned_at"})
              ++ Take(row, opt_merkle_root_value_of, {"merkle_root"})
      BY <3>2 DEF node_from_row
    <3> HIDE DEF read, hlc
    <3> QED
      BY <3>3, <3>4 DEF Take, Reading, ReadAs, Cell
  <2> HIDE DEF row, read
  <2>2. /\ \A c \in {"id", "display_name", "lookup_name"} :
             At(read, c, ReadAs("string", Cell(row, c)))
        /\ \A c \in {"parent_id", "ext"} : At(read, c, ReadAs("opt_string", Cell(row, c)))
        /\ \A c \in {"depth", "lifecycle", "created_at", "updated_at"} :
             At(read, c, ReadAs("i64", Cell(row, c)))
        /\ \A c \in {"created_hlc", "tombstoned_hlc"} : At(read, c, ReadAs("hlc", Cell(row, c)))
        /\ At(read, "tombstoned_at", ReadAs("opt_int", Cell(row, "tombstoned_at")))
        /\ At(read, "merkle_root", ReadAs("merkle_root", Cell(row, "merkle_root")))
    BY <2>1, ReadingSays, AtFirst, AtSecond, AtNeither
  <2> QED
    BY <1>3, <1>4, <2>2, ColumnTypes, Pairs, FieldIsRead, OptFieldIsRead, NothingIsRead
       DEF row, read, HasFields
<1>7. /\ tables["nodes"].columns = columns /\ tables["nodes"].key = {"id"}
  <2>1. tables["nodes"] = nodes_table
    BY TableOf
  <2>2. nodes_table.key = {"id"}
    BY SMTT(40) DEF nodes_table, Table
  <2> QED
    BY <2>1, <2>2 DEF columns
<1>8. indices["nodes"] = {{"parent_id"}, {"parent_id", "lookup_name"}, {"depth", "lookup_name"}}
  BY IndicesOf
<1>9. Values("nodes", e) = values /\ \A row : FromRow("nodes", row) = node_from_row(row)
  BY DEF Values, FromRow, values
<1>10. /\ {"id"} \subseteq DOMAIN values
       /\ \A ix \in indices["nodes"] : ix \subseteq DOMAIN columns
  BY <1>3, <1>4, <1>8 DEF At
<1> QED
  BY <1>5, <1>6, <1>7, <1>9, <1>10, LocusRoundTrip

\* A value that came back from a column of a type, under the tags a backend
\* may give it.
HeldAs(type, v, x) ==
  /\ v.val = x
  /\ type \in {"text", "int", "blob", "float"} => v.type = type
  /\ type = "hlc" => v.type \in {"hlc", "int"}
  /\ type = "uuid" => v.type \in {"uuid", "text"}
  /\ type = "json" => v.type \in {"json", "blob"}
Kept(type) == type \in {"text", "int", "blob", "float", "hlc", "uuid", "json"}
LEMMA KeptTypes ==
  /\ Kept("text") /\ Kept("int") /\ Kept("blob") /\ Kept("float")
  /\ Kept("hlc") /\ Kept("uuid") /\ Kept("json")
BY DEF Kept
LEMMA ColumnIsHeld ==
  ASSUME NEW b \in {"memory", "typed", "plain", "raw"}, NEW columns, NEW values, NEW c, NEW x,
         NEW type, Kept(type), IsOf(columns, c, type), At(values, c, Typed(type, x))
  PROVE  HeldAs(type, Of(ReadBack(b, columns, values), c), x)
<1>1. Cell(ReadBack(b, columns, values), c) = Handed(b, columns[c], Typed(type, x))
  BY HandedBack DEF IsOf
<1>2. c \in DOMAIN ReadBack(b, columns, values)
  BY Zenon DEF ReadBack, IsOf
<1>3. Of(ReadBack(b, columns, values), c) = Handed(b, columns[c], Typed(type, x))
  BY <1>1, <1>2 DEF Cell, Of
<1>4. HeldAs(type, Handed(b, columns[c], Typed(type, x)), x)
  BY DEF HeldAs, Handed, Typed, Kept, IsOf, Integer, Text, Blob, Timestamp
<1> QED
  BY <1>3, <1>4

\* A moment that CorpusKit reads back from its text: one of whole seconds.
Dated(x) == x # None /\ parse_iso8601_utc(format_iso8601(x)) = x
LEMMA DateIsRead ==
  ASSUME NEW b \in {"memory", "typed", "raw"}, NEW columns, NEW values, NEW c, NEW x,
         IsOf(columns, c, "timestamp"), At(values, c, Typed("timestamp", x)), Dated(x)
  PROVE  decode_trained_at_secs(Of(ReadBack(b, columns, values), c)) = x
<1>1. Cell(ReadBack(b, columns, values), c) = Handed(b, columns[c], Typed("timestamp", x))
  BY HandedBack DEF IsOf
<1>2. c \in DOMAIN ReadBack(b, columns, values)
  BY Zenon DEF ReadBack, IsOf
<1>3. Of(ReadBack(b, columns, values), c) = Handed(b, columns[c], Typed("timestamp", x))
  BY <1>1, <1>2 DEF Cell, Of
<1>4. CASE b = "raw"
  <2>1. Handed(b, columns[c], Typed("timestamp", x)) = Text(format_iso8601(x))
    BY <1>4 DEF Handed, Typed
  <2>2. decode_trained_at_secs(Text(format_iso8601(x))) = parse_iso8601_utc(format_iso8601(x))
    BY DEF decode_trained_at_secs, Text, Typed
  <2> QED
    BY <1>3, <2>1, <2>2 DEF Dated
<1>5. CASE b # "raw"
  <2>1. Handed(b, columns[c], Typed("timestamp", x)) = Typed("timestamp", x)
    BY <1>5, SMTT(40) DEF Handed, Typed
  <2> QED
    BY <1>3, <2>1 DEF decode_trained_at_secs, Typed
<1> QED
  BY <1>4, <1>5

\* The parts of a round trip of any other table together.
LooksRead(table, e, row) ==
  /\ table = "vectors" =>
       LET light == decode_stored_vector_light(row)
       IN  \A c \in DOMAIN light : light[c] = e[c]
  /\ table = "chunks" =>
       chunk_source_pair(row) = <<e["id"], e["source_id"]>>
  /\ table = "corpus_provider_counts" =>
       growth_anchor(row) = <<e["doc_count"], e["vocab_size"]>>
LEMMA OtherRoundTrip ==
  ASSUME NEW table, NEW e, NEW columns, NEW values,
         tables[table].columns = columns, Values(table, e) = values,
         \A c : Stores(columns, values, c),
         tables[table].key \subseteq DOMAIN values,
         \A ix \in indices[table] : ix \subseteq DOMAIN columns \cup DOMAIN tables[table].generated,
         \A b \in BackendsOf(table) :
           /\ \A c \in DOMAIN e : At(FromRow(table, ReadBack(b, columns, values)), c, Of(e, c))
           /\ LooksRead(table, e, ReadBack(b, columns, values))
  PROVE  RoundTrips(table, e)
<1>1. /\ DOMAIN values \subseteq DOMAIN columns
      /\ \A c \in DOMAIN columns :
           IF c \in DOMAIN values THEN Fits(values[c], columns[c])
           ELSE columns[c].nullable \/ columns[c].default # NoDefault
  BY DEF Stores
<1>2. ASSUME NEW b \in BackendsOf(table)
      PROVE  /\ DOMAIN e \subseteq DOMAIN FromRow(table, ReadBack(b, columns, values))
             /\ \A c \in DOMAIN e : FromRow(table, ReadBack(b, columns, values))[c] = e[c]
             /\ LooksRead(table, e, ReadBack(b, columns, values))
  BY DEF At, Of
<1> QED
  BY <1>1, <1>2, ZenonT(60) DEF RoundTrips, LooksRead

\* CorpusKit's tables are read from three backends as well.
LEMMA CorpusBackends ==
  ASSUME NEW table,
         table \in {"chunks", "corpus_provider_basis", "corpus_provider_counts", "removed_sources"}
  PROVE  BackendsOf(table) = {"memory", "typed", "raw"}
BY DEF BackendsOf, CorpusTables

\* A removed source (its id; nothing reads back when) is read back as it was written.
LEMMA RemovedSourceSurvives ==
  ASSUME NEW e,
         HasFields(e, {"source_id"})
  PROVE  RoundTrips("removed_sources", e)
<1> DEFINE columns == removed_sources_table.columns
           values == removed_values(e, Time(1, 0))
<1>1. columns =
        Required("text", {"source_id"})
          ++ Required("timestamp", {"removed_at"})
  BY DEF removed_sources_table, Table
<1>2. values =
        Writing("text", e, {"source_id"})
          ++ Single("removed_at", Typed("timestamp", Time(1, 0)))
  <2>1. [removed_at |-> Typed("timestamp", Time(1, 0))] =
          Single("removed_at", Typed("timestamp", Time(1, 0)))
    BY DEF Single
  <2> QED
    BY <2>1, Zenon DEF removed_values, Put, Text, Timestamp, Writing
<1> HIDE DEF columns, values
<1>3. /\ At(columns, "source_id", Mandatory("text"))
      /\ At(columns, "removed_at", Mandatory("timestamp"))
      /\ \A c : \/ c \in {"source_id", "removed_at"}
                \/ Silent(columns, c)
  BY <1>1, RequiredSays, NullableSays, AtFirst, AtSecond, AtNeither
<1>4. /\ At(values, "source_id", Typed("text", Of(e, "source_id")))
      /\ At(values, "removed_at", Typed("timestamp", Time(1, 0)))
      /\ \A c : \/ c \in {"source_id", "removed_at"}
                \/ Silent(values, c)
  BY <1>2, WritingSays, SingleSays, AtFirst, AtSecond, AtNeither
<1>5. \A c : Stores(columns, values, c)
  BY <1>3, <1>4, ColumnTypes, StoresTyped, StoresOptTyped, StoresNothing
<1>6. ASSUME NEW b \in {"memory", "typed", "raw"}
      PROVE  /\ \A c \in DOMAIN e : At(removed_id(ReadBack(b, columns, values)), c, Of(e, c))
             /\ LooksRead("removed_sources", e, ReadBack(b, columns, values))
  <2> DEFINE row == ReadBack(b, columns, values)
  <2>1. HeldAs("text", Of(row, "source_id"), Of(e, "source_id"))
    BY <1>3, <1>4, ColumnTypes, KeptTypes, ColumnIsHeld
  <2> HIDE DEF row
  <2>2. removed_id(row) = [source_id |-> Of(e, "source_id")]
    BY <2>1 DEF removed_id, Tagged, HeldAs, Of
  <2> QED
    BY <2>2 DEF row, At, HasFields, LooksRead
<1>7. tables["removed_sources"].columns = columns /\ tables["removed_sources"].key = {"source_id"}
  <2>1. removed_sources_table.key = {"source_id"}
    BY SMTT(40) DEF removed_sources_table, Table
  <2> QED
    BY <2>1, TableOf DEF columns
<1>8. indices["removed_sources"] = {}
  BY IndicesOf
<1>9. /\ Values("removed_sources", e) = values
      /\ \A row : FromRow("removed_sources", row) = removed_id(row)
  BY DEF Values, FromRow, values
<1>10. /\ {"source_id"} \subseteq DOMAIN values
       /\ \A ix \in indices["removed_sources"] : ix \subseteq DOMAIN columns
  BY <1>3, <1>4, <1>8 DEF At
<1>11. BackendsOf("removed_sources") = {"memory", "typed", "raw"}
  BY CorpusBackends
<1> QED
  BY <1>5, <1>6, <1>7, <1>9, <1>10, <1>11, OtherRoundTrip

\* A basis trained at a moment of whole seconds is read back as it was written.
LEMMA BasisSurvives ==
  ASSUME NEW e,
         HasFields(e, {"model_id", "model_version", "basis", "trained_at", "trained_chunk_count"}),
         Dated(Of(e, "trained_at"))
  PROVE  RoundTrips("corpus_provider_basis", e)
<1> DEFINE columns == corpus_provider_basis_table.columns
           values == basis_values(e)
<1>1. columns =
        Required("text", {"model_id", "model_version"})
          ++ Required("blob", {"basis"}) ++ Required("timestamp", {"trained_at"})
          ++ Required("int", {"trained_chunk_count"}) ++ Nullable("json", {"ext"})
  BY DEF corpus_provider_basis_table, Table
<1>2. values =
        Writing("text", e, {"model_id", "model_version"})
          ++ Writing("blob", e, {"basis"}) ++ Writing("timestamp", e, {"trained_at"})
          ++ Writing("int", e, {"trained_chunk_count"})
  BY Zenon DEF basis_values, Put, Text, Blob, Timestamp, Integer, Writing
<1> HIDE DEF columns, values
<1>3. /\ \A c \in {"model_id", "model_version"} : At(columns, c, Mandatory("text"))
      /\ At(columns, "basis", Mandatory("blob"))
      /\ At(columns, "trained_at", Mandatory("timestamp"))
      /\ At(columns, "trained_chunk_count", Mandatory("int"))
      /\ At(columns, "ext", Optional("json"))
      /\ \A c : \/ c \in {"model_id", "model_version", "basis", "trained_at",
                          "trained_chunk_count", "ext"}
                \/ Silent(columns, c)
  BY <1>1, RequiredSays, NullableSays, AtFirst, AtSecond, AtNeither
<1>4. /\ \A c \in {"model_id", "model_version"} : At(values, c, Typed("text", Of(e, c)))
      /\ At(values, "basis", Typed("blob", Of(e, "basis")))
      /\ At(values, "trained_at", Typed("timestamp", Of(e, "trained_at")))
      /\ At(values, "trained_chunk_count", Typed("int", Of(e, "trained_chunk_count")))
      /\ \A c : \/ c \in {"model_id", "model_version", "basis", "trained_at",
                          "trained_chunk_count"}
                \/ Silent(values, c)
  BY <1>2, WritingSays, AtFirst, AtSecond, AtNeither
<1>5. \A c : Stores(columns, values, c)
  BY <1>3, <1>4, ColumnTypes, StoresTyped, StoresOptTyped, StoresNothing, SMTT(40)
<1>6. ASSUME NEW b \in {"memory", "typed", "raw"}
      PROVE  /\ \A c \in DOMAIN e : At(decode_basis(ReadBack(b, columns, values)), c, Of(e, c))
             /\ LooksRead("corpus_provider_basis", e, ReadBack(b, columns, values))
  <2> DEFINE row == ReadBack(b, columns, values)
  <2>1. /\ \A c \in {"model_id", "model_version"} : HeldAs("text", Of(row, c), Of(e, c))
        /\ HeldAs("blob", Of(row, "basis"), Of(e, "basis"))
        /\ HeldAs("int", Of(row, "trained_chunk_count"), Of(e, "trained_chunk_count"))
    BY <1>3, <1>4, ColumnTypes, KeptTypes, ColumnIsHeld
  <2>2. decode_trained_at_secs(Of(row, "trained_at")) = Of(e, "trained_at")
    BY <1>3, <1>4, ColumnTypes, DateIsRead
  <2> HIDE DEF row
  <2>3. decode_basis(row) =
          [c \in {"model_id", "model_version", "basis", "trained_chunk_count"} |-> row[c].val]
            ++ [trained_at |-> Of(e, "trained_at")]
    BY <2>1, <2>2 DEF decode_basis, Tagged, HeldAs, Of, Dated
  <2>m. Merges(decode_basis(row),
               [c \in {"model_id", "model_version", "basis", "trained_chunk_count"} |-> row[c].val],
               [trained_at |-> Of(e, "trained_at")])
    BY <2>3, Merged, Zenon
  <2> QED
    BY <2>1, <2>3, <2>m DEF row, At, HasFields, LooksRead, HeldAs, Of, Merges
<1>7. /\ tables["corpus_provider_basis"].columns = columns
      /\ tables["corpus_provider_basis"].key = {"model_id", "model_version"}
  <2>1. corpus_provider_basis_table.key = {"model_id", "model_version"}
    BY SMTT(40) DEF corpus_provider_basis_table, Table
  <2> QED
    BY <2>1, TableOf DEF columns
<1>8. indices["corpus_provider_basis"] = {}
  BY IndicesOf
<1>9. /\ Values("corpus_provider_basis", e) = values
      /\ \A row : FromRow("corpus_provider_basis", row) = decode_basis(row)
  BY DEF Values, FromRow, values
<1>10. /\ {"model_id", "model_version"} \subseteq DOMAIN values
       /\ \A ix \in indices["corpus_provider_basis"] : ix \subseteq DOMAIN columns
  BY <1>3, <1>4, <1>8 DEF At
<1>11. BackendsOf("corpus_provider_basis") = {"memory", "typed", "raw"}
  BY CorpusBackends
<1> QED
  BY <1>5, <1>6, <1>7, <1>9, <1>10, <1>11, OtherRoundTrip

\* Counts brought up to date at such a moment are read back as they were written.
LEMMA CountsSurvive ==
  ASSUME NEW e,
         HasFields(e, {"model_id", "model_version", "counts", "doc_count", "vocab_size",
                       "updated_at"}),
         Dated(Of(e, "updated_at"))
  PROVE  RoundTrips("corpus_provider_counts", e)
<1> DEFINE columns == corpus_provider_counts_table.columns
           values == counts_values(e)
<1>1. columns =
        Required("text", {"model_id", "model_version"})
          ++ Required("blob", {"counts"}) ++ Required("int", {"doc_count", "vocab_size"})
          ++ Required("timestamp", {"updated_at"}) ++ Nullable("json", {"ext"})
  BY DEF corpus_provider_counts_table, Table
<1>2. values =
        Writing("text", e, {"model_id", "model_version"})
          ++ Writing("blob", e, {"counts"}) ++ Writing("int", e, {"doc_count", "vocab_size"})
          ++ Writing("timestamp", e, {"updated_at"})
  BY Zenon DEF counts_values, Put, Text, Blob, Timestamp, Integer, Writing
<1> HIDE DEF columns, values
<1>3. /\ \A c \in {"model_id", "model_version"} : At(columns, c, Mandatory("text"))
      /\ At(columns, "counts", Mandatory("blob"))
      /\ \A c \in {"doc_count", "vocab_size"} : At(columns, c, Mandatory("int"))
      /\ At(columns, "updated_at", Mandatory("timestamp"))
      /\ At(columns, "ext", Optional("json"))
      /\ \A c : \/ c \in {"model_id", "model_version", "counts", "doc_count", "vocab_size",
                          "updated_at", "ext"}
                \/ Silent(columns, c)
  BY <1>1, RequiredSays, NullableSays, AtFirst, AtSecond, AtNeither
<1>4. /\ \A c \in {"model_id", "model_version"} : At(values, c, Typed("text", Of(e, c)))
      /\ At(values, "counts", Typed("blob", Of(e, "counts")))
      /\ \A c \in {"doc_count", "vocab_size"} : At(values, c, Typed("int", Of(e, c)))
      /\ At(values, "updated_at", Typed("timestamp", Of(e, "updated_at")))
      /\ \A c : \/ c \in {"model_id", "model_version", "counts", "doc_count", "vocab_size",
                          "updated_at"}
                \/ Silent(values, c)
  BY <1>2, WritingSays, AtFirst, AtSecond, AtNeither
<1>5. \A c : Stores(columns, values, c)
  BY <1>3, <1>4, ColumnTypes, StoresTyped, StoresOptTyped, StoresNothing, SMTT(40)
<1>6. ASSUME NEW b \in {"memory", "typed", "raw"}
      PROVE  /\ \A c \in DOMAIN e : At(decode_counts(ReadBack(b, columns, values)), c, Of(e, c))
             /\ LooksRead("corpus_provider_counts", e, ReadBack(b, columns, values))
  <2> DEFINE row == ReadBack(b, columns, values)
  <2>1. /\ \A c \in {"model_id", "model_version"} : HeldAs("text", Of(row, c), Of(e, c))
        /\ HeldAs("blob", Of(row, "counts"), Of(e, "counts"))
        /\ \A c \in {"doc_count", "vocab_size"} : HeldAs("int", Of(row, c), Of(e, c))
    BY <1>3, <1>4, ColumnTypes, KeptTypes, ColumnIsHeld
  <2>2. decode_trained_at_secs(Of(row, "updated_at")) = Of(e, "updated_at")
    BY <1>3, <1>4, ColumnTypes, DateIsRead
  <2> HIDE DEF row
  <2>3. decode_counts(row) =
          [c \in {"model_id", "model_version", "counts", "doc_count", "vocab_size"} |-> row[c].val]
            ++ [updated_at |-> Of(e, "updated_at")]
    BY <2>1, <2>2 DEF decode_counts, Tagged, HeldAs, Of, Dated
  <2>m. Merges(decode_counts(row),
               [c \in {"model_id", "model_version", "counts", "doc_count", "vocab_size"} |-> row[c].val],
               [updated_at |-> Of(e, "updated_at")])
    BY <2>3, Merged, Zenon
  <2>4. LooksRead("corpus_provider_counts", e, row)
    BY <2>1 DEF LooksRead, growth_anchor, Tagged, HeldAs, Of
  <2> QED
    BY <2>1, <2>4, <2>m, SMTT(40) DEF row, At, HasFields, HeldAs, Of, Merges
<1>7. /\ tables["corpus_provider_counts"].columns = columns
      /\ tables["corpus_provider_counts"].key = {"model_id", "model_version"}
  <2>1. corpus_provider_counts_table.key = {"model_id", "model_version"}
    BY SMTT(40) DEF corpus_provider_counts_table, Table
  <2> QED
    BY <2>1, TableOf DEF columns
<1>8. indices["corpus_provider_counts"] = {}
  BY IndicesOf
<1>9. /\ Values("corpus_provider_counts", e) = values
      /\ \A row : FromRow("corpus_provider_counts", row) = decode_counts(row)
  BY DEF Values, FromRow, values
<1>10. /\ {"model_id", "model_version"} \subseteq DOMAIN values
       /\ \A ix \in indices["corpus_provider_counts"] : ix \subseteq DOMAIN columns
  BY <1>3, <1>4, <1>8 DEF At
<1>11. BackendsOf("corpus_provider_counts") = {"memory", "typed", "raw"}
  BY CorpusBackends
<1> QED
  BY <1>5, <1>6, <1>7, <1>9, <1>10, <1>11, OtherRoundTrip

\* A chunk with an id is read back as it was written.
LEMMA ChunkSurvives ==
  ASSUME NEW e,
         HasFields(e, {"id", "source_id", "text", "start_offset", "length", "hlc", "metadata"}),
         ParsesAsUuid(Of(e, "id"))
  PROVE  RoundTrips("chunks", e)
<1> DEFINE columns == chunks_table.columns
           values == chunk_values(e, Time(1, 0))
<1>1. columns =
        Required("uuid", {"id"})
          ++ Required("text", {"source_id", "text"}) ++ Required("int", {"start_offset", "length"})
          ++ Required("hlc", {"hlc"}) ++ Required("json", {"metadata"})
          ++ Required("timestamp", {"created_at"}) ++ Nullable("json", {"ext"})
          ++ Nullable("blob", {"content_hash"})
  BY DEF chunks_table, Table
<1>2. values =
        Writing("uuid", e, {"id"})
          ++ Writing("text", e, {"source_id", "text"})
          ++ Writing("int", e, {"start_offset", "length"}) ++ Writing("hlc", e, {"hlc"})
          ++ Writing("json", e, {"metadata"})
          ++ Single("created_at", Typed("timestamp", Time(1, 0)))
  <2>1. [created_at |-> Typed("timestamp", Time(1, 0))] =
          Single("created_at", Typed("timestamp", Time(1, 0)))
    BY DEF Single
  <2> QED
    BY <2>1, ZenonT(60) DEF chunk_values, Put, UuidValue, Text, Integer, Hlc, Json, Timestamp, Writing
<1> HIDE DEF columns, values
<1>3. /\ At(columns, "id", Mandatory("uuid"))
      /\ \A c \in {"source_id", "text"} : At(columns, c, Mandatory("text"))
      /\ \A c \in {"start_offset", "length"} : At(columns, c, Mandatory("int"))
      /\ At(columns, "hlc", Mandatory("hlc"))
      /\ At(columns, "metadata", Mandatory("json"))
      /\ At(columns, "created_at", Mandatory("timestamp"))
      /\ At(columns, "ext", Optional("json"))
      /\ At(columns, "content_hash", Optional("blob"))
      /\ \A c : \/ c \in {"id", "source_id", "text", "start_offset", "length", "hlc", "metadata",
                          "created_at", "ext", "content_hash"}
                \/ Silent(columns, c)
  BY <1>1, RequiredSays, NullableSays, AtFirst, AtSecond, AtNeither
<1>4. /\ At(values, "id", Typed("uuid", Of(e, "id")))
      /\ \A c \in {"source_id", "text"} : At(values, c, Typed("text", Of(e, c)))
      /\ \A c \in {"start_offset", "length"} : At(values, c, Typed("int", Of(e, c)))
      /\ At(values, "hlc", Typed("hlc", Of(e, "hlc")))
      /\ At(values, "metadata", Typed("json", Of(e, "metadata")))
      /\ At(values, "created_at", Typed("timestamp", Time(1, 0)))
      /\ \A c : \/ c \in {"id", "source_id", "text", "start_offset", "length", "hlc", "metadata",
                          "created_at"}
                \/ Silent(values, c)
  BY <1>2, WritingSays, SingleSays, AtFirst, AtSecond, AtNeither
<1>5. \A c : Stores(columns, values, c)
  BY <1>3, <1>4, ColumnTypes, StoresTyped, StoresOptTyped, StoresNothing, SMTT(40)
<1>6. ASSUME NEW b \in {"memory", "typed", "raw"}
      PROVE  /\ \A c \in DOMAIN e : At(decode_chunk(ReadBack(b, columns, values)), c, Of(e, c))
             /\ LooksRead("chunks", e, ReadBack(b, columns, values))
  <2> DEFINE row == ReadBack(b, columns, values)
  <2>1. /\ HeldAs("uuid", Of(row, "id"), Of(e, "id"))
        /\ \A c \in {"source_id", "text"} : HeldAs("text", Of(row, c), Of(e, c))
        /\ \A c \in {"start_offset", "length"} : HeldAs("int", Of(row, c), Of(e, c))
        /\ HeldAs("hlc", Of(row, "hlc"), Of(e, "hlc"))
        /\ HeldAs("json", Of(row, "metadata"), Of(e, "metadata"))
    BY <1>3, <1>4, ColumnTypes, KeptTypes, ColumnIsHeld
  <2> HIDE DEF row
  <2>2. decode_chunk(row) =
          [c \in ChunkFields |-> row[c].val] ++ [metadata |-> Of(e, "metadata")]
    BY <2>1 DEF decode_chunk, Tagged, HeldAs, Of
  <2>m. Merges(decode_chunk(row), [c \in ChunkFields |-> row[c].val], [metadata |-> Of(e, "metadata")])
    BY <2>2, Merged, Zenon
  <2>3. LooksRead("chunks", e, row)
    BY <2>1 DEF LooksRead, chunk_source_pair, Tagged, HeldAs, Of
  <2> QED
    BY <2>1, <2>3, <2>m, SMTT(40) DEF row, At, HasFields, HeldAs, Of, ChunkFields, Merges
<1>7. tables["chunks"].columns = columns /\ tables["chunks"].key = {"id"}
  <2>1. chunks_table.key = {"id"}
    BY SMTT(40) DEF chunks_table, Table
  <2> QED
    BY <2>1, TableOf DEF columns
<1>8. indices["chunks"] = {{"source_id"}, {"hlc"}}
  BY IndicesOf
<1>9. Values("chunks", e) = values /\ \A row : FromRow("chunks", row) = decode_chunk(row)
  BY DEF Values, FromRow, values
<1>10. /\ {"id"} \subseteq DOMAIN values
       /\ \A ix \in indices["chunks"] : ix \subseteq DOMAIN columns
  BY <1>3, <1>4, <1>8 DEF At
<1>11. BackendsOf("chunks") = {"memory", "typed", "raw"}
  BY CorpusBackends
<1> QED
  BY <1>5, <1>6, <1>7, <1>9, <1>10, <1>11, OtherRoundTrip

\* Two columns of a vector: its filing time, which a plain backend hands back
\* as a number, and its scale, which only some have.
FiledAs(v, x) == v.val = x /\ v.type \in {"timestamp", "int"}
LEMMA FilingIsHeld ==
  ASSUME NEW b \in {"memory", "typed", "plain"}, NEW columns, NEW values, NEW c, NEW x,
         IsOf(columns, c, "timestamp"), At(values, c, Typed("timestamp", x))
  PROVE  FiledAs(Of(ReadBack(b, columns, values), c), x)
<1>1. Cell(ReadBack(b, columns, values), c) = Handed(b, columns[c], Typed("timestamp", x))
  BY HandedBack DEF IsOf
<1>2. c \in DOMAIN ReadBack(b, columns, values)
  BY Zenon DEF ReadBack, IsOf
<1>3. Of(ReadBack(b, columns, values), c) = Handed(b, columns[c], Typed("timestamp", x))
  BY <1>1, <1>2, SMTT(40) DEF Cell, Of
<1>4. FiledAs(Handed(b, columns[c], Typed("timestamp", x)), x)
  BY DEF FiledAs, Handed, Typed, Integer
<1> QED
  BY <1>3, <1>4
ScaledAs(v, x) == x = IF v.type = "float" THEN v.val ELSE None
LEMMA ScaleIsHeld ==
  ASSUME NEW b \in {"memory", "typed", "plain"}, NEW columns, NEW values, NEW c, NEW x,
         IsOf(columns, c, "float"), At(values, c, OptTyped("float", x))
  PROVE  ScaledAs(Of(ReadBack(b, columns, values), c), x)
<1>1. Cell(ReadBack(b, columns, values), c) = Handed(b, columns[c], OptTyped("float", x))
  BY HandedBack DEF IsOf
<1>2. c \in DOMAIN ReadBack(b, columns, values)
  BY Zenon DEF ReadBack, IsOf
<1>3. Of(ReadBack(b, columns, values), c) = Handed(b, columns[c], OptTyped("float", x))
  BY <1>1, <1>2 DEF Cell, Of
<1>4. ScaledAs(Handed(b, columns[c], OptTyped("float", x)), x)
  BY DEF ScaledAs, Handed, OptTyped, Typed, Null
<1> QED
  BY <1>3, <1>4

\* What VectorStore's decoders accept.
BinaryRow(e) == ParsesAsUuid(Of(e, "id")) /\ Of(e, "kind") = Binary

\* A binary vector with an id.
LEMMA VectorSurvives ==
  ASSUME NEW e,
         HasFields(e, {"id", "item_id", "model_id", "model_version", "vector_index", "kind",
                       "dim", "payload", "scale", "filed_at"}),
         BinaryRow(e)
  PROVE  RoundTrips("vectors", e)
<1> DEFINE columns == vectors_table.columns
           values == vector_values(e)
<1>1. columns =
        Required("uuid", {"id"})
          ++ Required("text", {"item_id", "model_id", "model_version"})
          ++ Required("int", {"vector_index", "kind", "dim"}) ++ Required("blob", {"payload"})
          ++ Nullable("float", {"scale"}) ++ Required("timestamp", {"filed_at"})
          ++ Nullable("json", {"ext"})
  BY DEF vectors_table, Table
<1>2. values =
        Writing("uuid", e, {"id"})
          ++ Writing("text", e, {"item_id", "model_id", "model_version"})
          ++ Writing("int", e, {"vector_index", "kind", "dim"}) ++ Writing("blob", e, {"payload"})
          ++ WritingOpt("float", e, {"scale"}) ++ Writing("timestamp", e, {"filed_at"})
  BY Zenon DEF vector_values, Put, PutOpt, UuidValue, Text, Integer, Blob, Float, Timestamp,
     Writing, WritingOpt, OptTyped
<1> HIDE DEF columns, values
<1>3. /\ At(columns, "id", Mandatory("uuid"))
      /\ \A c \in {"item_id", "model_id", "model_version"} : At(columns, c, Mandatory("text"))
      /\ \A c \in {"vector_index", "kind", "dim"} : At(columns, c, Mandatory("int"))
      /\ At(columns, "payload", Mandatory("blob"))
      /\ At(columns, "scale", Optional("float"))
      /\ At(columns, "filed_at", Mandatory("timestamp"))
      /\ At(columns, "ext", Optional("json"))
      /\ \A c : \/ c \in {"id", "item_id", "model_id", "model_version", "vector_index", "kind",
                          "dim", "payload", "scale", "filed_at", "ext"}
                \/ Silent(columns, c)
  BY <1>1, RequiredSays, NullableSays, AtFirst, AtSecond, AtNeither
<1>4. /\ At(values, "id", Typed("uuid", Of(e, "id")))
      /\ \A c \in {"item_id", "model_id", "model_version"} : At(values, c, Typed("text", Of(e, c)))
      /\ \A c \in {"vector_index", "kind", "dim"} : At(values, c, Typed("int", Of(e, c)))
      /\ At(values, "payload", Typed("blob", Of(e, "payload")))
      /\ At(values, "scale", OptTyped("float", Of(e, "scale")))
      /\ At(values, "filed_at", Typed("timestamp", Of(e, "filed_at")))
      /\ \A c : \/ c \in {"id", "item_id", "model_id", "model_version", "vector_index", "kind",
                          "dim", "payload", "scale", "filed_at"}
                \/ Silent(values, c)
  BY <1>2, WritingSays, WritingOptSays, AtFirst, AtSecond, AtNeither
<1>5. \A c : Stores(columns, values, c)
  BY <1>3, <1>4, ColumnTypes, StoresTyped, StoresOptTyped, StoresNothing
<1>6. ASSUME NEW b \in {"memory", "typed", "plain"}
      PROVE  /\ \A c \in DOMAIN e : At(decode_stored_vector(ReadBack(b, columns, values)), c, Of(e, c))
             /\ LooksRead("vectors", e, ReadBack(b, columns, values))
  <2> DEFINE row == ReadBack(b, columns, values)
  <2>1. /\ HeldAs("uuid", Of(row, "id"), Of(e, "id"))
        /\ \A c \in {"item_id", "model_id", "model_version"} : HeldAs("text", Of(row, c), Of(e, c))
        /\ \A c \in {"vector_index", "kind", "dim"} : HeldAs("int", Of(row, c), Of(e, c))
        /\ HeldAs("blob", Of(row, "payload"), Of(e, "payload"))
    BY <1>3, <1>4, ColumnTypes, KeptTypes, ColumnIsHeld
  <2>2. /\ FiledAs(Of(row, "filed_at"), Of(e, "filed_at"))
        /\ ScaledAs(Of(row, "scale"), Of(e, "scale"))
    BY <1>3, <1>4, ColumnTypes, FilingIsHeld, ScaleIsHeld
  <2> HIDE DEF row
  <2>3. Of(e, "kind") = Binary
    BY DEF BinaryRow
  <2> DEFINE payload == [kind |-> Of(e, "kind"), dim |-> Of(e, "dim"),
                         payload |-> Of(e, "payload"), scale |-> Of(e, "scale")]
  <2>4. decode_payload(row) = payload
    BY <2>1, <2>2, <2>3 DEF decode_payload, Tagged, HeldAs, ScaledAs, Of
  <2>5. payload # Corrupt
    <3>1. "kind" \in DOMAIN payload /\ "kind" \notin DOMAIN Corrupt
      BY DEF Corrupt
    <3> QED
      BY <3>1
  <2>6. payload.kind = Binary
    BY <2>3
  <2> HIDE DEF payload
  <2>7. decode_stored_vector(row) =
          [c \in {"id", "item_id", "vector_index", "model_id", "model_version", "filed_at"} |->
             row[c].val] ++ payload
    BY <2>1, <2>2, <2>4, <2>5, <2>6
       DEF decode_stored_vector, Tagged, HeldAs, FiledAs, Of, BinaryRow
  <2>8. decode_stored_vector_light(row) =
          [c \in {"item_id", "vector_index", "model_id", "model_version", "payload"} |-> row[c].val]
    BY <2>1, <2>3 DEF decode_stored_vector_light, Tagged, HeldAs, Of
  <2>9. LooksRead("vectors", e, row)
    BY <2>1, <2>8 DEF LooksRead, HeldAs, Of
  <2> DEFINE six == {"id", "item_id", "vector_index", "model_id", "model_version", "filed_at"}
             first == [c \in six |-> row[c].val]
  <2>10. ASSUME NEW c \in six PROVE At(first ++ payload, c, Of(e, c))
    <3>1. row[c].val = Of(e, c)
      BY <2>1, <2>2 DEF HeldAs, FiledAs, Of
    <3>2. At(first, c, Of(e, c))
      BY <3>1 DEF At
    <3> QED
      BY <3>2, AtFirst
  <2>11. ASSUME NEW c \in {"kind", "dim", "payload", "scale"}
         PROVE  At(first ++ payload, c, Of(e, c))
    <3>1. At(payload, c, Of(e, c))
      BY DEF payload, At
    <3>2. Silent(first, c)
      BY DEF Silent
    <3> QED
      BY <3>1, <3>2, AtSecond
  <2>12. \A c \in DOMAIN e : c \in six \/ c \in {"kind", "dim", "payload", "scale"}
    BY DEF HasFields
  <2> HIDE DEF six
  <2>13. decode_stored_vector(row) = first ++ payload
    BY <2>7 DEF six
  <2> HIDE DEF first
  <2> QED
    BY <2>9, <2>10, <2>11, <2>12, <2>13, Zenon DEF row
<1>7. tables["vectors"].columns = columns /\ tables["vectors"].key = {"id"}
  <2>1. vectors_table.key = {"id"}
    BY SMTT(40) DEF vectors_table, Table
  <2> QED
    BY <2>1, TableOf DEF columns
<1>8. indices["vectors"] = {{"item_id"}, {"model_id", "item_id"}, {"filed_at", "item_id"}}
  BY IndicesOf
<1>9. Values("vectors", e) = values /\ \A row : FromRow("vectors", row) = decode_stored_vector(row)
  BY DEF Values, FromRow, values
<1>10. /\ {"id"} \subseteq DOMAIN values
       /\ \A ix \in indices["vectors"] : ix \subseteq DOMAIN columns
  BY <1>3, <1>4, <1>8 DEF At
<1>11. BackendsOf("vectors") = {"memory", "typed", "plain"}
  BY LocusBackends
<1> QED
  BY <1>5, <1>6, <1>7, <1>9, <1>10, <1>11, OtherRoundTrip

\* The fields of each kind of entity.
LEMMA FieldsOfDrawer ==
  FieldsOf("drawers") = {"id", "content", "parent_node_id", "addedBy", "embeddingModelID",
                         "lineageID", "udcCode", "sourceFile", "removedByBatch", "udcFacets",
                         "wikidataQID", "wikidataQidsSecondary", "chunkIndex", "filedAt",
                         "eventTime", "tombstonedAt", "provenance", "adjectiveBitmap",
                         "operationalBitmap"}
<1>1. Entities["drawers"] = Drawer
  BY DEF Entities
<1> DEFINE zeros == Zero({"provenance", "adjectiveBitmap", "operationalBitmap"})
           own == [udcCode |-> "", lineageID |-> FreshUuid, eventTime |-> 0]
<1>2. /\ Drawer.given = {"id", "content", "parent_node_id", "addedBy", "filedAt",
                         "embeddingModelID"}
      /\ Drawer.filled = zeros ++ own
      /\ Drawer.optional = {"sourceFile", "chunkIndex", "tombstonedAt", "removedByBatch",
                            "udcFacets", "wikidataQID", "wikidataQidsSecondary"}
  <2> HIDE DEF zeros
  <2> QED
    BY DEF Drawer, Entity, LatticeAnchor, zeros
<1>3. DOMAIN zeros = {"provenance", "adjectiveBitmap", "operationalBitmap"}
  BY DEF Zero
<1>4. DOMAIN own = {"udcCode", "lineageID", "eventTime"}
  BY SMTT(40)
<1> HIDE DEF zeros, own
<1>5. DOMAIN (zeros ++ own) = {"provenance", "adjectiveBitmap", "operationalBitmap", "udcCode",
                               "lineageID", "eventTime"}
  <2>1. Merges(zeros ++ own, zeros, own)
    BY Merged, Zenon
  <2> QED
    BY <1>3, <1>4, <2>1 DEF Merges
<1> QED
  BY <1>1, <1>2, <1>5 DEF FieldsOf
LEMMA FieldsOfTunnel ==
  FieldsOf("tunnels") = {"id", "sourceWing", "sourceRoom", "targetWing", "targetRoom", "label",
                         "addedBy", "sourceDrawerId", "targetDrawerId", "removedByBatch",
                         "filedAt", "tombstonedAt", "adjectiveBitmap", "operationalBitmap",
                         "provenanceBitmap", "kind_id", "order_key"}
<1> DEFINE zeros == Zero(bitmaps)
           own == [kind_id |-> 1]
<1>1. Entities["tunnels"] = Tunnel
  BY DEF Entities
<1>2. Tunnel = Entity(EdgeGiven, zeros ++ own, EdgeOptional \cup {"order_key"})
  BY DEF Tunnel
<1>3. DOMAIN zeros = bitmaps /\ DOMAIN own = {"kind_id"}
  BY DEF Zero
<1> HIDE DEF zeros, own
<1>4. DOMAIN (zeros ++ own) = bitmaps \cup {"kind_id"}
  <2>1. Merges(zeros ++ own, zeros, own)
    BY Merged, Zenon
  <2> QED
    BY <1>3, <2>1 DEF Merges
<1> QED
  BY <1>1, <1>2, <1>4, SMTT(40) DEF FieldsOf, Entity, bitmaps, EdgeGiven, EdgeOptional
LEMMA FieldsOfDiaryEntry ==
  FieldsOf("diary") = {"id", "agentName", "entry", "topic", "wing", "room", "embeddingModelID",
                       "filedAt", "tombstonedAt", "removedByBatch", "rewardProvenance",
                       "operationalBitmap", "reward"}
<1>1. Entities["diary"] = DiaryEntry
  BY DEF Entities
<1> QED
  BY <1>1 DEF FieldsOf, DiaryEntry, Entity, Zero
LEMMA FieldsOfKGFact ==
  FieldsOf("kg_facts") = {"id", "subject", "predicate", "object", "sourceDrawerID",
                          "adjectiveBitmap", "operationalBitmap", "provenanceBitmap", "filedAt"}
<1>1. Entities["kg_facts"] = KGFact
  BY DEF Entities
<1> QED
  BY <1>1 DEF FieldsOf, KGFact, Entity, Zero, bitmaps
LEMMA FieldsOfProposal ==
  FieldsOf("proposals") = {"id", "targetRowID", "justification", "candidateState",
                           "adjectiveBitmap", "operationalBitmap", "provenanceBitmap", "udcCode",
                           "udcFacets", "wikidataQID", "wikidataQidsSecondary", "filedAt"}
<1>1. Entities["proposals"] = Proposal
  BY DEF Entities
<1> QED
  BY <1>1 DEF FieldsOf, Proposal, Entity, Zero, bitmaps, LatticeAnchor
LEMMA FieldsOfAssociation ==
  FieldsOf("associations") = {"id", "sourceWing", "sourceRoom", "targetWing", "targetRoom",
                              "label", "addedBy", "sourceDrawerId", "targetDrawerId",
                              "removedByBatch", "filedAt", "tombstonedAt", "adjectiveBitmap",
                              "operationalBitmap", "provenanceBitmap", "udcCode", "udcFacets",
                              "wikidataQID", "wikidataQidsSecondary"}
<1>1. Entities["associations"] = Association
  BY DEF Entities
<1> QED
  BY <1>1 DEF FieldsOf, Association, Entity, Zero, bitmaps, EdgeGiven, EdgeOptional, LatticeAnchor
LEMMA FieldsOfLearnedReference ==
  FieldsOf("learned_references") = {"id", "sourceCatalogID", "handle", "addedBy", "filedAt",
                                    "tombstonedAt", "removedByBatch", "udcCode", "udcFacets",
                                    "wikidataQID", "wikidataQidsSecondary", "adjectiveBitmap",
                                    "operationalBitmap", "provenanceBitmap"}
<1>1. Entities["learned_references"] = LearnedReference
  BY DEF Entities
<1> QED
  BY <1>1 DEF FieldsOf, LearnedReference, Entity, Zero, bitmaps, LatticeAnchor
LEMMA FieldsOfSourceCatalogEntry ==
  FieldsOf("source_catalog") = {"id", "handle", "addedBy", "kind", "firstSeen", "udcCode",
                                "udcFacets", "wikidataQID", "wikidataQidsSecondary"}
<1>1. Entities["source_catalog"] = SourceCatalogEntry
  BY DEF Entities
<1> QED
  BY <1>1 DEF FieldsOf, SourceCatalogEntry, Entity, LatticeAnchor
LEMMA FieldsOfRecallTraceItem ==
  FieldsOf("recall_trace") = {"id", "target", "recalledAt", "score", "operationalBitmap"}
<1>1. Entities["recall_trace"] = RecallTraceItem
  BY DEF Entities
<1> QED
  BY <1>1 DEF FieldsOf, RecallTraceItem, Entity
LEMMA FieldsOfNode ==
  FieldsOf("nodes") = {"id", "display_name", "lookup_name", "parent_id", "depth", "lifecycle",
                       "created_hlc", "created_at", "updated_at"}
<1>1. Entities["nodes"] = Node
  BY SMTT(40) DEF Entities
<1> QED
  BY <1>1 DEF FieldsOf, Node, Entity
LEMMA FieldsOfVectorPayloadInput ==
  FieldsOf("vectors") = {"id", "item_id", "model_id", "model_version", "vector_index", "kind",
                         "dim", "payload", "scale", "filed_at"}
<1>1. Entities["vectors"] = VectorPayloadInput
  BY DEF Entities
<1> QED
  BY <1>1 DEF FieldsOf, VectorPayloadInput, Entity
LEMMA FieldsOfChunk ==
  FieldsOf("chunks") = {"id", "source_id", "text", "start_offset", "length", "hlc", "metadata"}
<1>1. Entities["chunks"] = Chunk
  BY DEF Entities
<1> QED
  BY <1>1 DEF FieldsOf, Chunk, Entity, ChunkFields
LEMMA FieldsOfPersistedBasis ==
  FieldsOf("corpus_provider_basis") = {"model_id", "model_version", "basis", "trained_at",
                                       "trained_chunk_count"}
<1>1. Entities["corpus_provider_basis"] = PersistedBasis
  BY DEF Entities
<1> QED
  BY <1>1 DEF FieldsOf, PersistedBasis, Entity
LEMMA FieldsOfPersistedCounts ==
  FieldsOf("corpus_provider_counts") = {"model_id", "model_version", "counts", "doc_count",
                                        "vocab_size", "updated_at"}
<1>1. Entities["corpus_provider_counts"] = PersistedCounts
  BY SMTT(40) DEF Entities
<1> QED
  BY <1>1 DEF FieldsOf, PersistedCounts, Entity
LEMMA FieldsOfRemovedSource ==
  FieldsOf("removed_sources") = {"source_id"}
<1>1. Entities["removed_sources"] = RemovedSource
  BY DEF Entities
<1> QED
  BY <1>1 DEF FieldsOf, RemovedSource, Entity

\* What a moment is written as is read as that moment.
LEMMA MomentIsRead ==
  ASSUME NEW t, IsMoment(t)
  PROVE  /\ epoch_to_iso8601(t) = format_iso8601(t)
         /\ parse_iso8601(format_iso8601(t)) = t
<1>1. t.day \in Nat /\ t.ms \in Int /\ 0 <= t.ms /\ t = Time(t.day, t.ms)
  BY DEF IsMoment
<1>2. PICK day \in Nat, ms \in Int : day = t.day /\ ms = t.ms
  BY <1>1
<1>3. t = Time(day, ms) /\ 0 <= ms
  BY <1>1, <1>2
<1> QED
  BY <1>3, TimeIsRead
LEMMA WrittenText ==
  ASSUME NEW iso, IsWritten(iso)
  PROVE  Written(iso)
BY MomentIsRead, Zenon DEF IsWritten, Written
LEMMA WholeSecond ==
  ASSUME NEW t, IsWholeSecond(t)
  PROVE  Dated(t)
<1>1. t.ms \in Int /\ t.ms % 1000 = 0 /\ t = Time(t.day, t.ms) /\ IsMoment(t) /\ t # None
  BY DEF IsWholeSecond, IsMoment
<1>2. t.day \in Nat /\ 0 <= t.ms
  BY <1>1 DEF IsMoment
<1>3. PICK day \in Nat, ms \in Int : day = t.day /\ ms = t.ms
  BY <1>1, <1>2
<1>4. t = Time(day, ms) /\ 0 <= ms /\ ms - (ms % 1000) = ms
  BY <1>1, <1>2, <1>3
<1>5. parse_iso8601_utc(format_iso8601(t)) = Time(day, ms - (ms % 1000))
  BY <1>4, TimeIsRead
<1> QED
  BY <1>1, <1>4, <1>5 DEF Dated

\* An entity of any kind.
LEMMA EntitySurvives ==
  ASSUME NEW table \in Coded, NEW e, IsEntity(table, e)
  PROVE  RoundTrips(table, e)
<1>1. HasFields(e, FieldsOf(table))
  BY DEF IsEntity, HasFields
<1>2. CASE table = "drawers"
  <2>1. Placed(e)
    BY <1>2, Zenon DEF IsEntity, Placed, Of
  <2> QED
    BY <1>1, <1>2, <2>1, FieldsOfDrawer, DrawerSurvives
<1>3. CASE table = "tunnels"
  <2>1. Of(e, "kind_id") \in 0..9
    BY <1>3, Zenon DEF IsEntity, Of
  <2> QED
    BY <1>1, <1>3, <2>1, FieldsOfTunnel, TunnelSurvives
<1>4. CASE table = "diary"
  BY <1>1, <1>4, FieldsOfDiaryEntry, DiaryEntrySurvives
<1>5. CASE table = "kg_facts"
  BY <1>1, <1>5, FieldsOfKGFact, KGFactSurvives
<1>6. CASE table = "proposals"
  BY <1>1, <1>6, FieldsOfProposal, ProposalSurvives
<1>7. CASE table = "associations"
  BY <1>1, <1>7, FieldsOfAssociation, AssociationSurvives
<1>8. CASE table = "learned_references"
  BY <1>1, <1>8, FieldsOfLearnedReference, LearnedReferenceSurvives
<1>9. CASE table = "source_catalog"
  <2>1. Of(e, "kind") \in 0..5
    BY <1>9, Zenon DEF IsEntity, Of
  <2> QED
    BY <1>1, <1>9, <2>1, FieldsOfSourceCatalogEntry, SourceSurvives
<1>10. CASE table = "recall_trace"
  <2>1. Written(Of(e, "recalledAt"))
    BY <1>10, WrittenText, Zenon DEF IsEntity, Of
  <2> QED
    BY <1>1, <1>10, <2>1, FieldsOfRecallTraceItem, RecallTraceSurvives
<1>11. CASE table = "nodes"
  <2>1. Named(e)
    BY <1>11, Zenon DEF IsEntity, Named, Of
  <2> QED
    BY <1>1, <1>11, <2>1, FieldsOfNode, NodeSurvives
<1>12. CASE table = "vectors"
  <2>1. BinaryRow(e)
    BY <1>12, Zenon DEF IsEntity, BinaryRow, Of
  <2> QED
    BY <1>1, <1>12, <2>1, FieldsOfVectorPayloadInput, VectorSurvives
<1>13. CASE table = "chunks"
  <2>1. ParsesAsUuid(Of(e, "id"))
    BY <1>13, Zenon DEF IsEntity, Of
  <2> QED
    BY <1>1, <1>13, <2>1, FieldsOfChunk, ChunkSurvives
<1>14. CASE table = "corpus_provider_basis"
  <2>1. Dated(Of(e, "trained_at"))
    BY <1>14, WholeSecond, Zenon DEF IsEntity, Of
  <2> QED
    BY <1>1, <1>14, <2>1, FieldsOfPersistedBasis, BasisSurvives
<1>15. CASE table = "corpus_provider_counts"
  <2>1. Dated(Of(e, "updated_at"))
    BY <1>15, WholeSecond, Zenon DEF IsEntity, Of
  <2> QED
    BY <1>1, <1>15, <2>1, FieldsOfPersistedCounts, CountsSurvive
<1>16. CASE table = "removed_sources"
  BY <1>1, <1>16, FieldsOfRemovedSource, RemovedSourceSurvives
<1>17. Coded = {"drawers", "tunnels", "diary", "kg_facts", "proposals", "associations",
                "learned_references", "source_catalog", "recall_trace", "nodes", "vectors",
                "chunks", "corpus_provider_basis", "corpus_provider_counts", "removed_sources"}
  BY DEF Coded, Entities
<1> QED
  BY <1>2, <1>3, <1>4, <1>5, <1>6, <1>7, <1>8, <1>9, <1>10, <1>11, <1>12, <1>13, <1>14, <1>15,
     <1>16, <1>17

(***************************************************************************)
(* Finite sets put in order, and members of a sequence picked              *)
(***************************************************************************)

\* A function on 1 .. n is a sequence of n elements.
LEMMA FromFunction ==
  ASSUME NEW S, NEW n \in Nat, NEW s \in [1..n -> S]
  PROVE  s \in Seq(S) /\ Len(s) = n
<1>1. s \in Seq(S)
  OBVIOUS
<1> QED
  BY <1>1

\* There are n numbers below n.
LEMMA Initial ==
  ASSUME NEW n \in Nat
  PROVE  IsFiniteSet(0..(n - 1)) /\ Cardinality(0..(n - 1)) = n
BY FS_Interval

LEMMA Counted ==
  ASSUME NEW n \in Nat
  PROVE  IsFiniteSet(1..n) /\ Cardinality(1..n) = n
BY FS_Interval

\* Some of the numbers 1 .. n are finitely many (rows of a table kept as a sequence).
LEMMA FinitePart ==
  ASSUME NEW n \in Nat, NEW S \in SUBSET (1..n)
  PROVE  IsFiniteSet(S)
<1>1. IsFiniteSet(1..n)
  BY FS_Interval
<1> QED
  BY <1>1, FS_Subset, Zenon

\* R orders S strictly and totally.
Orders(R, S) ==
  /\ \A x \in S : <<x, x>> \notin R
  /\ \A x, y \in S : x # y => <<x, y>> \in R \/ <<y, x>> \in R
  /\ \A x, y, z \in S : <<x, y>> \in R /\ <<y, z>> \in R => <<x, z>> \in R

\* In place i of s stands the element of S with i - 1 elements before it.
PlacedBy(s, S, R) ==
  /\ s = [i \in 1..Cardinality(S) |-> s[i]]
  /\ \A i \in 1..Cardinality(S) :
       (\E x \in S : Cardinality({y \in S : <<y, x>> \in R}) = i - 1) =>
         s[i] \in S /\ Cardinality({y \in S : <<y, s[i]>> \in R}) = i - 1

Lists(s, S, R) ==
  /\ s \in Seq(S) /\ Len(s) = Cardinality(S) /\ Cardinality(S) \in Nat
  /\ \A x \in S : \E i \in 1..Len(s) : s[i] = x
  /\ \A i \in 1..Len(s) : s[i] \in S /\ Cardinality({y \in S : <<y, s[i]>> \in R}) = i - 1
  /\ \A i, j \in 1..Len(s) : i < j => <<s[i], s[j]>> \in R

\* Listing a finite set in a strict total order: every element has its place, every place
\* an element, and the elements stand in that order (the scans of a table, SortedBy).
LEMMA Enumeration ==
  ASSUME NEW S, IsFiniteSet(S), NEW R, Orders(R, S), NEW s, PlacedBy(s, S, R)
  PROVE  Lists(s, S, R)
<1> DEFINE Under(x) == {y \in S : <<y, x>> \in R}
<1>1. PICK n \in Nat : Cardinality(S) = n
  BY FS_CardinalityType
<1>2. ASSUME NEW x \in S
      PROVE  IsFiniteSet(Under(x)) /\ Cardinality(Under(x)) \in 0..(n - 1)
  <2>1. IsFiniteSet(Under(x)) /\ Cardinality(Under(x)) <= n
        /\ (Cardinality(S) = Cardinality(Under(x)) => S = Under(x))
    BY <1>1, FS_Subset
  <2>2. x \notin Under(x)
    BY DEF Orders
  <2>3. Cardinality(Under(x)) \in Nat
    BY <2>1, FS_CardinalityType
  <2> QED
    BY <1>1, <2>1, <2>2, <2>3
<1>3. ASSUME NEW x \in S, NEW y \in S, <<x, y>> \in R
      PROVE  Cardinality(Under(x)) < Cardinality(Under(y))
  <2>1. Under(x) \in SUBSET Under(y) /\ x \in Under(y) /\ x \notin Under(x)
    BY <1>3 DEF Orders
  <2>2. Cardinality(Under(x)) <= Cardinality(Under(y))
        /\ (Cardinality(Under(y)) = Cardinality(Under(x)) => Under(y) = Under(x))
    BY <1>2, <2>1, FS_Subset
  <2>3. Cardinality(Under(x)) \in Nat /\ Cardinality(Under(y)) \in Nat
    BY <1>2, FS_CardinalityType
  <2> QED
    BY <2>1, <2>2, <2>3
<1>4. PICK rank \in [S -> 0..(n - 1)] : \A x \in S : rank[x] = Cardinality(Under(x))
  <2> DEFINE f == [x \in S |-> Cardinality(Under(x))]
  <2>1. f \in [S -> 0..(n - 1)] /\ \A x \in S : f[x] = Cardinality(Under(x))
    BY <1>2
  <2> QED
    BY <2>1
<1> HIDE DEF Under
<1>5. /\ \A x, y \in S : rank[x] = rank[y] => x = y
      /\ \A x, y \in S : rank[x] < rank[y] => <<x, y>> \in R
      /\ \A i \in 0..(n - 1) : \E x \in S : rank[x] = i
  <2>1. \A x, y \in S : <<x, y>> \in R => rank[x] < rank[y]
    BY <1>3, <1>4
  <2>2. \A x \in S : rank[x] \in Int
    OBVIOUS
  <2>3. ASSUME NEW x \in S, NEW y \in S, rank[x] = rank[y], x # y
        PROVE  FALSE
    <3>1. rank[x] \in Int /\ rank[y] \in Int
      BY <2>2
    <3>2. <<x, y>> \in R \/ <<y, x>> \in R
      BY <2>3 DEF Orders
    <3>3. rank[x] < rank[y] \/ rank[y] < rank[x]
      BY <2>1, <3>2
    <3> QED
      BY <2>3, <3>1, <3>3
  <2>4. ASSUME NEW x \in S, NEW y \in S, rank[x] < rank[y]
        PROVE  <<x, y>> \in R
    <3>1. rank[x] \in Int /\ rank[y] \in Int
      BY <2>2
    <3>2. x # y
      BY <2>4, <3>1
    <3>3. CASE <<y, x>> \in R
      <4>1. rank[y] < rank[x]
        BY <2>1, <3>3
      <4> QED
        BY <2>4, <3>1, <4>1
    <3> QED
      BY <3>2, <3>3 DEF Orders
  <2>5. rank \in Injection(S, 0..(n - 1))
    BY <2>3 DEF Injection, IsInjective
  <2>6. IsFiniteSet(0..(n - 1)) /\ Cardinality(0..(n - 1)) = n
    BY Initial
  <2>7. rank \in Surjection(S, 0..(n - 1))
    BY <1>1, <2>5, <2>6, FS_Injection
  <2> QED
    BY <2>3, <2>4, <2>7 DEF Surjection
<1>6. \A i \in 1..n : (\E x \in S : Cardinality(Under(x)) = i - 1) =>
                        s[i] \in S /\ Cardinality(Under(s[i])) = i - 1
  BY <1>1 DEF Under, PlacedBy
<1>7. ASSUME NEW i \in 1..n
      PROVE  s[i] \in S /\ Cardinality(Under(s[i])) = i - 1 /\ rank[s[i]] = i - 1
  <2>1. \E x \in S : Cardinality(Under(x)) = i - 1
    <3>1. i - 1 \in 0..(n - 1)
      OBVIOUS
    <3> QED
      BY <1>4, <1>5, <3>1
  <2>2. s[i] \in S /\ Cardinality(Under(s[i])) = i - 1
    BY <1>6, <2>1
  <2> QED
    BY <1>4, <2>2
<1>8. s \in Seq(S) /\ Len(s) = n
  <2>1. s \in [1..n -> S]
    <3>1. s = [i \in 1..n |-> s[i]]
      BY <1>1 DEF PlacedBy
    <3> QED
      BY <1>7, <3>1
  <2> QED
    BY <2>1, FromFunction
<1>9. ASSUME NEW x \in S PROVE \E i \in 1..n : s[i] = x
  <2>1. rank[x] + 1 \in 1..n /\ (rank[x] + 1) - 1 = rank[x]
    OBVIOUS
  <2>2. s[rank[x] + 1] \in S /\ rank[s[rank[x] + 1]] = rank[x]
    BY <1>7, <2>1
  <2> QED
    BY <1>5, <2>1, <2>2
<1>10. ASSUME NEW i \in 1..n, NEW j \in 1..n, i < j PROVE <<s[i], s[j]>> \in R
  <2>1. s[i] \in S /\ s[j] \in S /\ rank[s[i]] = i - 1 /\ rank[s[j]] = j - 1
    BY <1>7
  <2>2. rank[s[i]] < rank[s[j]]
    BY <1>10, <2>1
  <2> QED
    BY <2>1, <2>2, <1>5
<1> QED
  BY <1>1, <1>7, <1>8, <1>9, <1>10 DEF Under, Lists

\* Sorted lists a finite set in any strict total order.
LEMMA SortedLists ==
  ASSUME NEW S, IsFiniteSet(S), NEW R, Orders(R, S)
  PROVE  Lists(Sorted(S, R), S, R)
<1> DEFINE s == Sorted(S, R)
<1>1. s = [i \in 1..Cardinality(S) |->
             CHOOSE x \in S : Cardinality({y \in S : <<y, x>> \in R}) = i - 1]
  BY Zenon DEF Sorted
<1>2. s = [i \in 1..Cardinality(S) |-> s[i]]
  BY <1>1, Zenon
<1>3. ASSUME NEW i \in 1..Cardinality(S),
             NEW x \in S, Cardinality({y \in S : <<y, x>> \in R}) = i - 1
      PROVE  s[i] \in S /\ Cardinality({y \in S : <<y, s[i]>> \in R}) = i - 1
  <2>1. s[i] = CHOOSE u \in S : Cardinality({y \in S : <<y, u>> \in R}) = i - 1
    BY <1>1, Zenon
  <2> QED
    BY <1>3, <2>1, Zenon
<1> HIDE DEF s
<1>4. PlacedBy(s, S, R)
  BY <1>2, <1>3, Zenon DEF PlacedBy
<1>5. Lists(s, S, R)
  BY <1>4, Enumeration
<1> QED
  BY <1>5 DEF s

\* The first elements of a sequence.
LEMMA TakeIs ==
  ASSUME NEW S, NEW s \in Seq(S), NEW n \in Nat
  PROVE  /\ Take2(s, n) \in Seq(S)
         /\ Len(Take2(s, n)) = IF n < Len(s) THEN n ELSE Len(s)
         /\ DOMAIN Take2(s, n) = 1..Len(Take2(s, n))
         /\ \A i \in 1..Len(Take2(s, n)) : Take2(s, n)[i] = s[i]
<1> DEFINE m == IF n < Len(s) THEN n ELSE Len(s)
<1>1. m \in Nat /\ m <= Len(s)
  OBVIOUS
<1>2. \A i \in 1..m : s[i] \in S
  BY <1>1
<1> HIDE DEF m
<1>3. SubSeq(s, 1, m) \in Seq(S) /\ Len(SubSeq(s, 1, m)) = m
      /\ \A i \in 1..m : SubSeq(s, 1, m)[i] = s[i]
  BY <1>1, <1>2
<1>4. Take2(s, n) = SubSeq(s, 1, m)
  BY Zenon DEF Take2, m
<1> QED
  BY <1>3, <1>4 DEF m

\* The places of a set of numbers, in order.
LEMMA AscendingLists ==
  ASSUME NEW n \in Nat, NEW S \in SUBSET (1..n)
  PROVE  /\ IsFiniteSet(S) /\ Cardinality(S) \in Nat
         /\ \A i \in 1..Cardinality(S) : Ascending(S)[i] \in S
         /\ \A x \in S : \E i \in 1..Cardinality(S) : Ascending(S)[i] = x
         /\ \A i, j \in 1..Cardinality(S) : i < j => Ascending(S)[i] < Ascending(S)[j]
<1> DEFINE R == {p \in S \X S : p[1] < p[2]}
<1>1. IsFiniteSet(S)
  BY FinitePart
<1>2. \A x, y \in S : <<x, y>> \in R <=> x < y
  OBVIOUS
<1>3. \A x \in S : x \in Int
  OBVIOUS
<1>4. Ascending(S) = Sorted(S, R)
  BY Zenon DEF Ascending
<1> HIDE DEF R
<1>5. Orders(R, S)
  BY <1>2, <1>3 DEF Orders
<1>6. Lists(Ascending(S), S, R)
  BY <1>1, <1>4, <1>5, SortedLists
<1> QED
  BY <1>1, <1>2, <1>6 DEF Lists

\* Some members of a sequence, in order: each comes from a place of its own,
\* later ones from later places.
LEMMA PickedIs ==
  ASSUME NEW n \in Nat, NEW S \in SUBSET (1..n), NEW s
  PROVE  LET t == Picked(s, S)
             at == Ascending(S)
         IN  /\ Cardinality(S) \in Nat /\ Len(t) = Cardinality(S)
             /\ DOMAIN t = 1..Cardinality(S)
             /\ \A i \in 1..Cardinality(S) : at[i] \in S /\ t[i] = s[at[i]]
             /\ \A x \in S : \E i \in 1..Cardinality(S) : at[i] = x
             /\ \A i, j \in 1..Cardinality(S) : i < j => at[i] < at[j]
<1>1. Cardinality(S) \in Nat
  BY AscendingLists
<1>2. Picked(s, S) = [i \in 1..Cardinality(S) |-> s[Ascending(S)[i]]]
  BY Zenon DEF Picked
<1>3. Len(Picked(s, S)) = Cardinality(S) /\ DOMAIN Picked(s, S) = 1..Cardinality(S)
      /\ \A i \in 1..Cardinality(S) : Picked(s, S)[i] = s[Ascending(S)[i]]
  BY <1>1, <1>2
<1> QED
  BY <1>1, <1>3, AscendingLists

(***************************************************************************)
(* Sources ranked by their best chunk                                      *)
(***************************************************************************)

RankedRow == [uuid : Nat, score : Int]

\* The best of a set of scores is the one that none beats.
LEMMA BestIs ==
  ASSUME NEW highest \in BOOLEAN, NEW S \in SUBSET Int, NEW x \in S,
         \A y \in S : ~Beats(highest, y, x)
  PROVE  Best(highest, S) = x
<1>1. CASE highest
  <2>1. \A y \in S : x >= y
    BY <1>1 DEF Beats
  <2>2. Max(S) \in S /\ \A y \in S : Max(S) >= y
    BY <2>1 DEF Max
  <2>3. Max(S) = x
    <3>1. Max(S) \in Int /\ x \in Int /\ Max(S) >= x /\ x >= Max(S)
      BY <2>1, <2>2
    <3> QED
      BY <3>1
  <2> QED
    BY <1>1, <2>3 DEF Best
<1>2. CASE ~highest
  <2>1. \A y \in S : x <= y
    BY <1>2 DEF Beats
  <2>2. Min(S) \in S /\ \A y \in S : Min(S) <= y
    BY <2>1 DEF Min
  <2>3. Min(S) = x
    <3>1. Min(S) \in Int /\ x \in Int /\ Min(S) <= x /\ x <= Min(S)
      BY <2>1, <2>2
    <3> QED
      BY <3>1
  <2> QED
    BY <1>2, <2>3 DEF Best
<1> QED
  BY <1>1, <1>2

\* The least of a set of places.
LEMMA LeastPlace ==
  ASSUME NEW n \in Nat, NEW J \in SUBSET (1..n), J # {}
  PROVE  Min(J) \in J /\ \A j \in J : Min(J) <= j
<1>1. J \in SUBSET Nat
  OBVIOUS
<1>2. \E x \in J : \A y \in J : x <= y
  BY <1>1, LeastNumber
<1> QED
  BY <1>2 DEF Min

\* No later row beats an earlier one.
Falling(rows, highest) ==
  \A a, b \in 1..Len(rows) : a < b => ~Beats(highest, rows[b].score, rows[a].score)

\* So among some rows the first has the best score.
LEMMA FirstIsBest ==
  ASSUME NEW rows \in Seq(RankedRow), NEW highest \in BOOLEAN, Falling(rows, highest),
         NEW J \in SUBSET (1..Len(rows)), J # {}
  PROVE  Best(highest, {rows[j].score : j \in J}) = rows[Min(J)].score
<1>1. Min(J) \in J /\ \A j \in J : Min(J) <= j
  <2>1. Len(rows) \in Nat
    OBVIOUS
  <2> QED
    BY <2>1, LeastPlace
<1>2. ASSUME NEW j \in 1..Len(rows) PROVE rows[j].score \in Int
  <2>1. rows[j] \in RankedRow
    OBVIOUS
  <2> QED
    BY <2>1 DEF RankedRow
<1> DEFINE S == {rows[j].score : j \in J}
<1>3. S \in SUBSET Int /\ rows[Min(J)].score \in S
  BY <1>1, <1>2
<1>4. ASSUME NEW j \in J PROVE ~Beats(highest, rows[j].score, rows[Min(J)].score)
  <2>1. CASE j = Min(J)
    <3>1. rows[j].score \in Int
      BY <1>2
    <3> QED
      BY <2>1, <3>1 DEF Beats
  <2>2. CASE j # Min(J)
    <3>1. Min(J) \in 1..Len(rows) /\ j \in 1..Len(rows) /\ Min(J) <= j
      BY <1>1
    <3>2. Min(J) < j
      BY <2>2, <3>1
    <3> QED
      BY <3>1, <3>2 DEF Falling
  <2> QED
    BY <2>1, <2>2
<1>5. \A y \in S : ~Beats(highest, y, rows[Min(J)].score)
  BY <1>4
<1> HIDE DEF S
<1>6. Best(highest, S) = rows[Min(J)].score
  BY <1>3, <1>5, BestIs
<1> QED
  BY <1>6 DEF S

\* The rows of a source.
RowsFor(rows, csm, s) ==
  {j \in 1..Len(rows) : rows[j].uuid \in DOMAIN csm /\ csm[rows[j].uuid] = s}

\* What the first n rows say of the sources: those that have a row among them, each with the
\* score of its first row of all.
Grouped(f, rows, csm, n) ==
  /\ \A s : s \in DOMAIN f <=> \E j \in RowsFor(rows, csm, s) : j <= n
  /\ \A s \in DOMAIN f : RowsFor(rows, csm, s) # {}
  /\ \A s \in DOMAIN f : Min(RowsFor(rows, csm, s)) \in 1..n
  /\ \A s \in DOMAIN f : f[s] = rows[Min(RowsFor(rows, csm, s))].score
LEMMA BySourceIs ==
  ASSUME NEW rows \in Seq(RankedRow), NEW highest \in BOOLEAN, Falling(rows, highest),
         NEW csm, NEW n \in Nat
  PROVE  Grouped(by_source(Take2(rows, n), csm, highest), rows, csm, n)
<1> DEFINE M == Take2(rows, n)
           f == by_source(M, csm, highest)
           Among(s) == {j \in RowsFor(rows, csm, s) : j <= n}
<1>1. /\ M \in Seq(RankedRow)
      /\ Len(M) = IF n < Len(rows) THEN n ELSE Len(rows)
      /\ DOMAIN M = 1..Len(M)
      /\ \A i \in 1..Len(M) : M[i] = rows[i]
  BY TakeIs
<1> HIDE DEF M
<1>2. ASSUME NEW s PROVE {j \in {i \in DOMAIN M : M[i].uuid \in DOMAIN csm} : csm[M[j].uuid] = s} = Among(s)
  <2>1. \A j : j \in DOMAIN M <=> j \in 1..Len(rows) /\ j <= n
    BY <1>1
  <2>2. \A j \in DOMAIN M : M[j] = rows[j]
    BY <1>1
  <2> QED
    BY <2>1, <2>2, Zenon DEF RowsFor
<1>3. DOMAIN f = {csm[M[i].uuid] : i \in {j \in DOMAIN M : M[j].uuid \in DOMAIN csm}}
  BY Zenon DEF by_source
<1>4. ASSUME NEW s PROVE s \in DOMAIN f <=> Among(s) # {}
  BY <1>2, <1>3, Zenon
<1>5. ASSUME NEW s \in DOMAIN f PROVE f[s] = Best(highest, {M[i].score : i \in Among(s)})
  <2> DEFINE A == {j \in {i \in DOMAIN M : M[i].uuid \in DOMAIN csm} : csm[M[j].uuid] = s}
  <2>1. f[s] = IF highest THEN Max({M[i].score : i \in A}) ELSE Min({M[i].score : i \in A})
    BY <1>3, Zenon DEF by_source
  <2>2. A = Among(s)
    BY <1>2
  <2> HIDE DEF A
  <2> QED
    BY <2>1, <2>2, Zenon DEF Best
<1>6. ASSUME NEW s, Among(s) # {}
      PROVE  /\ RowsFor(rows, csm, s) # {} /\ Min(RowsFor(rows, csm, s)) \in 1..n
             /\ Best(highest, {M[i].score : i \in Among(s)}) = rows[Min(RowsFor(rows, csm, s))].score
  <2> DEFINE A == Among(s)
             J == RowsFor(rows, csm, s)
  <2>1. J \in SUBSET (1..Len(rows)) /\ A \in SUBSET J /\ \A j \in J : j \in A <=> j <= n
    BY DEF RowsFor
  <2>2. Len(rows) \in Nat /\ J # {} /\ A # {} /\ A \in SUBSET (1..Len(rows))
    BY <1>6, <2>1
  <2> HIDE DEF A, J
  <2>3. Min(J) \in J /\ (\A j \in J : Min(J) <= j) /\ Min(A) \in A /\ \A j \in A : Min(A) <= j
    BY <2>1, <2>2, LeastPlace
  <2>4. \A j \in J : j \in Nat
    BY <2>1
  <2>5. Min(J) <= Min(A) /\ Min(A) <= n /\ Min(J) \in Nat /\ Min(A) \in Nat
    BY <2>1, <2>3, <2>4
  <2>6. Min(J) <= n
    BY <2>5
  <2>7. Min(J) \in A
    BY <2>1, <2>3, <2>6
  <2>8. Min(A) = Min(J)
    BY <2>3, <2>5, <2>7
  <2>9. {M[i].score : i \in A} = {rows[i].score : i \in A}
    <3>1. ASSUME NEW i \in A PROVE M[i] = rows[i]
      <4>1. i \in 1..Len(rows) /\ i <= n
        BY <2>1, <2>2
      <4>2. i \in 1..Len(M)
        BY <1>1, <4>1
      <4> QED
        BY <1>1, <4>2
    <3> QED
      BY <3>1
  <2>10. Best(highest, {rows[i].score : i \in A}) = rows[Min(A)].score
    BY <2>2, FirstIsBest
  <2>11. Min(J) \in 1..n
    <3>1. Min(J) \in 1..Len(rows)
      BY <2>1, <2>3
    <3> QED
      BY <2>2, <2>6, <3>1
  <2> QED
    BY <2>2, <2>8, <2>9, <2>10, <2>11 DEF A, J
<1> HIDE DEF f
<1>7. \A s : s \in DOMAIN f <=> \E j \in RowsFor(rows, csm, s) : j <= n
  BY <1>4, Zenon
<1>8. Grouped(f, rows, csm, n)
  BY <1>4, <1>5, <1>6, <1>7, Zenon DEF Grouped
<1> QED
  BY <1>8 DEF f, M

\* A function with finitely many arguments has as many pairs.
PairsOf(f) == {<<s, f[s]>> : s \in DOMAIN f}
LEMMA PairsAreFinite ==
  ASSUME NEW f, IsFiniteSet(DOMAIN f)
  PROVE  IsFiniteSet(PairsOf(f)) /\ Cardinality(PairsOf(f)) = Cardinality(DOMAIN f)
<1> DEFINE g == [s \in DOMAIN f |-> <<s, f[s]>>]
<1>1. g \in [DOMAIN f -> PairsOf(f)] /\ \A s \in DOMAIN f : g[s] = <<s, f[s]>>
  BY DEF PairsOf
<1>2. \A p \in PairsOf(f) : \E s \in DOMAIN f : g[s] = p
  BY <1>1 DEF PairsOf
<1>3. \A s, t \in DOMAIN f : g[s] = g[t] => s = t
  BY <1>1
<1> HIDE DEF g
<1>4. g \in Bijection(DOMAIN f, PairsOf(f))
  BY <1>1, <1>2, <1>3 DEF Bijection, Injection, Surjection, IsInjective
<1>5. ExistsBijection(DOMAIN f, PairsOf(f))
  BY <1>4 DEF ExistsBijection
<1> QED
  BY <1>5, FS_Bijection

\* The sources of some rows are finitely many.
LEMMA SourcesAreFinite ==
  ASSUME NEW rows \in Seq(RankedRow), NEW csm, NEW n \in Nat, NEW f, Grouped(f, rows, csm, n)
  PROVE  IsFiniteSet(DOMAIN f)
<1> DEFINE g == [s \in DOMAIN f |-> Min(RowsFor(rows, csm, s))]
<1>1. g \in [DOMAIN f -> 1..n]
  BY Zenon DEF Grouped
<1>2. ASSUME NEW s \in DOMAIN f, NEW t \in DOMAIN f, g[s] = g[t] PROVE s = t
  <2>1. ASSUME NEW u \in DOMAIN f PROVE csm[rows[g[u]].uuid] = u
    <3>1. RowsFor(rows, csm, u) # {} /\ RowsFor(rows, csm, u) \in SUBSET (1..Len(rows))
      BY Zenon DEF Grouped, RowsFor
    <3>2. Len(rows) \in Nat
      OBVIOUS
    <3>3. g[u] \in RowsFor(rows, csm, u)
      BY <3>1, <3>2, LeastPlace
    <3> QED
      BY <3>3, Zenon DEF RowsFor
  <2> QED
    BY <1>2, <2>1, Zenon
<1> HIDE DEF g
<1>3. g \in Injection(DOMAIN f, 1..n)
  BY <1>1, <1>2, Zenon DEF Injection, IsInjective
<1>4. IsFiniteSet(1..n)
  BY FS_Interval
<1> QED
  BY <1>3, <1>4, FS_Injection

\* Sources are put in a total order: by score, then by id.
LEMMA SourcesAreOrdered ==
  ASSUME NEW f, NEW highest \in BOOLEAN, DOMAIN f \in SUBSET Int, \A s \in DOMAIN f : f[s] \in Int
  PROVE  /\ Orders(InSourceOrder(PairsOf(f), highest), PairsOf(f))
         /\ \A p, q \in PairsOf(f) :
              <<p, q>> \in InSourceOrder(PairsOf(f), highest) =>
                p[1] # q[1] /\ ~Beats(highest, q[2], p[2])
<1> DEFINE P == PairsOf(f)
           R == InSourceOrder(P, highest)
           Before(p, q) == \/ Beats(highest, p[2], q[2])
                           \/ p[2] = q[2] /\ p[1] < q[1]
<1>1. \A p \in P : p[1] \in DOMAIN f /\ p[1] \in Int /\ p[2] \in Int /\ p[2] = f[p[1]]
                   /\ p = <<p[1], p[2]>>
  BY DEF PairsOf
<1>2. \A p, q \in P : <<p, q>> \in R <=> Before(p, q)
  BY Zenon DEF InSourceOrder, Beats
<1>3. \A p, q \in P : p[1] = q[1] => p = q
  BY <1>1, ZenonT(60)
<1> HIDE DEF P, R
<1>4. CASE highest
  <2>1. \A p, q \in P : Before(p, q) <=> (p[2] > q[2] \/ (p[2] = q[2] /\ p[1] < q[1]))
    BY <1>4 DEF Beats
  <2>2. \A p \in P : ~Before(p, p)
    BY <1>1, <2>1
  <2>3. \A p, q \in P : p # q => Before(p, q) \/ Before(q, p)
    BY <1>1, <1>3, <2>1
  <2>4. \A p, q, r \in P : Before(p, q) /\ Before(q, r) => Before(p, r)
    BY <1>1, <2>1
  <2>5. \A p, q \in P : Before(p, q) => p[1] # q[1] /\ ~Beats(highest, q[2], p[2])
    BY <1>1, <1>3, <1>4, <2>1, <2>2 DEF Beats
  <2> HIDE DEF Before
  <2> QED
    BY <1>2, <2>2, <2>3, <2>4, <2>5 DEF P, R, Orders
<1>5. CASE ~highest
  <2>1. \A p, q \in P : Before(p, q) <=> (p[2] < q[2] \/ (p[2] = q[2] /\ p[1] < q[1]))
    BY <1>5 DEF Beats
  <2>2. \A p \in P : ~Before(p, p)
    BY <1>1, <2>1
  <2>3. \A p, q \in P : p # q => Before(p, q) \/ Before(q, p)
    BY <1>1, <1>3, <2>1
  <2>4. \A p, q, r \in P : Before(p, q) /\ Before(q, r) => Before(p, r)
    BY <1>1, <2>1
  <2>5. \A p, q \in P : Before(p, q) => p[1] # q[1] /\ ~Beats(highest, q[2], p[2])
    BY <1>1, <1>3, <1>5, <2>1, <2>2 DEF Beats
  <2> HIDE DEF Before
  <2> QED
    BY <1>2, <2>2, <2>3, <2>4, <2>5 DEF P, R, Orders
<1> QED
  BY <1>4, <1>5

\* RanksSources, of rows in the order a lane has them.
SourcesIn(rows, csm) ==
  {csm[rows[j].uuid] : j \in {m \in 1..Len(rows) : rows[m].uuid \in DOMAIN csm}}
ScoresIn(rows, csm, s) == {rows[j].score : j \in RowsFor(rows, csm, s)}
RanksRows(rows, csm, limit, out, highest) ==
  /\ \A a \in DOMAIN out :
       /\ out[a][1] \in SourcesIn(rows, csm)
       /\ out[a][2] = Best(highest, ScoresIn(rows, csm, out[a][1]))
       /\ \A b \in 1..(a - 1) :
            out[b][1] # out[a][1] /\ ~Beats(highest, out[a][2], out[b][2])
  /\ \A s \in SourcesIn(rows, csm) \ {out[a][1] : a \in DOMAIN out} :
       out # <<>> =>
         ~Beats(highest, Best(highest, ScoresIn(rows, csm, s)), out[Len(out)][2])
  /\ Len(rows) <= limit * Overfetch =>
       Len(out) = Min({limit, Cardinality(SourcesIn(rows, csm))})

\* The lesser of a limit and a count.
LEMMA Lesser ==
  ASSUME NEW n \in Nat, NEW m \in Nat
  PROVE  Min({n, m}) = IF n < m THEN n ELSE m
<1>1. \E x \in {n, m} : \A y \in {n, m} : x <= y
  OBVIOUS
<1>2. Min({n, m}) \in {n, m} /\ \A y \in {n, m} : Min({n, m}) <= y
  BY <1>1 DEF Min
<1> QED
  BY <1>2

\* The list of grouped scores, cut to the limit, ranks the sources of all the rows: what was
\* cut before the grouping scores no better than anything kept.
LEMMA RankedIs ==
  ASSUME NEW rows \in Seq(RankedRow), NEW highest \in BOOLEAN, Falling(rows, highest),
         NEW csm, \A u \in DOMAIN csm : csm[u] \in Nat, NEW limit \in Nat,
         NEW n \in Nat, n = limit * Overfetch,
         NEW f, Grouped(f, rows, csm, n)
  PROVE  /\ RanksRows(rows, csm, limit, ranked_sources(f, limit, highest), highest)
         /\ limit > 0 /\ DOMAIN f # {} => ranked_sources(f, limit, highest) # <<>>
<1> DEFINE P == PairsOf(f)
           R == InSourceOrder(P, highest)
           L == Sorted(P, R)
           out == ranked_sources(f, limit, highest)
           First(s) == Min(RowsFor(rows, csm, s))
<1>1. ASSUME NEW s
      PROVE  s \in SourcesIn(rows, csm) <=> RowsFor(rows, csm, s) # {}
  BY Zenon DEF SourcesIn, RowsFor
<1>2. ASSUME NEW s \in SourcesIn(rows, csm)
      PROVE  /\ First(s) \in RowsFor(rows, csm, s) /\ First(s) \in 1..Len(rows)
             /\ \A j \in RowsFor(rows, csm, s) : First(s) <= j
             /\ Best(highest, ScoresIn(rows, csm, s)) = rows[First(s)].score
             /\ rows[First(s)].score \in Int /\ s \in Nat
  <2>1. RowsFor(rows, csm, s) # {} /\ RowsFor(rows, csm, s) \in SUBSET (1..Len(rows))
    BY <1>1, Zenon DEF RowsFor
  <2>2. First(s) \in RowsFor(rows, csm, s) /\ \A j \in RowsFor(rows, csm, s) : First(s) <= j
    <3>1. Len(rows) \in Nat
      OBVIOUS
    <3> QED
      BY <2>1, <3>1, LeastPlace
  <2>3. Best(highest, ScoresIn(rows, csm, s)) = rows[First(s)].score
    BY <2>1, FirstIsBest DEF ScoresIn
  <2>4. First(s) \in 1..Len(rows) /\ s \in Nat
    BY <2>1, <2>2, Zenon DEF RowsFor
  <2>5. rows[First(s)] \in RankedRow
    BY <2>4
  <2> QED
    BY <2>2, <2>3, <2>4, <2>5 DEF RankedRow
<1> HIDE DEF First
<1>3. /\ \A s \in DOMAIN f : s \in SourcesIn(rows, csm) /\ First(s) \in 1..n
                             /\ f[s] = rows[First(s)].score
      /\ \A s : s \in DOMAIN f <=> \E j \in RowsFor(rows, csm, s) : j <= n
  BY <1>1, Zenon DEF Grouped, First
<1>4. DOMAIN f \in SUBSET Int /\ \A s \in DOMAIN f : f[s] \in Int
  BY <1>2, <1>3
<1>5. /\ IsFiniteSet(DOMAIN f) /\ IsFiniteSet(P)
      /\ Cardinality(P) = Cardinality(DOMAIN f) /\ Cardinality(DOMAIN f) \in Nat
  BY SourcesAreFinite, PairsAreFinite, FS_CardinalityType
<1>6. /\ Orders(R, P)
      /\ \A p, q \in P : <<p, q>> \in R => p[1] # q[1] /\ ~Beats(highest, q[2], p[2])
  BY <1>4, SourcesAreOrdered
<1>7. Lists(L, P, R)
  BY <1>5, <1>6, SortedLists
<1>8. out = Take2(L, limit)
  BY Zenon DEF ranked_sources, PairsOf
<1> HIDE DEF P, R, L, out
<1>9. /\ L \in Seq(P) /\ Len(L) = Cardinality(P)
      /\ \A x \in P : \E i \in 1..Len(L) : L[i] = x
      /\ \A i \in 1..Len(L) : L[i] \in P
      /\ \A i, j \in 1..Len(L) : i < j => <<L[i], L[j]>> \in R
  BY <1>7 DEF Lists
<1>10. /\ out \in Seq(P) /\ Len(out) = IF limit < Len(L) THEN limit ELSE Len(L)
       /\ DOMAIN out = 1..Len(out) /\ \A i \in 1..Len(out) : out[i] = L[i]
  BY <1>8, <1>9, TakeIs, SMTT(40)
<1>11. Len(L) \in Nat /\ Len(out) \in Nat /\ Len(out) <= Len(L)
  BY <1>9, <1>10
<1>12. \A p \in P : p[1] \in DOMAIN f /\ p[2] = f[p[1]]
  BY DEF P, PairsOf
<1>13. ASSUME NEW a \in DOMAIN out
       PROVE  /\ out[a][1] \in SourcesIn(rows, csm)
              /\ out[a][2] = Best(highest, ScoresIn(rows, csm, out[a][1]))
              /\ \A b \in 1..(a - 1) :
                   out[b][1] # out[a][1] /\ ~Beats(highest, out[a][2], out[b][2])
  <2>1. a \in 1..Len(L) /\ a \in 1..Len(out) /\ out[a] = L[a] /\ L[a] \in P
    BY <1>9, <1>10, <1>11
  <2>2. out[a][1] \in SourcesIn(rows, csm)
    BY <1>3, <1>12, <2>1
  <2>3. out[a][2] = Best(highest, ScoresIn(rows, csm, out[a][1]))
    BY <1>2, <1>3, <1>12, <2>1
  <2>4. ASSUME NEW b \in 1..(a - 1)
        PROVE  out[b][1] # out[a][1] /\ ~Beats(highest, out[a][2], out[b][2])
    <3>1. b \in 1..Len(L) /\ b \in 1..Len(out) /\ b < a
      BY <1>11, <2>1
    <3>2. out[b] = L[b] /\ L[b] \in P /\ <<L[b], L[a]>> \in R
      BY <1>9, <1>10, <2>1, <3>1
    <3> QED
      BY <1>6, <2>1, <3>2
  <2> QED
    BY <2>2, <2>3, <2>4
<1>14. ASSUME NEW s \in SourcesIn(rows, csm) \ {out[a][1] : a \in DOMAIN out}, out # <<>>
       PROVE  ~Beats(highest, Best(highest, ScoresIn(rows, csm, s)), out[Len(out)][2])
  <2> DEFINE m == Len(out)
  <2>1. m \in 1..Len(L) /\ out[m] = L[m] /\ L[m] \in P /\ m \in DOMAIN out
    <3>1. m # 0
      BY <1>10, <1>14
    <3> QED
      BY <1>9, <1>10, <1>11, <3>1
  <2>2. Best(highest, ScoresIn(rows, csm, s)) = rows[First(s)].score
    BY <1>2
  <2>3. CASE s \in DOMAIN f
    <3>1. <<s, f[s]>> \in P
      BY <2>3 DEF P, PairsOf
    <3>2. PICK c \in 1..Len(L) : L[c] = <<s, f[s]>>
      BY <1>9, <3>1
    <3>3. c > m
      <4>1. ASSUME c <= m PROVE FALSE
        <5>1. c \in DOMAIN out /\ out[c] = L[c]
          BY <1>10, <1>11, <4>1
        <5>2. out[c][1] = s
          BY <3>2, <5>1
        <5> QED
          BY <1>14, <5>1, <5>2
      <4> QED
        BY <1>11, <4>1
    <3>4. <<L[m], L[c]>> \in R
      BY <1>9, <2>1, <3>3
    <3>5. L[c][2] = f[s] /\ L[c] \in P
      BY <3>1, <3>2
    <3> QED
      BY <1>3, <1>6, <2>1, <2>2, <2>3, <3>4, <3>5
  <2>4. CASE s \notin DOMAIN f
    <3>1. First(s) \in RowsFor(rows, csm, s) /\ First(s) \in 1..Len(rows) /\ ~(First(s) <= n)
      BY <1>2, <1>3, <2>4
    <3> DEFINE t == L[m][1]
    <3>2. t \in DOMAIN f /\ L[m][2] = f[t]
      BY <1>12, <2>1
    <3>3. First(t) \in 1..n /\ f[t] = rows[First(t)].score /\ First(t) \in 1..Len(rows)
      BY <1>2, <1>3, <3>2
    <3>4. First(t) < First(s)
      BY <3>1, <3>3
    <3> HIDE DEF t
    <3>5. ~Beats(highest, rows[First(s)].score, rows[First(t)].score)
      BY <3>1, <3>3, <3>4 DEF Falling
    <3> QED
      BY <2>1, <2>2, <3>2, <3>3, <3>5
  <2> QED
    BY <2>3, <2>4
<1>15. ASSUME Len(rows) <= limit * Overfetch
       PROVE  Len(out) = Min({limit, Cardinality(SourcesIn(rows, csm))})
  <2>1. ASSUME NEW s \in SourcesIn(rows, csm) PROVE s \in DOMAIN f
    <3>1. First(s) \in RowsFor(rows, csm, s) /\ First(s) \in 1..Len(rows)
      BY <1>2
    <3>2. First(s) <= n
      BY <1>15, <3>1
    <3> QED
      BY <1>3, <3>1, <3>2
  <2>2. DOMAIN f = SourcesIn(rows, csm)
    BY <1>3, <2>1
  <2>3. Cardinality(SourcesIn(rows, csm)) \in Nat /\ Len(L) = Cardinality(SourcesIn(rows, csm))
    BY <1>5, <1>9, <2>2
  <2>4. Min({limit, Cardinality(SourcesIn(rows, csm))})
          = IF limit < Cardinality(SourcesIn(rows, csm)) THEN limit ELSE Cardinality(SourcesIn(rows, csm))
    BY <2>3, Lesser
  <2> QED
    BY <1>10, <2>3, <2>4
<1>16. RanksRows(rows, csm, limit, out, highest)
  BY <1>13, <1>14, <1>15 DEF RanksRows
<1>17. ASSUME limit > 0, DOMAIN f # {} PROVE out # <<>>
  <2>1. P # {}
    BY <1>17 DEF P, PairsOf
  <2>2. Len(L) > 0
    BY <1>9, <1>11, <2>1
  <2>3. Len(out) > 0
    BY <1>10, <1>17, <2>2
  <2> QED
    BY <1>10, <2>3
<1> QED
  BY <1>16, <1>17 DEF out

\* Nothing reported, because nothing was asked for or there is nothing to report.
LEMMA NothingRanked ==
  ASSUME NEW rows \in Seq(RankedRow), NEW csm, NEW limit \in Nat, NEW highest,
         Len(rows) <= limit * Overfetch => SourcesIn(rows, csm) = {}
  PROVE  RanksRows(rows, csm, limit, <<>>, highest)
<1>1. Len(rows) <= limit * Overfetch => 0 = Min({limit, Cardinality(SourcesIn(rows, csm))})
  <2>1. Cardinality({}) = 0
    BY FS_EmptySet
  <2>2. Min({limit, 0}) = 0
    BY Lesser
  <2> QED
    BY <2>1, <2>2
<1>2. DOMAIN <<>> = {} /\ Len(<<>>) = 0
  OBVIOUS
<1> QED
  BY <1>1, <1>2, Zenon DEF RanksRows

\* Turned around, the rows fall the other way and say the same of each source.
LEMMA ReversedRows ==
  ASSUME NEW rows \in Seq(RankedRow), Falling(rows, TRUE), NEW csm
  PROVE  LET r == Reverse(rows)
         IN  /\ r \in Seq(RankedRow) /\ Len(r) = Len(rows) /\ Falling(r, FALSE)
             /\ SourcesIn(r, csm) = SourcesIn(rows, csm)
             /\ \A s : ScoresIn(r, csm, s) = ScoresIn(rows, csm, s)
<1> DEFINE r == Reverse(rows)
           n == Len(rows)
           Back(i) == (n - i) + 1
<1>1. n \in Nat /\ r = [i \in 1..n |-> rows[Back(i)]]
  BY DEF Reverse
<1>2. \A i \in 1..n : Back(i) \in 1..n /\ Back(Back(i)) = i
  BY <1>1
<1>3. \A i \in 1..n : rows[i] \in RankedRow
  OBVIOUS
<1>4. r \in [1..n -> RankedRow] /\ \A i \in 1..n : r[i] = rows[Back(i)]
  BY <1>1, <1>2, <1>3
<1>5. r \in Seq(RankedRow) /\ Len(r) = n
  BY <1>1, <1>4, FromFunction
<1> HIDE DEF r
<1>6. Falling(r, FALSE)
  <2> SUFFICES ASSUME NEW a \in 1..n, NEW b \in 1..n, a < b
               PROVE  ~(r[b].score < r[a].score)
    BY <1>5 DEF Falling, Beats
  <2>1. Back(b) < Back(a) /\ Back(a) \in 1..n /\ Back(b) \in 1..n
    BY <1>1, <1>2
  <2>2. ~(rows[Back(a)].score > rows[Back(b)].score)
    BY <2>1 DEF Falling, Beats
  <2>3. rows[Back(a)].score \in Int /\ rows[Back(b)].score \in Int
    BY <1>3, <2>1 DEF RankedRow
  <2> QED
    BY <1>4, <2>2, <2>3
<1> HIDE DEF Back, n
<1>7. SourcesIn(r, csm) = SourcesIn(rows, csm)
  BY <1>2, <1>4, <1>5 DEF SourcesIn, n
<1>8. ASSUME NEW s PROVE ScoresIn(r, csm, s) = ScoresIn(rows, csm, s)
  BY <1>2, <1>4, <1>5 DEF ScoresIn, RowsFor, n
<1> QED
  BY <1>5, <1>6, <1>7, <1>8, Zenon DEF r, n

\* One lane: its rows cut, grouped, ordered and cut again.
LEMMA LaneRanks ==
  ASSUME NEW rows \in Seq(RankedRow), NEW highest \in BOOLEAN, Falling(rows, highest),
         NEW csm, \A u \in DOMAIN csm : csm[u] \in Nat, NEW limit \in Nat \ {0}
  PROVE  LET f == by_source(Take2(rows, limit * Overfetch), csm, highest)
         IN  /\ RanksRows(rows, csm, limit, ranked_sources(f, limit, highest), highest)
             /\ DOMAIN f # {} => ranked_sources(f, limit, highest) # <<>>
             /\ DOMAIN f = {} => RanksRows(rows, csm, limit, <<>>, highest)
<1> DEFINE n == limit * Overfetch
           f == by_source(Take2(rows, n), csm, highest)
<1>1. n \in Nat /\ limit \in Nat /\ limit > 0
  BY FusionAssumption
<1>2. n = limit * Overfetch
  OBVIOUS
<1> HIDE DEF n
<1>3. Grouped(f, rows, csm, n)
  BY <1>1, BySourceIs
<1> HIDE DEF f
<1>4. /\ RanksRows(rows, csm, limit, ranked_sources(f, limit, highest), highest)
      /\ limit > 0 /\ DOMAIN f # {} => ranked_sources(f, limit, highest) # <<>>
  BY <1>1, <1>2, <1>3, RankedIs
<1>5. ASSUME DOMAIN f = {} PROVE RanksRows(rows, csm, limit, <<>>, highest)
  <2>1. ASSUME Len(rows) <= n, NEW s \in SourcesIn(rows, csm) PROVE FALSE
    <3>1. PICK j \in 1..Len(rows) : j \in RowsFor(rows, csm, s)
      BY Zenon DEF SourcesIn, RowsFor
    <3>2. j <= n
      BY <1>1, <2>1, <3>1
    <3>3. s \in DOMAIN f
      BY <1>3, <3>1, <3>2, Zenon DEF Grouped
    <3> QED
      BY <1>5, <3>3
  <2>2. Len(rows) <= limit * Overfetch => SourcesIn(rows, csm) = {}
    BY <1>2, <2>1
  <2> QED
    BY <1>1, <2>2, NothingRanked
<1> QED
  BY <1>1, <1>4, <1>5 DEF f, n

\* The rows of a slot as RanksSources reads them.
LEMMA SlotRows ==
  ASSUME NEW i \in SourceInputs, NEW out, NEW highest
  PROVE  /\ i.slot.rows \in Seq(RankedRow) /\ Falling(i.slot.rows, TRUE)
         /\ i.limit \in Nat /\ \A u \in DOMAIN i.csm : i.csm[u] \in Nat
         /\ RanksRows(i.slot.rows, i.csm, i.limit, out, highest) => RanksSources(i, out, highest)
<1> DEFINE rows == i.slot.rows
<1>1. /\ rows \in Seq(RankedRow)
      /\ \A a, b \in DOMAIN rows : a < b => rows[a].score >= rows[b].score
      /\ \A u \in DOMAIN i.csm : i.csm[u] \in Nat
      /\ i.limit \in Nat
  BY SourceInputsAssumption, Zenon DEF RankedRow
<1>2. DOMAIN rows = 1..Len(rows)
  BY <1>1
<1>3. Falling(rows, TRUE)
  <2> SUFFICES ASSUME NEW a \in 1..Len(rows), NEW b \in 1..Len(rows), a < b
               PROVE  ~(rows[b].score > rows[a].score)
    BY DEF Falling, Beats
  <2>1. rows[a].score >= rows[b].score
    BY <1>1, <1>2
  <2>2. rows[a] \in RankedRow /\ rows[b] \in RankedRow
    BY <1>1
  <2> QED
    BY <2>1, <2>2 DEF RankedRow
<1>4. SourcesOf(i) = SourcesIn(rows, i.csm)
  BY <1>2, Zenon DEF SourcesOf, SourcesIn
<1>5. ASSUME NEW s PROVE ScoresOf(i, s) = ScoresIn(rows, i.csm, s)
  BY <1>2, Zenon DEF ScoresOf, ScoresIn, RowsFor
<1>6. RanksRows(rows, i.csm, i.limit, out, highest) => RanksSources(i, out, highest)
  BY <1>4, <1>5, ZenonT(60) DEF RanksRows, RanksSources
<1> QED
  BY <1>1, <1>3, <1>6

\* The keyword ranking by source (bm25_top_k_by_source).
LEMMA KeywordSources ==
  ASSUME NEW i \in SourceInputs
  PROVE  RanksSources(i, bm25_top_k_by_source(i.slot.rows, i.csm, i.limit), TRUE)
<1> DEFINE out == bm25_top_k_by_source(i.slot.rows, i.csm, i.limit)
           rows == i.slot.rows
<1>1. /\ rows \in Seq(RankedRow) /\ Falling(rows, TRUE)
      /\ i.limit \in Nat /\ \A u \in DOMAIN i.csm : i.csm[u] \in Nat
  BY SlotRows
<1>2. RanksRows(rows, i.csm, i.limit, out, TRUE)
  <2>1. CASE i.limit = 0
    <3>1. out = <<>>
      BY <2>1, Zenon DEF bm25_top_k_by_source
    <3>2. Len(rows) <= i.limit * Overfetch => Len(rows) = 0
      <4>1. i.limit * Overfetch = 0 /\ Len(rows) \in Nat
        BY <1>1, <2>1, FusionAssumption
      <4> QED
        BY <4>1
    <3>3. Len(rows) = 0 => SourcesIn(rows, i.csm) = {}
      BY <1>1 DEF SourcesIn
    <3>4. RanksRows(rows, i.csm, i.limit, <<>>, TRUE)
      BY <1>1, <3>2, <3>3, NothingRanked
    <3> QED
      BY <3>1, <3>4
  <2>2. CASE i.limit # 0
    <3>1. out = ranked_sources(by_source(Take2(rows, i.limit * Overfetch), i.csm, TRUE), i.limit, TRUE)
      BY <2>2, Zenon DEF bm25_top_k_by_source
    <3>2. i.limit \in Nat \ {0}
      BY <1>1, <2>2
    <3>3. RanksRows(rows, i.csm, i.limit,
                    ranked_sources(by_source(Take2(rows, i.limit * Overfetch), i.csm, TRUE),
                                   i.limit, TRUE), TRUE)
      BY <1>1, <3>2, LaneRanks
    <3> QED
      BY <3>1, <3>3, Zenon
  <2> QED
    BY <2>1, <2>2
<1> QED
  BY <1>2, SlotRows

\* The float lane of a slot by source, nearest or farthest (float_nearest_for_slot).
LEMMA FloatSources ==
  ASSUME NEW i \in SourceInputs, NEW nearest \in BOOLEAN
  PROVE  LET out == float_per_signal(<<i.slot>>, i.csm, i.limit, nearest)[1]
         IN  /\ (out.lane = "Hits") <=> (out.hits # <<>>)
             /\ i.slot.embeds = "vector" /\ ~i.slot.fails => RanksSources(i, out.hits, nearest)
<1> DEFINE out == float_per_signal(<<i.slot>>, i.csm, i.limit, nearest)[1]
           rows == i.slot.rows
           ordered == IF nearest THEN rows ELSE Reverse(rows)
           M == Take2(ordered, i.limit * Overfetch)
           f == by_source(M, i.csm, nearest)
           found == ranked_sources(f, i.limit, nearest)
<1>1. /\ rows \in Seq(RankedRow) /\ Falling(rows, TRUE)
      /\ i.limit \in Nat /\ \A u \in DOMAIN i.csm : i.csm[u] \in Nat
  BY SlotRows
<1>2. ASSUME NEW reason, reason # "Hits"
      PROVE  Dark(reason).hits = <<>> /\ Dark(reason).lane # "Hits"
  BY <1>2, Zenon DEF Dark
<1>3. out = IF i.limit = 0 THEN Dark("EmptyQuery")
            ELSE float_nearest_for_slot(i.slot, i.csm, i.limit, nearest)
  <2>1. DOMAIN <<i.slot>> = {1} /\ <<i.slot>>[1] = i.slot
    OBVIOUS
  <2> QED
    BY <2>1, Zenon DEF float_per_signal
<1>4. float_nearest_for_slot(i.slot, i.csm, i.limit, nearest) =
        IF i.slot.embeds \in {"empty", "error"} THEN Dark("UnavailableProviderOptOut")
        ELSE IF i.slot.embeds = "vocab_miss" THEN Dark("UnavailableNoVocabHit")
        ELSE IF i.slot.fails THEN Dark("StoreError")
        ELSE IF M = <<>> \/ DOMAIN f = {} THEN Dark("UnavailableNoFloatRows")
        ELSE [lane |-> "Hits", hits |-> found]
  BY Zenon DEF float_nearest_for_slot
<1>5. /\ ordered \in Seq(RankedRow) /\ Len(ordered) = Len(rows) /\ Falling(ordered, nearest)
      /\ \A u, h : RanksRows(ordered, i.csm, i.limit, u, h) => RanksSources(i, u, h)
  <2>1. ASSUME NEW u, NEW h, RanksRows(rows, i.csm, i.limit, u, h) PROVE RanksSources(i, u, h)
    BY <2>1, SlotRows
  <2>2. CASE nearest
    BY <1>1, <2>1, <2>2
  <2>3. CASE ~nearest
    <3>1. ordered = Reverse(rows)
      BY <2>3
    <3> HIDE DEF ordered
    <3>2. /\ ordered \in Seq(RankedRow) /\ Len(ordered) = Len(rows) /\ Falling(ordered, FALSE)
          /\ SourcesIn(ordered, i.csm) = SourcesIn(rows, i.csm)
          /\ \A s : ScoresIn(ordered, i.csm, s) = ScoresIn(rows, i.csm, s)
      BY <1>1, <3>1, ReversedRows, ZenonT(60)
    <3>3. ASSUME NEW u, NEW h, RanksRows(ordered, i.csm, i.limit, u, h)
          PROVE  RanksRows(rows, i.csm, i.limit, u, h)
      BY <3>2, <3>3, Zenon DEF RanksRows
    <3> QED
      BY <2>1, <2>3, <3>2, <3>3
  <2> QED
    BY <2>2, <2>3
<1> HIDE DEF ordered
<1>6. CASE i.limit = 0
  <2>1. out.hits = <<>> /\ out.lane # "Hits"
    BY <1>2, <1>3, <1>6
  <2>2. Len(ordered) <= i.limit * Overfetch => SourcesIn(ordered, i.csm) = {}
    <3>1. i.limit * Overfetch = 0 /\ Len(ordered) \in Nat
      BY <1>5, <1>6, FusionAssumption
    <3>2. Len(ordered) = 0 => SourcesIn(ordered, i.csm) = {}
      BY <1>5 DEF SourcesIn
    <3> QED
      BY <3>1, <3>2
  <2>3. RanksRows(ordered, i.csm, i.limit, <<>>, nearest)
    BY <1>1, <1>5, <2>2, NothingRanked
  <2> QED
    BY <1>5, <2>1, <2>3
<1>7. CASE i.limit # 0
  <2>1. i.limit \in Nat \ {0}
    BY <1>1, <1>7
  <2>2. /\ RanksRows(ordered, i.csm, i.limit, found, nearest)
        /\ DOMAIN f # {} => found # <<>>
        /\ DOMAIN f = {} => RanksRows(ordered, i.csm, i.limit, <<>>, nearest)
    BY <1>1, <1>5, <2>1, LaneRanks
  <2>3. M = <<>> => DOMAIN f = {}
    <3>1. DOMAIN f = {i.csm[M[a].uuid] : a \in {b \in DOMAIN M : M[b].uuid \in DOMAIN i.csm}}
      BY Zenon DEF by_source
    <3>2. M = <<>> => DOMAIN M = {}
      OBVIOUS
    <3> QED
      BY <3>1, <3>2, Zenon
  <2> HIDE DEF M, f, found
  <2>4. CASE i.slot.embeds \in {"empty", "error", "vocab_miss"} \/ i.slot.fails
    <3>1. out.hits = <<>> /\ out.lane # "Hits"
      BY <1>2, <1>3, <1>4, <1>7, <2>4
    <3> QED
      BY <2>4, <3>1
  <2>5. CASE ~(i.slot.embeds \in {"empty", "error", "vocab_miss"} \/ i.slot.fails)
    <3>1. CASE DOMAIN f = {}
      <4>1. out.hits = <<>> /\ out.lane # "Hits"
        BY <1>2, <1>3, <1>4, <1>7, <2>5, <3>1
      <4> QED
        BY <1>5, <2>2, <3>1, <4>1
    <3>2. CASE DOMAIN f # {}
      <4>1. out.hits = found /\ out.lane = "Hits"
        BY <1>3, <1>4, <1>7, <2>3, <2>5, <3>2
      <4> QED
        BY <1>5, <2>2, <3>2, <4>1
    <3> QED
      BY <3>1, <3>2
  <2> QED
    BY <2>4, <2>5
<1> QED
  BY <1>6, <1>7

(***************************************************************************)
(* The two lanes fused                                                     *)
(***************************************************************************)

\* Of two factors of one number the smaller has the larger cofactor.
LEMMA Cofactors ==
  ASSUME NEW a \in Nat, NEW b \in Nat, NEW x \in Nat, NEW y \in Nat,
         a < b, a * x = b * y, a * x > 0
  PROVE  y < x /\ y > 0
<1>1. y > 0
  <2>1. ASSUME y = 0 PROVE FALSE
    <3>1. b * y = 0
      BY <2>1
    <3> QED
      BY <3>1
  <2> QED
    BY <2>1
<1>2. ASSUME x <= y PROVE FALSE
  <2>1. PICK d \in Nat : y = x + d
    <3>1. y - x \in Nat /\ y = x + (y - x)
      BY <1>2
    <3> QED
      BY <3>1
  <2>2. PICK e \in Nat : b = a + e /\ e > 0
    <3>1. b - a \in Nat /\ b = a + (b - a) /\ b - a > 0
      OBVIOUS
    <3> QED
      BY <3>1
  <2>3. b * y = a * y + e * y
    BY <2>2
  <2>4. a * y = a * x + a * d
    BY <2>1
  <2>5. a * d \in Nat /\ a * x \in Nat /\ a * y \in Nat /\ e * y \in Nat
    OBVIOUS
  <2>6. e * y = 0
    BY <2>3, <2>4, <2>5
  <2>7. e * y > 0
    <3>1. y >= 1 /\ e >= 1
      BY <1>1, <2>2
    <3>2. PICK c \in Nat : e = c + 1
      <4>1. e - 1 \in Nat /\ e = (e - 1) + 1
        BY <3>1
      <4> QED
        BY <4>1
    <3>3. e * y = c * y + y /\ c * y \in Nat
      BY <3>2
    <3> QED
      BY <3>1, <3>3
  <2> QED
    BY <2>6, <2>7
<1> QED
  BY <1>1, <1>2

\* The quotient of an exact division.
LEMMA Quotient ==
  ASSUME NEW n \in Nat \ {0}, NEW d \in Nat \ {0}, n % d = 0
  PROVE  (n \div d) \in Nat /\ d * (n \div d) = n
<1>1. n = d * (n \div d) + (n % d) /\ (n \div d) \in Int
  OBVIOUS
<1>2. (n \div d) \in Nat
  OBVIOUS
<1> QED
  BY <1>1, <1>2

\* A better rank adds more to the score, and every rank something.
LEMMA TermFalls ==
  ASSUME NEW lane \in {"BinaryDense", "Sparse"}, NEW k \in Nat,
         \A rank \in 1..k : RankScale % (RRF_K + rank) = 0
  PROVE  /\ \A r \in 1..k : rrf_term(lane, r) \in Nat /\ rrf_term(lane, r) > 0
         /\ \A r, s \in 1..k : r < s => rrf_term(lane, r) > rrf_term(lane, s)
<1> DEFINE W == LaneWeight[lane]
           Q(r) == RankScale \div (RRF_K + r)
<1>1. W \in Nat \ {0} /\ RRF_K \in Nat \ {0} /\ RankScale \in Nat \ {0}
  BY FusionAssumption
<1>2. ASSUME NEW r \in 1..k
      PROVE  Q(r) \in Nat /\ (RRF_K + r) * Q(r) = RankScale /\ Q(r) > 0
  <2>1. RRF_K + r \in Nat \ {0} /\ RankScale % (RRF_K + r) = 0
    BY <1>1
  <2>2. Q(r) \in Nat /\ (RRF_K + r) * Q(r) = RankScale
    BY <1>1, <2>1, Quotient
  <2> HIDE DEF Q
  <2>3. ASSUME Q(r) = 0 PROVE FALSE
    <3>1. (RRF_K + r) * 0 = 0
      BY <2>1
    <3> QED
      BY <1>1, <2>2, <2>3, <3>1
  <2> QED
    BY <2>2, <2>3
<1>3. \A r : rrf_term(lane, r) = W * Q(r)
  BY Zenon DEF rrf_term
<1> HIDE DEF W, Q
<1>4. ASSUME NEW r \in 1..k, NEW s \in 1..k, r < s PROVE Q(s) < Q(r)
  <2>1. RRF_K + r \in Nat /\ RRF_K + s \in Nat /\ RRF_K + r < RRF_K + s
    BY <1>1, <1>4
  <2>2. (RRF_K + r) * Q(r) = (RRF_K + s) * Q(s) /\ (RRF_K + r) * Q(r) > 0
    BY <1>1, <1>2
  <2> QED
    BY <1>2, <2>1, <2>2, Cofactors
<1>5. ASSUME NEW x \in Nat, NEW y \in Nat, x > y PROVE W * x > W * y
  <2>1. PICK d \in Nat : x = y + d /\ d > 0
    <3>1. x - y \in Nat /\ x = y + (x - y) /\ x - y > 0
      BY <1>5
    <3> QED
      BY <3>1
  <2>2. W * x = W * y + W * d
    BY <1>1, <2>1
  <2>3. PICK w \in Nat : W = w + 1
    <3>1. W - 1 \in Nat /\ W = (W - 1) + 1
      BY <1>1
    <3> QED
      BY <3>1
  <2>4. W * d = w * d + d /\ w * d \in Nat /\ W * y \in Nat
    BY <1>1, <2>3
  <2> QED
    BY <2>1, <2>2, <2>4
<1>6. ASSUME NEW r \in 1..k PROVE W * Q(r) \in Nat /\ W * Q(r) > 0
  <2>1. W * Q(r) > W * 0
    BY <1>2, <1>5
  <2> QED
    BY <1>1, <1>2, <2>1
<1>7. ASSUME NEW r \in 1..k, NEW s \in 1..k, r < s PROVE W * Q(r) > W * Q(s)
  BY <1>2, <1>4, <1>5, <1>7
<1> QED
  BY <1>3, <1>6, <1>7

\* The chunks a lane's hits name.
KnownIn(hits) == {Uuid(hits[j]) : j \in DOMAIN hits} \ {Missing}
HitsAt(hits, u) == {j \in DOMAIN hits : Uuid(hits[j]) = u}

\* A lane's list: the known hits in order, by their canonical ids, with rising ranks.
IsLane(list, hits, k) ==
  LET n == Cardinality(KnownAt(hits))
  IN  /\ n \in Nat /\ DOMAIN list = 1..n
      /\ \A a \in 1..n : list[a][1] = Canonical(hits[Ascending(KnownAt(hits))[a]])
      /\ \A a \in 1..n : list[a][2] \in 1..k
      /\ \A a, b \in 1..n : a < b => list[a][2] < list[b][2]

\* The vector lane: a hit that is no UUID leaves a gap in the ranks.
LEMMA VectorLane ==
  ASSUME NEW hits \in Seq(IdTexts), NEW k \in Nat, Len(hits) <= k
  PROVE  IsLane(vector_ranked(hits), hits, k)
<1>1. KnownAt(hits) \in SUBSET (1..Len(hits)) /\ Len(hits) \in Nat /\ DOMAIN hits = 1..Len(hits)
  <2>1. KnownAt(hits) \in SUBSET (DOMAIN hits)
    BY Zenon DEF KnownAt
  <2> QED
    BY <2>1
<1> DEFINE S == KnownAt(hits)
           n == Cardinality(S)
           s == [i \in DOMAIN hits |-> <<Canonical(hits[i]), i>>]
           t == Picked(s, S)
<1>0. S \in SUBSET (1..Len(hits))
  BY <1>1, Zenon
<1> HIDE DEF s, S
<1>2. /\ n \in Nat /\ DOMAIN t = 1..n
      /\ \A i \in 1..n : Ascending(S)[i] \in S /\ t[i] = s[Ascending(S)[i]]
      /\ \A i, j \in 1..n : i < j => Ascending(S)[i] < Ascending(S)[j]
  BY <1>0, <1>1, PickedIs, ZenonT(60)
<1>3. vector_ranked(hits) = t
  BY Zenon DEF vector_ranked, s, S
<1> HIDE DEF t
<1>4. ASSUME NEW a \in 1..n
      PROVE  /\ t[a][1] = Canonical(hits[Ascending(S)[a]])
             /\ t[a][2] = Ascending(S)[a] /\ Ascending(S)[a] \in 1..Len(hits)
  <2>1. Ascending(S)[a] \in DOMAIN hits
    BY <1>0, <1>1, <1>2
  <2>2. t[a] = <<Canonical(hits[Ascending(S)[a]]), Ascending(S)[a]>>
    BY <1>2, <2>1 DEF s
  <2> QED
    BY <1>0, <1>1, <2>1, <2>2
<1> HIDE DEF n
<1>5. \A a \in 1..n : t[a][2] \in 1..k
  BY <1>1, <1>4
<1> QED
  BY <1>2, <1>3, <1>4, <1>5, Zenon DEF IsLane, S, n

\* The keyword lane: the known hits are counted.
LEMMA KeywordLane ==
  ASSUME NEW hits \in Seq(IdTexts), NEW k \in Nat, Len(hits) <= k
  PROVE  IsLane(keyword_ranked(hits), hits, k)
<1>1. KnownAt(hits) \in SUBSET (1..Len(hits)) /\ Len(hits) \in Nat /\ DOMAIN hits = 1..Len(hits)
  <2>1. KnownAt(hits) \in SUBSET (DOMAIN hits)
    BY Zenon DEF KnownAt
  <2> QED
    BY <2>1
<1> DEFINE S == KnownAt(hits)
           n == Cardinality(S)
           t == Picked(hits, S)
           list == [i \in DOMAIN t |-> <<Canonical(t[i]), i>>]
<1>2. /\ n \in Nat /\ DOMAIN t = 1..n
      /\ \A i \in 1..n : Ascending(S)[i] \in S /\ t[i] = hits[Ascending(S)[i]]
  BY <1>1, PickedIs, ZenonT(60)
<1>3. n <= Len(hits)
  <2>1. IsFiniteSet(1..Len(hits)) /\ Cardinality(1..Len(hits)) = Len(hits)
    BY <1>1, Counted
  <2> QED
    BY <1>1, <2>1, FS_Subset
<1>4. keyword_ranked(hits) = list
  BY Zenon DEF keyword_ranked
<1> HIDE DEF t
<1>5. ASSUME NEW a \in 1..n
      PROVE  list[a][1] = Canonical(hits[Ascending(S)[a]]) /\ list[a][2] = a
  BY <1>2
<1>6. DOMAIN list = 1..n
  BY <1>2
<1> HIDE DEF S, n, list
<1>7. \A a \in 1..n : list[a][2] \in 1..k
  BY <1>1, <1>2, <1>3, <1>5
<1>8. \A a, b \in 1..n : a < b => list[a][2] < list[b][2]
  BY <1>5
<1> QED
  BY <1>2, <1>4, <1>5, <1>6, <1>7, <1>8, Zenon DEF IsLane, S, n

\* Where a chunk stands in a lane's list: in the places of its hits.
LEMMA LanePlaces ==
  ASSUME NEW hits \in Seq(IdTexts), NEW k \in Nat, NEW list, IsLane(list, hits, k)
  PROVE  /\ \A a \in DOMAIN list :
              \E u \in KnownIn(hits) : list[a][1] = <<"lower", u>> /\ u \in Nat \ {0}
         /\ \A u \in KnownIn(hits) : \E a \in DOMAIN list : list[a][1] = <<"lower", u>>
         /\ \A u \in Nat \ {0} : \A a \in DOMAIN list :
              list[a][1] = <<"lower", u>> <=> Ascending(KnownAt(hits))[a] \in HitsAt(hits, u)
         /\ \A u \in Nat \ {0} : \A j \in HitsAt(hits, u) :
              \E a \in DOMAIN list : Ascending(KnownAt(hits))[a] = j
<1> DEFINE S == KnownAt(hits)
           n == Cardinality(S)
           at == Ascending(S)
<1>1. S \in SUBSET (1..Len(hits)) /\ Len(hits) \in Nat /\ DOMAIN hits = 1..Len(hits)
  BY DEF KnownAt
<1>2. /\ \A i \in 1..n : at[i] \in S
      /\ \A x \in S : \E i \in 1..n : at[i] = x
  BY <1>1, AscendingLists
<1>3. ASSUME NEW j \in S
      PROVE  /\ j \in DOMAIN hits /\ Uuid(hits[j]) = hits[j][2] /\ hits[j][2] \in Nat \ {0}
             /\ Canonical(hits[j]) = <<"lower", hits[j][2]>> /\ hits[j][2] \in KnownIn(hits)
  <2>1. j \in DOMAIN hits /\ Uuid(hits[j]) # Missing
    BY DEF KnownAt
  <2>2. hits[j] \in IdTexts
    BY <1>1, <2>1
  <2>3. Uuid(hits[j]) = hits[j][2]
    BY <2>1, <2>2 DEF Uuid, Missing, IdTexts
  <2>4. hits[j][2] \in Nat \ {0}
    BY <2>2 DEF IdTexts
  <2> QED
    BY <2>1, <2>3, <2>4, Zenon DEF Canonical, KnownIn
<1>4. /\ DOMAIN list = 1..n
      /\ \A a \in 1..n : list[a][1] = Canonical(hits[at[a]])
  BY Zenon DEF IsLane
<1>5. \A u \in Nat \ {0} : \A j \in DOMAIN hits : Uuid(hits[j]) = u => j \in S
  BY DEF KnownAt, Missing
<1> HIDE DEF S, n, at
<1>6. ASSUME NEW a \in DOMAIN list
      PROVE  \E u \in KnownIn(hits) : list[a][1] = <<"lower", u>> /\ u \in Nat \ {0}
  BY <1>2, <1>3, <1>4
<1>7. ASSUME NEW u \in Nat \ {0}, NEW a \in DOMAIN list
      PROVE  list[a][1] = <<"lower", u>> <=> at[a] \in HitsAt(hits, u)
  <2>1. at[a] \in S /\ list[a][1] = Canonical(hits[at[a]])
    BY <1>2, <1>4
  <2>2. list[a][1] = <<"lower", hits[at[a]][2]>> /\ Uuid(hits[at[a]]) = hits[at[a]][2]
        /\ at[a] \in DOMAIN hits
    BY <1>3, <2>1
  <2>3. list[a][1] = <<"lower", u>> <=> hits[at[a]][2] = u
    BY <2>2
  <2> QED
    BY <2>2, <2>3, Zenon DEF HitsAt
<1>8. ASSUME NEW u \in Nat \ {0}, NEW j \in HitsAt(hits, u)
      PROVE  \E a \in DOMAIN list : at[a] = j
  <2>1. j \in S
    BY <1>5 DEF HitsAt
  <2> QED
    BY <1>2, <1>4, <2>1
<1>9. ASSUME NEW u \in KnownIn(hits) PROVE \E a \in DOMAIN list : list[a][1] = <<"lower", u>>
  <2>1. PICK j \in DOMAIN hits : Uuid(hits[j]) = u /\ u # Missing
    BY Zenon DEF KnownIn
  <2>2. j \in S
    BY <2>1 DEF S, KnownAt
  <2>3. PICK a \in DOMAIN list : at[a] = j
    BY <1>2, <1>4, <2>2
  <2> QED
    BY <1>3, <1>4, <2>1, <2>2, <2>3
<1> QED
  BY <1>6, <1>7, <1>8, <1>9 DEF at, S

\* Of places taken in order, the least has the least number.
TakenInOrder(n, m, at, A, P) ==
  /\ n \in Nat /\ m \in Nat /\ A \in SUBSET (1..n) /\ P \in SUBSET (1..m)
  /\ \A a \in 1..n : at[a] \in 1..m
  /\ \A a, b \in 1..n : a < b => at[a] < at[b]
  /\ \A a \in 1..n : a \in A <=> at[a] \in P
  /\ \A j \in P : \E a \in 1..n : at[a] = j
LEMMA LeastOfPicked ==
  ASSUME NEW n, NEW m, NEW at, NEW A, NEW P, TakenInOrder(n, m, at, A, P), P # {}
  PROVE  A # {} /\ Min(A) \in A /\ at[Min(A)] = Min(P)
<1> USE DEF TakenInOrder
<1>1. Min(P) \in P /\ \A j \in P : Min(P) <= j
  BY LeastPlace
<1>2. PICK a \in 1..n : at[a] = Min(P)
  BY <1>1
<1>3. a \in A
  BY <1>1, <1>2
<1>4. Min(A) \in A /\ \A b \in A : Min(A) <= b
  BY <1>3, LeastPlace
<1>5. Min(A) = a
  <2>1. Min(A) \in 1..n /\ at[Min(A)] \in P /\ Min(A) <= a
    BY <1>3, <1>4
  <2>2. ASSUME Min(A) < a PROVE FALSE
    <3>1. at[Min(A)] < at[a] /\ at[Min(A)] \in 1..m /\ at[a] \in 1..m
      BY <2>1, <2>2
    <3>2. at[a] <= at[Min(A)]
      BY <1>1, <1>2, <2>1
    <3> QED
      BY <3>1, <3>2
  <2> QED
    BY <2>1, <2>2
<1> QED
  BY <1>2, <1>3, <1>4, <1>5

\* What a chunk scores in a lane follows its place there: the earlier of two scores more, and
\* a chunk the lane does not have scores nothing.
LEMMA LaneScoreFollows ==
  ASSUME NEW lane \in {"BinaryDense", "Sparse"}, NEW k \in Nat,
         \A rank \in 1..k : RankScale % (RRF_K + rank) = 0,
         NEW hits \in Seq(IdTexts), NEW list, IsLane(list, hits, k)
  PROVE  /\ \A u \in Nat \ {0} : LaneScore(lane, list, <<"lower", u>>) \in Nat
         /\ \A u, v \in Nat \ {0} :
              /\ Place(hits, u) < Place(hits, v) =>
                   LaneScore(lane, list, <<"lower", u>>) > LaneScore(lane, list, <<"lower", v>>)
              /\ Place(hits, u) = Place(hits, v) =>
                   LaneScore(lane, list, <<"lower", u>>) = LaneScore(lane, list, <<"lower", v>>)
<1> DEFINE S == KnownAt(hits)
           n == Cardinality(S)
           m == Len(hits)
           at == Ascending(S)
           A(u) == {a \in DOMAIN list : list[a][1] = <<"lower", u>>}
           P(u) == HitsAt(hits, u)
           score(u) == LaneScore(lane, list, <<"lower", u>>)
           rank(u) == list[Min(A(u))][2]
<1>1. /\ n \in Nat /\ DOMAIN list = 1..n
      /\ \A a \in 1..n : list[a][2] \in 1..k
      /\ \A a, b \in 1..n : a < b => list[a][2] < list[b][2]
  BY Zenon DEF IsLane
<1>2. m \in Nat /\ DOMAIN hits = 1..m /\ S \in SUBSET (1..m)
  BY DEF KnownAt
<1>3. /\ \A a \in 1..n : at[a] \in 1..m
      /\ \A a, b \in 1..n : a < b => at[a] < at[b]
  BY <1>2, AscendingLists
<1>4. /\ \A u \in Nat \ {0} : \A a \in DOMAIN list : a \in A(u) <=> at[a] \in P(u)
      /\ \A u \in Nat \ {0} : \A j \in P(u) : \E a \in DOMAIN list : at[a] = j
  BY LanePlaces
<1>5. \A u : A(u) \in SUBSET (1..n) /\ P(u) \in SUBSET (1..m)
  BY <1>1, <1>2 DEF HitsAt
<1>6. \A u : Place(hits, u) = IF P(u) = {} THEN m + 1 ELSE Min(P(u))
  BY Zenon DEF Place, HitsAt
<1>7. \A u : score(u) = IF A(u) = {} THEN 0 ELSE rrf_term(lane, rank(u))
  BY Zenon DEF LaneScore
<1> HIDE DEF A, P, score, n, m, at, S
<1>8. ASSUME NEW u \in Nat \ {0}, P(u) # {}
      PROVE  /\ A(u) # {} /\ Min(A(u)) \in 1..n /\ at[Min(A(u))] = Place(hits, u)
             /\ Place(hits, u) \in 1..m /\ rank(u) \in 1..k
  <2>1. A(u) # {} /\ Min(A(u)) \in A(u) /\ at[Min(A(u))] = Min(P(u))
    <3>1. /\ n \in Nat /\ m \in Nat /\ A(u) \in SUBSET (1..n) /\ P(u) \in SUBSET (1..m)
          /\ \A a \in 1..n : a \in A(u) <=> at[a] \in P(u)
          /\ \A j \in P(u) : \E a \in 1..n : at[a] = j
      BY <1>1, <1>2, <1>4, <1>5, Zenon
    <3>2. TakenInOrder(n, m, at, A(u), P(u))
      BY <1>3, <3>1, Zenon DEF TakenInOrder
    <3> QED
      BY <1>8, <3>2, LeastOfPicked
  <2>2. Min(A(u)) \in 1..n
    BY <1>5, <2>1
  <2> QED
    BY <1>1, <1>3, <1>6, <1>8, <2>1, <2>2
<1>9. ASSUME NEW u \in Nat \ {0}, P(u) = {}
      PROVE  A(u) = {} /\ Place(hits, u) = m + 1
  BY <1>1, <1>4, <1>5, <1>6, <1>9
<1>10. /\ \A r \in 1..k : rrf_term(lane, r) \in Nat /\ rrf_term(lane, r) > 0
       /\ \A r, s \in 1..k : r < s => rrf_term(lane, r) > rrf_term(lane, s)
  BY TermFalls
<1> HIDE DEF rank
<1>11. \A u \in Nat \ {0} : score(u) \in Nat /\ (P(u) # {} => score(u) > 0) /\ (P(u) = {} => score(u) = 0)
  BY <1>7, <1>8, <1>9, <1>10
<1>12. ASSUME NEW u \in Nat \ {0}, NEW v \in Nat \ {0}, Place(hits, u) < Place(hits, v)
       PROVE  score(u) > score(v)
  <2>1. P(u) # {}
    BY <1>2, <1>8, <1>9, <1>12
  <2>2. CASE P(v) = {}
    BY <1>11, <2>1, <2>2
  <2>3. CASE P(v) # {}
    <3>1. Min(A(u)) < Min(A(v))
      <4>1. /\ Min(A(u)) \in 1..n /\ Min(A(v)) \in 1..n /\ at[Min(A(u))] < at[Min(A(v))]
            /\ at[Min(A(u))] \in 1..m /\ at[Min(A(v))] \in 1..m
        BY <1>8, <1>12, <2>1, <2>3
      <4>2. Min(A(u)) # Min(A(v))
        BY <4>1
      <4>3. ~(Min(A(v)) < Min(A(u)))
        BY <1>3, <4>1
      <4> QED
        BY <4>1, <4>2, <4>3
    <3>2. rank(u) < rank(v)
      <4>1. Min(A(u)) \in 1..n /\ Min(A(v)) \in 1..n
        BY <1>8, <2>1, <2>3
      <4> QED
        BY <1>1, <3>1, <4>1 DEF rank
    <3>3. score(u) = rrf_term(lane, rank(u)) /\ score(v) = rrf_term(lane, rank(v))
      BY <1>7, <1>8, <2>1, <2>3
    <3> QED
      BY <1>8, <1>10, <2>1, <2>3, <3>2, <3>3
  <2> QED
    BY <2>2, <2>3
<1>13. ASSUME NEW u \in Nat \ {0}, NEW v \in Nat \ {0}, Place(hits, u) = Place(hits, v)
       PROVE  score(u) = score(v)
  <2>1. P(u) = {} <=> P(v) = {}
    BY <1>2, <1>8, <1>9, <1>13
  <2>2. CASE P(u) = {}
    BY <1>11, <2>1, <2>2
  <2>3. CASE P(u) # {}
    <3>1. /\ Min(A(u)) \in 1..n /\ Min(A(v)) \in 1..n /\ at[Min(A(u))] = at[Min(A(v))]
          /\ A(u) # {} /\ A(v) # {} /\ at[Min(A(u))] \in 1..m
      BY <1>8, <1>13, <2>1, <2>3
    <3>2. ~(Min(A(u)) < Min(A(v))) /\ ~(Min(A(v)) < Min(A(u)))
      BY <1>3, <3>1
    <3>3. Min(A(u)) = Min(A(v))
      BY <3>1, <3>2
    <3>4. rank(u) = rank(v)
      BY <3>3 DEF rank
    <3> QED
      BY <1>7, <3>1, <3>4
  <2> QED
    BY <2>2, <2>3
<1> QED
  BY <1>11, <1>12, <1>13 DEF score

\* The element a sum takes first, and the equation of the sums of f over the subsets of S.
Pick(s) == CHOOSE x \in s : TRUE
Sums(g, f, S) ==
  g = [s \in SUBSET S |-> IF s = {} THEN 0 ELSE f[Pick(s)] + g[s \ {Pick(s)}]]

\* SumFunctionOnSet is the solution of that equation, at S.
LEMMA SumIs ==
  ASSUME NEW f, NEW S
  PROVE  SumFunctionOnSet(f, S) = (CHOOSE g : Sums(g, f, S))[S]
BY Zenon DEF SumFunctionOnSet, FoldFunctionOnSet, MapThenFoldSet, Sums, Pick

\* What the equation says of one set.
LEMMA SumsAt ==
  ASSUME NEW g, NEW f, NEW S, Sums(g, f, S), NEW s \in SUBSET S
  PROVE  /\ s = {} => g[s] = 0
         /\ s # {} => Pick(s) \in s /\ g[s] = f[Pick(s)] + g[s \ {Pick(s)}]
<1>1. g[s] = IF s = {} THEN 0 ELSE f[Pick(s)] + g[s \ {Pick(s)}]
  <2> DEFINE h == [u \in SUBSET S |-> IF u = {} THEN 0 ELSE f[Pick(u)] + g[u \ {Pick(u)}]]
  <2>1. g = h
    BY Zenon DEF Sums
  <2>2. h[s] = IF s = {} THEN 0 ELSE f[Pick(s)] + g[s \ {Pick(s)}]
    BY Zenon
  <2> QED
    BY <2>1, <2>2, Zenon
<1>2. s # {} => Pick(s) \in s
  BY Zenon DEF Pick
<1> QED
  BY <1>1, <1>2, Zenon

\* The sum over two elements, whichever is taken first.
LEMMA SumOfTwo ==
  ASSUME NEW a, NEW b, a # b, NEW f, f[a] \in Nat, f[b] \in Nat
  PROVE  SumFunctionOnSet(f, {a, b}) = f[a] + f[b]
<1> DEFINE S == {a, b}
           part(x, s) == IF x \in s THEN f[x] ELSE 0
           g == [s \in SUBSET S |-> part(a, s) + part(b, s)]
           h == [s \in SUBSET S |-> IF s = {} THEN 0 ELSE f[Pick(s)] + g[s \ {Pick(s)}]]
<1>1. ASSUME NEW s \in SUBSET S PROVE g[s] = h[s]
  <2>1. CASE s = {}
    <3>1. g[s] = 0 + 0
      BY <2>1
    <3> QED
      BY <2>1, <3>1
  <2>2. CASE s # {}
    <3> DEFINE x == Pick(s)
               r == s \ {x}
    <3>1. x \in s /\ (x = a \/ x = b)
      BY <2>2, Zenon DEF Pick
    <3>2. r \in SUBSET S /\ h[s] = f[x] + g[r]
      BY <2>2, Zenon
    <3> HIDE DEF x
    <3>3. g[r] = part(a, r) + part(b, r) /\ g[s] = part(a, s) + part(b, s)
      BY <3>2, Zenon
    <3>4. CASE x = a
      <4>1. part(a, r) = 0 /\ part(b, r) = part(b, s) /\ part(a, s) = f[a]
        BY <3>1, <3>4
      <4>2. part(b, s) \in Nat
        OBVIOUS
      <4> HIDE DEF part, g, h, r
      <4> QED
        BY <3>2, <3>3, <3>4, <4>1, <4>2
    <3>5. CASE x = b
      <4>1. part(b, r) = 0 /\ part(a, r) = part(a, s) /\ part(b, s) = f[b]
        BY <3>1, <3>5
      <4>2. part(a, s) \in Nat
        OBVIOUS
      <4> HIDE DEF part, g, h, r
      <4> QED
        BY <3>2, <3>3, <3>5, <4>1, <4>2
    <3> QED
      BY <3>1, <3>4, <3>5
  <2> QED
    BY <2>1, <2>2
<1>2. g = [s \in SUBSET S |-> g[s]] /\ h = [s \in SUBSET S |-> h[s]]
  BY Zenon
<1> HIDE DEF g
<1>3. g = h
  <2> HIDE DEF h
  <2> QED
    BY <1>1, <1>2
<1>4. Sums(g, f, S)
  BY <1>3, Zenon DEF Sums
<1> DEFINE G == CHOOSE u : Sums(u, f, S)
<1>5. Sums(G, f, S)
  BY <1>4, Zenon
<1>6. SumFunctionOnSet(f, S) = G[S]
  BY SumIs, Zenon
<1> HIDE DEF G
<1>7. G[{}] = 0
  BY <1>5, SumsAt
<1>8. ASSUME NEW y \in S PROVE G[{y}] = f[y]
  <2>1. {y} \in SUBSET S /\ {y} # {} /\ \A x \in {y} : x = y /\ {y} \ {x} = {}
    OBVIOUS
  <2>2. Pick({y}) \in {y} /\ G[{y}] = f[Pick({y})] + G[{y} \ {Pick({y})}]
    BY <1>5, <2>1, SumsAt
  <2>3. Pick({y}) = y /\ {y} \ {Pick({y})} = {}
    BY <2>1, <2>2, Zenon
  <2>4. f[y] \in Nat
    OBVIOUS
  <2> QED
    BY <1>7, <2>2, <2>3, <2>4
<1>9. Pick(S) \in S /\ G[S] = f[Pick(S)] + G[S \ {Pick(S)}]
  <2>1. S \in SUBSET S /\ S # {}
    OBVIOUS
  <2> HIDE DEF S
  <2> QED
    BY <1>5, <2>1, SumsAt
<1>10. CASE Pick(S) = a
  <2>1. S \ {Pick(S)} = {b} /\ b \in S
    BY <1>10
  <2>2. G[{b}] = f[b]
    BY <1>8, <2>1
  <2> HIDE DEF S
  <2>3. G[S] = f[a] + f[b]
    BY <1>9, <1>10, <2>1, <2>2
  <2>4. G[S] = f[a] + f[b]
    BY <2>3
  <2> QED
    BY <1>6, <2>4 DEF S
<1>11. CASE Pick(S) = b
  <2>1. S \ {Pick(S)} = {a} /\ a \in S
    BY <1>11
  <2>2. G[{a}] = f[a]
    BY <1>8, <2>1
  <2> HIDE DEF S
  <2>3. G[S] = f[b] + f[a]
    BY <1>9, <1>11, <2>1, <2>2
  <2>4. G[S] = f[a] + f[b]
    BY <2>3
  <2> QED
    BY <1>6, <2>4 DEF S
<1> QED
  BY <1>9, <1>10, <1>11

\* The chunks the hits of a lane name are finitely many.
LEMMA KnownIsFinite ==
  ASSUME NEW hits \in Seq(IdTexts)
  PROVE  IsFiniteSet(KnownIn(hits)) /\ KnownIn(hits) \in SUBSET (Nat \ {0})
<1> DEFINE K == KnownIn(hits)
           S == KnownAt(hits)
           g == [j \in S |-> Uuid(hits[j])]
<1>1. DOMAIN hits = 1..Len(hits) /\ Len(hits) \in Nat
  OBVIOUS
<1>2. S \in SUBSET (1..Len(hits))
  BY <1>1 DEF KnownAt
<1>3. IsFiniteSet(S)
  BY <1>1, <1>2, FinitePart
<1>4. \A u \in K : \E j \in S : g[j] = u
  BY DEF KnownIn, KnownAt
<1>5. \A j \in S : g[j] \in K
  BY DEF KnownIn, KnownAt
<1>6. g \in Surjection(S, K)
  BY <1>4, <1>5 DEF Surjection
<1>7. IsFiniteSet(K)
  <2> HIDE DEF g, S, K
  <2> QED
    BY <1>3, <1>6, FS_Surjection
<1>8. ASSUME NEW u \in K PROVE u \in Nat \ {0}
  <2>1. PICK j \in DOMAIN hits : Uuid(hits[j]) = u /\ u # Missing
    BY Zenon DEF KnownIn
  <2>2. hits[j] \in IdTexts
    BY <1>1, <2>1
  <2> QED
    BY <2>1, <2>2 DEF IdTexts, Uuid, Missing
<1> QED
  BY <1>7, <1>8

\* The lists the two lanes are fused from, and what they know.
Lanes(V, K) == [BinaryDense |-> vector_ranked(V), Sparse |-> keyword_ranked(K)]
Known(V, K) == KnownIn(V) \cup KnownIn(K)

\* Both lanes count: a chunk that is behind in neither and ahead in one scores more.
LEMMA FusedScoreFollows ==
  ASSUME NEW k \in Nat, \A rank \in 1..k : RankScale % (RRF_K + rank) = 0,
         NEW V \in Seq(IdTexts), NEW K \in Seq(IdTexts), Len(V) <= k, Len(K) <= k
  PROVE  /\ \A u \in Nat \ {0} : fused_score(Lanes(V, K), <<"lower", u>>) \in Nat
         /\ \A u, v \in Nat \ {0} :
              /\ Place(V, u) <= Place(V, v) /\ Place(K, u) <= Place(K, v)
              /\ Place(V, u) < Place(V, v) \/ Place(K, u) < Place(K, v)
              => fused_score(Lanes(V, K), <<"lower", u>>) > fused_score(Lanes(V, K), <<"lower", v>>)
<1> DEFINE D == {"BinaryDense", "Sparse"}
           ranked == Lanes(V, K)
           first(u) == LaneScore("BinaryDense", vector_ranked(V), <<"lower", u>>)
           second(u) == LaneScore("Sparse", keyword_ranked(K), <<"lower", u>>)
           total(u) == fused_score(ranked, <<"lower", u>>)
<1>1. /\ \A u \in Nat \ {0} : first(u) \in Nat
      /\ \A u, v \in Nat \ {0} : /\ Place(V, u) < Place(V, v) => first(u) > first(v)
                                 /\ Place(V, u) = Place(V, v) => first(u) = first(v)
  <2>1. IsLane(vector_ranked(V), V, k)
    BY VectorLane
  <2> QED
    BY <2>1, LaneScoreFollows
<1>2. /\ \A u \in Nat \ {0} : second(u) \in Nat
      /\ \A u, v \in Nat \ {0} : /\ Place(K, u) < Place(K, v) => second(u) > second(v)
                                 /\ Place(K, u) = Place(K, v) => second(u) = second(v)
  <2>1. IsLane(keyword_ranked(K), K, k)
    BY KeywordLane
  <2> QED
    BY <2>1, LaneScoreFollows
<1>3. ASSUME NEW u \in Nat \ {0} PROVE total(u) = first(u) + second(u)
  <2> DEFINE f == [l \in D |-> LaneScore(l, ranked[l], <<"lower", u>>)]
  <2>1. DOMAIN ranked = D /\ ranked["BinaryDense"] = vector_ranked(V)
        /\ ranked["Sparse"] = keyword_ranked(K)
    BY DEF Lanes
  <2> HIDE DEF ranked
  <2>2. total(u) = SumFunctionOnSet(f, D)
    BY <2>1, Zenon DEF fused_score
  <2>3. f["BinaryDense"] = first(u) /\ f["Sparse"] = second(u)
    BY <2>1
  <2> HIDE DEF f, first, second
  <2>4. f["BinaryDense"] \in Nat /\ f["Sparse"] \in Nat /\ "BinaryDense" # "Sparse"
    BY <1>1, <1>2, <2>3
  <2>5. SumFunctionOnSet(f, D) = f["BinaryDense"] + f["Sparse"]
    BY <2>4, SumOfTwo
  <2> QED
    BY <2>2, <2>3, <2>5
<1> HIDE DEF first, second, total
<1>4. ASSUME NEW hits \in Seq(IdTexts), NEW u \in Nat \ {0} PROVE Place(hits, u) \in Nat
  <2> DEFINE at == HitsAt(hits, u)
  <2>1. Place(hits, u) = IF at = {} THEN Len(hits) + 1 ELSE Min(at)
    BY Zenon DEF Place, HitsAt
  <2>2. Len(hits) \in Nat /\ at \in SUBSET (1..Len(hits))
    BY DEF HitsAt
  <2> HIDE DEF at
  <2>3. at # {} => Min(at) \in 1..Len(hits)
    BY <2>2, LeastPlace
  <2> QED
    BY <2>1, <2>2, <2>3
<1>5. ASSUME NEW u \in Nat \ {0} PROVE total(u) \in Nat
  BY <1>1, <1>2, <1>3
<1>6. ASSUME NEW u \in Nat \ {0}, NEW v \in Nat \ {0},
             Place(V, u) <= Place(V, v), Place(K, u) <= Place(K, v),
             Place(V, u) < Place(V, v) \/ Place(K, u) < Place(K, v)
      PROVE  total(u) > total(v)
  <2>1. first(u) >= first(v) /\ (Place(V, u) < Place(V, v) => first(u) > first(v))
    BY <1>1, <1>4, <1>6, SMTT(40)
  <2>2. second(u) >= second(v) /\ (Place(K, u) < Place(K, v) => second(u) > second(v))
    BY <1>2, <1>4, <1>6, SMTT(40)
  <2>3. first(u) \in Nat /\ first(v) \in Nat /\ second(u) \in Nat /\ second(v) \in Nat
    BY <1>1, <1>2
  <2> QED
    BY <1>3, <1>6, <2>1, <2>2, <2>3
<1> QED
  BY <1>5, <1>6 DEF total

\* The items of a list that names just the members of U.
LEMMA SameItems ==
  ASSUME NEW list, NEW U,
         \A i \in DOMAIN list : \E u \in U : list[i][1] = <<"lower", u>>,
         \A u \in U : \E i \in DOMAIN list : list[i][1] = <<"lower", u>>
  PROVE  {list[i][1] : i \in DOMAIN list} = {<<"lower", u>> : u \in U}
<1>1. ASSUME NEW i \in DOMAIN list PROVE list[i][1] \in {<<"lower", u>> : u \in U}
  <2>1. PICK u \in U : list[i][1] = <<"lower", u>>
    OBVIOUS
  <2> QED
    BY <2>1
<1>2. ASSUME NEW u \in U PROVE <<"lower", u>> \in {list[i][1] : i \in DOMAIN list}
  <2>1. PICK i \in DOMAIN list : list[i][1] = <<"lower", u>>
    OBVIOUS
  <2> QED
    BY <2>1
<1> QED
  BY <1>1, <1>2

\* The fused items are the known chunks, by their canonical ids.
LEMMA FusedItems ==
  ASSUME NEW k \in Nat, NEW V \in Seq(IdTexts), NEW K \in Seq(IdTexts),
         Len(V) <= k, Len(K) <= k
  PROVE  UNION {{Lanes(V, K)[l][i][1] : i \in DOMAIN Lanes(V, K)[l]} : l \in DOMAIN Lanes(V, K)}
           = {<<"lower", u>> : u \in Known(V, K)}
<1> DEFINE ranked == Lanes(V, K)
           a == vector_ranked(V)
           b == keyword_ranked(K)
<1>1. DOMAIN ranked = {"BinaryDense", "Sparse"} /\ ranked["BinaryDense"] = a
      /\ ranked["Sparse"] = b
  BY DEF Lanes
<1>2. {a[i][1] : i \in DOMAIN a} = {<<"lower", u>> : u \in KnownIn(V)}
  <2>1. IsLane(a, V, k)
    BY VectorLane
  <2>2. /\ \A i \in DOMAIN a : \E u \in KnownIn(V) : a[i][1] = <<"lower", u>>
        /\ \A u \in KnownIn(V) : \E i \in DOMAIN a : a[i][1] = <<"lower", u>>
    BY <2>1, LanePlaces
  <2> QED
    BY <2>2, SameItems
<1>3. {b[i][1] : i \in DOMAIN b} = {<<"lower", u>> : u \in KnownIn(K)}
  <2>1. IsLane(b, K, k)
    BY KeywordLane
  <2>2. /\ \A i \in DOMAIN b : \E u \in KnownIn(K) : b[i][1] = <<"lower", u>>
        /\ \A u \in KnownIn(K) : \E i \in DOMAIN b : b[i][1] = <<"lower", u>>
    BY <2>1, LanePlaces
  <2> QED
    BY <2>2, SameItems
<1> HIDE DEF ranked, a, b
<1>4. UNION {{ranked[l][i][1] : i \in DOMAIN ranked[l]} : l \in DOMAIN ranked}
        = {a[i][1] : i \in DOMAIN a} \cup {b[i][1] : i \in DOMAIN b}
  BY <1>1
<1>5. {<<"lower", u>> : u \in KnownIn(V)} \cup {<<"lower", u>> : u \in KnownIn(K)}
        = {<<"lower", u>> : u \in Known(V, K)}
  BY Zenon DEF Known
<1> QED
  BY <1>2, <1>3, <1>4, <1>5 DEF ranked

\* A list of hits that names each known chunk once, the better score first.
NamesInOrder(T, known, score) ==
  /\ Len(T) \in Nat /\ Len(T) = Cardinality(known)
  /\ \A a \in 1..Len(T) : Uuid(T[a].item) \in known
  /\ \A u \in known : \E a \in 1..Len(T) : Uuid(T[a].item) = u
  /\ \A a, b \in 1..Len(T) :
       a < b => /\ Uuid(T[a].item) # Uuid(T[b].item)
                /\ score[Uuid(T[a].item)] >= score[Uuid(T[b].item)]

\* The fused hits of some chunks.
HitsOf(ranked, lane_scores, known) ==
  {FusedHit(ranked, lane_scores, x) : x \in {<<"lower", u>> : u \in known}}

\* The sorted hits are such a list: the ids break every tie.
LEMMA HitsInOrder ==
  ASSUME NEW known \in SUBSET (Nat \ {0}), IsFiniteSet(known), NEW ranked, NEW lane_scores,
         NEW score \in [known -> Nat],
         \A u \in known : fused_score(ranked, <<"lower", u>>) = score[u]
  PROVE  LET hits == HitsOf(ranked, lane_scores, known)
             T == Sorted(hits, InScoreOrder(hits))
         IN  T \in Seq(hits) /\ NamesInOrder(T, known, score)
<1> DEFINE hits == HitsOf(ranked, lane_scores, known)
           H(u) == FusedHit(ranked, lane_scores, <<"lower", u>>)
           R == InScoreOrder(hits)
           T == Sorted(hits, R)
<1>1. ASSUME NEW u \in known
      PROVE  /\ H(u).item = <<"lower", u>> /\ H(u).score = score[u] /\ H(u).item[2] = u
             /\ Uuid(H(u).item) = u
  <2>1. H(u).item = <<"lower", u>> /\ H(u).score = fused_score(ranked, <<"lower", u>>)
    BY Zenon DEF FusedHit
  <2>2. Uuid(<<"lower", u>>) = u /\ <<"lower", u>>[2] = u
    BY DEF Uuid
  <2> QED
    BY <2>1, <2>2
<1>2. \A h : h \in hits <=> \E u \in known : h = H(u)
  BY Zenon DEF HitsOf
<1> HIDE DEF H
<1>3. \A h \in hits : /\ Uuid(h.item) \in known /\ h = H(Uuid(h.item))
                      /\ h.item[2] = Uuid(h.item) /\ h.score = score[Uuid(h.item)]
  BY <1>1, <1>2
<1>4. \A p, q \in hits :
        <<p, q>> \in R <=> \/ p.score > q.score
                           \/ p.score = q.score /\ p.item[2] < q.item[2]
  BY Zenon DEF InScoreOrder
<1> HIDE DEF hits, R
<1> DEFINE id(h) == Uuid(h.item)
<1>5. \A p, q \in hits :
        <<p, q>> \in R <=> \/ score[id(p)] > score[id(q)]
                           \/ score[id(p)] = score[id(q)] /\ id(p) < id(q)
  BY <1>3, <1>4
<1>6. \A p \in hits : id(p) \in Nat /\ score[id(p)] \in Nat
  BY <1>3
<1>7. \A p, q \in hits : id(p) = id(q) => p = q
  BY <1>3
<1> HIDE DEF id
<1>8. Orders(R, hits)
  <2>1. \A x \in hits : <<x, x>> \notin R
    BY <1>5, <1>6
  <2>2. \A x, y \in hits : x # y => <<x, y>> \in R \/ <<y, x>> \in R
    BY <1>5, <1>6, <1>7
  <2>3. \A x, y, z \in hits : <<x, y>> \in R /\ <<y, z>> \in R => <<x, z>> \in R
    BY <1>5, <1>6
  <2> QED
    BY <2>1, <2>2, <2>3 DEF Orders
<1>9. IsFiniteSet(hits) /\ Cardinality(hits) = Cardinality(known)
  <2> DEFINE g == [u \in known |-> H(u)]
  <2>1. g \in [known -> hits]
    BY <1>2
  <2>2. \A u, v \in known : g[u] = g[v] => u = v
    BY <1>1
  <2>3. \A h \in hits : \E u \in known : g[u] = h
    BY <1>2
  <2> HIDE DEF g
  <2>4. g \in Bijection(known, hits)
    BY <2>1, <2>2, <2>3 DEF Bijection, Injection, Surjection, IsInjective
  <2>5. ExistsBijection(known, hits)
    BY <2>4, Zenon DEF ExistsBijection
  <2> QED
    BY <2>5, FS_Bijection
<1>10. Lists(T, hits, R)
  BY <1>8, <1>9, SortedLists
<1> HIDE DEF T
<1>11. /\ T \in Seq(hits) /\ Len(T) = Cardinality(known) /\ Len(T) \in Nat
       /\ \A x \in hits : \E i \in 1..Len(T) : T[i] = x
       /\ \A i \in 1..Len(T) : T[i] \in hits
       /\ \A i, j \in 1..Len(T) : i < j => <<T[i], T[j]>> \in R
  BY <1>9, <1>10 DEF Lists
<1>12. \A a \in 1..Len(T) : id(T[a]) \in known
  BY <1>3, <1>11 DEF id
<1>13. ASSUME NEW u \in known PROVE \E a \in 1..Len(T) : id(T[a]) = u
  <2>1. H(u) \in hits /\ id(H(u)) = u
    BY <1>1, <1>2 DEF id
  <2> QED
    BY <1>11, <2>1
<1>14. ASSUME NEW a \in 1..Len(T), NEW b \in 1..Len(T), a < b
       PROVE  id(T[a]) # id(T[b]) /\ score[id(T[a])] >= score[id(T[b])]
  <2>1. T[a] \in hits /\ T[b] \in hits /\ <<T[a], T[b]>> \in R
    BY <1>11, <1>14
  <2> QED
    BY <1>5, <1>6, <2>1
<1>15. NamesInOrder(T, known, score)
  BY <1>11, <1>12, <1>13, <1>14 DEF NamesInOrder, id
<1> QED
  BY <1>11, <1>15 DEF T, R, hits

\* FusionIsFair, of an answer and the scores behind it.
NamedIn(out, u) == {j \in DOMAIN out : Uuid(out[j].item) = u}
IsFair(out, known, score, chunks, limit) ==
  /\ \A j \in DOMAIN out : Uuid(out[j].item) \in known \cap chunks
  /\ \A u \in known : Cardinality(NamedIn(out, u)) <= 1
  /\ \A u \in known \cap chunks, v \in known :
       score[u] > score[v] /\ NamedIn(out, v) # {} =>
         NamedIn(out, u) # {} /\ Max(NamedIn(out, u)) < Min(NamedIn(out, v))
  /\ known \subseteq chunks => Len(out) = Min({limit, Cardinality(known)})

\* A set of numbers with one member.
LEMMA OnlyOne ==
  ASSUME NEW S, NEW x \in S, x \in Int, \A y \in S : y = x
  PROVE  Max(S) = x /\ Min(S) = x /\ Cardinality(S) = 1
<1>1. S = {x}
  OBVIOUS
<1>2. \A y \in S : x >= y /\ x <= y
  OBVIOUS
<1>3. Max(S) \in S
  BY <1>2 DEF Max
<1>4. Min(S) \in S
  BY <1>2 DEF Min
<1>5. Cardinality({x}) = 1
  BY FS_Singleton
<1> QED
  BY <1>1, <1>3, <1>4, <1>5

\* PickedIs, for names of its parts.
PicksInOrder(t, at, n, s, S) ==
  /\ n \in Nat /\ Len(t) = n /\ DOMAIN t = 1..n
  /\ \A i \in 1..n : at[i] \in S /\ t[i] = s[at[i]]
  /\ \A x \in S : \E i \in 1..n : at[i] = x
  /\ \A i, j \in 1..n : i < j => at[i] < at[j]
LEMMA PickedInOrder ==
  ASSUME NEW m \in Nat, NEW S, S \in SUBSET (1..m), NEW s
  PROVE  PicksInOrder(Picked(s, S), Ascending(S), Cardinality(S), s, S)
BY PickedIs, ZenonT(60) DEF PicksInOrder

\* What is answered from a list of hits.
Answer(T, limit, chunks) ==
  LET top == Take2(T, limit)
  IN  Picked(top, {i \in DOMAIN top : Uuid(top[i].item) \in chunks})

\* Cut to the limit and rid of the chunks that are gone, such a list is a fair answer.
LEMMA AnswerIsFair ==
  ASSUME NEW S, NEW T \in Seq(S), NEW known, NEW score \in [known -> Nat],
         NamesInOrder(T, known, score), NEW limit \in Nat, NEW chunks
  PROVE  IsFair(Answer(T, limit, chunks), known, score, chunks, limit)
<1> DEFINE id(a) == Uuid(T[a].item)
           top == Take2(T, limit)
           m == Len(top)
           P == {i \in DOMAIN top : Uuid(top[i].item) \in chunks}
           at == Ascending(P)
           out == Picked(top, P)
           n == Cardinality(P)
<1>1. /\ Len(T) \in Nat /\ Len(T) = Cardinality(known)
      /\ \A a \in 1..Len(T) : id(a) \in known
      /\ \A u \in known : \E a \in 1..Len(T) : id(a) = u
      /\ \A a, b \in 1..Len(T) : a < b => id(a) # id(b) /\ score[id(a)] >= score[id(b)]
  BY Zenon DEF NamesInOrder
<1>2. /\ m = IF limit < Len(T) THEN limit ELSE Len(T)
      /\ DOMAIN top = 1..m /\ \A i \in 1..m : top[i] = T[i]
  BY TakeIs, ZenonT(60)
<1>3. m \in Nat /\ m <= Len(T)
  BY <1>1, <1>2
<1> HIDE DEF top, m
<1>4. P \in SUBSET (1..m) /\ \A i \in 1..m : i \in P <=> id(i) \in chunks
  BY <1>2
<1> HIDE DEF P
<1>5. /\ n \in Nat /\ Len(out) = n /\ DOMAIN out = 1..n
      /\ \A i \in 1..n : at[i] \in P /\ out[i] = top[at[i]]
      /\ \A x \in P : \E i \in 1..n : at[i] = x
      /\ \A i, j \in 1..n : i < j => at[i] < at[j]
  <2>1. P \in SUBSET (1..m) /\ m \in Nat
    BY <1>3, <1>4
  <2>2. PicksInOrder(out, at, n, top, P)
    BY <2>1, PickedInOrder
  <2> QED
    BY <2>2, Zenon DEF PicksInOrder
<1> HIDE DEF at, out, n
<1>6. ASSUME NEW j \in 1..n
      PROVE  at[j] \in P /\ at[j] \in 1..m /\ at[j] \in 1..Len(T) /\ out[j] = T[at[j]]
             /\ Uuid(out[j].item) = id(at[j])
  <2>1. at[j] \in P /\ at[j] \in 1..m /\ out[j] = top[at[j]]
    BY <1>4, <1>5
  <2>2. out[j] = T[at[j]]
    BY <1>2, <2>1
  <2> QED
    BY <1>1, <1>3, <2>1, <2>2
<1> HIDE DEF id
<1>7. \A j \in DOMAIN out : Uuid(out[j].item) \in known \cap chunks
  BY <1>1, <1>4, <1>5, <1>6
<1>8. \A a, b \in 1..Len(T) : id(a) = id(b) => a = b
  BY <1>1
<1>9. ASSUME NEW u, NEW a \in NamedIn(out, u), NEW b \in NamedIn(out, u) PROVE a = b
  <2>1. a \in 1..n /\ b \in 1..n /\ id(at[a]) = id(at[b])
    BY <1>5, <1>6 DEF NamedIn
  <2>2. at[a] = at[b] /\ at[a] \in 1..m
    BY <1>6, <1>8, <2>1
  <2>3. ~(a < b) /\ ~(b < a)
    BY <1>5, <2>1, <2>2
  <2> QED
    BY <2>1, <2>3
<1>10. ASSUME NEW u, NEW a \in NamedIn(out, u)
       PROVE  /\ a \in 1..n /\ Max(NamedIn(out, u)) = a /\ Min(NamedIn(out, u)) = a
              /\ Cardinality(NamedIn(out, u)) = 1
  <2>1. a \in 1..n
    BY <1>5 DEF NamedIn
  <2>2. a \in Int /\ \A y \in NamedIn(out, u) : y = a
    BY <1>9, <2>1
  <2> QED
    BY <2>1, <2>2, OnlyOne
<1>11. ASSUME NEW u \in known PROVE Cardinality(NamedIn(out, u)) <= 1
  <2>1. CASE NamedIn(out, u) = {}
    <3>1. Cardinality({}) = 0
      BY FS_EmptySet
    <3> QED
      BY <2>1, <3>1
  <2>2. CASE NamedIn(out, u) # {}
    <3>1. Cardinality(NamedIn(out, u)) = 1
      BY <1>10, <2>2
    <3> QED
      BY <3>1
  <2> QED
    BY <2>1, <2>2
<1>12. ASSUME NEW u \in known \cap chunks, NEW v \in known,
              score[u] > score[v], NamedIn(out, v) # {}
       PROVE  NamedIn(out, u) # {} /\ Max(NamedIn(out, u)) < Min(NamedIn(out, v))
  <2>1. PICK b \in NamedIn(out, v) : TRUE
    BY <1>12
  <2>2. b \in 1..n /\ id(at[b]) = v /\ at[b] \in 1..m /\ at[b] \in 1..Len(T)
    BY <1>5, <1>6, <2>1 DEF NamedIn
  <2>3. PICK p \in 1..Len(T) : id(p) = u
    BY <1>1
  <2>4. p < at[b]
    <3>1. score[u] \in Nat /\ score[v] \in Nat
      OBVIOUS
    <3>2. p # at[b]
      BY <1>12, <2>2, <2>3, <3>1
    <3>3. ~(at[b] < p)
      BY <1>1, <1>12, <2>2, <2>3, <3>1
    <3> QED
      BY <2>2, <2>3, <3>2, <3>3
  <2>5. p \in P
    BY <1>3, <1>4, <2>2, <2>3, <2>4
  <2>6. PICK a \in 1..n : at[a] = p
    BY <1>5, <2>5
  <2>7. a \in NamedIn(out, u)
    BY <1>5, <1>6, <2>3, <2>6 DEF NamedIn
  <2>8. a < b
    <3>1. a # b
      BY <2>2, <2>4, <2>6
    <3>2. ~(b < a)
      BY <1>5, <2>2, <2>4, <2>6
    <3> QED
      BY <2>2, <3>1, <3>2
  <2> QED
    BY <1>10, <2>1, <2>7, <2>8
<1>13. ASSUME known \subseteq chunks PROVE Len(out) = Min({limit, Cardinality(known)})
  <2>1. P = 1..m
    <3>1. ASSUME NEW i \in 1..m PROVE i \in P
      <4>1. i \in 1..Len(T)
        BY <1>1, <1>3
      <4> QED
        BY <1>1, <1>4, <1>13, <4>1
    <3> QED
      BY <1>4, <3>1
  <2>2. n = m
    BY <1>3, <2>1, Counted DEF n
  <2>3. Cardinality(known) \in Nat
    BY <1>1
  <2>4. Min({limit, Cardinality(known)}) = IF limit < Cardinality(known) THEN limit ELSE Cardinality(known)
    BY <2>3, Lesser
  <2> QED
    BY <1>1, <1>2, <1>5, <2>2, <2>4
<1>14. IsFair(out, known, score, chunks, limit)
  BY <1>7, <1>11, <1>12, <1>13 DEF IsFair
<1>15. Answer(T, limit, chunks) = out
  BY Zenon DEF Answer, out, P, top
<1> QED
  BY <1>14, <1>15

\* What FusionIsFair says of one pair of lanes.
FusesFairly(i) ==
  LET k == candidate_k(i.limit)
      lanes == <<Take2(i.vector, k), Take2(i.keyword, k)>>
      known == (UNION {{Uuid(lanes[l][j]) : j \in DOMAIN lanes[l]} : l \in 1..2}) \ {Missing}
      out == hybrid_recall(i.vector, i.keyword, i.chunks, i.limit)
      at(u) == {j \in DOMAIN out : Uuid(out[j].item) = u}
      beats(u, v) == /\ \A l \in 1..2 : Place(lanes[l], u) <= Place(lanes[l], v)
                     /\ \E l \in 1..2 : Place(lanes[l], u) < Place(lanes[l], v)
  IN  /\ \A j \in DOMAIN out : Uuid(out[j].item) \in known \cap i.chunks
      /\ \A u \in known : Cardinality(at(u)) <= 1
      /\ \A u \in known \cap i.chunks, v \in known :
           beats(u, v) /\ at(v) # {} => at(u) # {} /\ Max(at(u)) < Min(at(v))
      /\ known \subseteq i.chunks => Len(out) = Min({i.limit, Cardinality(known)})

\* The lanes as asked for: as many candidates as the ranks are scaled for.
LEMMA LanesAsked ==
  ASSUME NEW i \in FusionInputs
  PROVE  LET k == candidate_k(i.limit)
             V == Take2(i.vector, k)
             K == Take2(i.keyword, k)
         IN  /\ i.limit \in Nat /\ k \in Nat
             /\ \A rank \in 1..k : RankScale % (RRF_K + rank) = 0
             /\ V \in Seq(IdTexts) /\ K \in Seq(IdTexts) /\ Len(V) <= k /\ Len(K) <= k
<1> DEFINE k == candidate_k(i.limit)
<1>1. /\ i.vector \in Seq(IdTexts) /\ i.keyword \in Seq(IdTexts) /\ i.limit \in Nat
      /\ \A rank \in 1..k : RankScale % (RRF_K + rank) = 0
  BY FusionInputsAssumption, Zenon
<1>2. k \in Nat
  <2> DEFINE a == i.limit * Overfetch
             b == MinCandidates
  <2>1. a \in Nat /\ b \in Nat
    BY <1>1, FusionAssumption
  <2>2. k = Max({a, b})
    BY Zenon DEF candidate_k
  <2> HIDE DEF a, b
  <2>3. \E x \in {a, b} : \A y \in {a, b} : x >= y
    BY <2>1
  <2>4. Max({a, b}) \in {a, b}
    BY <2>3 DEF Max
  <2> QED
    BY <2>1, <2>2, <2>4
<1> HIDE DEF k
<1>3. /\ Take2(i.vector, k) \in Seq(IdTexts) /\ Len(Take2(i.vector, k)) <= k
      /\ Take2(i.keyword, k) \in Seq(IdTexts) /\ Len(Take2(i.keyword, k)) <= k
  <2>1. ASSUME NEW s \in Seq(IdTexts)
        PROVE  Take2(s, k) \in Seq(IdTexts) /\ Len(Take2(s, k)) <= k
    <3>1. Take2(s, k) \in Seq(IdTexts) /\ Len(Take2(s, k)) = IF k < Len(s) THEN k ELSE Len(s)
      BY <1>2, TakeIs
    <3>2. Len(s) \in Nat
      OBVIOUS
    <3> QED
      BY <1>2, <3>1, <3>2
  <2> QED
    BY <1>1, <2>1
<1> QED
  BY <1>1, <1>2, <1>3, Zenon DEF k

\* The fused answer is fair by its scores.
LEMMA RecallIsFair ==
  ASSUME NEW k \in Nat, \A rank \in 1..k : RankScale % (RRF_K + rank) = 0,
         NEW V \in Seq(IdTexts), NEW K \in Seq(IdTexts), Len(V) <= k, Len(K) <= k,
         NEW chunks, NEW limit \in Nat, NEW score,
         score = [u \in Known(V, K) |-> fused_score(Lanes(V, K), <<"lower", u>>)]
  PROVE  LET ranked == Lanes(V, K)
             T == fuse(ranked, [l \in DOMAIN ranked |-> Scores(ranked[l])])
         IN  IsFair(Answer(T, limit, chunks), Known(V, K), score, chunks, limit)
<1> DEFINE ranked == Lanes(V, K)
           known == Known(V, K)
           items == {<<"lower", u>> : u \in known}
           scores == [l \in DOMAIN ranked |-> Scores(ranked[l])]
           hits == HitsOf(ranked, scores, known)
           T == Sorted(hits, InScoreOrder(hits))
<1>1. known \in SUBSET (Nat \ {0}) /\ IsFiniteSet(known)
  <2>1. /\ IsFiniteSet(KnownIn(V)) /\ KnownIn(V) \in SUBSET (Nat \ {0})
        /\ IsFiniteSet(KnownIn(K)) /\ KnownIn(K) \in SUBSET (Nat \ {0})
    BY KnownIsFinite
  <2> QED
    BY <2>1, FS_Union DEF Known
<1>2. \A u \in Nat \ {0} : fused_score(ranked, <<"lower", u>>) \in Nat
  BY FusedScoreFollows
<1>3. UNION {{ranked[l][j][1] : j \in DOMAIN ranked[l]} : l \in DOMAIN ranked} = items
  BY FusedItems
<1> HIDE DEF ranked, known
<1>4. fuse(ranked, scores) = T
  <2>1. hits = {FusedHit(ranked, scores, x) : x \in items}
    BY Zenon DEF HitsOf
  <2> HIDE DEF items, scores, hits
  <2> QED
    BY <1>3, <2>1, Zenon DEF fuse
<1>5. score \in [known -> Nat] /\ \A u \in known : fused_score(ranked, <<"lower", u>>) = score[u]
  BY <1>1, <1>2 DEF ranked, known
<1> HIDE DEF scores
<1>6. T \in Seq(hits) /\ NamesInOrder(T, known, score)
  BY <1>1, <1>5, HitsInOrder
<1> HIDE DEF T, hits
<1>7. IsFair(Answer(T, limit, chunks), known, score, chunks, limit)
  BY <1>5, <1>6, AnswerIsFair
<1> QED
  BY <1>4, <1>7, Zenon DEF ranked, known, scores

\* Nothing asked for, nothing answered.
LEMMA NothingIsFair ==
  ASSUME NEW known, IsFiniteSet(known), NEW score, NEW chunks
  PROVE  IsFair(<<>>, known, score, chunks, 0)
<1>1. DOMAIN <<>> = {} /\ Len(<<>>) = 0
  OBVIOUS
<1>2. \A u : NamedIn(<<>>, u) = {}
  BY <1>1, Zenon DEF NamedIn
<1>3. Cardinality({}) = 0 /\ 0 <= 1
  BY FS_EmptySet
<1>4. Min({0, Cardinality(known)}) = 0
  <2>1. Cardinality(known) \in Nat
    BY FS_CardinalityType
  <2> QED
    BY <2>1, Lesser
<1> QED
  BY <1>1, <1>2, <1>3, <1>4, Zenon DEF IsFair

LEMMA FusionFair ==
  ASSUME NEW i \in FusionInputs
  PROVE  FusesFairly(i)
<1> DEFINE k == candidate_k(i.limit)
           V == Take2(i.vector, k)
           K == Take2(i.keyword, k)
           lanes == <<V, K>>
           known == Known(V, K)
           ranked == Lanes(V, K)
           out == hybrid_recall(i.vector, i.keyword, i.chunks, i.limit)
           score == [u \in known |-> fused_score(ranked, <<"lower", u>>)]
           T == fuse(ranked, [l \in DOMAIN ranked |-> Scores(ranked[l])])
<1>1. /\ i.limit \in Nat /\ k \in Nat
      /\ \A rank \in 1..k : RankScale % (RRF_K + rank) = 0
      /\ V \in Seq(IdTexts) /\ K \in Seq(IdTexts) /\ Len(V) <= k /\ Len(K) <= k
  BY LanesAsked
<1>2. out = IF i.limit = 0 THEN <<>>
            ELSE Answer(T, i.limit, i.chunks)
  BY Zenon DEF hybrid_recall, Lanes, Answer
<1> HIDE DEF V, K, k, out
<1>3. IsFair(out, known, score, i.chunks, i.limit)
  <2>1. CASE i.limit = 0
    <3>1. IsFiniteSet(known)
      BY <1>1, KnownIsFinite, FS_Union DEF Known
    <3>2. IsFair(<<>>, known, score, i.chunks, 0)
      BY <3>1, NothingIsFair
    <3> QED
      BY <1>2, <2>1, <3>2, Zenon
  <2>2. CASE i.limit # 0
    <3>1. IsFair(Answer(T, i.limit, i.chunks), known, score, i.chunks, i.limit)
      <4> HIDE DEF score
      <4>1. score = [u \in known |-> fused_score(ranked, <<"lower", u>>)]
        BY DEF score
      <4> QED
        BY <1>1, <4>1, RecallIsFair
    <3> QED
      BY <1>2, <2>2, <3>1, Zenon
  <2> QED
    BY <2>1, <2>2
<1>4. lanes[1] = V /\ lanes[2] = K /\ 1..2 = {1, 2}
  OBVIOUS
<1> HIDE DEF lanes
<1>5. (UNION {{Uuid(lanes[l][j]) : j \in DOMAIN lanes[l]} : l \in 1..2}) \ {Missing} = known
  <2>1. UNION {{Uuid(lanes[l][j]) : j \in DOMAIN lanes[l]} : l \in {1, 2}}
          = {Uuid(V[j]) : j \in DOMAIN V} \cup {Uuid(K[j]) : j \in DOMAIN K}
    BY <1>4
  <2> QED
    BY <1>4, <2>1, Zenon DEF Known, KnownIn
<1>6. ASSUME NEW u \in known, NEW v \in known,
             \A l \in 1..2 : Place(lanes[l], u) <= Place(lanes[l], v),
             \E l \in 1..2 : Place(lanes[l], u) < Place(lanes[l], v)
      PROVE  score[u] > score[v]
  <2>1. /\ Place(V, u) <= Place(V, v) /\ Place(K, u) <= Place(K, v)
        /\ Place(V, u) < Place(V, v) \/ Place(K, u) < Place(K, v)
    BY <1>4, <1>6, Zenon
  <2>2. u \in Nat \ {0} /\ v \in Nat \ {0}
    BY <1>1, KnownIsFinite DEF Known
  <2>3. fused_score(ranked, <<"lower", u>>) > fused_score(ranked, <<"lower", v>>)
    BY <1>1, <2>1, <2>2, FusedScoreFollows
  <2> QED
    BY <2>3
<1> HIDE DEF known, score
<1>7. /\ \A j \in DOMAIN out : Uuid(out[j].item) \in known \cap i.chunks
      /\ \A u \in known : Cardinality(NamedIn(out, u)) <= 1
      /\ known \subseteq i.chunks => Len(out) = Min({i.limit, Cardinality(known)})
  BY <1>3, Zenon DEF IsFair
<1>8. ASSUME NEW u \in known \cap i.chunks, NEW v \in known,
             \A l \in 1..2 : Place(lanes[l], u) <= Place(lanes[l], v),
             \E l \in 1..2 : Place(lanes[l], u) < Place(lanes[l], v),
             NamedIn(out, v) # {}
      PROVE  NamedIn(out, u) # {} /\ Max(NamedIn(out, u)) < Min(NamedIn(out, v))
  <2>1. score[u] > score[v]
    BY <1>6, <1>8
  <2> QED
    BY <1>3, <1>8, <2>1, Zenon DEF IsFair
<1> QED
  BY <1>5, <1>7, <1>8, ZenonT(60) DEF FusesFairly, NamedIn, lanes, V, K, k, out

(***************************************************************************)
(* Fingerprints follow the row                                             *)
(***************************************************************************)

\* A fingerprint reads seven fields of a drawer.
LEMMA SameFingerprint ==
  ASSUME NEW d, NEW e, NEW estate, \A c \in FingerprintFields : d[c] = e[c]
  PROVE  fingerprint(estate, d) = fingerprint(estate, e)
<1>1. /\ d.adjective = e.adjective /\ d.operational = e.operational
      /\ d.provenance = e.provenance /\ d.udc = e.udc /\ d.qid = e.qid
      /\ d.lineage = e.lineage /\ d.eventTime = e.eventTime
  BY DEF FingerprintFields
<1> QED
  BY <1>1, Zenon DEF fingerprint

\* The writes of a drawer row.
IsWrite(w) ==
  /\ w.op \in {"bitmap", "reanchor", "expunge", "scrub", "wipe"}
  /\ w.op = "bitmap" => w.column \in {"adjective", "operational", "provenance"}

\* Two changes say the same of a column.
SameFor(u, p, c) == /\ c \in DOMAIN u <=> c \in DOMAIN p
                    /\ c \in DOMAIN u => u[c] = p[c]

\* What the fingerprint is recomputed from is what is written, as far as it reads it.
LEMMA PatchIsWritten ==
  ASSUME NEW w, IsWrite(w)
  PROVE  /\ "fp" \notin DOMAIN update_vals(w) /\ "eventTime" \notin DOMAIN update_vals(w)
         /\ w.op # "wipe" => \A c \in FingerprintFields : SameFor(update_vals(w), patch(w), c)
         /\ w.op = "wipe" => \A c \in FingerprintFields : c \notin DOMAIN update_vals(w)
<1>1. CASE w.op = "bitmap"
  <2>1. /\ update_vals(w) = [c \in {w.column} |-> w.value]
        /\ patch(w) = [c \in {w.column} |-> w.value]
    BY <1>1 DEF update_vals, patch
  <2>2. w.column # "fp" /\ w.column # "eventTime"
    BY <1>1 DEF IsWrite
  <2> QED
    BY <1>1, <2>1, <2>2 DEF SameFor
<1>2. CASE w.op = "reanchor" /\ w.lattice # <<>>
  <2>1. /\ update_vals(w) = [udc |-> w.lattice[1].udc, qid |-> w.lattice[1].qid, parent |-> w.parent]
        /\ patch(w) = [udc |-> w.lattice[1].udc, qid |-> w.lattice[1].qid]
    BY <1>2 DEF update_vals, patch
  <2> QED
    BY <1>2, <2>1 DEF SameFor, FingerprintFields
<1>3. CASE w.op = "reanchor" /\ w.lattice = <<>>
  <2>1. update_vals(w) = [parent |-> w.parent] /\ patch(w) = <<>>
    BY <1>3 DEF update_vals, patch
  <2>2. DOMAIN <<>> = {}
    OBVIOUS
  <2> QED
    BY <1>3, <2>1, <2>2 DEF SameFor, FingerprintFields
<1>4. CASE w.op = "expunge"
  <2>1. /\ update_vals(w) = [adjective |-> w.value, content |-> "none", tombstonedAt |-> <<w.now>>]
        /\ patch(w) = [adjective |-> w.value, content |-> "none", tombstonedAt |-> <<w.now>>]
    BY <1>4 DEF update_vals, patch
  <2> QED
    BY <1>4, <2>1 DEF SameFor
<1>5. CASE w.op = "scrub"
  <2>1. update_vals(w) = [content |-> "none"] /\ patch(w) = [content |-> "none"]
    BY <1>5 DEF update_vals, patch
  <2> QED
    BY <1>5, <2>1 DEF SameFor
<1>6. CASE w.op = "wipe"
  <2>1. update_vals(w) = [content |-> "none"]
    BY <1>6 DEF update_vals
  <2> QED
    BY <1>6, <2>1 DEF FingerprintFields
<1> QED
  BY <1>1, <1>2, <1>3, <1>4, <1>5, <1>6 DEF IsWrite

\* A drawer row with the fingerprint of what it holds.
Follows(row, names, t) ==
  /\ DOMAIN row = names /\ row = [c \in names |-> row[c]]
  /\ row.fp = <<fingerprint("estate", row)>> /\ row.eventTime = t

\* A write keeps it so.
LEMMA WriteFollows ==
  ASSUME NEW names, FingerprintFields \cup {"fp"} \subseteq names, NEW t,
         NEW row, Follows(row, names, t), NEW w, IsWrite(w)
  PROVE  Follows(Mutated("estate", row, w), names, t)
<1> DEFINE new == Assigned(row, update_vals(w))
           alike == Assigned(row, patch(w))
           after == Mutated("estate", row, w)
<1>1. \A u : /\ DOMAIN Assigned(row, u) = names
             /\ \A c \in names : Assigned(row, u)[c] = IF c \in DOMAIN u THEN u[c] ELSE row[c]
  BY Zenon DEF Assigned, Follows
<1>2. /\ "fp" \notin DOMAIN update_vals(w) /\ "eventTime" \notin DOMAIN update_vals(w)
      /\ w.op # "wipe" => \A c \in FingerprintFields : SameFor(update_vals(w), patch(w), c)
      /\ w.op = "wipe" => \A c \in FingerprintFields : c \notin DOMAIN update_vals(w)
  BY PatchIsWritten
<1>3. "fp" \in names /\ "eventTime" \in names /\ \A c \in FingerprintFields : c \in names
  BY DEF FingerprintFields
<1>4. new.eventTime = t /\ new.fp = row.fp
  BY <1>1, <1>2, <1>3, ZenonT(60) DEF Follows
<1>5. new = [c \in names |-> new[c]] /\ DOMAIN new = names
  BY <1>1, Zenon DEF Assigned
<1>6. CASE w.op = "wipe"
  <2>1. after = new
    BY <1>6, Zenon DEF Mutated
  <2>2. \A c \in FingerprintFields : new[c] = row[c]
    BY <1>1, <1>2, <1>3, <1>6, Zenon
  <2> HIDE DEF new, after
  <2>3. fingerprint("estate", new) = fingerprint("estate", row)
    BY <2>2, SameFingerprint
  <2>4. Follows(new, names, t)
    BY <1>4, <1>5, <2>3 DEF Follows
  <2> QED
    BY <2>1, <2>4 DEF after
<1>7. CASE w.op # "wipe"
  <2> DEFINE fresh == <<fingerprint("estate", alike)>>
  <2>1. after = [new EXCEPT !.fp = fresh]
    BY <1>7, Zenon DEF Mutated, recomputed_fingerprint
  <2>2. \A c \in FingerprintFields : new[c] = alike[c]
    BY <1>1, <1>2, <1>3, <1>7, Zenon DEF SameFor
  <2> HIDE DEF new, after, fresh, alike
  <2>3. /\ DOMAIN after = names /\ after.fp = fresh
        /\ \A c \in names : c # "fp" => after[c] = new[c]
        /\ after = [c \in names |-> after[c]]
    BY <1>3, <1>5, <2>1
  <2>4. \A c \in FingerprintFields : after[c] = alike[c]
    <3>1. \A c \in FingerprintFields : c # "fp"
      BY DEF FingerprintFields
    <3> QED
      BY <1>3, <2>2, <2>3, <3>1
  <2>5. fingerprint("estate", after) = fingerprint("estate", alike)
    BY <2>4, SameFingerprint
  <2>6. after.eventTime = t
    <3>1. "eventTime" # "fp"
      OBVIOUS
    <3> QED
      BY <1>3, <1>4, <2>3, <3>1
  <2>7. Follows(after, names, t)
    BY <2>3, <2>5, <2>6, Zenon DEF Follows, fresh
  <2> QED
    BY <2>7 DEF after
<1> QED
  BY <1>6, <1>7

\* After any writes the stored fingerprint is that of the row.
LEMMA WritesFollow ==
  ASSUME NEW names, FingerprintFields \cup {"fp"} \subseteq names, NEW t,
         NEW born, Follows(born, names, t), NEW m \in Nat, NEW writes,
         \A n \in 1..m : IsWrite(writes[n]), NEW after,
         after = [n \in Nat |-> IF n = 0 THEN born ELSE Mutated("estate", after[n - 1], writes[n])]
  PROVE  Follows(after[m], names, t)
<1> DEFINE T == {n \in Nat : n <= m => Follows(after[n], names, t)}
<1>1. after[0] = born /\ \A n \in Nat : after[n + 1] = Mutated("estate", after[n], writes[n + 1])
  <2> DEFINE h == [n \in Nat |-> IF n = 0 THEN born ELSE Mutated("estate", after[n - 1], writes[n])]
  <2>1. after = h
    BY Zenon
  <2>2. h[0] = born
    OBVIOUS
  <2>3. ASSUME NEW n \in Nat PROVE h[n + 1] = Mutated("estate", after[n], writes[n + 1])
    <3>1. n + 1 \in Nat /\ n + 1 # 0 /\ (n + 1) - 1 = n
      OBVIOUS
    <3> QED
      BY <3>1
  <2> HIDE DEF h
  <2> QED
    BY <2>1, <2>2, <2>3
<1>2. 0 \in T
  BY <1>1
<1>3. ASSUME NEW n \in Nat, n \in T PROVE n + 1 \in T
  <2> SUFFICES ASSUME n + 1 <= m PROVE Follows(after[n + 1], names, t)
    OBVIOUS
  <2>1. Follows(after[n], names, t) /\ IsWrite(writes[n + 1])
    BY <1>3
  <2>2. Follows(Mutated("estate", after[n], writes[n + 1]), names, t)
    BY <2>1, WriteFollows
  <2> QED
    BY <1>1, <2>2
<1> HIDE DEF T
<1>4. Nat \subseteq T
  BY <1>2, <1>3, Induction
<1>5. m \in T
  BY <1>4
<1> QED
  BY <1>5 DEF T

\* The capture week counts whole weeks, whatever the time of day.
LEMMA DayInMilliseconds == Day = 86400000
  BY SMT DEF Day

\* It is a number.
LEMMA DayIsNumber == Day \in Nat
  BY SMT DEF Day

\* The second of the day a millisecond of it falls in.
LEMMA SecondOfDay ==
  ASSUME NEW ms \in Int, 0 <= ms, ms < Day
  PROVE  (ms \div 1000) \in Int /\ 0 <= ms \div 1000 /\ ms \div 1000 <= 86399
<1>1. ms < 86400000
  BY DayInMilliseconds, SMT
<1> QED
  BY <1>1, SMT

\* The week a second falls in.
LEMMA WeeksInSeconds ==
  ASSUME NEW q \in Nat, NEW e \in Nat, e < 604800
  PROVE  (604800 * q + e) \div 604800 = q
  BY SMT

\* The week bucket of a capture is that of its day, counted from the epoch day.
LEMMA WeekOfDay ==
  ASSUME NEW t, t.day \in Int, t.ms \in Int, 0 <= t.ms, t.ms < Day,
         t.day >= CaptureWeekEpochDay
  PROVE  capture_week_bucket(t) = ((t.day - CaptureWeekEpochDay) \div 7) % 256
<1> DEFINE d == t.day - CaptureWeekEpochDay
           r == t.ms \div 1000
           q == d \div 7
           k == d % 7
           s == d * 86400 + r
           e == 86400 * k + r
<1>1. d \in Nat
  BY SMT DEF CaptureWeekEpochDay
<1>2. r \in Int /\ 0 <= r /\ r <= 86399
  BY SecondOfDay
<1>3. q \in Nat /\ k \in Int /\ 0 <= k /\ k <= 6 /\ d = 7 * q + k
  BY <1>1, SMT
<1>4. capture_week_bucket(t) = IF s <= 0 THEN 0 ELSE (s \div (7 * 86400)) % 256
  BY SMT DEF capture_week_bucket
<1> HIDE DEF d, r, q, k
<1>5. s = 604800 * q + e /\ e \in Nat /\ e < 604800 /\ 7 * 86400 = 604800
  BY <1>2, <1>3, SMT
<1>6. s \in Int /\ (s <= 0 => q = 0)
  BY <1>3, <1>5, SMT
<1> HIDE DEF s, e
<1>7. s \div 604800 = q
  BY <1>3, <1>5, WeeksInSeconds, SMT
<1>8. 0 % 256 = 0
  BY SMT
<1>9. q = (t.day - CaptureWeekEpochDay) \div 7
  BY SMT DEF q, d
<1> HIDE DEF q
<1>10. capture_week_bucket(t) = IF s <= 0 THEN 0 ELSE q % 256
  BY <1>4, <1>5, <1>7, SMT
<1> QED
  BY <1>6, <1>8, <1>9, <1>10, SMT

(***************************************************************************)
(* The inputs under examination                                            *)
(***************************************************************************)

\* What is under examination is one of the inputs of its kind.
InputsInv ==
  /\ Given("entity") => input.of \in EntityInputs
  /\ Given("time") => input.of \in TimeInputs
  /\ Given("manifest") => input.of \in ManifestInputs
  /\ Given("field") => input.of \in FieldInputs
  /\ Given("fusion") => input.of \in FusionInputs
  /\ Given("sources") => input.of \in SourceInputs
  /\ Given("text") => input.of \in TextInputs
  /\ Given("table") => input.of \in TableInputs
  /\ Given("window") => input.of \in WindowInputs
  /\ Given("mutation") => input.of \in MutationInputs
  /\ Given("bundle") => input.of \in BundleInputs

\* And it always is.
LEMMA InputsHold == Spec => []InputsInv
<1> USE DEF InputsInv, Given, NoInput
<1>1. Init => InputsInv
  BY DEF Init
<1>2. InputsInv /\ [Next]_input => InputsInv'
  <2> SUFFICES ASSUME InputsInv, [Next]_input PROVE InputsInv'
    OBVIOUS
  <2>1. CASE Store
    BY <2>1 DEF Store, Try
  <2>2. CASE Tell
    BY <2>2 DEF Tell, Try
  <2>3. CASE Open
    BY <2>3 DEF Open, Try
  <2>4. CASE Pack
    BY <2>4 DEF Pack, Try
  <2>5. CASE Fuse
    BY <2>5 DEF Fuse, Try
  <2>6. CASE RankSources
    BY <2>6 DEF RankSources, Try
  <2>7. CASE ChunkText
    BY <2>7 DEF ChunkText, Try
  <2>8. CASE ScanDrawers
    BY <2>8 DEF ScanDrawers, Try
  <2>9. CASE ReadWindow
    BY <2>9 DEF ReadWindow, Try
  <2>10. CASE MutateDrawer
    BY <2>10 DEF MutateDrawer, Try
  <2>11. CASE FoldWing
    BY <2>11 DEF FoldWing, Try
  <2>12. CASE Return
    BY <2>12 DEF Return
  <2>13. CASE UNCHANGED input
    BY <2>13
  <2> QED
    BY <2>1, <2>2, <2>3, <2>4, <2>5, <2>6, <2>7, <2>8, <2>9, <2>10, <2>11, <2>12, <2>13 DEF Next
<1> HIDE DEF InputsInv
<1> QED
  BY <1>1, <1>2, PTL DEF Spec

\* For every layout of the bitmaps, every field and every value of its enum, and any other
\* bits around it: what is written is read back, every other field keeps its value, the
\* writers of single flags and of new rows touch the bits they name, and the audit gate's
\* slots are the accessors' fields.
THEOREM FieldsStayApart == Spec => []FieldsKeepApart
<1>1. InputsInv => FieldsKeepApart
  <2> SUFFICES ASSUME InputsInv, Given("field") PROVE FieldsKeepApart
    BY DEF FieldsKeepApart
  <2> DEFINE i == input.of
             layout == Layouts[i.layout]
             f == layout[i.field]
             written == Writes(f, i.raw, i.bm)
             keeps(bm, changed) ==
               \A g \in DOMAIN layout \ changed : Reads(layout[g], bm) = Reads(layout[g], i.bm)
  <2>1. /\ i.layout \in DOMAIN Layouts
        /\ i.field \in DOMAIN layout
        /\ i.raw \in f.legal
    BY FieldInputsAssumption DEF InputsInv
  <2>2. Apart(layout) /\ \A g \in DOMAIN layout : Roomy(layout[g])
    BY <2>1, LayoutsAreSound
  <2> HIDE DEF i
  <2>3. Reads(f, written) = i.raw
    <3> HIDE DEF layout
    <3> QED
      BY <2>1, <2>2, ReadsWritten
  <2>4. keeps(written, {i.field})
    <3> HIDE DEF layout
    <3> SUFFICES ASSUME NEW g \in DOMAIN layout, g # i.field
                 PROVE  Reads(layout[g], written) = Reads(layout[g], i.bm)
      OBVIOUS
    <3>1. Below(f, layout[g]) \/ Below(layout[g], f)
      BY <2>1, <2>2 DEF Apart
    <3>2. /\ f.low \in Nat /\ f.width \in Nat
          /\ layout[g].low \in Nat /\ layout[g].width \in Nat
      BY <2>1, <2>2 DEF Roomy
    <3> QED
      BY <3>1, <3>2, ReadsOther
  <2>5. ASSUME i.layout = "tunnel"
        PROVE  /\ \A retired \in {with_retired(i.bm), with_unretired(i.bm)} :
                    keeps(retired, {"is_retired"})
               /\ Reads(layout.is_retired, with_retired(i.bm)) = 1
               /\ Reads(layout.is_retired, with_unretired(with_retired(i.bm))) = 0
               /\ i.field = "lifecycle" => with_lifecycle(i.bm, i.raw) = written
    <3>1. layout = TunnelOperational
      BY <2>5 DEF Layouts
    <3>2. i.field = "lifecycle" => with_lifecycle(i.bm, i.raw) = written
      BY <3>1 DEF with_lifecycle, Writes, TunnelOperational, TunnelLifecycle, Field
    <3> HIDE DEF layout
    <3> QED
      BY <3>1, <3>2, RetiredIsABit
  <2>6. ASSUME i.layout = "proposal", i.field = "confidence"
        PROVE  \A k \in ProposalKind.legal, c \in 0..3 : ComposedReads(<<k, c, c, i.raw>>)
    <3>1. i.raw \in ProposalConfidenceBucket.legal
      BY <2>1, <2>6 DEF Layouts, ProposalOperational
    <3> QED
      BY <3>1, ComposedIsWritten
  <2>7. \A ingested \in BOOLEAN :
          LET bm == learn_operational(16, ingested, 3)
          IN  /\ Reads(RefreshPolicy, bm) = 16
              /\ (Reads(LearnMode, bm) = 1) <=> ingested
              /\ Reads(LearnedReferenceSource, bm) = 3
              /\ Reads(DriftSeverity, bm) = 0
    BY LearnedIsWritten
  <2> QED
    BY <2>3, <2>4, <2>5, <2>6, <2>7, SlotsAreFields, ZenonT(60) DEF FieldsKeepApart, SlotIs, i
<1> QED
  BY <1>1, InputsHold, PTL

\* An estate whose first opening stopped anywhere is completed by the next
\* one without losing its identity or anything set in between, and one more
\* opening changes nothing (ReopenKeepsManifest).
THEOREM ReopeningKeepsManifest == Spec => []ReopenKeepsManifest
<1>1. InputsInv => ReopenKeepsManifest
  <2> SUFFICES ASSUME InputsInv, Given("manifest") PROVE ReopenKeepsManifest
    BY DEF ReopenKeepsManifest
  <2> DEFINE i == input.of
             first == populate_v1_manifest_defaults(i.stored, i.n, "uuid-1", Time(1, 0))
             set == set_meta(first, i.key, i.value)
             second == populate_v1_manifest_defaults(set, Len(REQUIRED), "uuid-2", Time(2, 0))
             third == populate_v1_manifest_defaults(second, Len(REQUIRED), "uuid-3", Time(3, 0))
  <2>1. /\ DOMAIN i.stored \subseteq ManifestKeys
        /\ i.n \in 0..Len(REQUIRED)
        /\ i.key \in ManifestKeys
    BY ManifestInputsAssumption, SMTT(40) DEF InputsInv
  <2> HIDE DEF i
  <2>2. DOMAIN set \subseteq ManifestKeys
    <3> DEFINE D == LET defaults == v1_defaults("uuid-1", Time(1, 0))
                    IN  [k \in {REQUIRED[j] : j \in 1..i.n} |-> defaults[k]]
    <3>1. first = i.stored ++ D
      BY Zenon DEF populate_v1_manifest_defaults
    <3>2. DOMAIN D \subseteq ManifestKeys
      BY <2>1, RequiredKeys, SMTT(40)
    <3> HIDE DEF D
    <3>3. DOMAIN first \subseteq ManifestKeys
      <4>1. Merges(first, i.stored, D)
        BY <3>1, Merged, Zenon
      <4> QED
        BY <2>1, <3>2, <4>1, SMTT(40) DEF Merges
    <3> HIDE DEF first
    <3> QED
      <4> DEFINE given == [k \in {i.key} |-> i.value]
      <4>1. set = given ++ first
        BY Zenon DEF set_meta
      <4>2. DOMAIN given = {i.key}
        OBVIOUS
      <4> HIDE DEF given
      <4>3. Merges(set, given, first)
        BY <4>1, Merged, Zenon
      <4> QED
        BY <2>1, <3>3, <4>2, <4>3 DEF Merges
  <2> HIDE DEF first, set
  <2>3. /\ \A k \in DOMAIN set : k \in DOMAIN second /\ second[k] = set[k]
        /\ {REQUIRED[k] : k \in DOMAIN REQUIRED} \subseteq DOMAIN second
        /\ third = second
    <3>1. Completed(set, "uuid-2", Time(2, 0), "uuid-3", Time(3, 0))
      BY OpenedAgain
    <3> QED
      BY <3>1, Zenon DEF Completed
  <2> HIDE DEF second, third
  <2>4. \A k \in DOMAIN set : get_meta(second, k) = set[k]
    BY <2>3 DEF get_meta
  <2>5. ASSUME NEW k \in DOMAIN set
        PROVE  read_manifest(second)[k] = read_manifest(set)[k]
    <3>1. SameAt(read_manifest(second), read_manifest(set), k)
      BY <2>3, ManifestReadsOneKey
    <3>2. k \in DOMAIN read_manifest(second)
      BY <2>2, ManifestReadsEveryKey
    <3> QED
      BY <3>1, <3>2 DEF SameAt
  <2> QED
    BY <2>3, <2>4, <2>5, Zenon DEF ReopenKeepsManifest, i, first, set, second, third
<1> QED
  BY <1>1, InputsHold, PTL

\* The two ISO-8601 writers, the closed form of the store and the loops of the
\* verbs, write the same text for every moment of the years 1970 to 9999, and
\* both readers find that moment in it, CorpusKit's to the second.
THEOREM TimesSurviveStorage == Spec => []TimeRoundTrips
<1>1. InputsInv => TimeRoundTrips
  <2> SUFFICES ASSUME InputsInv, Given("time") PROVE TimeRoundTrips
    BY DEF TimeRoundTrips
  <2> DEFINE t == input.of
  <2>1. t = Time(t.day, t.ms) /\ t.day \in 0..LastDay /\ t.ms \in 0..(Day - 1)
    BY TimeInputsAssumption DEF InputsInv, IsMoment
  <2> HIDE DEF t
  <2>2. t.day \in Nat /\ t.ms \in Int /\ 0 <= t.ms
    BY <2>1
  <2>3. PICK day \in Nat, ms \in Int : day = t.day /\ ms = t.ms
    BY <2>2
  <2>4. /\ epoch_to_iso8601(t) = format_iso8601(t)
        /\ parse_iso8601(format_iso8601(t)) = t
        /\ parse_iso8601_utc(format_iso8601(t)) = Time(day, ms - (ms % 1000))
    <3>1. t = Time(day, ms) /\ 0 <= ms
      BY <2>1, <2>2, <2>3
    <3> QED
      BY <3>1, TimeIsRead
  <2> QED
    BY <2>3, <2>4, ZenonT(60) DEF TimeRoundTrips, t
<1> QED
  BY <1>1, InputsHold, PTL

\* Whatever entity of the fifteen kinds the store is handed, the row written
\* is one its table accepts, its indices are on columns the table has, and
\* what each backend hands back decodes to the entity; and times survive too
\* (RowsSurviveStorage).
THEOREM RowsSurvive == Spec => []RowsSurviveStorage
<1>1. InputsInv => EntityRoundTrips
  <2> SUFFICES ASSUME InputsInv, Given("entity") PROVE EntityRoundTrips
    BY DEF EntityRoundTrips
  <2>1. input.of.table \in Coded /\ IsEntity(input.of.table, input.of.entity)
    BY EntityInputsAssumption DEF InputsInv
  <2>2. RoundTrips(input.of.table, input.of.entity)
    BY <2>1, EntitySurvives
  <2> QED
    BY <2>2, ZenonT(60) DEF EntityRoundTrips, RoundTrips
<1> QED
  BY <1>1, InputsHold, TimesSurviveStorage, PTL DEF RowsSurviveStorage

\* However the two lanes rank, whatever casing they hold an id in and however often: the
\* fused answer names a chunk once, a chunk that no lane ranks lower than another and one
\* ranks higher comes before it, and the answer is as long as it may be; and every lane
\* asked for by source reports each source once, by the best of all its chunks
\* (RankingIsFair).
THEOREM RankingStaysFair == Spec => []RankingIsFair
<1>1. InputsInv => FusionIsFair
  <2> SUFFICES ASSUME InputsInv, Given("fusion") PROVE FusionIsFair
    BY DEF FusionIsFair
  <2>1. input.of \in FusionInputs
    BY DEF InputsInv
  <2>2. FusesFairly(input.of)
    BY <2>1, FusionFair
  <2> QED
    BY <2>2, ZenonT(60) DEF FusionIsFair, FusesFairly
<1>2. InputsInv => SourcesRankByBestChunk
  <2> SUFFICES ASSUME InputsInv, Given("sources") PROVE SourcesRankByBestChunk
    BY DEF SourcesRankByBestChunk
  <2>1. input.of \in SourceInputs
    BY DEF InputsInv
  <2>2. RanksSources(input.of,
                     bm25_top_k_by_source(input.of.slot.rows, input.of.csm, input.of.limit), TRUE)
    BY <2>1, KeywordSources
  <2>3. \A nearest \in BOOLEAN :
          LET out == float_per_signal(<<input.of.slot>>, input.of.csm, input.of.limit, nearest)[1]
          IN  /\ (out.lane = "Hits") <=> (out.hits # <<>>)
              /\ input.of.slot.embeds = "vector" /\ ~input.of.slot.fails =>
                   RanksSources(input.of, out.hits, nearest)
    BY <2>1, FloatSources, Zenon
  <2> QED
    BY <2>2, <2>3, Zenon DEF SourcesRankByBestChunk
<1> QED
  BY <1>1, <1>2, InputsHold, PTL DEF RankingIsFair

\* However a drawer is mutated, its stored fingerprint stays the one computed
\* from the row, although each write computes it from the row before and a
\* patch of its own; and a capture at or after the epoch day falls in the
\* week bucket of its day (FingerprintsFollow).
THEOREM FingerprintsStayTrue == Spec => []FingerprintsFollow
<1>1. InputsInv => FingerprintsFollow
  <2> SUFFICES ASSUME InputsInv, Given("mutation") PROVE FingerprintsFollow
    BY DEF FingerprintsFollow
  <2> DEFINE i == input.of
             names == DOMAIN i.row
             born == [i.row EXCEPT !.fp = <<fingerprint("estate", i.row)>>]
             after[n \in Nat] ==
               IF n = 0 THEN born ELSE Mutated("estate", after[n - 1], i.writes[n])
             m == Len(i.writes)
             row == after[m]
             t == row.eventTime
  <2>1. i \in MutationInputs
    BY DEF InputsInv
  <2>2. /\ FingerprintFields \cup {"fp"} \subseteq names
        /\ i.row = [c \in names |-> i.row[c]]
        /\ i.row.eventTime.day \in Int /\ i.row.eventTime.ms \in 0..(Day - 1)
        /\ m \in Nat
        /\ \A n \in 1..m : IsWrite(i.writes[n])
    BY <2>1, MutationInputsAssumption, Zenon DEF IsWrite
  <2>3. Follows(born, names, i.row.eventTime)
    <3>1. DOMAIN born = names /\ born = [c \in names |-> born[c]]
      BY <2>2
    <3>2. born.fp = <<fingerprint("estate", i.row)>>
      BY <2>2
    <3>3. \A c \in FingerprintFields : born[c] = i.row[c]
      BY <2>2 DEF FingerprintFields
    <3>4. fingerprint("estate", born) = fingerprint("estate", i.row)
      BY <3>3, SameFingerprint
    <3>5. born.eventTime = i.row.eventTime
      BY <3>3 DEF FingerprintFields
    <3> QED
      BY <3>1, <3>2, <3>4, <3>5, Zenon DEF Follows
  <2>4. after = [n \in Nat |-> IF n = 0 THEN born ELSE Mutated("estate", after[n - 1], i.writes[n])]
    BY SMTT(40)
  <2> DEFINE w == i.writes
             time == i.row.eventTime
             table == names
  <2> HIDE DEF born, after, m
  <2>5. \A n \in 1..m : IsWrite(w[n])
    BY <2>2
  <2>6. after = [n \in Nat |-> IF n = 0 THEN born ELSE Mutated("estate", after[n - 1], w[n])]
    BY <2>4
  <2>7. Follows(born, table, time) /\ FingerprintFields \cup {"fp"} \subseteq table /\ m \in Nat
    BY <2>2, <2>3
  <2> HIDE DEF w, time, table
  <2>8. Follows(after[m], table, time)
    BY <2>5, <2>6, <2>7, WritesFollow
  <2>9. Follows(row, names, i.row.eventTime)
    BY <2>8, Zenon DEF time, table
  <2>10. row.fp = <<fingerprint("estate", row)>> /\ t = i.row.eventTime
    BY <2>9, Zenon DEF Follows
  <2>11. 0 <= t.ms /\ t.ms < Day /\ t.ms \in Int /\ t.day \in Int
    BY <2>2, <2>10, DayIsNumber, SMT
  <2>12. t.day >= CaptureWeekEpochDay =>
          capture_week_bucket(t) = ((t.day - CaptureWeekEpochDay) \div 7) % 256
    BY <2>11, WeekOfDay
  <2> QED
    BY <2>10, <2>12, ZenonT(60) DEF FingerprintsFollow, born, after, m
<1> QED
  BY <1>1, InputsHold, PTL
=============================================================================
