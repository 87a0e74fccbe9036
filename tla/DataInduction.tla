--------------------------- MODULE DataInduction ---------------------------
(***************************************************************************)
(* Induction and recursion over the natural numbers, stated with sets and  *)
(* functions: what is to be shown for every number is a set that the       *)
(* numbers belong to.  The proof modules cite these lemmas where the code  *)
(* walks a chain or adds up the sizes of vectors.                          *)
(***************************************************************************)
EXTENDS Integers, WellFoundedInduction, TLAPS

\* Every set of numbers has a smallest one.
LEMMA SmallestExists ==
  ASSUME NEW S, S \subseteq Nat, S # {}
  PROVE  \E m \in S : \A n \in S : m <= n
<1>1. PICK m \in S : \A n \in S : ~ (<<n, m>> \in OpToRel(<, Nat))
  BY NatLessThanWellFounded, WFMin
<1>2. \A n \in S : n < m => <<n, m>> \in OpToRel(<, Nat)
  BY DEF OpToRel
<1>3. ASSUME NEW n \in S PROVE m <= n
  <2>1. m \in Nat /\ n \in Nat /\ ~ (n < m)
    BY <1>1, <1>2
  <2> QED
    BY <2>1
<1> QED
  BY <1>3

\* Every set of numbers with a bound has a largest one.
LEMMA LargestExists ==
  ASSUME NEW S, S \subseteq Nat, S # {}, NEW b \in Nat, \A n \in S : n <= b
  PROVE  \E m \in S : \A n \in S : n <= m
<1> DEFINE T == {b - n : n \in S}
<1>1. T \subseteq Nat /\ T # {}
  <2>1. ASSUME NEW n \in S PROVE b - n \in Nat
    <3>1. n \in Nat /\ n <= b
      OBVIOUS
    <3> QED
      BY <3>1
  <2> QED
    BY <2>1
<1>2. PICK d \in T : \A e \in T : d <= e
  BY <1>1, SmallestExists
<1>3. PICK m \in S : d = b - m
  BY <1>2
<1>4. ASSUME NEW n \in S PROVE n <= m
  <2>1. b - n \in T /\ m \in Nat /\ n \in Nat
    OBVIOUS
  <2>2. b - m <= b - n
    BY <1>2, <1>3, <2>1
  <2> QED
    BY <2>1, <2>2
<1> QED
  BY <1>3, <1>4

\* A set that has 0 and the successor of each of its numbers has them all.
LEMMA NumbersIn ==
  ASSUME NEW S, 0 \in S, \A n \in Nat : n \in S => n + 1 \in S
  PROVE  Nat \subseteq S
<1> SUFFICES ASSUME ~(Nat \subseteq S) PROVE FALSE
  OBVIOUS
<1>1. PICK m \in Nat \ S : \A n \in Nat \ S : m <= n
  <2>1. Nat \ S \subseteq Nat /\ Nat \ S # {}
    OBVIOUS
  <2> QED
    BY <2>1, SmallestExists
<1>2. m - 1 \in Nat /\ m - 1 \notin Nat \ S
  BY <1>1
<1> QED
  BY <1>1, <1>2

\* The same from a number to a later one.
LEMMA NumbersUpTo ==
  ASSUME NEW b \in Nat, NEW S, 0 \in S, \A n \in 0 .. b - 1 : n \in S => n + 1 \in S
  PROVE  0 .. b \subseteq S
<1> DEFINE T == {n \in Nat : n <= b => n \in S}
<1>1. 0 \in T /\ \A n \in Nat : n \in T => n + 1 \in T
  OBVIOUS
<1>2. Nat \subseteq T
  BY <1>1, NumbersIn
<1> QED
  BY <1>2

-----------------------------------------------------------------------------
\* The values of a recursion up to b.
Partial(D, a, g, b, f) ==
  /\ f \in [0 .. b -> D]
  /\ f[0] = a
  /\ \A i \in 1 .. b : f[i] = g[<<i, f[i - 1]>>]

LEMMA PartialExists ==
  ASSUME NEW D, NEW a \in D, NEW g \in [Nat \X D -> D], NEW b \in Nat
  PROVE  \E f : Partial(D, a, g, b, f)
<1> DEFINE S == {m \in Nat : \E f : Partial(D, a, g, m, f)}
<1>1. 0 \in S
  <2>1. Partial(D, a, g, 0, [i \in 0 .. 0 |-> a])
    BY DEF Partial
  <2> QED
    BY <2>1
<1>2. ASSUME NEW m \in Nat, m \in S PROVE m + 1 \in S
  <2>1. PICK f : Partial(D, a, g, m, f)
    BY <1>2
  <2> DEFINE h == [i \in 0 .. m + 1 |-> IF i <= m THEN f[i] ELSE g[<<m + 1, f[m]>>]]
  <2>2. h \in [0 .. m + 1 -> D] /\ h[0] = a
    BY <2>1 DEF Partial
  <2>3. ASSUME NEW i \in 1 .. m + 1 PROVE h[i] = g[<<i, h[i - 1]>>]
    <3>1. h[i - 1] = f[i - 1]
      OBVIOUS
    <3>2. CASE i = m + 1
      BY <3>1, <3>2
    <3>3. CASE i # m + 1
      BY <2>1, <3>1, <3>3 DEF Partial
    <3> QED
      BY <3>2, <3>3
  <2>4. Partial(D, a, g, m + 1, h)
    BY <2>2, <2>3 DEF Partial
  <2> QED
    BY <2>4
<1> HIDE DEF S
<1>3. b \in S
  BY <1>1, <1>2, NumbersIn
<1> QED
  BY <1>3 DEF S

LEMMA PartialUnique ==
  ASSUME NEW D, NEW a, NEW g, NEW b \in Nat, NEW c \in Nat, b <= c, NEW f, NEW h,
         Partial(D, a, g, b, f), Partial(D, a, g, c, h)
  PROVE  f[b] = h[b]
<1> DEFINE S == {i \in 0 .. b : f[i] = h[i]}
<1>1. 0 \in S
  BY DEF Partial
<1>2. ASSUME NEW i \in 0 .. b - 1, i \in S PROVE i + 1 \in S
  <2>1. f[i + 1] = g[<<i + 1, f[i]>>] /\ h[i + 1] = g[<<i + 1, h[i]>>]
    <3>1. i + 1 \in 1 .. b /\ i + 1 \in 1 .. c /\ (i + 1) - 1 = i
      OBVIOUS
    <3> QED
      BY <3>1 DEF Partial
  <2> QED
    BY <1>2, <2>1
<1> HIDE DEF S
<1>3. b \in S
  BY <1>1, <1>2, NumbersUpTo
<1> QED
  BY <1>3 DEF S

\* f is the function that starts with a and goes on with g.
Recursion(D, a, g, f) ==
  /\ f \in [Nat -> D]
  /\ f[0] = a
  /\ \A n \in Nat : f[n + 1] = g[<<n + 1, f[n]>>]

\* A recursion over the numbers defines a function.
LEMMA RecursionExists ==
  ASSUME NEW D, NEW a \in D, NEW g \in [Nat \X D -> D]
  PROVE  \E f : Recursion(D, a, g, f)
<1> DEFINE F(n) == CHOOSE f : Partial(D, a, g, n, f)
           r == [n \in Nat |-> F(n)[n]]
<1>1. \A n \in Nat : Partial(D, a, g, n, F(n))
  BY PartialExists
<1> HIDE DEF F
<1>2. r \in [Nat -> D]
  <2>1. ASSUME NEW n \in Nat PROVE F(n)[n] \in D
    <3>1. F(n) \in [0 .. n -> D] /\ n \in 0 .. n
      BY <1>1 DEF Partial
    <3> QED
      BY <3>1
  <2> QED
    BY <2>1
<1>3. r[0] = a
  BY <1>1 DEF Partial
<1>4. ASSUME NEW n \in Nat PROVE r[n + 1] = g[<<n + 1, r[n]>>]
  <2>1. n + 1 \in Nat /\ n <= n + 1 /\ n + 1 \in 1 .. n + 1 /\ (n + 1) - 1 = n
    OBVIOUS
  <2>2. Partial(D, a, g, n, F(n)) /\ Partial(D, a, g, n + 1, F(n + 1))
    BY <1>1, <2>1
  <2>3. F(n)[n] = F(n + 1)[n]
    BY <2>1, <2>2, PartialUnique
  <2>4. F(n + 1)[n + 1] = g[<<n + 1, F(n + 1)[n]>>]
    BY <2>1, <2>2 DEF Partial
  <2> QED
    BY <2>1, <2>3, <2>4
<1> QED
  BY <1>2, <1>3, <1>4 DEF Recursion
=============================================================================
