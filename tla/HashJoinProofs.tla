--------------------------- MODULE HashJoinProofs ---------------------------
(***************************************************************************)
(* The parallel build of the hash table implements the abstract index and  *)
(* leaves exact chains, for every number of threads, entries and ranges,   *)
(* all keys and hashes, and every interleaving of the ranges.              *)
(*                                                                         *)
(* On it, the hash join emits every pair of tuples with the same key once, *)
(* for any number of right tuples, when no left key has the hash of a      *)
(* right key that is on the left, too.  Without this hypothesis it does    *)
(* not: lookup returns any entry with the hash and lookup_next looks for   *)
(* the key of that entry, as the run hashjoin_columns shows.               *)
(***************************************************************************)
EXTENDS HashJoin, DataInduction, FiniteSetTheorems

-----------------------------------------------------------------------------
(* Powers of two.                                                          *)

LEMMA PowerDef ==
  /\ PowerOfTwo \in [Nat -> Nat]
  /\ \A n \in Nat : PowerOfTwo[n] = IF n = 0 THEN 1 ELSE 2 * PowerOfTwo[n - 1]
<1> DEFINE IsPower(f) == f = [n \in Nat |-> IF n = 0 THEN 1 ELSE 2 * f[n - 1]]
<1>1. PICK g \in [Nat \X Nat -> Nat] : \A n, x \in Nat : g[<<n, x>>] = 2 * x
  <2> DEFINE g == [y \in Nat \X Nat |-> 2 * y[2]]
  <2>1. g \in [Nat \X Nat -> Nat] /\ \A n, x \in Nat : g[<<n, x>>] = 2 * x
    OBVIOUS
  <2> QED
    BY <2>1
<1>2. PICK f : Recursion(Nat, 1, g, f)
  BY RecursionExists
<1>3. IsPower(f)
  <2>1. f = [n \in Nat |-> f[n]]
    BY <1>2 DEF Recursion
  <2>2. ASSUME NEW n \in Nat PROVE f[n] = IF n = 0 THEN 1 ELSE 2 * f[n - 1]
    <3>1. CASE n = 0
      BY <1>2, <3>1 DEF Recursion
    <3>2. CASE n # 0
      <4>1. n - 1 \in Nat /\ (n - 1) + 1 = n
        BY <3>2
      <4>2. f[n] = g[<<n, f[n - 1]>>] /\ f[n - 1] \in Nat
        BY <1>2, <4>1 DEF Recursion
      <4> QED
        BY <1>1, <3>2, <4>1, <4>2
    <3> QED
      BY <3>1, <3>2
  <2> QED
    BY <2>1, <2>2
<1>4. PowerOfTwo = [n \in Nat |-> IF n = 0 THEN 1 ELSE 2 * PowerOfTwo[n - 1]]
  BY <1>3 DEF PowerOfTwo
<1> HIDE DEF IsPower
<1>5. \A n \in Nat : PowerOfTwo[n] = IF n = 0 THEN 1 ELSE 2 * PowerOfTwo[n - 1]
  BY <1>4
<1> DEFINE S == {n \in Nat : PowerOfTwo[n] \in Nat}
<1>6. 0 \in S /\ \A n \in Nat : n \in S => n + 1 \in S
  <2>1. ASSUME NEW n \in Nat PROVE PowerOfTwo[n + 1] = 2 * PowerOfTwo[n]
    <3>1. n + 1 \in Nat /\ n + 1 # 0 /\ (n + 1) - 1 = n
      OBVIOUS
    <3> QED
      BY <1>5, <3>1
  <2> QED
    BY <1>5, <2>1
<1> HIDE DEF S
<1>7. Nat \subseteq S
  BY <1>6, NumbersIn
<1>8. \A n \in Nat : PowerOfTwo[n] \in Nat
  BY <1>7 DEF S
<1> QED
  BY <1>4, <1>5, <1>8

LEMMA PowerNext ==
  /\ PowerOfTwo[0] = 1
  /\ \A n \in Nat : PowerOfTwo[n] \in Nat /\ PowerOfTwo[n + 1] = 2 * PowerOfTwo[n]
<1>1. ASSUME NEW n \in Nat PROVE PowerOfTwo[n + 1] = 2 * PowerOfTwo[n]
  <2>1. n + 1 \in Nat /\ n + 1 # 0 /\ (n + 1) - 1 = n
    OBVIOUS
  <2> QED
    BY <2>1, PowerDef
<1> QED
  BY <1>1, PowerDef

LEMMA PowerGrows == \A n \in Nat : n < PowerOfTwo[n]
<1> DEFINE S == {n \in Nat : n < PowerOfTwo[n]}
<1>1. 0 \in S /\ \A n \in Nat : n \in S => n + 1 \in S
  BY PowerNext
<1> HIDE DEF S
<1>2. Nat \subseteq S
  BY <1>1, NumbersIn
<1> QED
  BY <1>2 DEF S

LEMMA PowerSum == \A m, n \in Nat : PowerOfTwo[m + n] = PowerOfTwo[m] * PowerOfTwo[n]
<1> SUFFICES ASSUME NEW m \in Nat
             PROVE  \A n \in Nat : PowerOfTwo[m + n] = PowerOfTwo[m] * PowerOfTwo[n]
  OBVIOUS
<1> DEFINE S == {n \in Nat : PowerOfTwo[m + n] = PowerOfTwo[m] * PowerOfTwo[n]}
<1>1. 0 \in S
  BY PowerNext
<1>2. ASSUME NEW n \in Nat, n \in S PROVE n + 1 \in S
  <2>1. /\ PowerOfTwo[m + (n + 1)] = 2 * PowerOfTwo[m + n]
        /\ PowerOfTwo[n + 1] = 2 * PowerOfTwo[n]
        /\ PowerOfTwo[m] \in Nat /\ PowerOfTwo[n] \in Nat
    <3>1. m + n \in Nat /\ (m + n) + 1 = m + (n + 1)
      OBVIOUS
    <3> QED
      BY <3>1, PowerNext
  <2>2. \A a, b \in Nat : 2 * (a * b) = a * (2 * b)
    OBVIOUS
  <2> QED
    BY <1>2, <2>1, <2>2
<1> HIDE DEF S
<1>3. Nat \subseteq S
  BY <1>1, <1>2, NumbersIn
<1> QED
  BY <1>3 DEF S

\* A table for n entries has a slot for every hash, as long as n is no more than the bound.
LEMMA ShiftExists ==
  ASSUME NEW n \in Nat, n <= MaxEntries
  PROVE  /\ GetHashTableShift(n) \in Nat
         /\ GetHashTableShift(n) <= HashBits
<1> DEFINE wanted == n + n \div 8
           minSize == IF wanted < AbsoluteMinSize THEN AbsoluteMinSize ELSE wanted
<1>1. minSize \in Nat \ {0} /\ minSize < PowerOfTwo[HashBits]
  <2>1. n \div 8 \in Nat /\ MaxEntries \div 8 \in Nat /\ n \div 8 <= MaxEntries \div 8
    BY SizeAssumption
  <2> QED
    BY <2>1, SizeAssumption, HashAssumption, WidthAssumption, PowerNext
<1> DEFINE S == {b \in Nat : minSize < PowerOfTwo[b]}
<1>2. minSize \in S /\ HashBits \in S
  BY <1>1, PowerGrows, HashAssumption
<1>3. GetHashTableShift(n) = CHOOSE bits \in 1 .. minSize : PowerOfTwo[bits - 1] <= minSize /\ minSize < PowerOfTwo[bits]
  BY DEF GetHashTableShift
<1> HIDE DEF minSize
<1>4. PICK b \in S : \A c \in S : b <= c
  BY <1>2, SmallestExists
<1>5. b \in 1 .. minSize
  BY <1>1, <1>2, <1>4, PowerNext
<1>6. PowerOfTwo[b - 1] <= minSize
  <2>1. b - 1 \in Nat /\ b - 1 \notin S
    BY <1>4, <1>5
  <2> QED
    BY <1>1, <2>1, PowerNext
<1>7. /\ GetHashTableShift(n) \in 1 .. minSize
      /\ PowerOfTwo[GetHashTableShift(n) - 1] <= minSize
  BY <1>3, <1>4, <1>5, <1>6
<1>8. ASSUME HashBits < GetHashTableShift(n) PROVE FALSE
  <2> DEFINE d == GetHashTableShift(n) - 1 - HashBits
  <2>1. d \in Nat /\ HashBits \in Nat /\ HashBits + d = GetHashTableShift(n) - 1
    BY <1>1, <1>7, <1>8, HashAssumption
  <2>2. PowerOfTwo[HashBits + d] = PowerOfTwo[HashBits] * PowerOfTwo[d]
    BY <2>1, PowerSum
  <2>3. PowerOfTwo[d] \in Nat /\ PowerOfTwo[d] >= 1 /\ PowerOfTwo[HashBits] \in Nat
    BY <2>1, PowerNext, PowerGrows
  <2> HIDE DEF d
  <2>4. \A x, y \in Nat : y >= 1 => x * y >= x
    OBVIOUS
  <2> QED
    BY <1>1, <1>7, <2>1, <2>2, <2>3, <2>4
<1> QED
  BY <1>1, <1>7, <1>8, HashAssumption

LEMMA SlotExists ==
  ASSUME NEW n \in Nat, n <= MaxEntries, sizeVal = n, NEW hash \in 0 .. PowerOfTwo[HashBits] - 1
  PROVE  ComputeSlot(hash) \in 0 .. PowerOfTwo[GetHashTableShift(n)] - 1
<1> DEFINE b == GetHashTableShift(n)
<1>1. b \in Nat /\ HashBits - b \in Nat /\ HashBits \in Nat /\ b + (HashBits - b) = HashBits
  BY ShiftExists, HashAssumption
<1>2. ComputeSlot(hash) = hash \div PowerOfTwo[HashBits - b]
  BY DEF ComputeSlot, HashTableShift
<1> HIDE DEF b
<1>3. PowerOfTwo[HashBits] = PowerOfTwo[b] * PowerOfTwo[HashBits - b]
  BY <1>1, PowerSum
<1>4. /\ PowerOfTwo[b] \in Nat /\ PowerOfTwo[HashBits - b] \in Nat
      /\ PowerOfTwo[HashBits - b] > 0 /\ hash \in Nat /\ PowerOfTwo[HashBits] \in Nat
      /\ hash < PowerOfTwo[HashBits]
  BY <1>1, PowerNext, PowerGrows
<1>5. \A m, x, k \in Nat : x > 0 /\ m < k * x => m \div x \in Nat /\ m \div x < k
  OBVIOUS
<1>6. hash \div PowerOfTwo[HashBits - b] \in Nat /\ hash \div PowerOfTwo[HashBits - b] < PowerOfTwo[b]
  BY <1>3, <1>4, <1>5
<1> QED
  BY <1>2, <1>4, <1>6 DEF b
-----------------------------------------------------------------------------
(* The view over the vectors: positions and entries.                       *)

EntriesTyped == entries \in [JoinThreads -> Seq(Keys)]

\* The position of an entry in the view.
PositionOf(p) == Before[p[1]] + p[2] - 1
Positions == 0 .. Total - 1

LEMMA BeforeDef ==
  ASSUME EntriesTyped
  PROVE  /\ Before[1] = 0
         /\ \A t \in 1 .. NumThreads + 1 : Before[t] \in Nat
         /\ \A t \in JoinThreads : Len(entries[t]) \in Nat /\ Before[t + 1] = Before[t] + Len(entries[t])
<1> DEFINE IsBefore(f) == f = [t \in 1 .. NumThreads + 1 |->
                                 IF t = 1 THEN 0 ELSE f[t - 1] + Len(entries[t - 1])]
<1>1. \A t \in JoinThreads : Len(entries[t]) \in Nat
  BY DEF EntriesTyped
<1>2. PICK g \in [Nat \X Nat -> Nat] :
        \A t \in JoinThreads, x \in Nat : g[<<t, x>>] = x + Len(entries[t])
  <2> DEFINE g == [y \in Nat \X Nat |-> IF y[1] \in JoinThreads THEN y[2] + Len(entries[y[1]]) ELSE 0]
  <2>1. \A t \in JoinThreads : t \in Nat
    BY DEF JoinThreads
  <2>2. g \in [Nat \X Nat -> Nat]
    BY <1>1
  <2>3. \A t \in JoinThreads, x \in Nat : g[<<t, x>>] = x + Len(entries[t])
    BY <2>1
  <2> QED
    BY <2>2, <2>3
<1>3. PICK h : Recursion(Nat, 0, g, h)
  BY RecursionExists
<1> DEFINE f == [t \in 1 .. NumThreads + 1 |-> h[t - 1]]
<1>4. IsBefore(f)
  <2>1. ASSUME NEW t \in 1 .. NumThreads + 1
        PROVE  f[t] = IF t = 1 THEN 0 ELSE f[t - 1] + Len(entries[t - 1])
    <3>1. CASE t = 1
      BY <1>3, <3>1, ThreadsAssumption DEF Recursion
    <3>2. CASE t # 1
      <4>1. /\ t - 1 \in JoinThreads /\ t - 1 \in 1 .. NumThreads + 1 /\ t - 2 \in Nat
            /\ (t - 2) + 1 = t - 1 /\ (t - 1) - 1 = t - 2
        BY <3>2, ThreadsAssumption DEF JoinThreads
      <4>2. h[t - 1] = g[<<t - 1, h[t - 2]>>] /\ h[t - 2] \in Nat
        BY <1>3, <4>1 DEF Recursion
      <4>3. f[t] = h[t - 1] /\ f[t - 1] = h[t - 2]
        BY <4>1
      <4> QED
        BY <1>2, <3>2, <4>1, <4>2, <4>3
    <3> QED
      BY <3>1, <3>2
  <2> QED
    BY <2>1
<1>5. IsBefore(Before)
  <2> HIDE DEF f
  <2>1. \E x : IsBefore(x)
    BY <1>4
  <2> QED
    BY <2>1 DEF Before
<1> HIDE DEF IsBefore, f
<1>6. \A t \in 1 .. NumThreads + 1 :
        Before[t] = IF t = 1 THEN 0 ELSE Before[t - 1] + Len(entries[t - 1])
  BY <1>5 DEF IsBefore
<1>7. Before[1] = 0
  BY <1>6, ThreadsAssumption
<1>8. ASSUME NEW t \in JoinThreads PROVE Before[t + 1] = Before[t] + Len(entries[t])
  <2>1. t + 1 \in 1 .. NumThreads + 1 /\ t + 1 # 1 /\ (t + 1) - 1 = t
    BY ThreadsAssumption DEF JoinThreads
  <2> QED
    BY <1>6, <2>1
<1> DEFINE S == {n \in 0 .. NumThreads : Before[n + 1] \in Nat}
<1>9. 0 \in S
  BY <1>7, ThreadsAssumption
<1>10. ASSUME NEW n \in 0 .. NumThreads - 1, n \in S PROVE n + 1 \in S
  <2>1. n + 1 \in JoinThreads /\ n + 1 \in 0 .. NumThreads
    BY ThreadsAssumption DEF JoinThreads
  <2> QED
    BY <1>1, <1>8, <1>10, <2>1
<1> HIDE DEF S
<1>11. NumThreads \in Nat
  BY ThreadsAssumption
<1>12. 0 .. NumThreads \subseteq S
  BY <1>9, <1>10, <1>11, NumbersUpTo
<1>13. ASSUME NEW t \in 1 .. NumThreads + 1 PROVE Before[t] \in Nat
  <2>1. t - 1 \in 0 .. NumThreads /\ (t - 1) + 1 = t
    BY <1>11
  <2> QED
    BY <1>12, <2>1 DEF S
<1> QED
  BY <1>1, <1>7, <1>8, <1>13

LEMMA BeforeGrows ==
  ASSUME EntriesTyped, NEW t \in 1 .. NumThreads + 1, NEW u \in t .. NumThreads + 1
  PROVE  Before[t] <= Before[u]
<1>1. NumThreads \in Nat /\ t \in Nat /\ u \in Nat
  BY ThreadsAssumption
<1> DEFINE S == {n \in 0 .. u - t : Before[t] <= Before[t + n]}
<1>2. 0 \in S
  BY <1>1, BeforeDef
<1>3. ASSUME NEW n \in 0 .. (u - t) - 1, n \in S PROVE n + 1 \in S
  <2>1. t + n \in JoinThreads /\ t + n \in 1 .. NumThreads + 1 /\ (t + n) + 1 = t + (n + 1)
        /\ n + 1 \in 0 .. u - t
    BY <1>1 DEF JoinThreads
  <2>2. /\ Before[t + (n + 1)] = Before[t + n] + Len(entries[t + n])
        /\ Before[t + n] \in Nat /\ Len(entries[t + n]) \in Nat /\ Before[t] \in Nat
    BY <2>1, BeforeDef
  <2> QED
    BY <1>3, <2>1, <2>2
<1> HIDE DEF S
<1>4. u - t \in Nat
  BY <1>1
<1>5. u - t \in S
  BY <1>2, <1>3, <1>4, NumbersUpTo
<1>6. t + (u - t) = u
  BY <1>1
<1> QED
  BY <1>5, <1>6 DEF S

\* Total is the number of entries before the end.
LEMMA TotalIsNat == ASSUME EntriesTyped PROVE Total \in Nat /\ Total = Before[NumThreads + 1]
BY BeforeDef, ThreadsAssumption DEF Total

\* The elements of a vector take the positions from Before[t] on.
LEMMA VectorUnique ==
  ASSUME EntriesTyped, NEW t \in JoinThreads, NEW u \in JoinThreads, NEW i \in Nat,
         Before[t] <= i, i < Before[t + 1], Before[u] <= i, i < Before[u + 1]
  PROVE  t = u
<1>1. /\ NumThreads \in Nat /\ t \in 1 .. NumThreads + 1 /\ u \in 1 .. NumThreads + 1
      /\ t + 1 \in 1 .. NumThreads + 1 /\ u + 1 \in 1 .. NumThreads + 1
      /\ t \in Nat /\ u \in Nat
  BY ThreadsAssumption DEF JoinThreads
<1>2. Before[t] \in Nat /\ Before[u] \in Nat /\ Before[t + 1] \in Nat /\ Before[u + 1] \in Nat
  BY <1>1, BeforeDef
<1>3. CASE t < u
  <2>1. u \in (t + 1) .. NumThreads + 1
    BY <1>1, <1>3
  <2>2. Before[t + 1] <= Before[u]
    BY <1>1, <2>1, BeforeGrows
  <2> QED
    BY <1>2, <2>2
<1>4. CASE u < t
  <2>1. t \in (u + 1) .. NumThreads + 1
    BY <1>1, <1>4
  <2>2. Before[u + 1] <= Before[t]
    BY <1>1, <2>1, BeforeGrows
  <2> QED
    BY <1>2, <2>2
<1> QED
  BY <1>1, <1>3, <1>4

LEMMA EntryDef ==
  ASSUME NEW p
  PROVE  p \in Entries <=> /\ p = <<p[1], p[2]>> /\ p[1] \in JoinThreads
                           /\ p[2] \in 1 .. Len(entries[p[1]])
BY DEF Entries

LEMMA NullIsNoEntry == NullPtr \notin Entries
BY EntryDef DEF NullPtr, JoinThreads

\* The iterator at a position of a vector.
LEMMA IteratorAtVector ==
  ASSUME EntriesTyped, NEW t \in JoinThreads, NEW i \in Nat, Before[t] <= i, i < Before[t + 1]
  PROVE  IteratorAt(i) = <<t, i - Before[t] + 1>>
<1>1. \A u \in JoinThreads : Before[u] <= i /\ i < Before[u + 1] => u = t
  BY VectorUnique
<1>2. (CHOOSE u \in JoinThreads : Before[u] <= i /\ i < Before[u + 1]) = t
  BY <1>1
<1> QED
  BY <1>2 DEF IteratorAt

LEMMA EntryPosition ==
  ASSUME EntriesTyped, NEW p \in Entries
  PROVE  /\ PositionOf(p) \in Positions
         /\ Before[p[1]] <= PositionOf(p) /\ PositionOf(p) < Before[p[1] + 1]
         /\ IteratorAt(PositionOf(p)) = p
<1>1. /\ p = <<p[1], p[2]>> /\ p[1] \in JoinThreads /\ p[2] \in 1 .. Len(entries[p[1]])
      /\ NumThreads \in Nat
  BY EntryDef, ThreadsAssumption
<1>2. p[1] \in 1 .. NumThreads + 1 /\ p[1] + 1 \in 1 .. NumThreads + 1
      /\ NumThreads + 1 \in (p[1] + 1) .. NumThreads + 1
  BY <1>1 DEF JoinThreads
<1>3. /\ Before[p[1]] \in Nat /\ Len(entries[p[1]]) \in Nat
      /\ Before[p[1] + 1] = Before[p[1]] + Len(entries[p[1]])
  BY <1>1, <1>2, BeforeDef
<1>4. /\ PositionOf(p) \in Nat
      /\ Before[p[1]] <= PositionOf(p) /\ PositionOf(p) < Before[p[1] + 1]
      /\ PositionOf(p) - Before[p[1]] + 1 = p[2]
  BY <1>1, <1>3 DEF PositionOf
<1>5. Before[p[1] + 1] <= Total /\ Total \in Nat
  BY <1>2, BeforeGrows, TotalIsNat
<1>6. PositionOf(p) \in Positions
  BY <1>3, <1>4, <1>5 DEF Positions
<1>7. IteratorAt(PositionOf(p)) = <<p[1], p[2]>>
  BY <1>1, <1>4, IteratorAtVector
<1> QED
  BY <1>1, <1>4, <1>6, <1>7

\* Every position lies in a vector.
LEMMA VectorExists ==
  ASSUME EntriesTyped, NEW i \in Positions
  PROVE  \E t \in JoinThreads : Before[t] <= i /\ i < Before[t + 1]
<1>1. NumThreads \in Nat \ {0} /\ i \in Nat /\ i < Before[NumThreads + 1]
  BY ThreadsAssumption, TotalIsNat DEF Positions
<1> DEFINE S == {t \in JoinThreads : i < Before[t + 1]}
<1>2. S \subseteq Nat /\ NumThreads \in S
  BY <1>1 DEF JoinThreads
<1>3. PICK t \in S : \A u \in S : t <= u
  BY <1>2, SmallestExists
<1>4. Before[t] <= i
  <2>1. CASE t = 1
    BY <1>1, <2>1, BeforeDef
  <2>2. CASE t # 1
    <3>1. t - 1 \in JoinThreads /\ t - 1 \notin S /\ (t - 1) + 1 = t /\ t \in 1 .. NumThreads + 1
      BY <1>1, <1>3, <2>2 DEF JoinThreads
    <3>2. Before[t] \in Nat
      BY <3>1, BeforeDef
    <3> QED
      BY <1>1, <3>1, <3>2
  <2> QED
    BY <2>1, <2>2
<1> QED
  BY <1>3, <1>4

LEMMA PositionEntry ==
  ASSUME EntriesTyped, NEW i \in Positions
  PROVE  IteratorAt(i) \in Entries /\ PositionOf(IteratorAt(i)) = i
<1>1. PICK t \in JoinThreads : Before[t] <= i /\ i < Before[t + 1]
  BY VectorExists
<1>2. /\ i \in Nat /\ Before[t] \in Nat /\ Len(entries[t]) \in Nat
      /\ Before[t + 1] = Before[t] + Len(entries[t])
  BY BeforeDef, ThreadsAssumption DEF Positions, JoinThreads
<1>3. IteratorAt(i) = <<t, i - Before[t] + 1>>
  BY <1>1, <1>2, IteratorAtVector
<1>4. i - Before[t] + 1 \in 1 .. Len(entries[t])
  BY <1>1, <1>2
<1>5. IteratorAt(i) \in Entries
  BY <1>3, <1>4, EntryDef
<1>6. Before[t] + (i - Before[t] + 1) - 1 = i
  BY <1>2
<1> QED
  BY <1>3, <1>5, <1>6 DEF PositionOf

LEMMA PositionsDiffer ==
  ASSUME EntriesTyped, NEW i \in Positions, NEW j \in Positions, IteratorAt(i) = IteratorAt(j)
  PROVE  i = j
BY PositionEntry

\* operator++ goes from one position to the next, over the vectors that are empty.
LEMMA IncrementNext ==
  ASSUME EntriesTyped, NEW i \in Positions, i + 1 \in Positions
  PROVE  Increment(IteratorAt(i)) = IteratorAt(i + 1)
<1>1. PICK t \in JoinThreads : Before[t] <= i /\ i < Before[t + 1]
  BY VectorExists
<1>2. /\ i \in Nat /\ i + 1 \in Nat /\ Before[t] \in Nat /\ Len(entries[t]) \in Nat
      /\ Before[t + 1] = Before[t] + Len(entries[t])
      /\ NumThreads \in Nat /\ t \in 1 .. NumThreads + 1 /\ t + 1 \in 1 .. NumThreads + 1
  BY BeforeDef, ThreadsAssumption DEF Positions, JoinThreads
<1>3. IteratorAt(i) = <<t, i - Before[t] + 1>>
  BY <1>1, <1>2, IteratorAtVector
<1>4. CASE i + 1 < Before[t + 1]
  <2>1. IteratorAt(i + 1) = <<t, (i + 1) - Before[t] + 1>>
    BY <1>1, <1>2, <1>4, IteratorAtVector
  <2>2. ~ (i - Before[t] + 1 >= Len(entries[t]))
        /\ (i - Before[t] + 1) + 1 = (i + 1) - Before[t] + 1
    BY <1>2, <1>4
  <2> QED
    BY <1>3, <2>1, <2>2 DEF Increment
<1>5. CASE ~ (i + 1 < Before[t + 1])
  <2>1. i + 1 = Before[t + 1]
    BY <1>1, <1>2, <1>5
  <2>2. PICK u \in JoinThreads : Before[u] <= i + 1 /\ i + 1 < Before[u + 1]
    BY VectorExists
  <2>3. /\ Before[u] \in Nat /\ Len(entries[u]) \in Nat
        /\ Before[u + 1] = Before[u] + Len(entries[u])
        /\ u \in 1 .. NumThreads + 1 /\ u + 1 \in 1 .. NumThreads + 1 /\ u \in Nat /\ t \in Nat
    BY BeforeDef, ThreadsAssumption DEF JoinThreads
  <2>4. u > t
    <3>1. CASE t + 1 > u + 1
      <4>1. t + 1 \in (u + 1) .. NumThreads + 1
        BY <1>2, <2>3, <3>1
      <4>2. Before[u + 1] <= Before[t + 1]
        BY <2>3, <4>1, BeforeGrows
      <4> QED
        BY <1>2, <2>1, <2>2, <2>3, <4>2
    <3>2. CASE t = u
      BY <2>1, <2>2, <1>2, <3>2
    <3> QED
      BY <2>3, <3>1, <3>2
  <2>5. \A v \in t + 1 .. u - 1 : Len(entries[v]) = 0
    <3> SUFFICES ASSUME NEW v \in t + 1 .. u - 1 PROVE Len(entries[v]) = 0
      OBVIOUS
    <3>1. v \in JoinThreads /\ v \in (t + 1) .. NumThreads + 1 /\ u \in (v + 1) .. NumThreads + 1
          /\ v \in 1 .. NumThreads + 1 /\ v + 1 \in 1 .. NumThreads + 1
      BY <1>2, <2>3 DEF JoinThreads
    <3>2. Before[t + 1] <= Before[v] /\ Before[v + 1] <= Before[u]
      BY <1>2, <3>1, BeforeGrows
    <3>3. /\ Before[v] \in Nat /\ Len(entries[v]) \in Nat
          /\ Before[v + 1] = Before[v] + Len(entries[v])
      BY <3>1, BeforeDef
    <3> QED
      BY <1>2, <2>1, <2>2, <2>3, <3>2, <3>3
  <2>6. Len(entries[u]) > 0 /\ Before[u] = i + 1
    <3>1. u \in (t + 1) .. NumThreads + 1
      BY <1>2, <2>3, <2>4
    <3>2. Before[t + 1] <= Before[u]
      BY <1>2, <3>1, BeforeGrows
    <3> QED
      BY <1>2, <2>1, <2>2, <2>3, <3>2
  <2>7. SkipEmpty(t + 1) = u
    <3> DEFINE First(v) == /\ v <= NumThreads => Len(entries[v]) > 0
                           /\ \A w \in t + 1 .. v - 1 : Len(entries[w]) = 0
    <3>1. u \in t + 1 .. NumThreads + 1 /\ First(u)
      BY <1>2, <2>3, <2>4, <2>5, <2>6
    <3>2. ASSUME NEW v \in t + 1 .. NumThreads + 1, First(v) PROVE v = u
      <4>1. CASE v < u
        <5>1. v \in t + 1 .. u - 1 /\ v <= NumThreads
          BY <1>2, <2>3, <4>1
        <5> QED
          BY <2>5, <3>2, <5>1
      <4>2. CASE v > u
        <5>1. u \in t + 1 .. v - 1
          BY <1>2, <2>3, <2>4, <4>2
        <5> QED
          BY <2>6, <3>2, <5>1
      <4> QED
        BY <1>2, <2>3, <4>1, <4>2
    <3> HIDE DEF First
    <3>3. SkipEmpty(t + 1) = CHOOSE v \in t + 1 .. NumThreads + 1 : First(v)
      BY DEF SkipEmpty, First
    <3> QED
      BY <3>1, <3>2, <3>3
  <2>8. IteratorAt(i + 1) = <<u, (i + 1) - Before[u] + 1>>
    BY <1>2, <2>2, IteratorAtVector
  <2>9. i - Before[t] + 1 >= Len(entries[t]) /\ (i + 1) - Before[u] + 1 = 1
    BY <1>2, <2>1, <2>3, <2>6
  <2> QED
    BY <1>3, <2>7, <2>8, <2>9 DEF Increment
<1> QED
  BY <1>4, <1>5

\* There are as many entries as positions.
LEMMA EntriesCounted ==
  EntriesTyped => IsFiniteSet(Entries) /\ Cardinality(Entries) = Total
<1> SUFFICES ASSUME EntriesTyped PROVE IsFiniteSet(Entries) /\ Cardinality(Entries) = Total
  OBVIOUS
<1> DEFINE f == [i \in Positions |-> IteratorAt(i)]
<1>1. f \in Bijection(Positions, Entries)
  <2>1. f \in [Positions -> Entries]
    BY PositionEntry
  <2>2. \A i, j \in Positions : f[i] = f[j] => i = j
    BY PositionsDiffer
  <2>3. \A p \in Entries : \E i \in Positions : f[i] = p
    BY EntryPosition
  <2> QED
    BY <2>1, <2>2, <2>3 DEF Bijection, Injection, Surjection, IsInjective
<1>2. IsFiniteSet(Positions) /\ Cardinality(Positions) = Total
  BY TotalIsNat, FS_Interval DEF Positions
<1> HIDE DEF f
<1>3. ExistsBijection(Positions, Entries)
  BY <1>1 DEF ExistsBijection
<1> QED
  BY <1>2, <1>3, FS_Bijection
-----------------------------------------------------------------------------
(* The invariant of the build.                                             *)

\* The first position of the run that a range is in, the positions that the range has not
\* finished, and those that no lookup could find yet: between the exchange and the link of a
\* run its last entry is no longer pending but still held.
Start(k) == PositionOf(k.first)
Held(k) == Start(k) .. k.limit - 1
Pending(k) == (IF k.linking THEN k.idx + 1 ELSE Start(k)) .. k.limit - 1
Unpublished == UNION {Pending(k) : k \in tasks}

SlotOf(p) == ComputeSlot(HashOf(p))
Published(slot) == {p \in Entries : SlotOf(p) = slot /\ PositionOf(p) \notin Unpublished}

\* The n entries of c are the chain that starts with head.
IsChain(head, successor, n, c) ==
  /\ c \in [1 .. n -> Entries]
  /\ \A i, j \in 1 .. n : c[i] = c[j] => i = j
  /\ head = IF n = 0 THEN NullPtr ELSE c[1]
  /\ \A i \in 1 .. n : successor[c[i]] = IF i = n THEN NullPtr ELSE c[i + 1]

Slots == 0 .. PowerOfTwo[GetHashTableShift(Total)] - 1

TypeOK ==
  /\ EntriesTyped
  /\ Total <= MaxEntries
  /\ phase \in {"insert", "build", "probe"}
  /\ phase # "build" => tasks = {}
  /\ phase # "insert" =>
       /\ sizeVal = Total
       /\ next \in [Entries -> Entries \cup {NullPtr}]
       /\ hashtable \in [Slots -> Entries \cup {NullPtr}]

TaskTyped(k) ==
  k \in [idx : Positions, limit : 1 .. Total, first : Entries, last : Entries,
         linking : BOOLEAN, replaced : Entries \cup {NullPtr}]

\* A range stands at the last entry of a run, whose entries have the hash of the first and are
\* linked to one another; between the exchange and the link the chain has them.
TaskInv(k) ==
  /\ Start(k) <= k.idx /\ k.idx < k.limit
  /\ k.last = IteratorAt(k.idx)
  /\ \A j \in Start(k) .. k.idx : HashOf(IteratorAt(j)) = HashOf(k.first)
  /\ ~k.linking => \A j \in Start(k) .. k.idx - 1 : next[IteratorAt(j)] = IteratorAt(j + 1)

RangesDisjoint == \A k, l \in tasks : k # l => Held(k) \cap Held(l) = {}

\* The chain of a slot has the entries of the slot that are no longer pending, each once.
ChainsInv ==
  \A slot \in Slots :
    \E n \in 0 .. Total : \E c \in [1 .. n -> Entries] :
      /\ IsChain(hashtable[slot], PendingNext, n, c)
      /\ {c[i] : i \in 1 .. n} = Published(slot)

TasksInv == RangesDisjoint /\ \A k \in tasks : TaskTyped(k) /\ TaskInv(k)
Finalized == phase # "insert"

IInv ==
  /\ TypeOK
  /\ TasksInv
  /\ Finalized => ChainsInv
-----------------------------------------------------------------------------
(* Chains.                                                                 *)

LEMMA ChainBounded ==
  ASSUME EntriesTyped, NEW n \in Nat, NEW c \in [1 .. n -> Entries],
         \A i, j \in 1 .. n : c[i] = c[j] => i = j
  PROVE  n <= Total
<1>1. c \in Injection(1 .. n, Entries)
  BY DEF Injection, IsInjective
<1>2. IsFiniteSet(Entries) /\ Cardinality(Entries) = Total
  BY EntriesCounted
<1>3. Cardinality(1 .. n) <= Cardinality(Entries)
  BY <1>1, <1>2, FS_Injection
<1>4. Cardinality(1 .. n) = n
  BY FS_Interval
<1> QED
  BY <1>2, <1>3, <1>4

\* What the chain is: its entries in their order, and then nullptr.
Walk(n, c) == [i \in 0 .. Total |-> IF i < n THEN c[i + 1] ELSE NullPtr]

LEMMA ChainFromIs ==
  ASSUME NEW head, NEW successor, NEW n \in Nat, NEW c, IsChain(head, successor, n, c)
  PROVE  ChainFrom(head, successor) = Walk(n, c)
<1> DEFINE IsWalk(f) == f = [i \in Nat |-> IF i = 0 THEN head
                                           ELSE IF f[i - 1] = NullPtr THEN NullPtr
                                           ELSE successor[f[i - 1]]]
           w == [i \in Nat |-> IF i < n THEN c[i + 1] ELSE NullPtr]
           at == CHOOSE f : IsWalk(f)
<1>1. \A i \in 1 .. n : c[i] \in Entries /\ c[i] # NullPtr
  BY NullIsNoEntry DEF IsChain
<1>2. ASSUME NEW i \in Nat
      PROVE  w[i] = IF i = 0 THEN head ELSE IF w[i - 1] = NullPtr THEN NullPtr ELSE successor[w[i - 1]]
  <2>1. CASE i = 0
    BY <2>1 DEF IsChain
  <2>2. CASE i # 0 /\ i <= n
    <3>1. i \in 1 .. n /\ i - 1 \in Nat /\ i - 1 < n /\ (i - 1) + 1 = i
      BY <2>2
    <3>2. w[i - 1] = c[i] /\ c[i] # NullPtr
      BY <1>1, <3>1
    <3>3. successor[c[i]] = IF i = n THEN NullPtr ELSE c[i + 1]
      BY <3>1 DEF IsChain
    <3> QED
      BY <2>2, <3>2, <3>3
  <2>3. CASE i # 0 /\ i > n
    <3>1. i - 1 \in Nat /\ ~ (i - 1 < n) /\ ~ (i < n)
      BY <2>3
    <3> QED
      BY <2>3, <3>1
  <2> QED
    BY <2>1, <2>2, <2>3
<1>3. IsWalk(w)
  BY <1>2
<1>4. ChainFrom(head, successor) = [i \in 0 .. Total |-> at[i]]
  BY DEF ChainFrom
<1> HIDE DEF w
<1>5. IsWalk(at)
  <2> HIDE DEF IsWalk
  <2> QED
    BY <1>3
<1> HIDE DEF at
<1>6. \A i \in Nat : at[i] = IF i = 0 THEN head
                             ELSE IF at[i - 1] = NullPtr THEN NullPtr ELSE successor[at[i - 1]]
  BY <1>5
<1> DEFINE S == {i \in Nat : at[i] = w[i]}
<1>7. 0 \in S
  BY <1>2, <1>6
<1>8. ASSUME NEW i \in Nat, i \in S PROVE i + 1 \in S
  <2>1. i + 1 \in Nat /\ i + 1 # 0 /\ (i + 1) - 1 = i
    OBVIOUS
  <2>2. at[i + 1] = IF at[i] = NullPtr THEN NullPtr ELSE successor[at[i]]
    BY <1>6, <2>1
  <2>3. w[i + 1] = IF w[i] = NullPtr THEN NullPtr ELSE successor[w[i]]
    BY <1>2, <2>1
  <2> QED
    BY <1>8, <2>1, <2>2, <2>3
<1> HIDE DEF S
<1>9. \A i \in Nat : at[i] = w[i]
  <2>1. Nat \subseteq S
    BY <1>7, <1>8, NumbersIn
  <2> QED
    BY <2>1 DEF S
<1>10. \A i \in 0 .. Total : at[i] = IF i < n THEN c[i + 1] ELSE NullPtr
  BY <1>9 DEF w
<1> QED
  BY <1>4, <1>10 DEF Walk

\* The entries of a chain, as ChainsExact and Reachable gather them.
OnceEach(slot, successor) ==
  LET chain == ChainFrom(hashtable[slot], successor)
  IN  \A i, j \in OnChain(slot, successor) : chain[i] = chain[j] => i = j

LEMMA ChainGathered ==
  ASSUME EntriesTyped, NEW slot, NEW successor, NEW n \in Nat, NEW c,
         IsChain(hashtable[slot], successor, n, c), n <= Total
  PROVE  /\ \A p : p \in Linked(slot, successor) <=> \E i \in 1 .. n : c[i] = p
         /\ OnceEach(slot, successor)
<1> DEFINE chain == ChainFrom(hashtable[slot], successor)
<1>1. Total \in Nat
  BY TotalIsNat
<1>2. chain = [i \in 0 .. Total |-> IF i < n THEN c[i + 1] ELSE NullPtr]
  <2>1. ChainFrom(hashtable[slot], successor) = Walk(n, c)
    BY ChainFromIs
  <2> QED
    BY <2>1 DEF Walk
<1>3. \A i \in 1 .. n : c[i] \in Entries /\ c[i] # NullPtr
  BY NullIsNoEntry DEF IsChain
<1>4. OnChain(slot, successor) = {i \in DOMAIN chain : chain[i] # NullPtr}
  BY DEF OnChain
<1> HIDE DEF chain
<1>5. ASSUME NEW i PROVE i \in OnChain(slot, successor) <=> i \in 0 .. n - 1
  BY <1>1, <1>2, <1>3, <1>4
<1>6. \A i \in 0 .. n - 1 : chain[i] = c[i + 1]
  BY <1>1, <1>2
<1>7. {chain[i] : i \in OnChain(slot, successor)} = {c[i] : i \in 1 .. n}
  <2>1. ASSUME NEW i \in OnChain(slot, successor) PROVE chain[i] \in {c[j] : j \in 1 .. n}
    <3>1. i + 1 \in 1 .. n
      BY <1>5
    <3> QED
      BY <1>5, <1>6, <3>1
  <2>2. ASSUME NEW j \in 1 .. n PROVE c[j] \in {chain[i] : i \in OnChain(slot, successor)}
    <3>1. j - 1 \in OnChain(slot, successor) /\ j - 1 \in 0 .. n - 1 /\ (j - 1) + 1 = j
      BY <1>5
    <3> QED
      BY <1>6, <3>1
  <2> QED
    BY <2>1, <2>2
<1>8. ASSUME NEW i \in OnChain(slot, successor), NEW j \in OnChain(slot, successor),
             chain[i] = chain[j]
      PROVE  i = j
  <2>1. i \in 0 .. n - 1 /\ j \in 0 .. n - 1
    BY <1>5
  <2>2. i + 1 \in 1 .. n /\ j + 1 \in 1 .. n /\ c[i + 1] = c[j + 1]
    BY <1>6, <1>8, <2>1
  <2>3. i + 1 = j + 1
    BY <2>2 DEF IsChain
  <2> QED
    BY <2>1, <2>3
<1>9. Linked(slot, successor) = {chain[i] : i \in OnChain(slot, successor)}
  BY DEF Linked, chain
<1> QED
  BY <1>7, <1>8, <1>9 DEF chain, OnceEach

\* A run of m entries is linked in front of a chain.
RunLinked(m, r, head, before, after, n, c) ==
  /\ r \in [1 .. m -> Entries]
  /\ \A i, j \in 1 .. m : r[i] = r[j] => i = j
  /\ \A i \in 1 .. m, j \in 1 .. n : r[i] # c[j]
  /\ \A i \in 1 .. m - 1 : after[r[i]] = r[i + 1]
  /\ after[r[m]] = head
  /\ \A i \in 1 .. n : after[c[i]] = before[c[i]]

RunAndChain(m, r, after, n, c) ==
  \E d \in [1 .. m + n -> Entries] :
    /\ IsChain(r[1], after, m + n, d)
    /\ {d[i] : i \in 1 .. m + n} = {r[i] : i \in 1 .. m} \cup {c[i] : i \in 1 .. n}

LEMMA ChainExtended ==
  ASSUME NEW head, NEW before, NEW after, NEW n \in Nat, NEW c, IsChain(head, before, n, c),
         NEW m \in Nat \ {0}, NEW r, RunLinked(m, r, head, before, after, n, c)
  PROVE  RunAndChain(m, r, after, n, c)
<1>0. /\ r \in [1 .. m -> Entries]
      /\ \A i, j \in 1 .. m : r[i] = r[j] => i = j
      /\ \A i \in 1 .. m, j \in 1 .. n : r[i] # c[j]
      /\ \A i \in 1 .. m - 1 : after[r[i]] = r[i + 1]
      /\ after[r[m]] = head
      /\ \A i \in 1 .. n : after[c[i]] = before[c[i]]
  BY DEF RunLinked
<1> DEFINE d == [i \in 1 .. m + n |-> IF i <= m THEN r[i] ELSE c[i - m]]
<1>1. \A i \in 1 .. m + n : i > m => i - m \in 1 .. n
  BY <1>0
<1>2. c \in [1 .. n -> Entries]
  BY DEF IsChain
<1>3. d \in [1 .. m + n -> Entries]
  BY <1>0, <1>1, <1>2
<1>4. \A i \in 1 .. m : d[i] = r[i] /\ i \in 1 .. m + n
  BY <1>0
<1>5. \A i \in 1 .. n : d[m + i] = c[i] /\ m + i \in 1 .. m + n
  BY <1>0
<1>6. \A i \in 1 .. m + n : \/ i \in 1 .. m /\ d[i] = r[i]
                            \/ i - m \in 1 .. n /\ i > m /\ d[i] = c[i - m]
  BY <1>0, <1>1
<1> HIDE DEF d
<1>7. ASSUME NEW i \in 1 .. m + n, NEW j \in 1 .. m + n, d[i] = d[j] PROVE i = j
  <2>1. CASE i \in 1 .. m
    BY <1>0, <1>6, <1>7, <2>1
  <2>2. CASE i \notin 1 .. m
    <3>1. i - m \in 1 .. n /\ d[i] = c[i - m]
      BY <1>0, <1>6, <2>2
    <3>2. j - m \in 1 .. n /\ d[j] = c[j - m]
      BY <1>0, <1>6, <1>7, <3>1
    <3>3. i - m = j - m
      BY <1>0, <1>7, <3>1, <3>2 DEF IsChain
    <3> QED
      BY <1>0, <3>3
  <2> QED
    BY <1>0, <2>1, <2>2
<1>8. d[1] = r[1] /\ m + n # 0
  BY <1>0, <1>4
<1>9. ASSUME NEW i \in 1 .. m + n
      PROVE  after[d[i]] = IF i = m + n THEN NullPtr ELSE d[i + 1]
  <2>1. CASE i \in 1 .. m - 1
    <3>1. i \in 1 .. m /\ i + 1 \in 1 .. m /\ i # m + n
      BY <2>1
    <3> QED
      BY <1>0, <1>4, <2>1, <3>1
  <2>2. CASE i = m
    <3>1. after[d[i]] = head /\ d[m] = r[m]
      BY <1>0, <1>4, <2>2
    <3>2. CASE n = 0
      BY <1>0, <2>2, <3>1, <3>2 DEF IsChain
    <3>3. CASE n # 0
      <4>1. d[m + 1] = c[1] /\ head = c[1] /\ i # m + n
        BY <1>0, <1>5, <2>2, <3>3 DEF IsChain
      <4> QED
        BY <1>0, <2>2, <3>1, <4>1
    <3> QED
      BY <1>0, <3>2, <3>3
  <2>3. CASE i > m
    <3>1. i - m \in 1 .. n /\ d[i] = c[i - m]
      BY <1>0, <1>1, <1>6, <2>3
    <3>2. after[d[i]] = IF i - m = n THEN NullPtr ELSE c[(i - m) + 1]
      BY <1>0, <3>1 DEF IsChain
    <3>3. CASE i = m + n
      BY <1>0, <3>2, <3>3
    <3>4. CASE i # m + n
      <4>1. (i - m) + 1 \in 1 .. n /\ m + ((i - m) + 1) = i + 1 /\ i - m # n
        BY <1>0, <3>1, <3>4
      <4> QED
        BY <1>0, <1>5, <3>2, <3>4, <4>1
    <3> QED
      BY <1>0, <3>3, <3>4
  <2> QED
    BY <1>0, <2>1, <2>2, <2>3
<1>10. {d[i] : i \in 1 .. m + n} = {r[i] : i \in 1 .. m} \cup {c[i] : i \in 1 .. n}
  <2>1. ASSUME NEW i \in 1 .. m + n PROVE d[i] \in {r[j] : j \in 1 .. m} \cup {c[j] : j \in 1 .. n}
    BY <1>0, <1>6
  <2>2. ASSUME NEW i \in 1 .. m PROVE r[i] \in {d[j] : j \in 1 .. m + n}
    BY <1>0, <1>4
  <2>3. ASSUME NEW i \in 1 .. n PROVE c[i] \in {d[j] : j \in 1 .. m + n}
    BY <1>0, <1>5
  <2>4. {d[i] : i \in 1 .. m + n} \subseteq {r[i] : i \in 1 .. m} \cup {c[i] : i \in 1 .. n}
    BY <2>1
  <2>5. {r[i] : i \in 1 .. m} \cup {c[i] : i \in 1 .. n} \subseteq {d[i] : i \in 1 .. m + n}
    BY <2>2, <2>3
  <2> QED
    BY <2>4, <2>5
<1> QED
  BY <1>0, <1>3, <1>7, <1>8, <1>9, <1>10 DEF IsChain, RunAndChain
-----------------------------------------------------------------------------
(* What the invariant says of a state.                                     *)

LEMMA ViewUnchanged ==
  ASSUME UNCHANGED entries
  PROVE  /\ Entries' = Entries /\ Total' = Total /\ Positions' = Positions /\ Slots' = Slots
         /\ EntriesTyped' <=> EntriesTyped
         /\ \A i : IteratorAt(i)' = IteratorAt(i)
         /\ \A p : PositionOf(p)' = PositionOf(p) /\ HashOf(p)' = HashOf(p)
         /\ \A i : HashOf(IteratorAt(i))' = HashOf(IteratorAt(i))
         /\ \A k : Start(k)' = Start(k) /\ Held(k)' = Held(k) /\ Pending(k)' = Pending(k)
         /\ \A k : TaskTyped(k)' <=> TaskTyped(k)
<1>1. Before' = Before
  BY DEF Before
<1>2. Entries' = Entries /\ Total' = Total
  BY <1>1 DEF Entries, Total
<1> QED
  BY <1>1, <1>2 DEF Positions, Slots, EntriesTyped, IteratorAt, PositionOf, HashOf, KeyOf, Start,
                    Held, Pending, TaskTyped

LEMMA TaskPlace ==
  ASSUME EntriesTyped, NEW k, TaskTyped(k), TaskInv(k)
  PROVE  /\ Start(k) \in Nat /\ k.idx \in Nat /\ k.limit \in Nat /\ k.limit <= Total
         /\ Start(k) <= k.idx /\ k.idx < k.limit
         /\ Start(k) \in Positions /\ k.idx \in Positions /\ k.idx \in Held(k)
         /\ Held(k) \subseteq Positions /\ Pending(k) \subseteq Held(k)
         /\ k.first \in Entries /\ IteratorAt(Start(k)) = k.first
         /\ k.last \in Entries /\ IteratorAt(k.idx) = k.last /\ PositionOf(k.last) = k.idx
<1>1. k.first \in Entries /\ k.last \in Entries /\ k.idx \in Positions /\ k.limit \in 1 .. Total
  BY DEF TaskTyped
<1>2. Start(k) \in Positions /\ IteratorAt(Start(k)) = k.first
  BY <1>1, EntryPosition DEF Start
<1>3. PositionOf(k.last) = k.idx /\ IteratorAt(k.idx) = k.last
  BY <1>1, PositionEntry DEF TaskInv
<1>4. Total \in Nat
  BY TotalIsNat
<1> QED
  BY <1>1, <1>2, <1>3, <1>4 DEF TaskInv, Held, Pending, Positions

\* The ranges hold different entries.
LEMMA TasksApart ==
  ASSUME EntriesTyped, TasksInv, NEW k \in tasks, NEW l \in tasks, k # l
  PROVE  /\ k.last # l.last
         /\ \A j \in Held(l) : IteratorAt(j) # k.last
         /\ \A j \in Held(l), i \in Held(k) : IteratorAt(j) # IteratorAt(i)
<1>1. TaskTyped(k) /\ TaskInv(k) /\ TaskTyped(l) /\ TaskInv(l) /\ Held(k) \cap Held(l) = {}
  BY DEF TasksInv, RangesDisjoint
<1>2. /\ k.idx \in Held(k) /\ l.idx \in Held(l) /\ Held(k) \subseteq Positions
      /\ Held(l) \subseteq Positions /\ IteratorAt(k.idx) = k.last /\ IteratorAt(l.idx) = l.last
  BY <1>1, TaskPlace
<1>3. \A j \in Held(l), i \in Held(k) : IteratorAt(j) # IteratorAt(i)
  BY <1>1, <1>2, PositionsDiffer
<1> QED
  BY <1>2, <1>3

\* The link of an entry, or the one that it will get.
PendingValues ==
  /\ \A k \in tasks : k.linking => PendingNext[k.last] = k.replaced
  /\ \A p \in Entries : (\A k \in tasks : k.linking => k.last # p) => PendingNext[p] = next[p]

LEMMA PendingDefined == EntriesTyped /\ TasksInv => PendingValues
<1> SUFFICES ASSUME EntriesTyped, TasksInv PROVE PendingValues
  OBVIOUS
<1>1. ASSUME NEW k \in tasks, k.linking PROVE PendingNext[k.last] = k.replaced
  <2>1. k.last \in Entries
    BY TaskPlace DEF TasksInv
  <2>2. \A l \in tasks : l.linking /\ l.last = k.last => l = k
    BY TasksApart
  <2>3. (CHOOSE l \in tasks : l.linking /\ l.last = k.last) = k
    BY <1>1, <2>2
  <2> QED
    BY <1>1, <2>1, <2>3 DEF PendingNext
<1>2. ASSUME NEW p \in Entries, \A k \in tasks : k.linking => k.last # p
      PROVE  PendingNext[p] = next[p]
  BY <1>2 DEF PendingNext
<1> QED
  BY <1>1, <1>2 DEF PendingValues

LEMMA HashInRange ==
  ASSUME EntriesTyped, NEW p \in Entries
  PROVE  HashOf(p) \in 0 .. PowerOfTwo[HashBits] - 1
<1>1. p[1] \in JoinThreads /\ p[2] \in 1 .. Len(entries[p[1]])
  BY EntryDef
<1>2. KeyOf(p) \in Keys
  BY <1>1 DEF EntriesTyped, KeyOf
<1> QED
  BY <1>2, HashAssumption DEF HashOf

LEMMA SlotInTable ==
  ASSUME TypeOK, Finalized, NEW p \in Entries
  PROVE  SlotOf(p) \in Slots
<1>1. Total \in Nat /\ Total <= MaxEntries /\ sizeVal = Total
  BY TotalIsNat DEF TypeOK, Finalized
<1>2. HashOf(p) \in 0 .. PowerOfTwo[HashBits] - 1
  BY HashInRange DEF TypeOK
<1> QED
  BY <1>1, <1>2, SlotExists DEF SlotOf, Slots

-----------------------------------------------------------------------------
(* The steps before the build.                                             *)

LEMMA InitIInv == Init => IInv
<1> SUFFICES ASSUME Init PROVE IInv
  OBVIOUS
<1>1. EntriesTyped
  BY DEF Init, EntriesTyped
<1>2. Entries = {}
  BY EntryDef DEF Init
<1>3. Total = 0
  BY <1>1, <1>2, EntriesCounted, FS_EmptySet
<1> QED
  BY <1>1, <1>3, SizeAssumption DEF Init, IInv, TypeOK, TasksInv, RangesDisjoint, Finalized

LEMMA InsertIInv ==
  ASSUME IInv, NEW t \in JoinThreads, NEW key \in Keys, NEW counted \in BOOLEAN, Insert(t, key, counted)
  PROVE  IInv'
<1>1. EntriesTyped /\ phase' = "insert" /\ tasks' = {}
  BY DEF Insert, IInv, TypeOK
<1>2. entries' = [entries EXCEPT ![t] = Append(@, key)]
  BY DEF Insert
<1>3. EntriesTyped'
  BY <1>1, <1>2 DEF EntriesTyped
<1>4. ASSUME NEW p, p \in Entries' PROVE p \in Entries \cup {<<t, Len(entries[t]) + 1>>}
  <2>1. p = <<p[1], p[2]>> /\ p[1] \in JoinThreads /\ p[2] \in 1 .. Len(entries'[p[1]])
    BY <1>4 DEF Entries
  <2>2. CASE p[1] = t
    <3>1. Len(entries'[t]) = Len(entries[t]) + 1 /\ Len(entries[t]) \in Nat
      BY <1>1, <1>2 DEF EntriesTyped
    <3> QED
      BY <2>1, <2>2, <3>1, EntryDef
  <2>3. CASE p[1] # t
    <3>1. entries'[p[1]] = entries[p[1]]
      BY <1>1, <1>2, <2>1, <2>3 DEF EntriesTyped
    <3> QED
      BY <2>1, <3>1, EntryDef
  <2> QED
    BY <2>2, <2>3
<1>5. IsFiniteSet(Entries) /\ Cardinality(Entries) = Total
  BY <1>1, EntriesCounted
<1>6. (IsFiniteSet(Entries) /\ Cardinality(Entries) = Total)'
  BY <1>3, EntriesCounted, PTL
<1>7. Total < MaxEntries /\ Total \in Nat
  BY <1>1, TotalIsNat DEF Insert
<1>8. Total' <= MaxEntries
  <2>0. PICK p : p = <<t, Len(entries[t]) + 1>>
    OBVIOUS
  <2> DEFINE all == Entries \cup {p}
  <2>1. IsFiniteSet(all) /\ Cardinality(all) \in Nat /\ Cardinality(all) <= Total + 1
    <3>1. /\ IsFiniteSet(all)
          /\ Cardinality(all) = IF p \in Entries THEN Cardinality(Entries) ELSE Cardinality(Entries) + 1
      BY <1>5, FS_AddElement
    <3> HIDE DEF all
    <3> QED
      BY <1>5, <1>7, <3>1
  <2>2. Entries' \in SUBSET all
    BY <1>4, <2>0
  <2> HIDE DEF all
  <2>3. Cardinality(Entries') <= Cardinality(all) /\ Cardinality(Entries') \in Nat
    BY <2>1, <2>2, FS_Subset, FS_CardinalityType
  <2> QED
    BY <1>6, <1>7, <2>1, <2>3, SizeAssumption
<1> QED
  BY <1>1, <1>3, <1>8 DEF IInv, TypeOK, TasksInv, RangesDisjoint, Finalized

\* The ranges of a split are in order, apart from one another and without a gap.
LEMMA RangesSplit ==
  ASSUME EntriesTyped, NEW cuts \in SUBSET (1 .. Total - 1)
  PROVE  /\ \A r \in Ranges(cuts) : r[1] \in Positions /\ r[2] \in 1 .. Total /\ r[1] < r[2]
         /\ \A r, s \in Ranges(cuts) : r # s => (r[1] .. r[2] - 1) \cap (s[1] .. s[2] - 1) = {}
         /\ \A i \in Positions : \E r \in Ranges(cuts) : i \in r[1] .. r[2] - 1
<1>1. Total \in Nat
  BY TotalIsNat
<1>2. ASSUME NEW r \in Ranges(cuts)
      PROVE  /\ r[1] \in cuts \cup {0} /\ r[2] \in cuts \cup {Total} /\ r = <<r[1], r[2]>>
             /\ r[1] \in Positions /\ r[2] \in 1 .. Total /\ r[1] < r[2]
             /\ \A c \in cuts : ~(r[1] < c /\ c < r[2])
  <2>1. /\ r \in (cuts \cup {0}) \X (cuts \cup {Total})
        /\ r[1] < r[2] /\ \A c \in cuts : ~(r[1] < c /\ c < r[2])
    BY DEF Ranges
  <2>2. r = <<r[1], r[2]>> /\ r[1] \in cuts \cup {0} /\ r[2] \in cuts \cup {Total}
    BY <2>1
  <2>3. r[1] \in Nat /\ r[2] \in Nat /\ r[1] <= Total /\ r[2] <= Total
    BY <1>1, <2>2
  <2> QED
    BY <1>1, <2>1, <2>2, <2>3 DEF Positions
<1>3. ASSUME NEW r \in Ranges(cuts), NEW s \in Ranges(cuts), NEW i,
             i \in r[1] .. r[2] - 1, i \in s[1] .. s[2] - 1
      PROVE  r = s
  <2>1. /\ r[1] \in Nat /\ r[2] \in Nat /\ s[1] \in Nat /\ s[2] \in Nat /\ i \in Nat
        /\ r[1] < s[2] /\ s[1] < r[2] /\ r[2] <= Total /\ s[2] <= Total
    BY <1>1, <1>2, <1>3 DEF Positions
  <2>2. r[1] = s[1]
    <3>1. CASE r[1] < s[1]
      BY <1>2, <2>1, <3>1
    <3>2. CASE s[1] < r[1]
      BY <1>2, <2>1, <3>2
    <3> QED
      BY <2>1, <3>1, <3>2
  <2>3. r[2] = s[2]
    <3>1. CASE r[2] < s[2]
      BY <1>1, <1>2, <2>1, <3>1
    <3>2. CASE s[2] < r[2]
      BY <1>1, <1>2, <2>1, <3>2
    <3> QED
      BY <2>1, <3>1, <3>2
  <2> QED
    BY <1>2, <2>2, <2>3
<1>4. ASSUME NEW i \in Positions PROVE \E r \in Ranges(cuts) : i \in r[1] .. r[2] - 1
  <2> DEFINE below == {c \in cuts \cup {0} : c <= i}
             above == {c \in cuts \cup {Total} : i < c}
  <2>1. i \in Nat /\ i < Total
    BY <1>1 DEF Positions
  <2>2. below \subseteq Nat /\ below # {} /\ \A c \in below : c <= i
    <3>1. 0 \in below
      BY <2>1
    <3>2. \A c \in below : c \in Nat /\ c <= i
      OBVIOUS
    <3> HIDE DEF below
    <3> QED
      BY <3>1, <3>2
  <2>3. above \subseteq Nat /\ above # {}
    <3>1. Total \in above
      BY <2>1
    <3>2. \A c \in above : c \in Nat
      BY <1>1
    <3> HIDE DEF above
    <3> QED
      BY <3>1, <3>2
  <2>4. PICK a \in below : \A c \in below : c <= a
    BY <2>1, <2>2, LargestExists
  <2>5. PICK b \in above : \A c \in above : b <= c
    BY <2>3, SmallestExists
  <2>6. \A c \in cuts : ~(a < c /\ c < b)
    BY <1>1, <2>1, <2>4, <2>5
  <2>7. <<a, b>> \in Ranges(cuts)
    BY <1>1, <2>1, <2>4, <2>5, <2>6 DEF Ranges
  <2>8. i \in a .. b - 1
    BY <1>1, <2>1, <2>4, <2>5
  <2> QED
    BY <2>7, <2>8
<1> QED
  BY <1>2, <1>3, <1>4

LEMMA FinalizeIInv ==
  ASSUME IInv, NEW cuts \in SUBSET (1 .. Total - 1), Finalize(cuts)
  PROVE  IInv' /\ \A i \in Positions : i \in Unpublished'
<1>1. /\ EntriesTyped /\ Total \in Nat /\ UNCHANGED entries
      /\ phase' = "build" /\ sizeVal' = Total
      /\ next' = [p \in Entries |-> NullPtr] /\ hashtable' = [s \in Slots |-> NullPtr]
      /\ tasks' = {Task(r[1], r[2]) : r \in Ranges(cuts)}
  BY TotalIsNat DEF Finalize, IInv, TypeOK, Slots
<1>2. /\ \A r \in Ranges(cuts) : r[1] \in Positions /\ r[2] \in 1 .. Total /\ r[1] < r[2]
      /\ \A r, s \in Ranges(cuts) : r # s => (r[1] .. r[2] - 1) \cap (s[1] .. s[2] - 1) = {}
      /\ \A i \in Positions : \E r \in Ranges(cuts) : i \in r[1] .. r[2] - 1
  BY <1>1, RangesSplit
<1>3. /\ Entries' = Entries /\ Total' = Total /\ Positions' = Positions /\ Slots' = Slots
      /\ EntriesTyped'
      /\ \A i : IteratorAt(i)' = IteratorAt(i)
      /\ \A p : PositionOf(p)' = PositionOf(p) /\ HashOf(p)' = HashOf(p)
      /\ \A k : Start(k)' = Start(k) /\ Held(k)' = Held(k) /\ Pending(k)' = Pending(k)
      /\ \A k : TaskTyped(k)' <=> TaskTyped(k)
  BY <1>1, ViewUnchanged
<1>4. TypeOK'
  BY <1>1, <1>3 DEF IInv, TypeOK
<1>5. ASSUME NEW r \in Ranges(cuts)
      PROVE  LET k == Task(r[1], r[2])
             IN  /\ k.idx = r[1] /\ k.limit = r[2] /\ ~k.linking
                 /\ k.first = IteratorAt(r[1]) /\ k.last = IteratorAt(r[1])
                 /\ Start(k) = r[1] /\ Held(k) = r[1] .. r[2] - 1 /\ Pending(k) = r[1] .. r[2] - 1
                 /\ TaskTyped(k)
  <2>1. r[1] \in Positions /\ r[2] \in 1 .. Total
    BY <1>2
  <2>2. IteratorAt(r[1]) \in Entries /\ PositionOf(IteratorAt(r[1])) = r[1]
    BY <1>1, <2>1, PositionEntry
  <2> QED
    BY <2>1, <2>2 DEF Task, Start, Held, Pending, TaskTyped
<1>6. TasksInv'
  <2>1. ASSUME NEW k \in tasks' PROVE TaskTyped(k)' /\ TaskInv(k)'
    <3>1. PICK r \in Ranges(cuts) : k = Task(r[1], r[2])
      BY <1>1
    <3>2. r[1] \in Nat /\ r[1] < r[2]
      BY <1>2 DEF Positions
    <3>3. /\ k.idx = r[1] /\ k.limit = r[2] /\ ~k.linking
          /\ k.first = IteratorAt(r[1]) /\ k.last = IteratorAt(r[1])
          /\ Start(k) = r[1] /\ TaskTyped(k)
      BY <1>5, <3>1
    <3>4. Start(k)' <= k.idx /\ k.idx < k.limit /\ k.last = IteratorAt(k.idx)'
      BY <1>3, <3>2, <3>3
    <3>5. \A j \in Start(k)' .. k.idx : HashOf(IteratorAt(j))' = HashOf(k.first)'
      BY <1>3, <3>2, <3>3
    <3>6. \A j \in Start(k)' .. k.idx - 1 : FALSE
      BY <1>3, <3>2, <3>3
    <3> QED
      BY <1>3, <3>3, <3>4, <3>5, <3>6 DEF TaskInv
  <2>2. ASSUME NEW k \in tasks', NEW l \in tasks', k # l PROVE Held(k)' \cap Held(l)' = {}
    <3>1. PICK r \in Ranges(cuts) : k = Task(r[1], r[2])
      BY <1>1
    <3>2. PICK s \in Ranges(cuts) : l = Task(s[1], s[2])
      BY <1>1
    <3>3. r # s
      BY <2>2, <3>1, <3>2
    <3> QED
      BY <1>2, <1>3, <1>5, <3>1, <3>2, <3>3
  <2> QED
    BY <2>1, <2>2 DEF TasksInv, RangesDisjoint
<1>7. \A i \in Positions : i \in Unpublished'
  <2> SUFFICES ASSUME NEW i \in Positions PROVE \E k \in tasks' : i \in Pending(k)'
    BY DEF Unpublished
  <2>1. PICK r \in Ranges(cuts) : i \in r[1] .. r[2] - 1
    BY <1>2
  <2>2. i \in Pending(Task(r[1], r[2])) /\ Task(r[1], r[2]) \in tasks'
    BY <1>1, <1>5, <2>1
  <2> QED
    BY <1>3, <2>2
<1>8. ASSUME NEW slot PROVE Published(slot)' = {}
  BY <1>1, <1>3, <1>7, EntryPosition DEF Published
<1>9. ChainsInv'
  <2> SUFFICES ASSUME NEW slot \in Slots
               PROVE  \E n \in 0 .. Total : \E c \in [1 .. n -> Entries] :
                        /\ IsChain(hashtable[slot], PendingNext, n, c)'
                        /\ {c[i] : i \in 1 .. n} = Published(slot)'
    BY <1>3 DEF ChainsInv
  <2> DEFINE c == [i \in 1 .. 0 |-> NullPtr]
  <2>1. c \in [1 .. 0 -> Entries] /\ 0 \in 0 .. Total /\ {c[i] : i \in 1 .. 0} = {}
    BY <1>1
  <2>2. IsChain(hashtable[slot], PendingNext, 0, c)'
    BY <1>1, <1>3, <2>1 DEF IsChain
  <2> QED
    BY <1>8, <2>1, <2>2
<1> QED
  BY <1>4, <1>6, <1>7, <1>9 DEF IInv

-----------------------------------------------------------------------------
(* The steps of the build.                                                 *)

\* A range goes on, or is done: it holds no more than it held, and what it links is its own.
LEMMA TasksReplaced ==
  ASSUME EntriesTyped, TasksInv, UNCHANGED entries, NEW k \in tasks, NEW new,
         tasks' = (tasks \ {k}) \cup new,
         \A l, m \in new : l = m,
         \A l \in new : TaskTyped(l) /\ TaskInv(l)' /\ Held(l) \subseteq Held(k),
         \A p \in Entries : p # k.last => next'[p] = next[p]
  PROVE  TasksInv'
<1>1. /\ \A i : IteratorAt(i)' = IteratorAt(i) /\ HashOf(IteratorAt(i))' = HashOf(IteratorAt(i))
      /\ \A p : HashOf(p)' = HashOf(p)
      /\ \A l : Start(l)' = Start(l) /\ Held(l)' = Held(l)
      /\ \A l : TaskTyped(l)' <=> TaskTyped(l)
  BY ViewUnchanged
<1>2. ASSUME NEW l \in tasks, l # k PROVE TaskTyped(l) /\ TaskInv(l)'
  <2>1. TaskTyped(l) /\ TaskInv(l)
    BY DEF TasksInv
  <2>2. \A j \in Held(l) : IteratorAt(j) # k.last
    BY <1>2, TasksApart
  <2>3. /\ Start(l) \in Nat /\ l.idx \in Nat /\ l.limit \in Nat /\ l.idx < l.limit
        /\ Held(l) \subseteq Positions
    BY <2>1, TaskPlace
  <2>4. ASSUME NEW j \in Start(l) .. l.idx - 1 PROVE next'[IteratorAt(j)] = next[IteratorAt(j)]
    <3>1. j \in Held(l) /\ j \in Positions
      BY <2>3 DEF Held
    <3>2. IteratorAt(j) \in Entries
      BY <3>1, PositionEntry
    <3> QED
      BY <2>2, <3>1, <3>2
  <2>5. ~l.linking => \A j \in Start(l) .. l.idx - 1 : next'[IteratorAt(j)] = IteratorAt(j + 1)
    BY <2>1, <2>4 DEF TaskInv
  <2> QED
    BY <1>1, <2>1, <2>5 DEF TaskInv
<1>3. \A l \in tasks' : TaskTyped(l)' /\ TaskInv(l)'
  BY <1>1, <1>2
<1>4. ASSUME NEW l \in tasks', NEW m \in tasks', l # m PROVE Held(l)' \cap Held(m)' = {}
  BY <1>1, <1>4 DEF TasksInv, RangesDisjoint
<1> QED
  BY <1>3, <1>4 DEF TasksInv, RangesDisjoint

\* A link that neither a range owes nor a step stores stays as it is.
LEMMA PendingKept ==
  ASSUME PendingValues, PendingValues', UNCHANGED entries, NEW p \in Entries, next'[p] = next[p],
         \A l \in tasks : l.linking /\ l.last = p => l \in tasks',
         \A l \in tasks' : l.linking /\ l.last = p => l \in tasks
  PROVE  PendingNext'[p] = PendingNext[p]
<1>1. p \in Entries'
  BY DEF Entries
<1>2. CASE \E l \in tasks : l.linking /\ l.last = p
  <2>1. PICK l \in tasks : l.linking /\ l.last = p
    BY <1>2
  <2>2. l \in tasks'
    BY <2>1
  <2>3. PendingNext[p] = l.replaced
    BY <2>1 DEF PendingValues
  <2>4. PendingNext'[p] = l.replaced
    BY <2>1, <2>2 DEF PendingValues
  <2> QED
    BY <2>3, <2>4
<1>3. CASE ~ \E l \in tasks : l.linking /\ l.last = p
  <2>1. PendingNext[p] = next[p]
    BY <1>3 DEF PendingValues
  <2>2. PendingNext'[p] = next'[p]
    BY <1>1, <1>3 DEF PendingValues
  <2> QED
    BY <2>1, <2>2
<1> QED
  BY <1>2, <1>3

\* A step that stores no link of an entry on a chain leaves the chain alone.
LEMMA ChainKept ==
  ASSUME UNCHANGED entries, NEW head, NEW before, NEW after, NEW n \in Nat,
         NEW c, IsChain(head, before, n, c), \A i \in 1 .. n : after[c[i]] = before[c[i]]
  PROVE  IsChain(head, after, n, c)
BY DEF IsChain

LEMMA ChainsKept ==
  ASSUME EntriesTyped, ChainsInv, UNCHANGED <<entries, hashtable>>, Unpublished' = Unpublished,
         \A p \in Entries : PositionOf(p) \notin Unpublished => PendingNext'[p] = PendingNext[p],
         HashTableShift' = HashTableShift
  PROVE  ChainsInv'
<1>1. /\ Entries' = Entries /\ Total' = Total /\ Slots' = Slots
      /\ \A p : PositionOf(p)' = PositionOf(p) /\ HashOf(p)' = HashOf(p)
  BY ViewUnchanged
<1>2. \A p : SlotOf(p)' = SlotOf(p)
  BY <1>1 DEF SlotOf, ComputeSlot
<1>3. \A slot : Published(slot)' = Published(slot)
  BY <1>1, <1>2 DEF Published
<1> SUFFICES ASSUME NEW slot \in Slots
             PROVE  \E n \in 0 .. Total : \E c \in [1 .. n -> Entries] :
                      /\ IsChain(hashtable[slot], PendingNext, n, c)'
                      /\ {c[i] : i \in 1 .. n} = Published(slot)'
  BY <1>1 DEF ChainsInv
<1>4. PICK n \in 0 .. Total :
        \E c \in [1 .. n -> Entries] : /\ IsChain(hashtable[slot], PendingNext, n, c)
                                      /\ {c[i] : i \in 1 .. n} = Published(slot)
  BY DEF ChainsInv
<1>5. PICK c \in [1 .. n -> Entries] : /\ IsChain(hashtable[slot], PendingNext, n, c)
                                       /\ {c[i] : i \in 1 .. n} = Published(slot)
  BY <1>4
<1>6. \A i \in 1 .. n : PendingNext'[c[i]] = PendingNext[c[i]]
  BY <1>5 DEF Published
<1>7. IsChain(hashtable[slot], PendingNext, n, c)'
  BY <1>1, <1>5, <1>6 DEF IsChain
<1> QED
  BY <1>3, <1>5, <1>7

LEMMA CollapseIInv ==
  ASSUME IInv, NEW k \in tasks, Collapse(k)
  PROVE  IInv' /\ Unpublished' = Unpublished
<1> DEFINE l == [k EXCEPT !.last = Increment(k.last), !.idx = k.idx + 1]
<1>1. /\ EntriesTyped /\ TasksInv /\ Finalized /\ ChainsInv /\ phase = "build"
      /\ ~k.linking /\ RunContinues(k)
      /\ next' = [next EXCEPT ![k.last] = Increment(k.last)]
      /\ tasks' = (tasks \ {k}) \cup {l}
      /\ UNCHANGED <<entries, phase, sizeVal, hashtable>>
  BY DEF Collapse, IInv, TypeOK, Finalized
<1>2. TaskTyped(k) /\ TaskInv(k)
  BY <1>1 DEF TasksInv
<1>3. /\ Start(k) \in Nat /\ k.idx \in Nat /\ k.limit \in Nat /\ k.limit <= Total
      /\ Start(k) <= k.idx /\ k.idx < k.limit /\ Total \in Nat
      /\ k.idx \in Positions /\ k.idx \in Held(k) /\ Held(k) \subseteq Positions
      /\ k.last \in Entries /\ IteratorAt(k.idx) = k.last
  BY <1>1, <1>2, TaskPlace, TotalIsNat
<1>4. k.idx + 1 \in Positions /\ k.idx + 1 < k.limit
  BY <1>1, <1>3 DEF RunContinues, Positions
<1>5. Increment(k.last) = IteratorAt(k.idx + 1) /\ Increment(k.last) \in Entries
  BY <1>1, <1>3, <1>4, IncrementNext, PositionEntry
<1>6. /\ l.idx = k.idx + 1 /\ l.last = IteratorAt(k.idx + 1) /\ l.first = k.first
      /\ l.limit = k.limit /\ ~l.linking /\ TaskTyped(l)
  BY <1>1, <1>2, <1>4, <1>5 DEF TaskTyped
<1> HIDE DEF l
<1>7. Start(l) = Start(k) /\ Held(l) = Held(k) /\ Pending(l) = Pending(k)
  BY <1>1, <1>6 DEF Start, Held, Pending
<1>8. /\ Entries' = Entries
      /\ \A i : IteratorAt(i)' = IteratorAt(i) /\ HashOf(IteratorAt(i))' = HashOf(IteratorAt(i))
      /\ \A p : HashOf(p)' = HashOf(p)
      /\ \A m : Start(m)' = Start(m) /\ Pending(m)' = Pending(m)
  BY <1>1, ViewUnchanged
<1>9. next \in [Entries -> Entries \cup {NullPtr}] /\ sizeVal = Total
  BY <1>1 DEF IInv, TypeOK
<1>10. TypeOK'
  <2>1. next' \in [Entries -> Entries \cup {NullPtr}]
    BY <1>1, <1>5, <1>9
  <2> QED
    BY <1>1, <2>1, ViewUnchanged DEF IInv, TypeOK
<1>11. ASSUME NEW m, m = l PROVE TaskInv(m)'
  <2>1. m.idx = k.idx + 1 /\ m.first = k.first /\ m.limit = k.limit /\ Start(m)' = Start(k)
        /\ m.last = IteratorAt(k.idx + 1)
    BY <1>6, <1>7, <1>8, <1>11
  <2>2. \A j \in Start(k) .. k.idx + 1 : HashOf(IteratorAt(j)) = HashOf(k.first)
    <3>1. HashOf(IteratorAt(k.idx + 1)) = HashOf(k.last) /\ HashOf(k.last) = HashOf(k.first)
      BY <1>1, <1>2, <1>3, <1>5 DEF RunContinues, TaskInv
    <3>2. \A j \in Start(k) .. k.idx : HashOf(IteratorAt(j)) = HashOf(k.first)
      BY <1>2 DEF TaskInv
    <3> QED
      BY <1>3, <3>1, <3>2
  <2>3. \A j \in Start(k) .. k.idx : next'[IteratorAt(j)] = IteratorAt(j + 1)
    <3> SUFFICES ASSUME NEW j \in Start(k) .. k.idx PROVE next'[IteratorAt(j)] = IteratorAt(j + 1)
      OBVIOUS
    <3>1. CASE j = k.idx
      BY <1>1, <1>3, <1>5, <1>9, <3>1
    <3>2. CASE j # k.idx
      <4>1. j \in Start(k) .. k.idx - 1 /\ j \in Positions
        BY <1>3, <3>2 DEF Held
      <4>2. IteratorAt(j) # k.last /\ IteratorAt(j) \in Entries
        BY <1>1, <1>3, <3>2, <4>1, PositionsDiffer, PositionEntry
      <4>3. next[IteratorAt(j)] = IteratorAt(j + 1)
        BY <1>1, <1>2, <4>1 DEF TaskInv
      <4> QED
        BY <1>1, <1>9, <4>2, <4>3
    <3> QED
      BY <3>1, <3>2
  <2>4. Start(m)' <= m.idx /\ m.idx < m.limit /\ m.last = IteratorAt(m.idx)'
    BY <1>3, <1>4, <1>8, <2>1
  <2>5. \A j \in Start(m)' .. m.idx : HashOf(IteratorAt(j))' = HashOf(m.first)'
    BY <1>8, <2>1, <2>2
  <2>6. \A j \in Start(m)' .. m.idx - 1 : next'[IteratorAt(j)'] = IteratorAt(j + 1)'
    BY <1>3, <1>8, <2>1, <2>3
  <2> QED
    BY <2>4, <2>5, <2>6 DEF TaskInv
<1>12. TasksInv'
  <2>0. PICK new : new = {l}
    OBVIOUS
  <2>1. \A m \in new : TaskTyped(m) /\ TaskInv(m)' /\ Held(m) \subseteq Held(k)
    BY <1>6, <1>7, <1>11, <2>0
  <2>2. \A p \in Entries : p # k.last => next'[p] = next[p]
    BY <1>1, <1>9
  <2>3. tasks' = (tasks \ {k}) \cup new /\ UNCHANGED entries /\ \A m, o \in new : m = o
    BY <1>1, <2>0
  <2> QED
    BY <1>1, <2>1, <2>2, <2>3, TasksReplaced
<1>13. PendingValues /\ PendingValues'
  <2>1. EntriesTyped'
    BY <1>10 DEF TypeOK
  <2> QED
    BY <1>1, <1>12, <2>1, PendingDefined, PTL
<1>14. Unpublished' = Unpublished
  BY <1>1, <1>7, <1>8 DEF Unpublished
<1>15. ASSUME NEW p \in Entries, PositionOf(p) \notin Unpublished
       PROVE  PendingNext'[p] = PendingNext[p]
  <2>1. k.idx \in Pending(k) /\ PositionOf(k.last) = k.idx
    BY <1>1, <1>2, <1>3, TaskPlace DEF Pending
  <2>2. p # k.last
    BY <1>15, <2>1 DEF Unpublished
  <2>3. next'[p] = next[p]
    BY <1>1, <1>9, <2>2
  <2> QED
    BY <1>1, <1>6, <1>13, <2>3, PendingKept
<1>16. HashTableShift' = HashTableShift
  BY <1>1 DEF HashTableShift
<1> QED
  BY <1>1, <1>10, <1>12, <1>14, <1>15, <1>16, ChainsKept DEF IInv

LEMMA LinkIInv ==
  ASSUME IInv, NEW k \in tasks, Link(k)
  PROVE  IInv' /\ Unpublished' = Unpublished
<1> DEFINE l == [k EXCEPT !.idx = k.idx + 1, !.first = Increment(k.last),
                          !.last = Increment(k.last), !.linking = FALSE, !.replaced = NullPtr]
           new == IF k.idx + 1 = k.limit THEN {} ELSE {l}
<1>1. /\ EntriesTyped /\ TasksInv /\ Finalized /\ ChainsInv /\ phase = "build" /\ k.linking
      /\ next' = [next EXCEPT ![k.last] = k.replaced]
      /\ tasks' = (tasks \ {k}) \cup new
      /\ UNCHANGED <<entries, phase, sizeVal, hashtable>>
  BY DEF Link, IInv, TypeOK, Finalized
<1>2. TaskTyped(k) /\ TaskInv(k)
  BY <1>1 DEF TasksInv
<1>3. /\ Start(k) \in Nat /\ k.idx \in Nat /\ k.limit \in Nat /\ k.limit <= Total
      /\ Start(k) <= k.idx /\ k.idx < k.limit /\ Total \in Nat
      /\ k.idx \in Positions /\ Held(k) \subseteq Positions
      /\ k.last \in Entries /\ IteratorAt(k.idx) = k.last /\ PositionOf(k.last) = k.idx
      /\ k.replaced \in Entries \cup {NullPtr}
  BY <1>1, <1>2, TaskPlace, TotalIsNat DEF TaskTyped
<1>4. ASSUME k.idx + 1 # k.limit
      PROVE  /\ l.idx = k.idx + 1 /\ l.limit = k.limit /\ ~l.linking /\ TaskTyped(l)
             /\ l.first = IteratorAt(k.idx + 1) /\ l.last = IteratorAt(k.idx + 1)
             /\ Start(l) = k.idx + 1
  <2>1. k.idx + 1 \in Positions
    BY <1>3, <1>4 DEF Positions
  <2>2. Increment(k.last) = IteratorAt(k.idx + 1) /\ Increment(k.last) \in Entries
    BY <1>1, <1>3, <2>1, IncrementNext, PositionEntry
  <2>3. PositionOf(IteratorAt(k.idx + 1)) = k.idx + 1
    BY <1>1, <2>1, PositionEntry
  <2> QED
    BY <1>1, <1>2, <2>1, <2>2, <2>3 DEF TaskTyped, Start
<1> HIDE DEF l
<1>5. /\ Entries' = Entries
      /\ \A i : IteratorAt(i)' = IteratorAt(i) /\ HashOf(IteratorAt(i))' = HashOf(IteratorAt(i))
      /\ \A p : HashOf(p)' = HashOf(p)
      /\ \A m : Start(m)' = Start(m) /\ Pending(m)' = Pending(m)
  BY <1>1, ViewUnchanged
<1>6. next \in [Entries -> Entries \cup {NullPtr}] /\ sizeVal = Total
  BY <1>1 DEF IInv, TypeOK
<1>7. TypeOK'
  <2>1. next' \in [Entries -> Entries \cup {NullPtr}]
    BY <1>1, <1>3, <1>6
  <2> QED
    BY <1>1, <2>1, ViewUnchanged DEF IInv, TypeOK
<1>8. ASSUME NEW m \in new
      PROVE  /\ m = l /\ k.idx + 1 # k.limit /\ ~m.linking /\ TaskTyped(m) /\ TaskInv(m)'
             /\ Held(m) \subseteq Held(k) /\ Pending(m) = Pending(k)
  <2>1. m = l /\ k.idx + 1 # k.limit
    OBVIOUS
  <2>2. /\ m.idx = k.idx + 1 /\ m.limit = k.limit /\ ~m.linking /\ TaskTyped(m)
        /\ m.first = IteratorAt(k.idx + 1) /\ m.last = IteratorAt(k.idx + 1)
        /\ Start(m) = k.idx + 1
    BY <1>4, <2>1
  <2>3. TaskInv(m)'
    <3>1. Start(m)' <= m.idx /\ m.idx < m.limit /\ m.last = IteratorAt(m.idx)'
      BY <1>3, <1>5, <2>1, <2>2
    <3>2. \A j \in Start(m)' .. m.idx : HashOf(IteratorAt(j))' = HashOf(m.first)'
      BY <1>3, <1>5, <2>2
    <3>3. \A j \in Start(m)' .. m.idx - 1 : FALSE
      BY <1>3, <1>5, <2>2
    <3> QED
      BY <3>1, <3>2, <3>3 DEF TaskInv
  <2>4. Held(m) \subseteq Held(k) /\ Pending(m) = Pending(k)
    BY <1>1, <1>3, <2>2 DEF Held, Pending
  <2> QED
    BY <2>1, <2>2, <2>3, <2>4
<1>9. TasksInv'
  <2>1. \A p \in Entries : p # k.last => next'[p] = next[p]
    BY <1>1, <1>6
  <2> HIDE DEF new
  <2> QED
    BY <1>1, <1>8, <2>1, TasksReplaced
<1>10. PendingValues /\ PendingValues'
  <2>1. EntriesTyped'
    BY <1>7 DEF TypeOK
  <2> QED
    BY <1>1, <1>9, <2>1, PendingDefined, PTL
<1>11. Unpublished' = Unpublished
  <2>1. k.idx + 1 = k.limit => Pending(k) = {}
    BY <1>1, <1>3 DEF Pending
  <2>2. ASSUME NEW i PROVE (\E m \in tasks' : i \in Pending(m)) <=> (\E m \in tasks : i \in Pending(m))
    <3>1. CASE k.idx + 1 = k.limit
      BY <1>1, <2>1, <3>1
    <3>2. CASE k.idx + 1 # k.limit
      <4>1. l \in new /\ l \in tasks'
        BY <1>1, <3>2
      <4>2. Pending(l) = Pending(k)
        BY <1>8, <4>1
      <4> QED
        BY <1>1, <3>2, <4>1, <4>2
    <3> QED
      BY <3>1, <3>2
  <2> QED
    BY <1>5, <2>2 DEF Unpublished
<1>12. ASSUME NEW p \in Entries, PositionOf(p) \notin Unpublished
       PROVE  PendingNext'[p] = PendingNext[p]
  <2>1. CASE p = k.last
    <3>1. PendingNext[p] = k.replaced
      BY <1>1, <1>10, <2>1 DEF PendingValues
    <3>2. \A m \in tasks' : m.linking => m.last # p
      BY <1>1, <1>8, <2>1, TasksApart
    <3>3. PendingNext'[p] = next'[p]
      BY <1>5, <1>10, <3>2 DEF PendingValues
    <3> QED
      BY <1>1, <1>6, <2>1, <3>1, <3>3
  <2>2. CASE p # k.last
    <3>1. next'[p] = next[p]
      BY <1>1, <1>6, <2>2
    <3>2. \A m \in tasks' : m.linking /\ m.last = p => m \in tasks
      BY <1>1, <1>8
    <3>3. \A m \in tasks : m.linking /\ m.last = p => m \in tasks'
      BY <1>1, <2>2
    <3> QED
      BY <1>1, <1>10, <3>1, <3>2, <3>3, PendingKept
  <2> QED
    BY <2>1, <2>2
<1>13. HashTableShift' = HashTableShift
  BY <1>1 DEF HashTableShift
<1> QED
  BY <1>1, <1>7, <1>9, <1>11, <1>12, <1>13, ChainsKept DEF IInv

\* The exchange publishes the run: it is in front of the chain that it replaced.
LEMMA ExchangeIInv ==
  ASSUME IInv, NEW k \in tasks, Exchange(k)
  PROVE  /\ IInv'
         /\ Unpublished' \subseteq Unpublished /\ Start(k) \in Unpublished \ Unpublished'
<1>0. PICK slot : slot = SlotOf(k.first)
  OBVIOUS
<1> DEFINE l == [k EXCEPT !.linking = TRUE, !.replaced = hashtable[slot]]
           run == Start(k) .. k.idx
<1>1. /\ EntriesTyped /\ TasksInv /\ Finalized /\ ChainsInv /\ phase = "build" /\ ~k.linking
      /\ hashtable' = [hashtable EXCEPT ![slot] = k.first]
      /\ tasks' = (tasks \ {k}) \cup {l}
      /\ UNCHANGED <<entries, phase, sizeVal, next>>
  BY <1>0 DEF Exchange, IInv, TypeOK, Finalized, SlotOf
<1>2. TaskTyped(k) /\ TaskInv(k)
  BY <1>1 DEF TasksInv
<1>3. /\ Start(k) \in Nat /\ k.idx \in Nat /\ k.limit \in Nat /\ k.limit <= Total
      /\ Start(k) <= k.idx /\ k.idx < k.limit /\ Total \in Nat
      /\ k.idx \in Positions /\ Held(k) \subseteq Positions
      /\ k.first \in Entries /\ IteratorAt(Start(k)) = k.first
      /\ k.last \in Entries /\ IteratorAt(k.idx) = k.last
  BY <1>1, <1>2, TaskPlace, TotalIsNat
<1>4. slot \in Slots
  BY <1>0, <1>1, <1>3, SlotInTable DEF IInv
<1>5. /\ next \in [Entries -> Entries \cup {NullPtr}] /\ sizeVal = Total
      /\ hashtable \in [Slots -> Entries \cup {NullPtr}]
  BY <1>1 DEF IInv, TypeOK
<1>6. /\ l.idx = k.idx /\ l.last = k.last /\ l.first = k.first /\ l.limit = k.limit /\ l.linking
      /\ l.replaced = hashtable[slot] /\ TaskTyped(l)
  BY <1>2, <1>4, <1>5 DEF TaskTyped
<1> HIDE DEF l
<1>7. Start(l) = Start(k) /\ Held(l) = Held(k) /\ Pending(l) = k.idx + 1 .. k.limit - 1
  BY <1>6 DEF Start, Held, Pending
<1>8. /\ Entries' = Entries /\ Total' = Total /\ Slots' = Slots
      /\ \A i : IteratorAt(i)' = IteratorAt(i) /\ HashOf(IteratorAt(i))' = HashOf(IteratorAt(i))
      /\ \A p : HashOf(p)' = HashOf(p) /\ PositionOf(p)' = PositionOf(p)
      /\ \A m : Start(m)' = Start(m) /\ Pending(m)' = Pending(m)
  BY <1>1, ViewUnchanged
<1>9. TypeOK'
  <2>1. hashtable' \in [Slots -> Entries \cup {NullPtr}]
    BY <1>1, <1>3, <1>5
  <2> QED
    BY <1>1, <2>1, ViewUnchanged DEF IInv, TypeOK
<1>10. ASSUME NEW m, m = l PROVE TaskInv(m)'
  <2>1. /\ m.idx = k.idx /\ m.first = k.first /\ m.limit = k.limit /\ Start(m)' = Start(k)
        /\ m.last = IteratorAt(k.idx)' /\ m.linking
    BY <1>3, <1>6, <1>7, <1>8, <1>10
  <2>2. \A j \in Start(m)' .. m.idx : HashOf(IteratorAt(j))' = HashOf(m.first)'
    BY <1>2, <1>8, <2>1 DEF TaskInv
  <2> QED
    BY <1>3, <2>1, <2>2 DEF TaskInv
<1>11. TasksInv'
  <2>0. PICK new : new = {l}
    OBVIOUS
  <2>1. \A m \in new : TaskTyped(m) /\ TaskInv(m)' /\ Held(m) \subseteq Held(k)
    BY <1>6, <1>7, <1>10, <2>0
  <2>2. \A p \in Entries : p # k.last => next'[p] = next[p]
    BY <1>1
  <2>3. tasks' = (tasks \ {k}) \cup new /\ UNCHANGED entries /\ \A m, o \in new : m = o
    BY <1>1, <2>0
  <2> QED
    BY <1>1, <2>1, <2>2, <2>3, TasksReplaced
<1>12. PendingValues /\ PendingValues'
  <2>1. EntriesTyped'
    BY <1>9 DEF TypeOK
  <2> QED
    BY <1>1, <1>11, <2>1, PendingDefined, PTL
<1>13. PendingNext'[k.last] = hashtable[slot]
  <2>1. l \in tasks' /\ l.linking /\ l.last = k.last /\ l.replaced = hashtable[slot]
    BY <1>1, <1>6
  <2> QED
    BY <1>12, <2>1 DEF PendingValues
<1>14. ASSUME NEW p \in Entries, p # k.last PROVE PendingNext'[p] = PendingNext[p]
  BY <1>1, <1>6, <1>12, <1>14, PendingKept
<1>15. \A i \in Positions : i \in Unpublished' <=> i \in Unpublished /\ i \notin run
  <2> SUFFICES ASSUME NEW i \in Positions
               PROVE  (\E m \in tasks' : i \in Pending(m)) <=>
                      (\E m \in tasks : i \in Pending(m)) /\ i \notin run
    BY <1>8 DEF Unpublished
  <2>1. Pending(k) = Held(k)
    BY <1>1 DEF Pending, Held
  <2>2. i \in Pending(l) <=> i \in Pending(k) /\ i \notin run
    BY <1>3, <1>7, <2>1 DEF Held, Positions
  <2>3. ASSUME NEW m \in tasks, m # k, i \in Pending(m) PROVE i \notin run
    <3>1. i \in Held(m)
      BY <1>1, <2>3, TaskPlace DEF TasksInv
    <3>2. i \notin Held(k)
      BY <1>1, <2>3, <3>1 DEF TasksInv, RangesDisjoint
    <3> QED
      BY <1>3, <3>2 DEF Held
  <2> QED
    BY <1>1, <2>2, <2>3
<1>16. \A i \in run : i \in Positions /\ i \in Unpublished /\ IteratorAt(i) \in Entries
                      /\ PositionOf(IteratorAt(i)) = i /\ SlotOf(IteratorAt(i)) = slot
  <2> SUFFICES ASSUME NEW i \in run
               PROVE  i \in Positions /\ i \in Unpublished /\ IteratorAt(i) \in Entries
                      /\ PositionOf(IteratorAt(i)) = i /\ SlotOf(IteratorAt(i)) = slot
    OBVIOUS
  <2>1. i \in Held(k) /\ i \in Pending(k) /\ i \in Positions
    BY <1>1, <1>3 DEF Held, Pending
  <2>2. HashOf(IteratorAt(i)) = HashOf(k.first)
    BY <1>2 DEF TaskInv
  <2> QED
    BY <1>0, <1>1, <2>1, <2>2, PositionEntry DEF Unpublished, SlotOf
<1>17. \A p : SlotOf(p)' = SlotOf(p)
  BY <1>1, <1>8 DEF SlotOf, ComputeSlot, HashTableShift
<1>18. \A p \in Entries : PositionOf(p) \in Positions /\ IteratorAt(PositionOf(p)) = p
  BY <1>1, EntryPosition
<1>19. \A s : s # slot => Published(s)' = Published(s)
  BY <1>8, <1>15, <1>16, <1>17, <1>18 DEF Published
<1>20. Published(slot)' = {IteratorAt(i) : i \in run} \cup Published(slot)
  BY <1>8, <1>15, <1>16, <1>17, <1>18 DEF Published
<1>21. \A s \in Slots : \A p \in Published(s) : p \in Entries /\ p # k.last /\ PositionOf(p) \notin run
  BY <1>3, <1>16 DEF Published
<1>22. ChainsInv'
  <2> SUFFICES ASSUME NEW s \in Slots
               PROVE  \E n \in 0 .. Total : \E c \in [1 .. n -> Entries] :
                        /\ IsChain(hashtable[s], PendingNext, n, c)'
                        /\ {c[i] : i \in 1 .. n} = Published(s)'
    BY <1>8 DEF ChainsInv
  <2>1. PICK n \in 0 .. Total :
          \E c \in [1 .. n -> Entries] : /\ IsChain(hashtable[s], PendingNext, n, c)
                                        /\ {c[i] : i \in 1 .. n} = Published(s)
    BY <1>1 DEF ChainsInv
  <2>2. PICK c \in [1 .. n -> Entries] : /\ IsChain(hashtable[s], PendingNext, n, c)
                                         /\ {c[i] : i \in 1 .. n} = Published(s)
    BY <2>1
  <2>3. \A i \in 1 .. n : /\ c[i] \in Entries /\ c[i] # k.last /\ PositionOf(c[i]) \notin run
                          /\ PendingNext'[c[i]] = PendingNext[c[i]]
    BY <1>14, <1>21, <2>2
  <2>4. CASE s # slot
    <3>1. hashtable'[s] = hashtable[s]
      BY <1>1, <1>5, <2>4
    <3>2. IsChain(hashtable[s], PendingNext, n, c)'
      BY <1>8, <2>2, <2>3, <3>1 DEF IsChain
    <3> QED
      BY <1>19, <2>2, <2>4, <3>2
  <2>5. CASE s = slot
    <3>1. PICK m \in Nat \ {0} : m = k.idx - Start(k) + 1
      BY <1>3
    <3>0. PICK r : r = [i \in 1 .. m |-> IteratorAt(Start(k) + i - 1)]
      OBVIOUS
    <3>a. PICK after : after = PendingNext'
      OBVIOUS
    <3>2. \A i \in 1 .. m : Start(k) + i - 1 \in run /\ r[i] = IteratorAt(Start(k) + i - 1)
      BY <1>3, <3>0, <3>1
    <3>3. r \in [1 .. m -> Entries] /\ \A i \in 1 .. m : PositionOf(r[i]) = Start(k) + i - 1
      BY <1>16, <3>0, <3>2
    <3>4. r[1] = k.first /\ r[m] = k.last /\ 1 \in 1 .. m /\ m \in 1 .. m
      <4>1. 1 \in 1 .. m /\ m \in 1 .. m /\ Start(k) + 1 - 1 = Start(k) /\ Start(k) + m - 1 = k.idx
        BY <1>3, <3>1
      <4> QED
        BY <1>3, <3>2, <4>1
    <3>5. \A i \in 1 .. m - 1 : after[r[i]] = r[i + 1]
      <4> SUFFICES ASSUME NEW i \in 1 .. m - 1 PROVE after[r[i]] = r[i + 1]
        OBVIOUS
      <4>1. /\ i \in 1 .. m /\ i + 1 \in 1 .. m /\ Start(k) + i - 1 \in Start(k) .. k.idx - 1
            /\ (Start(k) + i - 1) + 1 = Start(k) + (i + 1) - 1
            /\ Start(k) + i - 1 # k.idx
        <5>1. i \in Nat /\ i >= 1 /\ i + 1 <= m /\ Start(k) \in Nat /\ k.idx \in Nat
          BY <1>3, <3>1
        <5>2. Start(k) + i <= k.idx
          BY <3>1, <5>1
        <5> QED
          BY <3>1, <5>1, <5>2
      <4>2. next[r[i]] = r[i + 1]
        BY <1>1, <1>2, <3>2, <4>1 DEF TaskInv
      <4>3. r[i] \in Entries /\ r[i] # k.last
        BY <1>1, <1>2, <3>3, <4>1, TaskPlace
      <4>4. \A l2 \in tasks : l2.linking => l2.last # r[i]
        <5> SUFFICES ASSUME NEW l2 \in tasks, l2.linking PROVE l2.last # r[i]
          OBVIOUS
        <5>1. l2 # k
          BY <1>1
        <5>2. Start(k) + i - 1 \in Held(k)
          BY <1>3, <4>1 DEF Held
        <5>3. EntriesTyped /\ TasksInv
          BY <1>1
        <5>4. IteratorAt(Start(k) + i - 1) # l2.last
          BY <5>1, <5>2, <5>3, TasksApart
        <5> QED
          BY <3>2, <4>1, <5>4
      <4>5. PendingNext[r[i]] = next[r[i]]
        BY <1>12, <4>3, <4>4 DEF PendingValues
      <4> QED
        BY <1>14, <3>a, <4>2, <4>3, <4>5
    <3>6. after[r[m]] = hashtable[s]
      BY <1>13, <2>5, <3>4, <3>a
    <3>7. \A i, j \in 1 .. m : r[i] = r[j] => i = j
      <4> SUFFICES ASSUME NEW i \in 1 .. m, NEW j \in 1 .. m, r[i] = r[j] PROVE i = j
        OBVIOUS
      <4>1. Start(k) + i - 1 = Start(k) + j - 1
        BY <3>3
      <4> QED
        BY <1>3, <3>1, <4>1
    <3>8. \A i \in 1 .. m, j \in 1 .. n : r[i] # c[j]
      BY <2>3, <3>2, <3>3
    <3>9. {r[i] : i \in 1 .. m} = {IteratorAt(i) : i \in run}
      <4>1. ASSUME NEW i \in run PROVE IteratorAt(i) \in {r[j] : j \in 1 .. m}
        <5>1. i - Start(k) + 1 \in 1 .. m /\ Start(k) + (i - Start(k) + 1) - 1 = i
          BY <1>3, <3>1
        <5> QED
          BY <3>2, <5>1
      <4>2. ASSUME NEW j \in 1 .. m PROVE r[j] \in {IteratorAt(i) : i \in run}
        BY <3>2
      <4> QED
        BY <4>1, <4>2
    <3>10. PICK d \in [1 .. m + n -> Entries] :
             /\ IsChain(r[1], after, m + n, d)
             /\ {d[i] : i \in 1 .. m + n} = {r[i] : i \in 1 .. m} \cup {c[i] : i \in 1 .. n}
      <4>1. n \in Nat
        BY <2>1
      <4>2. \A i \in 1 .. n : after[c[i]] = PendingNext[c[i]]
        BY <2>3, <3>a
      <4>3. RunLinked(m, r, hashtable[s], PendingNext, after, n, c)
        BY <3>3, <3>5, <3>6, <3>7, <3>8, <4>2 DEF RunLinked
      <4>4. RunAndChain(m, r, after, n, c)
        BY <2>2, <3>1, <4>1, <4>3, ChainExtended
      <4> QED
        BY <4>4 DEF RunAndChain
    <3>11. m + n \in 0 .. Total
      <4>1. m + n \in Nat
        BY <1>3, <2>1, <3>1
      <4>2. \A i, j \in 1 .. m + n : d[i] = d[j] => i = j
        BY <3>10 DEF IsChain
      <4>3. m + n <= Total
        BY <1>1, <3>10, <4>1, <4>2, ChainBounded
      <4> QED
        BY <1>3, <4>1, <4>3
    <3>12. hashtable'[s] = r[1]
      BY <1>1, <1>5, <2>5, <3>4
    <3>13. IsChain(hashtable[s], PendingNext, m + n, d)'
      BY <1>8, <3>10, <3>12, <3>a DEF IsChain
    <3>14. {d[i] : i \in 1 .. m + n} = Published(s)'
      <4>1. {d[i] : i \in 1 .. m + n} = {r[i] : i \in 1 .. m} \cup {c[i] : i \in 1 .. n}
        BY <3>10
      <4> QED
        BY <1>20, <2>2, <2>5, <3>9, <4>1
    <3> QED
      BY <3>10, <3>11, <3>13, <3>14
  <2> QED
    BY <2>4, <2>5
<1>23. Start(k) \in run
  BY <1>3
<1>24. Unpublished' \subseteq Positions
  <2>2. \A m \in tasks : Pending(m) \subseteq Positions
    BY <1>1, TaskPlace DEF TasksInv
  <2>3. Pending(l) \subseteq Positions
    BY <1>3, <1>7 DEF Positions
  <2> QED
    BY <1>1, <1>8, <2>2, <2>3 DEF Unpublished
<1>25. Unpublished' \subseteq Unpublished /\ Start(k) \in Unpublished \ Unpublished'
  BY <1>15, <1>16, <1>23, <1>24
<1> QED
  BY <1>9, <1>11, <1>22, <1>25 DEF IInv

LEMMA FinishBuildIInv ==
  ASSUME IInv, FinishBuild \/ UNCHANGED vars
  PROVE  IInv'
<1>1. /\ UNCHANGED <<entries, sizeVal, next, hashtable, tasks>>
      /\ phase' = phase \/ (phase = "build" /\ phase' = "probe" /\ tasks = {})
  BY DEF FinishBuild, vars
<1>2. /\ Entries' = Entries /\ Total' = Total /\ Slots' = Slots /\ (EntriesTyped' <=> EntriesTyped)
      /\ \A i : IteratorAt(i)' = IteratorAt(i) /\ HashOf(IteratorAt(i))' = HashOf(IteratorAt(i))
      /\ \A p : HashOf(p)' = HashOf(p)
      /\ \A l : Start(l)' = Start(l) /\ Held(l)' = Held(l) /\ Pending(l)' = Pending(l)
      /\ \A l : TaskTyped(l)' <=> TaskTyped(l)
  BY <1>1, ViewUnchanged
<1>3. TypeOK'
  BY <1>1, <1>2 DEF IInv, TypeOK
<1>4. \A l : TaskInv(l)' <=> TaskInv(l)
  BY <1>1, <1>2 DEF TaskInv
<1>5. TasksInv'
  BY <1>1, <1>2, <1>4 DEF IInv, TasksInv, RangesDisjoint
<1>6. Unpublished' = Unpublished /\ HashTableShift' = HashTableShift
  BY <1>1, <1>2 DEF Unpublished, HashTableShift
<1>7. PendingNext' = PendingNext
  BY <1>1, <1>2 DEF PendingNext
<1>8. Finalized' => ChainsInv'
  <2> SUFFICES ASSUME Finalized' PROVE ChainsInv'
    OBVIOUS
  <2>1. EntriesTyped /\ ChainsInv
    BY <1>1 DEF IInv, Finalized, TypeOK
  <2> QED
    BY <1>1, <1>6, <1>7, <2>1, ChainsKept
<1> QED
  BY <1>3, <1>5, <1>8 DEF IInv

LEMMA StepIInv ==
  ASSUME IInv, [Next]_vars
  PROVE  IInv'
<1>1. CASE \E t \in JoinThreads, key \in Keys, counted \in BOOLEAN : Insert(t, key, counted)
  BY <1>1, InsertIInv
<1>2. CASE \E cuts \in SUBSET (1 .. Total - 1) : Finalize(cuts)
  BY <1>2, FinalizeIInv
<1>3. CASE Build
  BY <1>3, CollapseIInv, ExchangeIInv, LinkIInv DEF Build
<1>4. CASE FinishBuild \/ UNCHANGED vars
  BY <1>4, FinishBuildIInv
<1> QED
  BY <1>1, <1>2, <1>3, <1>4 DEF Next

\* The ranges hold entries of their own, every entry that is no longer pending is on the chain
\* of its slot, once, and the links between the exchange and the link of a run are owed by the
\* range that swung the slot (processEntry).
THEOREM BuildInvariant == Spec => []IInv
<1>1. Init => IInv
  BY InitIInv
<1>2. IInv /\ [Next]_vars => IInv'
  BY StepIInv
<1> QED
  BY <1>1, <1>2, PTL DEF Spec

-----------------------------------------------------------------------------
(* The finished table, and the abstract index.                             *)

LEMMA PublishedGathered ==
  ASSUME IInv, Finalized, NEW slot \in Slots
  PROVE  Linked(slot, PendingNext) = Published(slot) /\ OnceEach(slot, PendingNext)
<1>1. EntriesTyped /\ ChainsInv /\ Total \in Nat
  BY TotalIsNat DEF IInv, TypeOK
<1>2. PICK n \in 0 .. Total :
        \E c \in [1 .. n -> Entries] : /\ IsChain(hashtable[slot], PendingNext, n, c)
                                      /\ {c[i] : i \in 1 .. n} = Published(slot)
  BY <1>1 DEF ChainsInv
<1>3. PICK c \in [1 .. n -> Entries] : /\ IsChain(hashtable[slot], PendingNext, n, c)
                                       /\ {c[i] : i \in 1 .. n} = Published(slot)
  BY <1>2
<1>4. n \in Nat /\ n <= Total
  BY <1>1, <1>2
<1>5. /\ \A p : p \in Linked(slot, PendingNext) <=> \E i \in 1 .. n : c[i] = p
      /\ OnceEach(slot, PendingNext)
  BY <1>1, <1>3, <1>4, ChainGathered
<1> QED
  BY <1>3, <1>5

LEMMA ReachablePublished ==
  IInv => Reachable = IF phase = "insert" THEN {}
                      ELSE {p \in Entries : PositionOf(p) \notin Unpublished}
<1> SUFFICES ASSUME IInv, Finalized
             PROVE  Reachable = {p \in Entries : PositionOf(p) \notin Unpublished}
  BY DEF Reachable, Finalized
<1>1. DOMAIN hashtable = Slots
  BY DEF IInv, TypeOK, Finalized
<1>2. Reachable = UNION {Published(slot) : slot \in Slots}
  <2>1. \A slot \in Slots : Linked(slot, PendingNext) = Published(slot)
    BY PublishedGathered
  <2> QED
    BY <1>1, <2>1 DEF Reachable, Finalized
<1>3. \A p \in Entries : SlotOf(p) \in Slots
  BY SlotInTable DEF IInv
<1> QED
  BY <1>2, <1>3 DEF Published

\* finalize leaves exact chains: every chain ends, it has the entries of its slot and no
\* others, each once, and size() is the number of the entries.
THEOREM ChainsAreExact == Spec => []ChainsExact
<1>1. IInv => ChainsExact
  <2> SUFFICES ASSUME IInv, phase = "probe" PROVE ChainsExact
    BY DEF ChainsExact
  <2>1. /\ Finalized /\ tasks = {} /\ sizeVal = Total /\ DOMAIN hashtable = Slots
        /\ next \in [Entries -> Entries \cup {NullPtr}]
    BY DEF IInv, TypeOK, Finalized
  <2>2. PendingNext = next
    BY <2>1 DEF PendingNext
  <2>3. Unpublished = {}
    BY <2>1 DEF Unpublished
  <2>4. \A slot : Published(slot) = {p \in Entries : ComputeSlot(HashOf(p)) = slot}
    BY <2>3 DEF Published, SlotOf
  <2> QED
    BY <2>1, <2>2, <2>4, PublishedGathered DEF ChainsExact, OnceEach
<1> QED
  BY <1>1, BuildInvariant, PTL

LEMMA InitIndex == Init => HI!Init
<1> SUFFICES ASSUME Init PROVE HI!Init
  OBVIOUS
<1>1. Entries = {}
  BY EntryDef DEF Init
<1> QED
  BY <1>1 DEF Init, HI!Init, Reachable

LEMMA InsertIndex ==
  ASSUME IInv, NEW t \in JoinThreads, NEW key \in Keys, NEW counted \in BOOLEAN, Insert(t, key, counted)
  PROVE  HI!Next
<1>1. EntriesTyped /\ phase = "insert" /\ phase' = "insert"
  BY DEF Insert, IInv, TypeOK
<1>2. entries' = [entries EXCEPT ![t] = Append(@, key)]
  BY DEF Insert
<1>3. PICK e : e = <<t, Len(entries[t]) + 1>>
  OBVIOUS
<1>4. entries[t] \in Seq(Keys) /\ Len(entries[t]) \in Nat /\ Len(entries'[t]) = Len(entries[t]) + 1
  BY <1>1, <1>2 DEF EntriesTyped
<1>5. e \notin Entries
  <2>1. ~ (e[2] \in 1 .. Len(entries[e[1]]))
    BY <1>3, <1>4
  <2> QED
    BY <2>1, EntryDef
<1>6. \A u \in JoinThreads : u # t => entries'[u] = entries[u]
  BY <1>1, <1>2 DEF EntriesTyped
<1>7. \A u \in JoinThreads : {u} \X (1 .. Len(entries'[u])) =
                         IF u = t THEN ({u} \X (1 .. Len(entries[u]))) \cup {e}
                         ELSE {u} \X (1 .. Len(entries[u]))
  <2> SUFFICES ASSUME NEW u \in JoinThreads, u = t
               PROVE  {u} \X (1 .. Len(entries'[u])) = ({u} \X (1 .. Len(entries[u]))) \cup {e}
    BY <1>6
  <2>1. 1 .. Len(entries'[t]) = (1 .. Len(entries[t])) \cup {Len(entries[t]) + 1}
    BY <1>4
  <2> QED
    BY <1>3, <2>1
<1>8. Entries' = Entries \cup {e}
  BY <1>7 DEF Entries
<1>9. Reachable = {} /\ Reachable' = {}
  <2>1. IInv'
    BY InsertIInv
  <2>2. (Reachable = IF phase = "insert" THEN {}
                     ELSE {p \in Entries : PositionOf(p) \notin Unpublished})'
    BY <2>1, ReachablePublished, PTL
  <2> QED
    BY <1>1, <2>2, ReachablePublished
<1> QED
  BY <1>1, <1>5, <1>8, <1>9 DEF HI!Next, HI!Insert

LEMMA FinalizeIndex ==
  ASSUME IInv, NEW cuts \in SUBSET (1 .. Total - 1), Finalize(cuts)
  PROVE  HI!Next
<1>1. phase = "insert" /\ phase' = "build" /\ UNCHANGED entries /\ EntriesTyped
  BY DEF Finalize, IInv, TypeOK
<1>2. /\ Entries' = Entries
      /\ \A p : PositionOf(p)' = PositionOf(p)
  BY <1>1, ViewUnchanged
<1>3. IInv' /\ \A i \in Positions : i \in Unpublished'
  BY FinalizeIInv
<1>4. Reachable' = {p \in Entries : PositionOf(p) \notin Unpublished}'
  <2>1. (Reachable = IF phase = "insert" THEN {}
                     ELSE {p \in Entries : PositionOf(p) \notin Unpublished})'
    BY <1>3, ReachablePublished, PTL
  <2> QED
    BY <1>1, <2>1
<1>5. Reachable = {} /\ Reachable' = {}
  <2>1. \A p \in Entries : PositionOf(p) \in Positions
    BY <1>1, EntryPosition
  <2>2. Reachable' = {}
    BY <1>2, <1>3, <1>4, <2>1
  <2> QED
    BY <1>1, <2>2, ReachablePublished
<1> QED
  BY <1>1, <1>2, <1>5 DEF HI!Next, HI!StartBuild

LEMMA BuildIndex ==
  ASSUME IInv, Build
  PROVE  HI!Next \/ UNCHANGED HI!vars
<1>1. PICK k \in tasks : Collapse(k) \/ Exchange(k) \/ Link(k)
  BY DEF Build
<1>2. UNCHANGED <<entries, phase>> /\ phase = "build" /\ EntriesTyped
  BY <1>1 DEF Collapse, Exchange, Link, IInv, TypeOK
<1>3. /\ Entries' = Entries
      /\ \A p : PositionOf(p)' = PositionOf(p)
  BY <1>2, ViewUnchanged
<1>4. Reachable = {p \in Entries : PositionOf(p) \notin Unpublished}
  BY <1>2, ReachablePublished
<1>5. Reachable' = {p \in Entries : PositionOf(p) \notin Unpublished'}
  <2>1. IInv'
    BY <1>1, CollapseIInv, ExchangeIInv, LinkIInv
  <2>2. (Reachable = IF phase = "insert" THEN {}
                     ELSE {p \in Entries : PositionOf(p) \notin Unpublished})'
    BY <2>1, ReachablePublished, PTL
  <2> QED
    BY <1>2, <1>3, <2>2
<1>6. CASE Collapse(k) \/ Link(k)
  <2>1. Unpublished' = Unpublished
    BY <1>6, CollapseIInv, LinkIInv
  <2> QED
    BY <1>2, <1>3, <1>4, <1>5, <2>1 DEF HI!vars
<1>7. CASE Exchange(k)
  <2>1. Unpublished' \subseteq Unpublished /\ Start(k) \in Unpublished \ Unpublished'
    BY <1>7, ExchangeIInv
  <2>2. k.first \in Entries
    BY <1>2, TaskPlace DEF IInv, TasksInv
  <2>3. k.first \in (Entries \ Reachable) \cap Reachable'
    BY <1>4, <1>5, <2>1, <2>2 DEF Start
  <2>4. Reachable' = Reachable \cup ((Entries \ Reachable) \cap Reachable')
    BY <1>4, <1>5, <2>1
  <2>5. HI!Publish((Entries \ Reachable) \cap Reachable')
    BY <1>2, <1>3, <2>3, <2>4 DEF HI!Publish
  <2> QED
    BY <2>5 DEF HI!Next
<1> QED
  BY <1>1, <1>6, <1>7

LEMMA FinishIndex ==
  ASSUME IInv, FinishBuild
  PROVE  HI!Next
<1>1. /\ phase = "build" /\ phase' = "probe" /\ tasks = {} /\ EntriesTyped
      /\ UNCHANGED <<entries, next, hashtable, tasks>>
  BY DEF FinishBuild, IInv, TypeOK
<1>2. Entries' = Entries /\ \A p : PositionOf(p)' = PositionOf(p)
  BY <1>1, ViewUnchanged
<1>3. Unpublished = {} /\ Unpublished' = {}
  BY <1>1 DEF Unpublished
<1>4. Reachable = Entries
  BY <1>1, <1>3, ReachablePublished
<1>5. Reachable' = Entries
  <2>1. IInv'
    BY FinishBuildIInv
  <2>2. (Reachable = IF phase = "insert" THEN {}
                     ELSE {p \in Entries : PositionOf(p) \notin Unpublished})'
    BY <2>1, ReachablePublished, PTL
  <2> QED
    BY <1>1, <1>2, <1>3, <2>2
<1> QED
  BY <1>1, <1>2, <1>4, <1>5 DEF HI!Next, HI!FinishBuild

LEMMA StutterIndex ==
  ASSUME IInv, UNCHANGED vars
  PROVE  UNCHANGED HI!vars
<1>1. /\ UNCHANGED <<phase, entries, tasks>>
      /\ Entries' = Entries /\ \A p : PositionOf(p)' = PositionOf(p)
      /\ \A k : Pending(k)' = Pending(k)
  BY ViewUnchanged DEF vars
<1>2. Unpublished' = Unpublished
  BY <1>1 DEF Unpublished
<1>3. (Reachable = IF phase = "insert" THEN {}
                   ELSE {p \in Entries : PositionOf(p) \notin Unpublished})'
  <2>1. IInv'
    BY FinishBuildIInv
  <2> QED
    BY <2>1, ReachablePublished, PTL
<1>4. Reachable' = Reachable
  BY <1>1, <1>2, <1>3, ReachablePublished
<1> QED
  BY <1>1, <1>4 DEF HI!vars

\* The hash table implements the abstract index: elements are only ever collected before
\* finalize, the ranges of the parallel build publish runs and lose nothing that was reachable,
\* whatever the order of their exchanges and links, and when parallel_for returns everything
\* that was inserted can be found.
THEOREM TableImplementsIndex == Spec => RefinesHashIndex
<1>1. Init => HI!Init
  BY InitIndex
<1>2. IInv /\ [Next]_vars => [HI!Next]_(HI!vars)
  <2> SUFFICES ASSUME IInv, [Next]_vars PROVE HI!Next \/ UNCHANGED HI!vars
    OBVIOUS
  <2>1. CASE \E t \in JoinThreads, key \in Keys, counted \in BOOLEAN : Insert(t, key, counted)
    BY <2>1, InsertIndex
  <2>2. CASE \E cuts \in SUBSET (1 .. Total - 1) : Finalize(cuts)
    BY <2>2, FinalizeIndex
  <2>3. CASE Build
    BY <2>3, BuildIndex
  <2>4. CASE FinishBuild
    BY <2>4, FinishIndex
  <2>5. CASE UNCHANGED vars
    BY <2>5, StutterIndex
  <2> QED
    BY <2>1, <2>2, <2>3, <2>4, <2>5 DEF Next
<1> QED
  BY <1>1, <1>2, BuildInvariant, PTL DEF Spec, RefinesHashIndex, HI!Spec

-----------------------------------------------------------------------------
(* The join.                                                               *)


\* The hash of a right key on the left is that key's alone.
HashesApart ==
  \A key \in Keys, r \in RightKeys : Hash[key] = Hash[r] => key = r \/ r \notin Keys

-----------------------------------------------------------------------------
(* The first entry of a chain that is searched for.                        *)

\* It is at the place j of the chain, or j is behind the chain.
FirstAt(found, n, c, wanted, j) ==
  /\ j \in 1 .. n + 1
  /\ \A i \in 1 .. n : i < j => c[i] \notin wanted
  /\ j <= n => found = c[j] /\ c[j] \in wanted
  /\ j = n + 1 => found = NullPtr

LEMMA FirstOnChain ==
  ASSUME NEW head, NEW successor, NEW n \in Nat, NEW c, IsChain(head, successor, n, c),
         n <= Total, Total \in Nat, NEW wanted \in SUBSET Entries
  PROVE  \E j : FirstAt(FirstOn(ChainFrom(head, successor), wanted), n, c, wanted, j)
<1> DEFINE chain == ChainFrom(head, successor)
           hits == {i \in DOMAIN chain : chain[i] \in wanted}
<1>1. chain = [i \in 0 .. Total |-> IF i < n THEN c[i + 1] ELSE NullPtr]
  <2>1. ChainFrom(head, successor) = Walk(n, c)
    BY ChainFromIs
  <2> QED
    BY <2>1 DEF Walk
<1>2. FirstOn(chain, wanted) = IF hits = {} THEN NullPtr
                               ELSE chain[CHOOSE i \in hits : \A j \in hits : i <= j]
  BY DEF FirstOn
<1> HIDE DEF chain
<1>3. hits \subseteq Nat
  BY <1>1
<1>4. \A i \in 0 .. Total : i \in hits <=> i < n /\ c[i + 1] \in wanted
  BY <1>1, NullIsNoEntry
<1>5. \A i \in 1 .. n : i - 1 \in 0 .. Total /\ (i - 1) + 1 = i
  OBVIOUS
<1>6. \A i \in 1 .. n : c[i] \in wanted <=> i - 1 \in hits
  BY <1>4, <1>5
<1>7. CASE hits = {}
  <2>1. FirstAt(FirstOn(chain, wanted), n, c, wanted, n + 1)
    BY <1>2, <1>6, <1>7 DEF FirstAt
  <2> QED
    BY <2>1 DEF chain
<1>8. CASE hits # {}
  <2> DEFINE m == CHOOSE i \in hits : \A j \in hits : i <= j
  <2>1. m \in hits /\ \A j \in hits : m <= j
    <3>1. \E i \in hits : \A j \in hits : i <= j
      BY <1>3, <1>8, SmallestExists
    <3> QED
      BY <3>1
  <2>2. FirstOn(chain, wanted) = chain[m]
    BY <1>2, <1>8
  <2> HIDE DEF m
  <2>3. m \in 0 .. Total /\ m < n /\ c[m + 1] \in wanted
    BY <1>1, <1>4, <2>1
  <2>4. chain[m] = c[m + 1]
    BY <1>1, <2>3
  <2>5. \A i \in 1 .. n : i < m + 1 => c[i] \notin wanted
    <3> SUFFICES ASSUME NEW i \in 1 .. n, i < m + 1, c[i] \in wanted PROVE FALSE
      OBVIOUS
    <3>1. i - 1 \in hits
      BY <1>6
    <3> QED
      BY <2>1, <2>3, <3>1
  <2>6. FirstAt(FirstOn(chain, wanted), n, c, wanted, m + 1)
    BY <2>2, <2>3, <2>4, <2>5 DEF FirstAt
  <2> QED
    BY <2>6 DEF chain
<1> QED
  BY <1>7, <1>8

\* What comes behind the place i of a chain is a chain.
LEMMA ChainBehind ==
  ASSUME NEW head, NEW successor, NEW n \in Nat, NEW c, IsChain(head, successor, n, c),
         NEW i \in 1 .. n, NEW m, m = n - i, NEW d, d = [j \in 1 .. m |-> c[i + j]]
  PROVE  IsChain(successor[c[i]], successor, m, d)
<1>1. m \in Nat /\ \A j \in 1 .. m : i + j \in 1 .. n
  OBVIOUS
<1>2. /\ c \in [1 .. n -> Entries] /\ \A a, b \in 1 .. n : c[a] = c[b] => a = b
      /\ \A a \in 1 .. n : successor[c[a]] = IF a = n THEN NullPtr ELSE c[a + 1]
  BY DEF IsChain
<1>3. d \in [1 .. m -> Entries] /\ \A j \in 1 .. m : d[j] = c[i + j]
  BY <1>1, <1>2
<1>4. \A a, b \in 1 .. m : d[a] = d[b] => a = b
  <2> SUFFICES ASSUME NEW a \in 1 .. m, NEW b \in 1 .. m, d[a] = d[b] PROVE a = b
    OBVIOUS
  <2>1. i + a = i + b
    BY <1>1, <1>2, <1>3
  <2> QED
    BY <2>1
<1>5. successor[c[i]] = IF m = 0 THEN NullPtr ELSE d[1]
  <2>1. CASE m = 0
    <3>1. i = n
      BY <2>1
    <3> QED
      BY <1>2, <2>1, <3>1
  <2>2. CASE m # 0
    <3>1. i # n /\ 1 \in 1 .. m
      BY <1>1, <2>2
    <3> QED
      BY <1>2, <1>3, <2>2, <3>1
  <2> QED
    BY <2>1, <2>2
<1>6. \A j \in 1 .. m : successor[d[j]] = IF j = m THEN NullPtr ELSE d[j + 1]
  <2> SUFFICES ASSUME NEW j \in 1 .. m
               PROVE  successor[d[j]] = IF j = m THEN NullPtr ELSE d[j + 1]
    OBVIOUS
  <2>1. i + j \in 1 .. n /\ (i + j = n <=> j = m)
    BY <1>1
  <2>2. CASE j = m
    BY <1>2, <1>3, <2>1, <2>2
  <2>3. CASE j # m
    <3>1. j + 1 \in 1 .. m /\ i + (j + 1) = (i + j) + 1
      BY <2>3
    <3> QED
      BY <1>2, <1>3, <2>1, <2>3, <3>1
  <2> QED
    BY <2>2, <2>3
<1> QED
  BY <1>3, <1>4, <1>5, <1>6 DEF IsChain

\* The chain of a slot in the finished table.
LEMMA FinishedChain ==
  ASSUME IInv, phase = "probe", NEW slot \in Slots
  PROVE  \E n \in 0 .. Total : \E c \in [1 .. n -> Entries] :
           /\ IsChain(hashtable[slot], next, n, c)
           /\ \A p \in Entries : SlotOf(p) = slot => \E i \in 1 .. n : c[i] = p
<1>1. /\ Finalized /\ tasks = {} /\ next \in [Entries -> Entries \cup {NullPtr}] /\ ChainsInv
  BY DEF IInv, TypeOK, Finalized
<1>2. PendingNext = next
  BY <1>1 DEF PendingNext
<1>3. Unpublished = {}
  BY <1>1 DEF Unpublished
<1>4. PICK n \in 0 .. Total :
        \E c \in [1 .. n -> Entries] : /\ IsChain(hashtable[slot], next, n, c)
                                      /\ {c[i] : i \in 1 .. n} = Published(slot)
  BY <1>1, <1>2 DEF ChainsInv
<1>5. PICK c \in [1 .. n -> Entries] : /\ IsChain(hashtable[slot], next, n, c)
                                       /\ {c[i] : i \in 1 .. n} = Published(slot)
  BY <1>4
<1>6. \A p \in Entries : SlotOf(p) = slot => \E i \in 1 .. n : c[i] = p
  BY <1>3, <1>5 DEF Published
<1> QED
  BY <1>4, <1>5, <1>6

LEMMA FirstFound ==
  ASSUME NEW chain, DOMAIN chain \subseteq Nat, NEW wanted
  PROVE  FirstOn(chain, wanted) \in wanted \cup {NullPtr}
<1> DEFINE hits == {i \in DOMAIN chain : chain[i] \in wanted}
<1>1. CASE hits = {}
  BY <1>1 DEF FirstOn
<1>2. CASE hits # {}
  <2>1. \E i \in hits : \A j \in hits : i <= j
    BY <1>2, SmallestExists
  <2> QED
    BY <1>2, <2>1 DEF FirstOn
<1> QED
  BY <1>1, <1>2

-----------------------------------------------------------------------------
(* The invariant of the probe.                                             *)

\* The probe of a right tuple is at the place i of the chain, at an entry with its key or at the
\* end, and was joined with the entries before it that have its key.
ProbeAt(r, n, c, i) ==
  /\ IsChain(hashtable[ComputeSlot(Hash[right[r]])], next, n, c)
  /\ \A p \in Partners(r) : \E j \in 1 .. n : c[j] = p
  /\ iter[r] = IF i <= n THEN c[i] ELSE NullPtr
  /\ i <= n => c[i] \in Partners(r)
  /\ Emitted(r) = {p \in Partners(r) : \E j \in 1 .. n : j < i /\ c[j] = p}

\* The probe of a key that no left tuple has may meet other keys with its hash.
ProbeInv(r) ==
  IF Partners(r) = {} THEN joined[r] = <<>> /\ iter[r] \in Entries \cup {NullPtr}
  ELSE /\ \E n \in 0 .. Total : \E c \in [1 .. n -> Entries] : \E i \in 1 .. n + 1 :
            ProbeAt(r, n, c, i)
       /\ Len(joined[r]) = Cardinality(Emitted(r))
       /\ semi => joined[r] = <<>>

Addresses == Nat \X Nat

JoinTyped ==
  /\ right \in [Right -> RightKeys]
  /\ semi \in BOOLEAN
  /\ state \in [Right -> {"todo", "probe", "done"}]
  /\ iter \in [Right -> Addresses]
  /\ joined \in [Right -> Seq(Addresses)]

JoinInv ==
  /\ IInv
  /\ JoinTyped
  /\ \A r \in Right :
       /\ state[r] # "todo" => phase = "probe"
       /\ state[r] = "todo" => joined[r] = <<>>
       /\ state[r] = "probe" => ProbeInv(r)
  /\ JoinExact

-----------------------------------------------------------------------------
(* The steps.                                                              *)

LEMMA InitJoinInv == JoinInit => JoinInv
<1> SUFFICES ASSUME JoinInit PROVE JoinInv
  OBVIOUS
<1>1. IInv
  BY InitIInv DEF JoinInit
<1>2. /\ right \in [Right -> RightKeys] /\ semi \in BOOLEAN
      /\ state = [r \in Right |-> "todo"] /\ iter = [r \in Right |-> NullPtr]
      /\ joined = [r \in Right |-> <<>>]
  BY DEF JoinInit
<1>3. JoinTyped
  BY <1>2 DEF JoinTyped, Addresses, NullPtr
<1> QED
  BY <1>1, <1>2, <1>3 DEF JoinInv, JoinExact

\* The entries with the key of a right tuple are those with its hash.
LEMMA PartnersHash ==
  ASSUME HashesApart, EntriesTyped, JoinTyped, NEW r \in Right, NEW p \in Partners(r)
  PROVE  /\ {q \in Entries : HashOf(q) = Hash[right[r]]} = Partners(r)
         /\ {q \in Entries : HashOf(q) = HashOf(p) /\ KeyOf(q) = KeyOf(p)} = Partners(r)
         /\ \A q \in Partners(r) : q \in Entries /\ SlotOf(q) = ComputeSlot(Hash[right[r]])
<1>1. right[r] \in RightKeys
  BY DEF JoinTyped
<1>2. \A q \in Entries : KeyOf(q) \in Keys
  <2> SUFFICES ASSUME NEW q \in Entries PROVE KeyOf(q) \in Keys
    OBVIOUS
  <2>1. q[1] \in JoinThreads /\ q[2] \in 1 .. Len(entries[q[1]])
    BY EntryDef
  <2> QED
    BY <2>1 DEF EntriesTyped, KeyOf
<1>3. p \in Entries /\ KeyOf(p) = right[r]
  BY DEF Partners
<1>4. \A q \in Entries : HashOf(q) = Hash[right[r]] <=> KeyOf(q) = right[r]
  BY <1>1, <1>2, <1>3 DEF HashesApart, HashOf
<1>5. \A q \in Entries : KeyOf(q) = KeyOf(p) => HashOf(q) = HashOf(p)
  BY DEF HashOf
<1> QED
  BY <1>3, <1>4, <1>5 DEF Partners, SlotOf

\* The entries of a right tuple are finitely many.
LEMMA PartnersFinite ==
  ASSUME EntriesTyped, NEW r
  PROVE  IsFiniteSet(Partners(r)) /\ Cardinality(Partners(r)) \in Nat
<1>1. IsFiniteSet(Entries) /\ Partners(r) \in SUBSET Entries
  BY EntriesCounted DEF Partners
<1> QED
  BY <1>1, FS_Subset, FS_CardinalityType

LEMMA BuildJoinInv ==
  ASSUME JoinInv, BuildSide \/ UNCHANGED joinVars
  PROVE  JoinInv'
<1>1. IInv /\ [Next]_vars /\ UNCHANGED probeVars
  BY DEF JoinInv, BuildSide, joinVars
<1>2. IInv'
  BY <1>1, StepIInv
<1>3. UNCHANGED <<right, semi, state, iter, joined>>
  BY <1>1 DEF probeVars
<1>4. CASE phase = "probe"
  <2>1. tasks = {}
    BY <1>1, <1>4 DEF IInv, TypeOK
  <2>2. UNCHANGED vars
    BY <1>1, <1>4, <2>1 DEF Next, Insert, Finalize, Build, FinishBuild
  <2>3. UNCHANGED <<entries, phase, sizeVal, next, hashtable>>
    BY <2>2 DEF vars
  <2>4. Entries' = Entries /\ Total' = Total
    BY <2>3, ViewUnchanged
  <2>5. \A r : Partners(r)' = Partners(r) /\ Emitted(r)' = Emitted(r)
    BY <1>3, <2>3, <2>4 DEF Partners, Emitted, KeyOf
  <2>6. JoinTyped' /\ JoinExact'
    BY <1>3, <2>4, <2>5 DEF JoinInv, JoinTyped, JoinExact
  <2>7. \A r, n, c, i : ProbeAt(r, n, c, i)' <=> ProbeAt(r, n, c, i)
    BY <1>3, <2>3, <2>4, <2>5 DEF ProbeAt, IsChain, ComputeSlot, HashTableShift
  <2>8. \A r : ProbeInv(r)' <=> ProbeInv(r)
    BY <1>3, <2>4, <2>5, <2>7 DEF ProbeInv
  <2> QED
    BY <1>2, <1>3, <2>3, <2>6, <2>8 DEF JoinInv
<1>5. CASE phase # "probe"
  <2>1. \A r \in Right : state'[r] = "todo" /\ joined'[r] = <<>>
    BY <1>3, <1>5 DEF JoinInv
  <2>2. JoinTyped'
    BY <1>3 DEF JoinInv, JoinTyped
  <2> QED
    BY <1>2, <2>1, <2>2 DEF JoinInv, JoinExact
<1> QED
  BY <1>4, <1>5

\* What JoinExact says of a right tuple.
JoinedExactly(r) ==
  /\ semi => Len(joined[r]) = IF Partners(r) = {} THEN 0 ELSE 1
  /\ ~semi => Len(joined[r]) = Cardinality(Partners(r)) /\ Emitted(r) = Partners(r)

\* The probe of one right tuple leaves the table and the other probes alone.
LEMMA OneProbe ==
  ASSUME JoinInv, NEW r \in Right, phase = "probe", UNCHANGED <<vars, right, semi>>, JoinTyped',
         state'[r] # "todo",
         \A q \in Right : q # r => /\ state'[q] = state[q]
                                   /\ iter'[q] = iter[q]
                                   /\ joined'[q] = joined[q],
         state'[r] = "probe" => ProbeInv(r)',
         state'[r] = "done" => JoinedExactly(r)'
  PROVE  JoinInv'
<1>1. IInv'
  <2>1. UNCHANGED vars
    OBVIOUS
  <2> QED
    BY <2>1, FinishBuildIInv DEF JoinInv
<1>2. UNCHANGED <<entries, phase, sizeVal, next, hashtable, right, semi>>
  BY DEF vars
<1>3. Entries' = Entries /\ Total' = Total
  BY <1>2, ViewUnchanged
<1>4. \A q : Partners(q)' = Partners(q)
  BY <1>2, <1>3 DEF Partners, KeyOf
<1>5. ASSUME NEW q \in Right, q # r
      PROVE  /\ state'[q] = state[q] /\ joined'[q] = joined[q] /\ Emitted(q)' = Emitted(q)
             /\ ProbeInv(q)' <=> ProbeInv(q)
  <2>1. state'[q] = state[q] /\ iter'[q] = iter[q] /\ joined'[q] = joined[q]
    BY <1>5
  <2>2. Emitted(q)' = Emitted(q)
    BY <2>1 DEF Emitted
  <2>3. \A n, c, i : ProbeAt(q, n, c, i)' <=> ProbeAt(q, n, c, i)
    BY <1>2, <1>3, <1>4, <2>1, <2>2 DEF ProbeAt, IsChain, ComputeSlot, HashTableShift
  <2>4. ProbeInv(q)' <=> ProbeInv(q)
    BY <1>2, <1>3, <1>4, <2>1, <2>2, <2>3 DEF ProbeInv
  <2> QED
    BY <2>1, <2>2, <2>4
<1>6. JoinExact'
  <2> SUFFICES ASSUME NEW q \in Right, state'[q] = "done"
               PROVE  JoinedExactly(q)'
    BY DEF JoinExact, JoinedExactly
  <2>1. CASE q = r
    BY <2>1
  <2>2. CASE q # r
    BY <1>2, <1>4, <1>5, <2>2 DEF JoinInv, JoinExact, JoinedExactly
  <2> QED
    BY <2>1, <2>2
<1>7. ASSUME NEW q \in Right
      PROVE  /\ state'[q] # "todo" => phase' = "probe"
             /\ state'[q] = "todo" => joined'[q] = <<>>
             /\ state'[q] = "probe" => ProbeInv(q)'
  BY <1>2, <1>5 DEF JoinInv
<1> QED
  BY <1>1, <1>6, <1>7 DEF JoinInv

LEMMA AddressesTyped ==
  ASSUME EntriesTyped
  PROVE  Entries \subseteq Addresses /\ NullPtr \in Addresses
<1>1. ASSUME NEW p \in Entries PROVE p \in Addresses
  <2>1. p = <<p[1], p[2]>> /\ p[1] \in JoinThreads /\ p[2] \in 1 .. Len(entries[p[1]])
    BY EntryDef
  <2> QED
    BY <2>1, ThreadsAssumption DEF Addresses, JoinThreads
<1> QED
  BY <1>1 DEF Addresses, NullPtr

LEMMA LookupTyped ==
  /\ \A hash : Lookup(hash) \in Entries \cup {NullPtr}
  /\ \A p : LookupNext(p) \in Entries \cup {NullPtr}
<1>1. \A p, successor : DOMAIN ChainFrom(p, successor) = 0 .. Total
  BY DEF ChainFrom
<1>2. 0 .. Total \subseteq Nat
  OBVIOUS
<1>3. \A hash : Lookup(hash) \in {p \in Entries : HashOf(p) = hash} \cup {NullPtr}
  BY <1>1, <1>2, FirstFound DEF Lookup
<1>4. \A p : LookupNext(p) \in {q \in Entries : HashOf(q) = HashOf(p) /\ KeyOf(q) = KeyOf(p)}
                               \cup {NullPtr}
  BY <1>1, <1>2, FirstFound DEF LookupNext
<1> QED
  BY <1>3, <1>4

LEMMA StartJoinInv ==
  ASSUME HashesApart, JoinInv, NEW r \in Right, StartProbe(r)
  PROVE  JoinInv'
<1>1. /\ phase = "probe" /\ state[r] = "todo" /\ joined[r] = <<>> /\ JoinTyped /\ IInv
      /\ EntriesTyped /\ UNCHANGED <<vars, right, semi, joined>>
      /\ state' = [state EXCEPT ![r] = "probe"]
      /\ iter' = [iter EXCEPT ![r] = Lookup(Hash[right[r]])]
  BY DEF StartProbe, JoinInv, IInv, TypeOK
<1>2. UNCHANGED <<entries, phase, sizeVal, next, hashtable, right, semi, joined>>
  BY <1>1 DEF vars
<1>3. Entries' = Entries /\ Total' = Total
  BY <1>2, ViewUnchanged
<1>4. Partners(r)' = Partners(r) /\ Emitted(r)' = Emitted(r) /\ Emitted(r) = {}
  BY <1>1, <1>2, <1>3 DEF Partners, KeyOf, Emitted
<1>5. Lookup(Hash[right[r]]) \in Entries \cup {NullPtr}
  BY LookupTyped
<1>6. JoinTyped'
  BY <1>1, <1>2, <1>5, AddressesTyped DEF JoinTyped
<1>7. /\ state'[r] = "probe" /\ iter'[r] = Lookup(Hash[right[r]]) /\ joined'[r] = <<>>
      /\ \A q \in Right : q # r => state'[q] = state[q] /\ iter'[q] = iter[q] /\ joined'[q] = joined[q]
  BY <1>1 DEF JoinTyped
<1>8. ProbeInv(r)'
  <2>1. CASE Partners(r) = {}
    BY <1>3, <1>4, <1>5, <1>7, <2>1 DEF ProbeInv
  <2>2. CASE Partners(r) # {}
    <3>1. PICK p : p \in Partners(r)
      BY <2>2
    <3>2. PICK slot : slot = ComputeSlot(Hash[right[r]])
      OBVIOUS
    <3>3. /\ {q \in Entries : HashOf(q) = Hash[right[r]]} = Partners(r)
          /\ \A q \in Partners(r) : q \in Entries /\ SlotOf(q) = slot
      BY <1>1, <3>1, <3>2, PartnersHash
    <3>4. slot \in Slots
      BY <1>1, <3>1, <3>3, SlotInTable DEF IInv, Finalized
    <3>5. PICK n \in 0 .. Total : \E c \in [1 .. n -> Entries] :
             /\ IsChain(hashtable[slot], next, n, c)
             /\ \A q \in Entries : SlotOf(q) = slot => \E i \in 1 .. n : c[i] = q
      BY <1>1, <3>4, FinishedChain
    <3>6. PICK c \in [1 .. n -> Entries] :
             /\ IsChain(hashtable[slot], next, n, c)
             /\ \A q \in Entries : SlotOf(q) = slot => \E i \in 1 .. n : c[i] = q
      BY <3>5
    <3>7. Total \in Nat /\ n \in Nat /\ n <= Total
      BY <1>1, <3>5, TotalIsNat
    <3>8. Partners(r) \in SUBSET Entries
      BY DEF Partners
    <3>9. PICK j : FirstAt(FirstOn(ChainFrom(hashtable[slot], next), Partners(r)), n, c, Partners(r), j)
      BY <3>6, <3>7, <3>8, FirstOnChain
    <3>10. Lookup(Hash[right[r]]) = FirstOn(ChainFrom(hashtable[slot], next), Partners(r))
      BY <3>2, <3>3 DEF Lookup
    <3>11. FirstAt(iter'[r], n, c, Partners(r), j)
      BY <1>7, <3>9, <3>10
    <3>12. /\ j \in 1 .. n + 1
           /\ j <= n => c[j] \in Partners(r)
           /\ iter'[r] = IF j <= n THEN c[j] ELSE NullPtr
           /\ \A i \in 1 .. n : i < j => c[i] \notin Partners(r)
      BY <3>7, <3>11 DEF FirstAt
    <3>13. IsChain(hashtable[ComputeSlot(Hash[right[r]])], next, n, c)'
      BY <1>2, <1>3, <3>2, <3>6 DEF IsChain, ComputeSlot, HashTableShift
    <3>14. ProbeAt(r, n, c, j)'
      <4>1. \A q \in Partners(r)' : \E i \in 1 .. n : c[i] = q
        BY <1>4, <3>3, <3>6
      <4>2. Emitted(r)' = {q \in Partners(r)' : \E i \in 1 .. n : i < j /\ c[i] = q}
        BY <1>4, <3>12
      <4>3. iter'[r] = (IF j <= n THEN c[j] ELSE NullPtr) /\ (j <= n => c[j] \in Partners(r)')
        BY <1>4, <3>12
      <4> QED
        BY <3>13, <4>1, <4>2, <4>3 DEF ProbeAt
    <3>15. Len(joined'[r]) = Cardinality(Emitted(r)')
      BY <1>4, <1>7, FS_EmptySet
    <3>16. \E a \in 0 .. Total' : \E b \in [1 .. a -> Entries'] : \E i \in 1 .. a + 1 :
             ProbeAt(r, a, b, i)'
      BY <1>3, <3>5, <3>6, <3>12, <3>14
    <3> QED
      BY <1>4, <1>7, <2>2, <3>15, <3>16 DEF ProbeInv
  <2> QED
    BY <2>1, <2>2
<1> QED
  BY <1>1, <1>6, <1>7, <1>8, OneProbe

LEMMA MatchJoinInv ==
  ASSUME HashesApart, JoinInv, NEW r \in Right, phase = "probe", Match(r)
  PROVE  JoinInv'
<1>1. /\ state[r] = "probe" /\ iter[r] # NullPtr /\ KeyOf(iter[r]) = right[r]
      /\ JoinTyped /\ IInv /\ EntriesTyped /\ UNCHANGED <<vars, right, semi>>
      /\ joined' = [joined EXCEPT ![r] = Append(@, iter[r])]
      /\ state' = IF semi THEN [state EXCEPT ![r] = "done"] ELSE state
      /\ iter' = IF semi THEN iter ELSE [iter EXCEPT ![r] = LookupNext(iter[r])]
  BY DEF Match, JoinInv, IInv, TypeOK
<1>2. UNCHANGED <<entries, phase, sizeVal, next, hashtable, right, semi>>
  BY <1>1 DEF vars
<1>3. Entries' = Entries /\ Total' = Total
  BY <1>2, ViewUnchanged
<1>4. Partners(r)' = Partners(r)
  BY <1>2, <1>3 DEF Partners, KeyOf
<1>5. ProbeInv(r)
  BY <1>1 DEF JoinInv
<1>6. Partners(r) # {}
  <2> SUFFICES ASSUME Partners(r) = {} PROVE FALSE
    OBVIOUS
  <2>1. iter[r] \in Entries
    BY <1>1, <1>5 DEF ProbeInv
  <2> QED
    BY <1>1, <2>1 DEF Partners
<1>7. PICK n \in 0 .. Total : \E c \in [1 .. n -> Entries] : \E i \in 1 .. n + 1 : ProbeAt(r, n, c, i)
  BY <1>5, <1>6 DEF ProbeInv
<1>8. PICK c \in [1 .. n -> Entries] : \E i \in 1 .. n + 1 : ProbeAt(r, n, c, i)
  BY <1>7
<1>9. PICK i \in 1 .. n + 1 : ProbeAt(r, n, c, i)
  BY <1>8
<1>10. PICK head : head = hashtable[ComputeSlot(Hash[right[r]])]
  OBVIOUS
<1>11. /\ IsChain(head, next, n, c)
       /\ \A p \in Partners(r) : \E j \in 1 .. n : c[j] = p
       /\ iter[r] = IF i <= n THEN c[i] ELSE NullPtr
       /\ i <= n => c[i] \in Partners(r)
       /\ Emitted(r) = {p \in Partners(r) : \E j \in 1 .. n : j < i /\ c[j] = p}
  BY <1>9, <1>10 DEF ProbeAt
<1>12. Total \in Nat /\ n \in Nat /\ n <= Total
  BY <1>1, <1>7, TotalIsNat
<1>13. i \in 1 .. n /\ iter[r] = c[i] /\ c[i] \in Partners(r)
  BY <1>1, <1>9, <1>11, <1>12
<1>14. \A j, k \in 1 .. n : c[j] = c[k] => j = k
  BY <1>11 DEF IsChain
<1>15. c[i] \notin Emitted(r)
  BY <1>11, <1>13, <1>14
<1>16. /\ joined'[r] = Append(joined[r], c[i]) /\ joined[r] \in Seq(Addresses)
       /\ c[i] \in Addresses
  BY <1>1, <1>13, AddressesTyped DEF JoinTyped, Partners
<1>17. Emitted(r)' = Emitted(r) \cup {c[i]}
  <2> DEFINE s == joined[r]
             t == joined'[r]
  <2>1. s \in Seq(Addresses) /\ t = Append(s, c[i])
    BY <1>16
  <2> HIDE DEF s, t
  <2>2. /\ DOMAIN s = 1 .. Len(s) /\ DOMAIN t = 1 .. Len(s) + 1 /\ Len(s) \in Nat
        /\ \A j \in 1 .. Len(s) : t[j] = s[j]
        /\ t[Len(s) + 1] = c[i]
    BY <1>16, <2>1
  <2>3. {t[j] : j \in DOMAIN t} = {s[j] : j \in DOMAIN s} \cup {c[i]}
    <3>1. ASSUME NEW j \in DOMAIN t PROVE t[j] \in {s[k] : k \in DOMAIN s} \cup {c[i]}
      BY <2>2
    <3>2. ASSUME NEW j \in DOMAIN s PROVE s[j] \in {t[k] : k \in DOMAIN t}
      BY <2>2
    <3>3. c[i] \in {t[k] : k \in DOMAIN t}
      BY <2>2
    <3> QED
      BY <3>1, <3>2, <3>3
  <2> QED
    BY <2>3 DEF Emitted, s, t
<1>18. /\ IsFiniteSet(Emitted(r)) /\ Len(joined[r]) = Cardinality(Emitted(r))
       /\ Cardinality(Emitted(r)) \in Nat
  <2>1. IsFiniteSet(Partners(r)) /\ Emitted(r) \in SUBSET Partners(r)
    BY <1>1, <1>11, PartnersFinite
  <2>2. IsFiniteSet(Emitted(r)) /\ Cardinality(Emitted(r)) \in Nat
    BY <2>1, FS_Subset, FS_CardinalityType
  <2> QED
    BY <1>5, <1>6, <2>2 DEF ProbeInv
<1>19. Len(joined'[r]) = Cardinality(Emitted(r)')
  <2>1. Cardinality(Emitted(r) \cup {c[i]}) = Cardinality(Emitted(r)) + 1
    BY <1>15, <1>18, FS_AddElement
  <2>2. Len(joined'[r]) = Len(joined[r]) + 1
    BY <1>16
  <2> QED
    BY <1>17, <1>18, <2>1, <2>2
<1>20. LookupNext(iter[r]) \in Addresses
  BY <1>1, LookupTyped, AddressesTyped
<1>21. JoinTyped'
  BY <1>1, <1>2, <1>13, <1>16, <1>20 DEF JoinTyped
<1>22. \A q \in Right : q # r => state'[q] = state[q] /\ iter'[q] = iter[q] /\ joined'[q] = joined[q]
  BY <1>1 DEF JoinTyped
<1>23. CASE semi
  <2>1. state'[r] = "done" /\ joined[r] = <<>>
    BY <1>1, <1>5, <1>6, <1>23 DEF JoinTyped, ProbeInv
  <2>2. Len(joined'[r]) = 1
    BY <1>16, <2>1
  <2>3. JoinedExactly(r)'
    BY <1>2, <1>4, <1>6, <1>23, <2>2 DEF JoinedExactly
  <2> QED
    BY <1>1, <1>21, <1>22, <2>1, <2>3, OneProbe
<1>24. CASE ~semi
  <2>1. state'[r] = "probe" /\ iter'[r] = LookupNext(c[i])
    BY <1>1, <1>13, <1>24 DEF JoinTyped
  <2>2. PICK m : m = n - i
    OBVIOUS
  <2>3. PICK d : d = [j \in 1 .. m |-> c[i + j]]
    OBVIOUS
  <2>4. m \in Nat /\ m <= Total /\ i + m = n /\ i \in Nat /\ i >= 1
    BY <1>12, <1>13, <2>2
  <2>5. IsChain(next[c[i]], next, m, d)
    BY <1>11, <1>12, <1>13, <2>2, <2>3, ChainBehind
  <2>6. Partners(r) \in SUBSET Entries
    BY DEF Partners
  <2>7. PICK j : FirstAt(FirstOn(ChainFrom(next[c[i]], next), Partners(r)), m, d, Partners(r), j)
    BY <1>12, <2>4, <2>5, <2>6, FirstOnChain
  <2>8. LookupNext(c[i]) = FirstOn(ChainFrom(next[c[i]], next), Partners(r))
    BY <1>1, <1>13, PartnersHash DEF LookupNext
  <2>9. FirstAt(iter'[r], m, d, Partners(r), j)
    BY <2>1, <2>7, <2>8
  <2>10. /\ j \in 1 .. m + 1
         /\ \A k \in 1 .. m : k < j => d[k] \notin Partners(r)
         /\ j <= m => iter'[r] = d[j] /\ d[j] \in Partners(r)
         /\ j = m + 1 => iter'[r] = NullPtr
    BY <2>9 DEF FirstAt
  <2>11. PICK l : l = i + j
    OBVIOUS
  <2>12. /\ l \in 1 .. n + 1 /\ j \in Nat /\ j >= 1
         /\ (l <= n) <=> (j <= m)
         /\ (l = n + 1) <=> (j = m + 1)
    BY <2>4, <2>10, <2>11
  <2>13. \A k \in 1 .. m : d[k] = c[i + k]
    BY <2>3
  <2>14. /\ iter'[r] = IF l <= n THEN c[l] ELSE NullPtr
         /\ l <= n => c[l] \in Partners(r)
    <3>1. CASE l <= n
      <4>1. j \in 1 .. m
        BY <2>4, <2>12, <3>1
      <4> QED
        BY <2>10, <2>11, <2>13, <3>1, <4>1
    <3>2. CASE ~ (l <= n)
      <4>1. l = n + 1
        BY <1>12, <2>12, <3>2
      <4> QED
        BY <2>10, <2>12, <3>2, <4>1
    <3> QED
      BY <3>1, <3>2
  <2>15. \A k \in 1 .. n : i < k /\ k < l => c[k] \notin Partners(r)
    <3> SUFFICES ASSUME NEW k \in 1 .. n, i < k, k < l PROVE c[k] \notin Partners(r)
      OBVIOUS
    <3>1. k - i \in 1 .. m /\ k - i < j /\ i + (k - i) = k
      BY <2>2, <2>4, <2>11, <2>12
    <3> QED
      BY <2>10, <2>13, <3>1
  <2>16. \A p \in Partners(r) : (\E k \in 1 .. n : k < l /\ c[k] = p) <=>
                                (\E k \in 1 .. n : k < i /\ c[k] = p) \/ p = c[i]
    <3> SUFFICES ASSUME NEW p \in Partners(r)
                 PROVE  (\E k \in 1 .. n : k < l /\ c[k] = p) <=>
                        (\E k \in 1 .. n : k < i /\ c[k] = p) \/ p = c[i]
      OBVIOUS
    <3>1. ASSUME NEW k \in 1 .. n, k < l, c[k] = p
          PROVE  (\E a \in 1 .. n : a < i /\ c[a] = p) \/ p = c[i]
      <4>1. k < i \/ k = i \/ i < k
        BY <2>4
      <4> QED
        BY <2>15, <3>1, <4>1
    <3>2. ASSUME NEW k \in 1 .. n, k < i, c[k] = p PROVE \E a \in 1 .. n : a < l /\ c[a] = p
      <4>1. k < l
        BY <2>4, <2>11, <2>12, <3>2
      <4> QED
        BY <3>2, <4>1
    <3>3. i < l
      BY <2>4, <2>11, <2>12
    <3> QED
      BY <1>13, <3>1, <3>2, <3>3
  <2>17. Emitted(r)' = {p \in Partners(r)' : \E k \in 1 .. n : k < l /\ c[k] = p}
    BY <1>4, <1>11, <1>13, <1>17, <2>16
  <2>18. IsChain(hashtable[ComputeSlot(Hash[right[r]])], next, n, c)'
    BY <1>2, <1>3, <1>10, <1>11 DEF IsChain, ComputeSlot, HashTableShift
  <2>19. ProbeAt(r, n, c, l)'
    BY <1>4, <1>11, <2>14, <2>17, <2>18 DEF ProbeAt
  <2>20. \E a \in 0 .. Total' : \E b \in [1 .. a -> Entries'] : \E k \in 1 .. a + 1 :
           ProbeAt(r, a, b, k)'
    BY <1>3, <1>7, <1>8, <2>12, <2>19
  <2>21. ProbeInv(r)'
    BY <1>2, <1>4, <1>6, <1>19, <1>24, <2>20 DEF ProbeInv
  <2> QED
    BY <1>1, <1>21, <1>22, <2>1, <2>21, OneProbe
<1> QED
  BY <1>23, <1>24

LEMMA MismatchJoinInv ==
  ASSUME JoinInv, NEW r \in Right, phase = "probe", Mismatch(r)
  PROVE  JoinInv'
<1>1. /\ state[r] = "probe" /\ iter[r] # NullPtr /\ KeyOf(iter[r]) # right[r]
      /\ JoinTyped /\ EntriesTyped /\ UNCHANGED <<vars, right, semi, state, joined>>
      /\ iter' = [iter EXCEPT ![r] = LookupNext(iter[r])]
  BY DEF Mismatch, JoinInv, IInv, TypeOK
<1>2. UNCHANGED <<entries, phase, right, semi, state, joined>>
  BY <1>1 DEF vars
<1>3. Entries' = Entries /\ Partners(r)' = Partners(r)
  BY <1>2, ViewUnchanged DEF Partners, KeyOf
<1>4. ProbeInv(r)
  BY <1>1 DEF JoinInv
<1>5. Partners(r) = {}
  <2> SUFFICES ASSUME Partners(r) # {} PROVE FALSE
    OBVIOUS
  <2>1. PICK n, c, i : ProbeAt(r, n, c, i)
    BY <1>4 DEF ProbeInv
  <2>2. iter[r] \in Partners(r)
    BY <1>1, <2>1 DEF ProbeAt
  <2> QED
    BY <1>1, <2>2 DEF Partners
<1>6. LookupNext(iter[r]) \in Entries \cup {NullPtr}
  BY LookupTyped
<1>7. JoinTyped'
  BY <1>1, <1>2, <1>6, AddressesTyped DEF JoinTyped
<1>8. /\ iter'[r] = LookupNext(iter[r])
      /\ \A q \in Right : q # r => state'[q] = state[q] /\ iter'[q] = iter[q] /\ joined'[q] = joined[q]
  BY <1>1 DEF JoinTyped
<1>9. ProbeInv(r)'
  BY <1>2, <1>3, <1>4, <1>5, <1>6, <1>8 DEF ProbeInv
<1> QED
  BY <1>1, <1>7, <1>8, <1>9, OneProbe

LEMMA EndJoinInv ==
  ASSUME JoinInv, NEW r \in Right, phase = "probe", EndProbe(r)
  PROVE  JoinInv'
<1>1. /\ state[r] = "probe" /\ iter[r] = NullPtr
      /\ JoinTyped /\ EntriesTyped /\ UNCHANGED <<vars, right, semi, iter, joined>>
      /\ state' = [state EXCEPT ![r] = "done"]
  BY DEF EndProbe, JoinInv, IInv, TypeOK
<1>2. UNCHANGED <<entries, phase, right, semi, iter, joined>>
  BY <1>1 DEF vars
<1>3. /\ Entries' = Entries /\ Partners(r)' = Partners(r) /\ Emitted(r)' = Emitted(r)
  BY <1>2, ViewUnchanged DEF Partners, KeyOf, Emitted
<1>4. ProbeInv(r)
  BY <1>1 DEF JoinInv
<1>5. JoinedExactly(r)
  <2>1. CASE Partners(r) = {}
    <3>1. joined[r] = <<>>
      BY <1>4, <2>1 DEF ProbeInv
    <3> QED
      BY <2>1, <3>1, FS_EmptySet DEF JoinedExactly, Emitted
  <2>2. CASE Partners(r) # {}
    <3>1. PICK n \in 0 .. Total : \E c \in [1 .. n -> Entries] : \E i \in 1 .. n + 1 : ProbeAt(r, n, c, i)
      BY <1>4, <2>2 DEF ProbeInv
    <3>2. PICK c \in [1 .. n -> Entries] : \E i \in 1 .. n + 1 : ProbeAt(r, n, c, i)
      BY <3>1
    <3>3. PICK i \in 1 .. n + 1 : ProbeAt(r, n, c, i)
      BY <3>2
    <3>4. ~ (i <= n)
      <4>1. i <= n => iter[r] \in Entries
        BY <3>3 DEF ProbeAt, Partners
      <4> QED
        BY <1>1, <4>1, NullIsNoEntry
    <3>5. \A j \in 1 .. n : j < i
      BY <3>1, <3>3, <3>4
    <3>6. Emitted(r) = Partners(r)
      BY <3>3, <3>5 DEF ProbeAt
    <3>7. ~semi
      BY <1>4, <2>2, <3>6 DEF ProbeInv, Emitted
    <3> QED
      BY <1>4, <2>2, <3>6, <3>7 DEF ProbeInv, JoinedExactly
  <2> QED
    BY <2>1, <2>2
<1>6. JoinTyped'
  BY <1>1, <1>2 DEF JoinTyped
<1>7. /\ state'[r] = "done"
      /\ \A q \in Right : q # r => state'[q] = state[q] /\ iter'[q] = iter[q] /\ joined'[q] = joined[q]
  BY <1>1 DEF JoinTyped
<1>8. JoinedExactly(r)'
  BY <1>2, <1>3, <1>5 DEF JoinedExactly
<1> QED
  BY <1>1, <1>6, <1>7, <1>8, OneProbe

\* Every right tuple is joined with all left tuples that have its key, each once, and with no
\* others, and a right semi join emits it once if there is one (visitProduce and visitConsume of
\* InnerJoin), when the hashes of the keys on both sides are their own.
THEOREM JoinIsExact ==
  ASSUME HashesApart
  PROVE  JoinSpec => []JoinExact
<1>1. JoinInit => JoinInv
  BY InitJoinInv
<1>2. JoinInv /\ [JoinNext]_joinVars => JoinInv'
  <2> SUFFICES ASSUME JoinInv, [JoinNext]_joinVars PROVE JoinInv'
    OBVIOUS
  <2>1. CASE BuildSide \/ UNCHANGED joinVars
    BY <2>1, BuildJoinInv
  <2>2. ASSUME NEW r \in Right, Probe(r) PROVE JoinInv'
    <3>1. state[r] = "probe" => phase = "probe"
      BY DEF JoinInv
    <3>2. CASE StartProbe(r)
      BY <3>2, StartJoinInv
    <3>3. CASE Match(r)
      BY <3>1, <3>3, MatchJoinInv DEF Match
    <3>4. CASE Mismatch(r)
      BY <3>1, <3>4, MismatchJoinInv DEF Mismatch
    <3>5. CASE EndProbe(r)
      BY <3>1, <3>5, EndJoinInv DEF EndProbe
    <3> QED
      BY <2>2, <3>2, <3>3, <3>4, <3>5 DEF Probe
  <2> QED
    BY <2>1, <2>2 DEF JoinNext
<1>3. JoinInv => JoinExact
  BY DEF JoinInv
<1> QED
  BY <1>1, <1>2, <1>3, PTL DEF JoinSpec
=============================================================================
