------------------------- MODULE JoinOrderingProofs -------------------------
(***************************************************************************)
(* The dynamic programs answer with the best plan they can tell from the   *)
(* others, for every query: any number of relations, classes and rows.     *)
(***************************************************************************)
EXTENDS JoinOrdering, DataInduction, FiniteSetTheorems

-----------------------------------------------------------------------------
(* Sequences.                                                              *)

\* The elements of a concatenation.
LEMMA ConcatElements ==
  ASSUME NEW S, NEW a \in Seq(S), NEW b \in Seq(S)
  PROVE  ToSet(a \o b) = ToSet(a) \cup ToSet(b)
<1>1. /\ Len(a) \in Nat /\ Len(b) \in Nat /\ Len(a \o b) = Len(a) + Len(b)
      /\ DOMAIN a = 1 .. Len(a) /\ DOMAIN b = 1 .. Len(b)
      /\ DOMAIN (a \o b) = 1 .. Len(a) + Len(b)
  OBVIOUS
<1>2. \A j \in 1 .. Len(a) : (a \o b)[j] = a[j]
  BY <1>1
<1>3. \A j \in 1 .. Len(b) : (a \o b)[Len(a) + j] = b[j]
  BY <1>1
<1>4. \A j \in 1 .. Len(a) + Len(b) :
        j \in 1 .. Len(a) \/ \E l \in 1 .. Len(b) : j = Len(a) + l
  <2>1. ASSUME NEW j \in 1 .. Len(a) + Len(b), ~(j \in 1 .. Len(a))
        PROVE  \E l \in 1 .. Len(b) : j = Len(a) + l
    <3>1. j - Len(a) \in 1 .. Len(b) /\ j = Len(a) + (j - Len(a))
      BY <1>1, <2>1
    <3> QED
      BY <3>1
  <2> QED
    BY <2>1
<1>5. \A j \in 1 .. Len(a) : j \in 1 .. Len(a) + Len(b)
  BY <1>1
<1>6. \A j \in 1 .. Len(b) : Len(a) + j \in 1 .. Len(a) + Len(b)
  BY <1>1
<1>7. ToSet(a \o b) \subseteq ToSet(a) \cup ToSet(b)
  <2>1. ASSUME NEW j \in 1 .. Len(a) + Len(b)
        PROVE  (a \o b)[j] \in ToSet(a) \cup ToSet(b)
    <3>1. CASE j \in 1 .. Len(a)
      BY <1>1, <1>2, <3>1 DEF ToSet
    <3>2. CASE \E l \in 1 .. Len(b) : j = Len(a) + l
      BY <1>1, <1>3, <3>2 DEF ToSet
    <3> QED
      BY <1>4, <3>1, <3>2
  <2>2. ToSet(a \o b) = {(a \o b)[j] : j \in 1 .. Len(a) + Len(b)}
    BY <1>1 DEF ToSet
  <2> QED
    BY <2>1, <2>2
<1>8. ToSet(a) \subseteq ToSet(a \o b)
  BY <1>1, <1>2, <1>5 DEF ToSet
<1>9. ToSet(b) \subseteq ToSet(a \o b)
  BY <1>1, <1>3, <1>6 DEF ToSet
<1> QED
  BY <1>7, <1>8, <1>9

\* FlattenSeq concatenates: what is in the result is in one of the sequences.
LEMMA FlattenElements ==
  ASSUME NEW S, NEW s \in Seq(Seq(S))
  PROVE  /\ FlattenSeq(s) \in Seq(S)
         /\ \A x : x \in ToSet(FlattenSeq(s)) <=> \E i \in DOMAIN s : x \in ToSet(s[i])
<1>1. CASE Len(s) = 0
  <2>1. s = <<>> /\ FlattenSeq(s) = s
    BY <1>1 DEF FlattenSeq
  <2>2. DOMAIN s = {} /\ s \in Seq(S)
    BY <2>1
  <2> QED
    BY <2>1, <2>2 DEF ToSet
<1>2. CASE Len(s) # 0
  <2> DEFINE n == Len(s)
             body(f) == [i \in 1 .. n |-> IF i = 1 THEN s[i] ELSE f[i - 1] \o s[i]]
             flatten == CHOOSE f : f = body(f)
             g == [x \in Nat \X Seq(S) |-> IF x[1] + 1 \in 1 .. n THEN x[2] \o s[x[1] + 1] ELSE x[2]]
  <2>1. n \in Nat /\ n >= 1 /\ DOMAIN s = 1 .. n /\ \A i \in 1 .. n : s[i] \in Seq(S)
    BY <1>2
  <2>2. g \in [Nat \X Seq(S) -> Seq(S)]
    <3>1. ASSUME NEW x \in Nat \X Seq(S)
          PROVE  (IF x[1] + 1 \in 1 .. n THEN x[2] \o s[x[1] + 1] ELSE x[2]) \in Seq(S)
      BY <2>1
    <3> QED
      BY <3>1
  <2>3. PICK r : Recursion(Seq(S), s[1], g, r)
    <3>1. s[1] \in Seq(S)
      BY <2>1
    <3> HIDE DEF g
    <3> QED
      BY <2>2, <3>1, RecursionExists
  <2> DEFINE h == [i \in 1 .. n |-> r[i - 1]]
  <2>4. h = body(h)
    <3>1. ASSUME NEW i \in 1 .. n PROVE r[i - 1] = IF i = 1 THEN s[i] ELSE h[i - 1] \o s[i]
      <4>1. CASE i = 1
        BY <2>3, <4>1 DEF Recursion
      <4>2. CASE i # 1
        <5>1. i - 2 \in Nat /\ i - 1 \in 1 .. n /\ (i - 2) + 1 = i - 1 /\ (i - 1) - 1 = i - 2
              /\ (i - 1) + 1 = i
          BY <2>1, <4>2
        <5>2. r[(i - 2) + 1] = g[<<(i - 2) + 1, r[i - 2]>>] /\ r[i - 2] \in Seq(S)
          BY <2>3, <5>1 DEF Recursion
        <5>3. <<i - 1, r[i - 2]>> \in Nat \X Seq(S)
          BY <5>1, <5>2
        <5>4. g[<<i - 1, r[i - 2]>>] = r[i - 2] \o s[i]
          BY <5>1, <5>3
        <5> QED
          BY <4>2, <5>1, <5>2, <5>4
      <4> QED
        BY <4>1, <4>2
    <3> QED
      BY <3>1
  <2>5. flatten = body(flatten)
    BY <2>4
  <2>6. FlattenSeq(s) = flatten[n]
    BY <1>2 DEF FlattenSeq
  <2> HIDE DEF flatten
  <2> DEFINE Exact(i) == /\ flatten[i] \in Seq(S)
                         /\ \A x : x \in ToSet(flatten[i]) <=> \E j \in 1 .. i : x \in ToSet(s[j])
             T == {m \in 0 .. n - 1 : Exact(m + 1)}
  <2>7. 0 \in T
    <3>1. flatten[1] = s[1] /\ 1 .. 1 = {1}
      BY <2>1, <2>5
    <3>2. \A x : x \in ToSet(s[1]) <=> \E j \in 1 .. 1 : x \in ToSet(s[j])
      BY <3>1
    <3> QED
      BY <2>1, <3>1, <3>2
  <2>8. ASSUME NEW m \in 0 .. (n - 1) - 1, m \in T PROVE m + 1 \in T
    <3> DEFINE i == m + 2
    <3>1. i \in 1 .. n /\ i # 1 /\ i - 1 = m + 1 /\ m + 1 \in 0 .. n - 1 /\ (m + 1) + 1 = i
          /\ i \in Nat /\ 1 .. i = (1 .. i - 1) \cup {i}
      BY <2>1
    <3>2. flatten[i] = flatten[i - 1] \o s[i] /\ s[i] \in Seq(S)
      BY <2>1, <2>5, <3>1
    <3>3. Exact(i - 1)
      BY <2>8, <3>1
    <3>4. flatten[i] \in Seq(S)
      BY <3>2, <3>3
    <3> HIDE DEF i
    <3>6. ToSet(flatten[i]) = ToSet(flatten[i - 1]) \cup ToSet(s[i])
      BY <3>2, <3>3, ConcatElements
    <3>7. ASSUME NEW x
          PROVE  x \in ToSet(flatten[i]) <=> \E j \in 1 .. i : x \in ToSet(s[j])
      <4>1. x \in ToSet(flatten[i - 1]) <=> \E j \in 1 .. i - 1 : x \in ToSet(s[j])
        BY <3>3
      <4>2. (\E j \in 1 .. i : x \in ToSet(s[j]))
              <=> (\E j \in 1 .. i - 1 : x \in ToSet(s[j])) \/ x \in ToSet(s[i])
        BY <3>1
      <4> QED
        BY <3>6, <4>1, <4>2
    <3> QED
      BY <3>1, <3>4, <3>7
  <2>9. 0 .. n - 1 \subseteq T
    <3>1. n - 1 \in Nat
      BY <2>1
    <3> HIDE DEF T
    <3> QED
      BY <2>7, <2>8, <3>1, NumbersUpTo
  <2>10. Exact(n)
    <3>1. n - 1 \in 0 .. n - 1 /\ (n - 1) + 1 = n
      BY <2>1
    <3> QED
      BY <2>9, <3>1
  <2> QED
    BY <2>1, <2>6, <2>10
<1> QED
  BY <1>1, <1>2

\* s is a sequence.
IsList(s) == s \in Seq(ToSet(s))

LEMMA SequencesAreLists ==
  ASSUME NEW S, NEW s \in Seq(S)
  PROVE  IsList(s) /\ Len(s) \in Nat /\ DOMAIN s = 1 .. Len(s) /\ ToSet(s) \subseteq S
<1>1. Len(s) \in Nat /\ DOMAIN s = 1 .. Len(s) /\ s \in [1 .. Len(s) -> S]
  OBVIOUS
<1>2. \A i \in DOMAIN s : s[i] \in ToSet(s) /\ s[i] \in S
  BY <1>1 DEF ToSet
<1>3. s \in [1 .. Len(s) -> ToSet(s)]
  BY <1>1, <1>2
<1>4. IsList(s)
  BY <1>1, <1>3 DEF IsList
<1>5. ToSet(s) \subseteq S
  BY <1>2 DEF ToSet
<1> QED
  BY <1>1, <1>4, <1>5

LEMMA ListFacts ==
  ASSUME NEW s, IsList(s)
  PROVE  /\ Len(s) \in Nat /\ DOMAIN s = 1 .. Len(s)
         /\ \A x : x \in ToSet(s) <=> \E i \in DOMAIN s : x = s[i]
         /\ s # <<>> => s[1] \in ToSet(s)
         /\ s = <<>> => ToSet(s) = {}
<1>1. Len(s) \in Nat /\ DOMAIN s = 1 .. Len(s) /\ s \in Seq(ToSet(s))
  BY DEF IsList
<1>2. \A x : x \in ToSet(s) <=> \E i \in DOMAIN s : x = s[i]
  BY DEF ToSet
<1>3. ASSUME s # <<>> PROVE 1 \in DOMAIN s
  BY <1>1, <1>3
<1> QED
  BY <1>1, <1>2, <1>3 DEF ToSet

LEMMA AppendList ==
  ASSUME NEW s, IsList(s), NEW x
  PROVE  /\ IsList(Append(s, x))
         /\ Len(Append(s, x)) = Len(s) + 1
         /\ DOMAIN Append(s, x) = DOMAIN s \cup {Len(s) + 1} /\ Len(s) + 1 \notin DOMAIN s
         /\ \A i \in DOMAIN s : Append(s, x)[i] = s[i]
         /\ Append(s, x)[Len(s) + 1] = x
         /\ ToSet(Append(s, x)) = ToSet(s) \cup {x}
<1> DEFINE S == ToSet(s) \cup {x}
<1>1. s \in Seq(S) /\ x \in S /\ Len(s) \in Nat /\ DOMAIN s = 1 .. Len(s)
  <2>1. s \in Seq(ToSet(s)) /\ ToSet(s) \subseteq S
    BY DEF IsList
  <2> HIDE DEF S
  <2>2. Len(s) \in Nat /\ DOMAIN s = 1 .. Len(s) /\ \A i \in 1 .. Len(s) : s[i] \in S
    BY <2>1
  <2> QED
    BY <2>1, <2>2 DEF S
<1> HIDE DEF S
<1>2. Append(s, x) \in Seq(S) /\ Len(Append(s, x)) = Len(s) + 1
      /\ DOMAIN Append(s, x) = 1 .. Len(s) + 1
  BY <1>1
<1>3. 1 .. Len(s) + 1 = (1 .. Len(s)) \cup {Len(s) + 1} /\ Len(s) + 1 \notin 1 .. Len(s)
  BY <1>1
<1>4. \A i \in DOMAIN s : Append(s, x)[i] = s[i]
  BY <1>1
<1>5. Append(s, x)[Len(s) + 1] = x
  BY <1>1
<1>6. IsList(Append(s, x))
  BY <1>2, SequencesAreLists
<1>7. ToSet(Append(s, x)) = ToSet(s) \cup {x}
  <2>1. ASSUME NEW y PROVE y \in ToSet(Append(s, x)) <=> y \in ToSet(s) \/ y = x
    <3>1. y \in ToSet(Append(s, x)) <=> \E i \in DOMAIN Append(s, x) : y = Append(s, x)[i]
      BY <1>6, ListFacts
    <3>2. y \in ToSet(s) <=> \E i \in DOMAIN s : y = s[i]
      BY ListFacts
    <3> QED
      BY <1>1, <1>2, <1>3, <1>4, <1>5, <3>1, <3>2
  <2> QED
    BY <2>1
<1> QED
  BY <1>1, <1>2, <1>3, <1>4, <1>5, <1>6, <1>7

LEMMA TailList ==
  ASSUME NEW s, IsList(s), s # <<>>
  PROVE  /\ IsList(Tail(s))
         /\ Head(s) \in ToSet(s)
         /\ ToSet(s) = ToSet(Tail(s)) \cup {Head(s)}
<1>1. s \in Seq(ToSet(s)) /\ Len(s) \in Nat \ {0} /\ DOMAIN s = 1 .. Len(s)
  BY DEF IsList
<1>2. Tail(s) \in Seq(ToSet(s)) /\ Len(Tail(s)) = Len(s) - 1
      /\ \A i \in 1 .. Len(s) - 1 : Tail(s)[i] = s[i + 1]
  BY <1>1
<1>3. Head(s) = s[1] /\ 1 \in DOMAIN s
  BY <1>1
<1>4. IsList(Tail(s)) /\ DOMAIN Tail(s) = 1 .. Len(s) - 1
  BY <1>1, <1>2, SequencesAreLists
<1>5. \A i \in 1 .. Len(s) : i = 1 \/ (i - 1 \in 1 .. Len(s) - 1 /\ s[i] = Tail(s)[i - 1])
  BY <1>1, <1>2
<1>6. \A i \in 1 .. Len(s) - 1 : i + 1 \in 1 .. Len(s)
  BY <1>1
<1>7. \A x : x \in ToSet(s) <=> \E i \in DOMAIN s : x = s[i]
  BY ListFacts
<1>8. \A x : x \in ToSet(Tail(s)) <=> \E i \in DOMAIN Tail(s) : x = Tail(s)[i]
  BY <1>4, ListFacts
<1>9. \A x : x \in ToSet(s) => x \in ToSet(Tail(s)) \/ x = Head(s)
  <2>1. ASSUME NEW i \in 1 .. Len(s) PROVE s[i] \in ToSet(Tail(s)) \/ s[i] = Head(s)
    <3>1. CASE i = 1
      BY <1>3, <3>1
    <3>2. CASE i - 1 \in DOMAIN Tail(s) /\ s[i] = Tail(s)[i - 1]
      BY <1>8, <3>2
    <3> QED
      BY <1>4, <1>5, <3>1, <3>2
  <2> QED
    BY <1>1, <1>7, <2>1
<1>10. \A x \in ToSet(Tail(s)) : x \in ToSet(s)
  BY <1>1, <1>2, <1>4, <1>6, <1>7, <1>8
<1>11. Head(s) \in ToSet(s)
  BY <1>3, <1>7
<1> QED
  BY <1>4, <1>9, <1>10, <1>11

-----------------------------------------------------------------------------
(* Counts.                                                                 *)

LEMMA ImageFinite ==
  ASSUME NEW S, IsFiniteSet(S), NEW f
  PROVE  IsFiniteSet({f[x] : x \in S})
<1> DEFINE T == {f[x] : x \in S}
           g == [x \in S |-> f[x]]
<1>1. g \in [S -> T] /\ \A y \in T : \E x \in S : g[x] = y
  OBVIOUS
<1>2. g \in Surjection(S, T)
  BY <1>1 DEF Surjection
<1> HIDE DEF T, g
<1> QED
  BY <1>2, FS_Surjection DEF T

\* There are finitely many functions between finite sets.
LEMMA FunctionsFinite ==
  ASSUME NEW S, NEW T, IsFiniteSet(S), IsFiniteSet(T)
  PROVE  IsFiniteSet([S -> T])
<1> DEFINE Graph(f) == {<<x, f[x]>> : x \in S}
           graph == [f \in [S -> T] |-> Graph(f)]
<1>1. IsFiniteSet(SUBSET (S \X T))
  BY FS_Product, FS_SUBSET
<1>2. graph \in [[S -> T] -> SUBSET (S \X T)]
  OBVIOUS
<1>3. ASSUME NEW f \in [S -> T], NEW g \in [S -> T], graph[f] = graph[g]
      PROVE  f = g
  <2>1. ASSUME NEW x \in S PROVE f[x] = g[x]
    <3>1. <<x, f[x]>> \in Graph(g)
      BY <1>3
    <3> QED
      BY <3>1
  <2> QED
    BY <2>1
<1>4. graph \in Injection([S -> T], SUBSET (S \X T))
  BY <1>2, <1>3 DEF Injection, IsInjective
<1> QED
  BY <1>1, <1>4, FS_Injection

\* The relations of a query are numbered, and each has a list of rows.
QueryOK ==
  /\ \E n \in Nat : Relations = 1 .. n
  /\ \A r \in Relations : \E n \in Nat : DOMAIN query.rows[r] = 1 .. n

LEMMA RelationsFinite ==
  ASSUME QueryOK
  PROVE  /\ IsFiniteSet(Relations) /\ Cardinality(Relations) \in Nat
         /\ \A rels \in SUBSET Relations : IsFiniteSet(rels) /\ Cardinality(rels) \in 0 .. Cardinality(Relations)
<1>1. PICK n \in Nat : Relations = 1 .. n
  BY DEF QueryOK
<1>2. IsFiniteSet(Relations)
  BY <1>1, FS_Interval
<1>3. Cardinality(Relations) \in Nat
  BY <1>2, FS_CardinalityType
<1>4. ASSUME NEW rels \in SUBSET Relations
      PROVE  IsFiniteSet(rels) /\ Cardinality(rels) \in 0 .. Cardinality(Relations)
  <2>1. IsFiniteSet(rels) /\ Cardinality(rels) <= Cardinality(Relations)
    BY <1>2, FS_Subset
  <2>2. Cardinality(rels) \in Nat
    BY <2>1, FS_CardinalityType
  <2> QED
    BY <1>3, <2>1, <2>2
<1> QED
  BY <1>2, <1>3, <1>4

\* The oracle answers with a number.
LEMMA OracleCounts ==
  ASSUME QueryOK, NEW rels \in SUBSET Relations, NEW required
  PROVE  ExecuteSemiJoinPlan(rels, required) \in Nat
<1> DEFINE rows(r) == DOMAIN query.rows[r]
           all == UNION {rows(r) : r \in rels}
<1>1. IsFiniteSet(rels)
  BY RelationsFinite
<1>2. IsFiniteSet(all)
  <2>1. \A r \in rels : IsFiniteSet(rows(r))
    BY FS_Interval DEF QueryOK
  <2>2. IsFiniteSet({rows(r) : r \in rels})
    <3> DEFINE f == [r \in rels |-> rows(r)]
    <3>1. {f[r] : r \in rels} = {rows(r) : r \in rels}
      OBVIOUS
    <3> HIDE DEF f
    <3>2. IsFiniteSet({f[r] : r \in rels})
      BY <1>1, ImageFinite
    <3> QED
      BY <3>1, <3>2
  <2> QED
    BY <2>1, <2>2, FS_UNION
<1>3. IsFiniteSet([rels -> all])
  BY <1>1, <1>2, FunctionsFinite
<1>4. Joined(rels) \subseteq [rels -> all]
  BY DEF Joined
<1>5. IsFiniteSet(Joined(rels))
  BY <1>3, <1>4, FS_Subset
<1>6. IsFiniteSet({Restrict(c, required) : c \in Joined(rels)})
  <2> DEFINE f == [c \in Joined(rels) |-> Restrict(c, required)]
  <2>1. {f[c] : c \in Joined(rels)} = {Restrict(c, required) : c \in Joined(rels)}
    OBVIOUS
  <2> HIDE DEF f
  <2>2. IsFiniteSet({f[c] : c \in Joined(rels)})
    BY <1>5, ImageFinite
  <2> QED
    BY <2>1, <2>2
<1> QED
  BY <1>6, FS_CardinalityType DEF ExecuteSemiJoinPlan

\* Parts of a set of relations.
LEMMA PartSmaller ==
  ASSUME QueryOK, NEW rels \in SUBSET Relations, NEW part, IsProperSubset(part, rels)
  PROVE  part \in SUBSET Relations /\ Cardinality(part) < Cardinality(rels)
<1>1. IsFiniteSet(rels) /\ IsFiniteSet(part) /\ part \subseteq rels /\ part # rels
  BY RelationsFinite DEF IsProperSubset
<1>2. Cardinality(part) <= Cardinality(rels) /\ Cardinality(rels) # Cardinality(part)
  BY <1>1, FS_Subset
<1>3. Cardinality(part) \in Nat /\ Cardinality(rels) \in Nat
  BY <1>1, FS_CardinalityType
<1> QED
  BY <1>1, <1>2, <1>3

LEMMA DisjointSum ==
  ASSUME QueryOK, NEW left \in SUBSET Relations, NEW right \in SUBSET Relations,
         left \cap right = {}
  PROVE  /\ left \cup right \in SUBSET Relations
         /\ Cardinality(left \cup right) = Cardinality(left) + Cardinality(right)
<1>1. IsFiniteSet(left) /\ IsFiniteSet(right)
      /\ Cardinality(left) \in Nat /\ Cardinality(right) \in Nat
  BY RelationsFinite
<1>2. Cardinality(left \cap right) = 0
  BY FS_EmptySet
<1>3. Cardinality(left \cup right)
        = Cardinality(left) + Cardinality(right) - Cardinality(left \cap right)
  BY <1>1, FS_Union
<1> QED
  BY <1>1, <1>2, <1>3

\* A set of one relation.
LEMMA OneRelation ==
  ASSUME QueryOK, NEW rels \in SUBSET Relations
  PROVE  /\ Cardinality(rels) = 0 <=> rels = {}
         /\ Cardinality(rels) = 1 <=> \E r \in Relations : rels = {r}
<1>1. IsFiniteSet(rels)
  BY RelationsFinite
<1>2. Cardinality(rels) = 0 <=> rels = {}
  BY <1>1, FS_EmptySet
<1>3. ASSUME Cardinality(rels) = 1 PROVE \E r \in Relations : rels = {r}
  <2>1. PICK r : rels = {r}
    BY <1>1, <1>3, FS_Singleton
  <2> QED
    BY <2>1
<1>4. \A r : Cardinality({r}) = 1
  BY FS_Singleton
<1> QED
  BY <1>2, <1>3, <1>4

-----------------------------------------------------------------------------
(* Plans.                                                                  *)

LEMMA MakeJoinFields ==
  ASSUME NEW P, NEW l, NEW r, NEW mode
  PROVE  /\ MakeJoin(P, l, r, mode).rels = P[l].rels \cup P[r].rels
         /\ MakeJoin(P, l, r, mode).left = l
         /\ MakeJoin(P, l, r, mode).right = r
         /\ MakeJoin(P, l, r, mode).mode = mode
  BY DEF MakeJoin, EstimateFlat, EstimateFactorized, BaseTablePlan

\* A plan is made from its two sides and nothing else on the heap.
LEMMA MakeJoinLocal ==
  ASSUME NEW P, NEW Q, NEW l, NEW r, NEW mode, P[l] = Q[l], P[r] = Q[r]
  PROVE  MakeJoin(P, l, r, mode) = MakeJoin(Q, l, r, mode)
  BY DEF MakeJoin

\* A plan that joins can be made from: its relations and numbers.
IsSide(plan) ==
  /\ plan.rels \in SUBSET Relations
  /\ plan.cost \in Nat /\ plan.previous \in Nat /\ plan.current \in Nat

LEMMA FlatCosts ==
  ASSUME QueryOK, NEW P, NEW l, NEW r, NEW mode, IsSide(P[l]), IsSide(P[r]), ~Factorized
  PROVE  LET plan == MakeJoin(P, l, r, mode)
         IN  /\ IsSide(plan) /\ plan.previous = 0
             /\ plan.cost = ExecuteSemiJoinPlan(plan.rels, plan.rels) + P[l].cost + P[r].cost
<1> DEFINE plan == MakeJoin(P, l, r, mode)
<1>1. /\ plan.rels = P[l].rels \cup P[r].rels
      /\ plan.previous = 0 /\ plan.current = 0
      /\ plan.cost = ExecuteSemiJoinPlan(plan.rels, plan.rels) + P[l].cost + P[r].cost
  BY DEF MakeJoin, EstimateFlat, BaseTablePlan
<1> HIDE DEF plan
<1>2. plan.rels \in SUBSET Relations
  BY <1>1 DEF IsSide
<1>3. ExecuteSemiJoinPlan(plan.rels, plan.rels) \in Nat
  BY <1>2, OracleCounts
<1> QED
  BY <1>1, <1>2, <1>3 DEF IsSide, plan

\* Where the right side is put is not seen in the cost of a factorized join.
LEMMA FactorizedCosts ==
  ASSUME QueryOK, NEW P, NEW l, NEW r, NEW mode, IsSide(P[l]), IsSide(P[r]), Factorized
  PROVE  LET plan == MakeJoin(P, l, r, mode)
         IN  /\ IsSide(plan)
             /\ DOMAIN plan.estimates = InterestingClasses(plan.rels)
             /\ \A class \in DOMAIN plan.estimates : plan.estimates[class] \in Nat
<1> DEFINE plan == MakeJoin(P, l, r, mode)
           connecting == ConnectingRelations(P[l], P[r])
           leftPath == Predecessors(P[l].tree, connecting \cap P[l].rels)
           rightPath == Predecessors(P[r].tree, connecting \cap P[r].rels)
           tree == IF mode = "BottomInsert"
                   THEN MergeTrees(P[l].tree, leftPath, P[r].tree, rightPath)
                   ELSE MergeTrees(P[r].tree, rightPath, P[l].tree, leftPath)
           leftMoved == ExecuteSemiJoinPlan(P[l].rels, leftPath)
           rightMoved == ExecuteSemiJoinPlan(P[r].rels, rightPath)
<1>1. /\ plan.rels = P[l].rels \cup P[r].rels
      /\ plan.previous = P[l].previous + P[l].current + P[r].previous + P[r].current
      /\ plan.current = ExecuteSemiJoinPlan(plan.rels, Predecessors(tree, connecting))
      /\ plan.cost = P[l].cost + P[r].cost + leftMoved + rightMoved
  BY DEF MakeJoin, EstimateFactorized, BaseTablePlan
<1>2. PICK shaped :
        /\ shaped.rels = plan.rels
        /\ plan.estimates = [class \in InterestingClasses(plan.rels) |-> ClassEstimate(shaped, class)]
  <2> DEFINE shaped == [BaseTablePlan(0) EXCEPT !.rels = P[l].rels \cup P[r].rels,
                          !.left = l, !.right = r, !.mode = mode, !.tree = tree]
  <2>1. shaped.rels = plan.rels
    BY DEF MakeJoin, EstimateFactorized, BaseTablePlan
  <2>2. plan.estimates = [class \in InterestingClasses(P[l].rels \cup P[r].rels) |->
                            ClassEstimate(shaped, class)]
    BY DEF MakeJoin, EstimateFactorized, BaseTablePlan
  <2> HIDE DEF plan, shaped
  <2> QED
    BY <1>1, <2>1, <2>2
<1> HIDE DEF plan, connecting, leftPath, rightPath, tree
<1>3. plan.rels \in SUBSET Relations /\ leftMoved \in Nat /\ rightMoved \in Nat
  BY <1>1, OracleCounts DEF IsSide
<1>4. \A required : ExecuteSemiJoinPlan(plan.rels, required) \in Nat
  BY <1>3, OracleCounts
<1>5. \A class : ClassEstimate(shaped, class) \in Nat
  BY <1>2, <1>4 DEF ClassEstimate
<1>6. plan.current \in Nat
  BY <1>1, <1>4
<1>7. plan.cost \in Nat /\ plan.previous \in Nat
  <2> HIDE DEF leftMoved, rightMoved
  <2> QED
    BY <1>1, <1>3 DEF IsSide
<1> QED
  BY <1>2, <1>3, <1>5, <1>6, <1>7 DEF IsSide, plan

LEMMA MakeJoinSide ==
  ASSUME QueryOK, NEW P, NEW l, NEW r, NEW mode, IsSide(P[l]), IsSide(P[r])
  PROVE  IsSide(MakeJoin(P, l, r, mode))
  BY FlatCosts, FactorizedCosts

\* Nor in the tuples that a plan has moved before.
LEMMA ModeFree ==
  ASSUME NEW P, NEW l, NEW r, NEW mode, NEW other
  PROVE  /\ MakeJoin(P, l, r, mode).cost = MakeJoin(P, l, r, other).cost
         /\ MakeJoin(P, l, r, mode).previous = MakeJoin(P, l, r, other).previous
  BY DEF MakeJoin, EstimateFlat, EstimateFactorized, BaseTablePlan

-----------------------------------------------------------------------------
(* The costs of join trees.                                                *)

Splits(problem) ==
  {left \in (SUBSET problem) \ {{}, problem} :
     /\ algorithm # "DPSize" => Cardinality(problem \ left) = 1
     /\ HasJoinEdge(left, problem \ left)}

Sums(A, B, e) == {a + b + e : a \in A, b \in B}

CostsOf(costs, problem) ==
  IF Cardinality(problem) = 1 THEN {0}
  ELSE UNION {Sums(costs[left], costs[problem \ left], ExecuteSemiJoinPlan(problem, problem)) :
                left \in Splits(problem)}

\* Both sides of a split are smaller.
LEMMA SplitsSmaller ==
  ASSUME QueryOK, NEW problem \in SUBSET Relations, NEW left \in Splits(problem)
  PROVE  /\ left \in SUBSET Relations /\ problem \ left \in SUBSET Relations
         /\ left # {} /\ problem \ left # {}
         /\ Cardinality(left) < Cardinality(problem)
         /\ Cardinality(problem \ left) < Cardinality(problem)
<1>1. IsProperSubset(left, problem) /\ IsProperSubset(problem \ left, problem)
      /\ left # {} /\ problem \ left # {}
  BY DEF Splits, IsProperSubset
<1> QED
  BY <1>1, PartSmaller

LEMMA CostsOfSmaller ==
  ASSUME QueryOK, NEW problem \in SUBSET Relations, NEW f, NEW g,
         \A part \in SUBSET Relations :
           Cardinality(part) < Cardinality(problem) => f[part] = g[part]
  PROVE  CostsOf(f, problem) = CostsOf(g, problem)
<1>1. ASSUME NEW left \in Splits(problem)
      PROVE  f[left] = g[left] /\ f[problem \ left] = g[problem \ left]
  BY SplitsSmaller
<1> DEFINE F(left) == Sums(f[left], f[problem \ left], ExecuteSemiJoinPlan(problem, problem))
           G(left) == Sums(g[left], g[problem \ left], ExecuteSemiJoinPlan(problem, problem))
<1>2. \A left \in Splits(problem) : F(left) = G(left)
  BY <1>1
<1>3. /\ CostsOf(f, problem) = IF Cardinality(problem) = 1 THEN {0}
                               ELSE UNION {F(left) : left \in Splits(problem)}
      /\ CostsOf(g, problem) = IF Cardinality(problem) = 1 THEN {0}
                               ELSE UNION {G(left) : left \in Splits(problem)}
  BY DEF CostsOf
<1> HIDE DEF F, G
<1>4. UNION {F(left) : left \in Splits(problem)} = UNION {G(left) : left \in Splits(problem)}
  BY <1>2
<1> QED
  BY <1>3, <1>4

LEMMA CostsOfNumbers ==
  ASSUME QueryOK, NEW problem \in SUBSET Relations, NEW f,
         \A part \in SUBSET Relations :
           Cardinality(part) < Cardinality(problem) => f[part] \in SUBSET Nat
  PROVE  CostsOf(f, problem) \in SUBSET Nat
<1>1. ExecuteSemiJoinPlan(problem, problem) \in Nat
  BY OracleCounts
<1>2. ASSUME NEW left \in Splits(problem)
      PROVE  f[left] \in SUBSET Nat /\ f[problem \ left] \in SUBSET Nat
  BY SplitsSmaller
<1> DEFINE e == ExecuteSemiJoinPlan(problem, problem)
<1> HIDE DEF e
<1>3. \A A, B : A \in SUBSET Nat /\ B \in SUBSET Nat /\ e \in Nat => Sums(A, B, e) \in SUBSET Nat
  BY DEF Sums
<1>4. e \in Nat
  BY <1>1 DEF e
<1>5. \A left \in Splits(problem) : Sums(f[left], f[problem \ left], e) \in SUBSET Nat
  BY <1>2, <1>3, <1>4
<1>6. UNION {Sums(f[left], f[problem \ left], e) : left \in Splits(problem)} \in SUBSET Nat
  BY <1>5
<1>7. CostsOf(f, problem) = IF Cardinality(problem) = 1 THEN {0}
        ELSE UNION {Sums(f[left], f[problem \ left], e) : left \in Splits(problem)}
  BY DEF CostsOf, e
<1> QED
  BY <1>6, <1>7

\* The definition by recursion has a solution.
LEMMA TreeCostsEquation ==
  ASSUME QueryOK
  PROVE  \A problem \in SUBSET Relations : TreeCosts[problem] = CostsOf(TreeCosts, problem)
<1> DEFINE D == [SUBSET Relations -> SUBSET Nat]
           Next(f) == [problem \in SUBSET Relations |->
                         IF \A part \in SUBSET Relations : f[part] \in SUBSET Nat
                         THEN CostsOf(f, problem) ELSE {}]
           none == [problem \in SUBSET Relations |-> {}]
           g == [x \in Nat \X D |-> Next(x[2])]
<1>1. none \in D
  OBVIOUS
<1>2. ASSUME NEW f \in D
      PROVE  Next(f) \in D /\ \A problem \in SUBSET Relations : Next(f)[problem] = CostsOf(f, problem)
  <2>1. \A problem \in SUBSET Relations : CostsOf(f, problem) \in SUBSET Nat
    BY CostsOfNumbers
  <2>2. \A part \in SUBSET Relations : f[part] \in SUBSET Nat
    OBVIOUS
  <2> QED
    BY <2>1, <2>2
<1>3. g \in [Nat \X D -> D]
  <2>1. \A x \in Nat \X D : Next(x[2]) \in D
    BY <1>2
  <2> QED
    BY <2>1
<1> HIDE DEF D, Next, none
<1>4. PICK r : Recursion(D, none, g, r)
  <2> HIDE DEF g
  <2> QED
    BY <1>1, <1>3, RecursionExists
<1>5. \A n \in Nat : r[n] \in D /\ r[n + 1] = Next(r[n])
  <2>1. ASSUME NEW n \in Nat PROVE r[n] \in D /\ r[n + 1] = Next(r[n])
    <3>1. r[n] \in D /\ r[n + 1] = g[<<n + 1, r[n]>>] /\ n + 1 \in Nat
      <4> HIDE DEF g
      <4> QED
        BY <1>4 DEF Recursion
    <3>2. <<n + 1, r[n]>> \in Nat \X D
      BY <3>1
    <3>3. g[<<n + 1, r[n]>>] = Next(r[n])
      BY <3>2
    <3> QED
      BY <3>1, <3>3
  <2> QED
    BY <2>1
<1>6. \A n \in Nat : \A problem \in SUBSET Relations : r[n + 1][problem] = CostsOf(r[n], problem)
  BY <1>2, <1>5
<1>7. \A problem \in SUBSET Relations : Cardinality(problem) \in Nat
  BY RelationsFinite
<1> DEFINE Settled(n) == \A problem \in SUBSET Relations :
                           Cardinality(problem) <= n => r[n][problem] = r[n + 1][problem]
<1>8. \A n \in Nat : Settled(n)
  <2> DEFINE T == {n \in Nat : Settled(n)}
  <2>1. 0 \in T
    <3>1. ASSUME NEW problem \in SUBSET Relations, Cardinality(problem) <= 0
          PROVE  r[0][problem] = r[0 + 1][problem]
      <4>1. problem = {} /\ Cardinality(problem) # 1
        BY <1>7, <3>1, OneRelation
      <4>2. Splits(problem) = {}
        BY <4>1 DEF Splits
      <4>3. CostsOf(r[0], problem) = {}
        BY <4>1, <4>2 DEF CostsOf
      <4>4. r[0][problem] = {}
        BY <1>4 DEF Recursion, none
      <4> QED
        BY <1>6, <4>3, <4>4
    <3> QED
      BY <3>1
  <2>2. ASSUME NEW n \in Nat, n \in T PROVE n + 1 \in T
    <3>1. ASSUME NEW problem \in SUBSET Relations, Cardinality(problem) <= n + 1
          PROVE  r[n + 1][problem] = r[n + 1 + 1][problem]
      <4>1. \A part \in SUBSET Relations :
              Cardinality(part) < Cardinality(problem) => r[n][part] = r[n + 1][part]
        BY <1>7, <2>2, <3>1
      <4>2. CostsOf(r[n], problem) = CostsOf(r[n + 1], problem)
        BY <4>1, CostsOfSmaller
      <4> QED
        BY <1>6, <4>2
    <3> QED
      BY <3>1
  <2> HIDE DEF T
  <2>3. Nat \subseteq T
    BY <2>1, <2>2, NumbersIn
  <2> QED
    BY <2>3 DEF T
<1> DEFINE h == [problem \in SUBSET Relations |-> r[Cardinality(problem)][problem]]
<1>9. \A n \in Nat : \A problem \in SUBSET Relations :
        Cardinality(problem) <= n => r[n][problem] = h[problem]
  <2>1. ASSUME NEW problem \in SUBSET Relations, NEW n \in Nat, Cardinality(problem) <= n
        PROVE  r[n][problem] = h[problem]
    <3> DEFINE c == Cardinality(problem)
               U == {m \in Nat : r[c + m][problem] = r[c][problem]}
    <3>1. 0 \in U /\ c \in Nat
      BY <1>7
    <3>2. ASSUME NEW m \in Nat, m \in U PROVE m + 1 \in U
      <4>1. c + m \in Nat /\ c <= c + m /\ c + (m + 1) = (c + m) + 1
        BY <3>1
      <4>2. r[c + m][problem] = r[(c + m) + 1][problem]
        BY <1>8, <4>1
      <4> QED
        BY <3>2, <4>1, <4>2
    <3> HIDE DEF U
    <3>3. n - c \in U
      <4>1. n - c \in Nat
        BY <2>1, <3>1
      <4>2. Nat \subseteq U
        BY <3>1, <3>2, NumbersIn
      <4> QED
        BY <4>1, <4>2
    <3>4. c + (n - c) = n
      BY <3>1
    <3> QED
      BY <3>3, <3>4 DEF U
  <2> QED
    BY <2>1
<1>10. h = [problem \in SUBSET Relations |-> CostsOf(h, problem)]
  <2>1. ASSUME NEW problem \in SUBSET Relations
        PROVE  h[problem] = CostsOf(h, problem)
    <3> DEFINE c == Cardinality(problem)
    <3>1. c \in Nat
      BY <1>7
    <3>2. h[problem] = CostsOf(r[c], problem)
      BY <1>6, <1>8, <3>1
    <3>3. \A part \in SUBSET Relations : Cardinality(part) < c => r[c][part] = h[part]
      <4> HIDE DEF h, c
      <4>1. \A part \in SUBSET Relations : Cardinality(part) < c => Cardinality(part) <= c
        BY <1>7, <3>1
      <4> QED
        BY <1>9, <3>1, <4>1
    <3>4. CostsOf(r[c], problem) = CostsOf(h, problem)
      <4> HIDE DEF h
      <4> QED
        BY <3>3, CostsOfSmaller
    <3> QED
      BY <3>2, <3>4
  <2>2. h = [problem \in SUBSET Relations |-> h[problem]]
    OBVIOUS
  <2> HIDE DEF h
  <2> QED
    BY <2>1, <2>2
<1>11. TreeCosts = CHOOSE f : f = [problem \in SUBSET Relations |-> CostsOf(f, problem)]
  BY DEF TreeCosts, CostsOf, Splits, Sums
<1> HIDE DEF h
<1>12. TreeCosts = [problem \in SUBSET Relations |-> CostsOf(TreeCosts, problem)]
  BY <1>10, <1>11
<1> QED
  BY <1>12

LEMMA TreeCostsNumbers ==
  ASSUME QueryOK
  PROVE  \A problem \in SUBSET Relations : TreeCosts[problem] \in SUBSET Nat
<1> DEFINE T == {n \in Nat : \A problem \in SUBSET Relations :
                   Cardinality(problem) < n => TreeCosts[problem] \in SUBSET Nat}
<1>1. \A problem \in SUBSET Relations : Cardinality(problem) \in Nat
  BY RelationsFinite
<1>2. 0 \in T
  BY <1>1
<1>3. ASSUME NEW n \in Nat, n \in T PROVE n + 1 \in T
  <2>1. ASSUME NEW problem \in SUBSET Relations, Cardinality(problem) < n + 1
        PROVE  TreeCosts[problem] \in SUBSET Nat
    <3>1. \A part \in SUBSET Relations :
            Cardinality(part) < Cardinality(problem) => TreeCosts[part] \in SUBSET Nat
      BY <1>1, <1>3, <2>1
    <3>2. CostsOf(TreeCosts, problem) \in SUBSET Nat
      BY <3>1, CostsOfNumbers
    <3> QED
      BY <3>2, TreeCostsEquation
  <2> QED
    BY <2>1
<1> HIDE DEF T
<1>4. Nat \subseteq T
  BY <1>2, <1>3, NumbersIn
<1>5. ASSUME NEW problem \in SUBSET Relations PROVE TreeCosts[problem] \in SUBSET Nat
  <2>1. Cardinality(problem) + 1 \in T /\ Cardinality(problem) < Cardinality(problem) + 1
    BY <1>1, <1>4
  <2> QED
    BY <2>1 DEF T
<1> QED
  BY <1>5

\* One tree more: the join of two trees of the parts of a problem.
LEMMA TreeCostsJoin ==
  ASSUME QueryOK, NEW left \in SUBSET Relations, NEW right \in SUBSET Relations,
         left # {}, right # {}, left \cap right = {}, HasJoinEdge(left, right),
         algorithm # "DPSize" => Cardinality(right) = 1,
         NEW a \in TreeCosts[left], NEW b \in TreeCosts[right]
  PROVE  a + b + ExecuteSemiJoinPlan(left \cup right, left \cup right) \in TreeCosts[left \cup right]
<1> DEFINE problem == left \cup right
<1>1. problem \in SUBSET Relations /\ problem \ left = right
      /\ left \in (SUBSET problem) \ {{}, problem}
  OBVIOUS
<1>2. left \in Splits(problem)
  BY <1>1 DEF Splits
<1>3. Cardinality(problem) # 1
  BY <1>1, OneRelation
<1> HIDE DEF problem
<1> DEFINE e == ExecuteSemiJoinPlan(problem, problem)
<1>4. a + b + e \in CostsOf(TreeCosts, problem)
  <2>1. a + b + e \in Sums(TreeCosts[left], TreeCosts[problem \ left], e)
    BY <1>1 DEF Sums
  <2> QED
    BY <1>2, <1>3, <2>1 DEF CostsOf
<1> QED
  BY <1>1, <1>4, TreeCostsEquation DEF problem

-----------------------------------------------------------------------------
(***************************************************************************)
(* The invariant, over a heap P, a planMap M, sizes S, the size k, todo T  *)
(* and candidates C.                                                       *)
(***************************************************************************)
Modes == {"TopInsert", "BottomInsert"}

\* A plan joins two plans of the heap, each of fewer relations, as they are now.
IsJoin(P, plan) ==
  \E l, r \in DOMAIN P : \E mode \in Modes :
    /\ IsProperSubset(P[l].rels, plan.rels) /\ IsProperSubset(P[r].rels, plan.rels)
    /\ plan = MakeJoin(P, l, r, mode)

IsPlan(P, k, plan) ==
  /\ IsSide(plan) /\ plan.rels # {} /\ Cardinality(plan.rels) <= k
  /\ Cardinality(plan.rels) = 1 => plan.cost = 0
  /\ Cardinality(plan.rels) # 1 => IsJoin(P, plan)

HeapInv(P, k) ==
  /\ IsList(P)
  /\ \A p \in DOMAIN P : IsPlan(P, k, P[p])

MapInv(P, M, k) ==
  /\ \A r \in Relations : {r} \in DOMAIN M
  /\ \A problem \in DOMAIN M :
       /\ problem \in SUBSET Relations /\ problem # {} /\ Cardinality(problem) <= k
       /\ IsList(M[problem])
       /\ ~Factorized \/ Cardinality(problem) = 1 => Len(M[problem]) = 1
       /\ \A p \in ToSet(M[problem]) : p \in DOMAIN P /\ P[p].rels = problem

SizesInv(M, S) ==
  /\ IsList(S) /\ DOMAIN S = Relations
  /\ \A i \in DOMAIN S :
       /\ IsList(S[i])
       /\ ToSet(S[i]) = {problem \in DOMAIN M : Cardinality(problem) = i}

\* The pairs that are joined to problems of size k.
PairOf(M, k, left, right) ==
  /\ left \in DOMAIN M /\ right \in DOMAIN M /\ left \cap right = {}
  /\ Cardinality(left) + Cardinality(right) = k
  /\ algorithm # "DPSize" => Cardinality(right) = 1

TodoInv(M, k, T) ==
  /\ IsList(T)
  /\ \A t \in ToSet(T) : \E left, right \in DOMAIN M :
       t = <<left, right>> /\ PairOf(M, k, left, right)

CandidateOf(M, left, right, c) ==
  \E l \in ToSet(M[left]), r \in ToSet(M[right]), mode \in Modes :
    c = [l |-> l, r |-> r, mode |-> mode]

CandidatesInv(M, k, C) ==
  /\ IsList(C)
  /\ \A c \in ToSet(C) :
       /\ Factorized
       /\ \E left, right \in DOMAIN M :
            /\ PairOf(M, k, left, right) /\ left \cup right \in DOMAIN M
            /\ CandidateOf(M, left, right, c)

\* No join tree of the problem is cheaper.
Optimal(P, M, problem) ==
  \A c \in TreeCosts[problem] :
    problem \in DOMAIN M /\ \A p \in ToSet(M[problem]) : P[p].cost <= c

\* The pair has been joined: it cannot lower the cost of its problem.
Bounded(P, M, left, right) ==
  /\ left \cup right \in DOMAIN M
  /\ \A p \in ToSet(M[left \cup right]), l \in ToSet(M[left]), r \in ToSet(M[right]) :
       P[p].cost <= MakeJoin(P, l, r, "TopInsert").cost

FlatInv(P, M, k, T) ==
  ~Factorized =>
    /\ \A problem \in DOMAIN M : \A p \in ToSet(M[problem]) : P[p].cost \in TreeCosts[problem]
    /\ \A problem \in SUBSET Relations : Cardinality(problem) < k => Optimal(P, M, problem)
    /\ \A left, right \in DOMAIN M : PairOf(M, k, left, right) /\ HasJoinEdge(left, right) =>
         <<left, right>> \in ToSet(T) \/ Bounded(P, M, left, right)

Compatible(plan, other) ==
  /\ ~ParetoBetter(plan, other)
  /\ plan.estimates = other.estimates =>
       plan.cost = other.cost /\ plan.previous = other.previous

ParetoInv(P, M) ==
  Factorized => \A problem \in DOMAIN M : \A p, q \in ToSet(M[problem]) : Compatible(P[p], P[q])

NotWorse(plan, other) ==
  plan.cost < other.cost \/ (plan.cost = other.cost /\ plan.previous <= other.previous)

\* The whole query has a plan that is no worse than the join of l and r.
Beaten(P, M, l, r) ==
  /\ Relations \in DOMAIN M /\ M[Relations] # <<>>
  /\ \A p \in ToSet(M[Relations]) : NotWorse(P[p], MakeJoin(P, l, r, "TopInsert"))

FrontInv(P, M, k, T, C) ==
  Factorized => \A left, right \in DOMAIN M :
    PairOf(M, k, left, right) /\ left \cup right = Relations /\ HasJoinEdge(left, right) =>
      \/ <<left, right>> \in ToSet(T)
      \/ \A l \in ToSet(M[left]), r \in ToSet(M[right]) :
           \/ \E mode \in Modes : [l |-> l, r |-> r, mode |-> mode] \in ToSet(C)
           \/ Beaten(P, M, l, r)

SizeInv(k) ==
  /\ k \in 0 .. Cardinality(Relations)
  /\ k = 0 <=> Relations = {}

Inv(P, M, S, k, T, C) ==
  /\ QueryOK /\ SizeInv(k)
  /\ HeapInv(P, k) /\ MapInv(P, M, k) /\ SizesInv(M, S)
  /\ TodoInv(M, k, T) /\ CandidatesInv(M, k, C)
  /\ FlatInv(P, M, k, T) /\ ParetoInv(P, M) /\ FrontInv(P, M, k, T, C)

Invariant == Inv(plans, planMap, sizes, curSize, todo, candidates)

-----------------------------------------------------------------------------
(* A step that keeps the query keeps what is computed from it.             *)

LEMMA QuerySteady ==
  ASSUME query' = query, algorithm' = algorithm
  PROVE  /\ Relations' = Relations /\ Factorized' = Factorized /\ QueryOK' = QueryOK
         /\ TreeCosts' = TreeCosts
         /\ \A left, right : HasJoinEdge(left, right)' <=> HasJoinEdge(left, right)
<1>1. Relations' = Relations /\ Factorized' = Factorized
  BY DEF Relations, Factorized
<1>2. QueryOK' = QueryOK
  BY DEF QueryOK, Relations
<1>3. \A left, right : HasJoinEdge(left, right)' <=> HasJoinEdge(left, right)
  BY DEF HasJoinEdge, ClassesOf
<1>4. TreeCosts' = TreeCosts
  BY DEF TreeCosts, ExecuteSemiJoinPlan, Joined, HasJoinEdge, ClassesOf, Relations
<1> QED
  BY <1>1, <1>2, <1>3, <1>4

LEMMA MakeJoinSteady ==
  ASSUME NEW P, NEW l, NEW r, NEW mode, query' = query, algorithm' = algorithm, plans' = P
  PROVE  MakeJoin(plans, l, r, mode)' = MakeJoin(P, l, r, mode)
<1>1. /\ Relations' = Relations /\ (Factorized' <=> Factorized)
      /\ \A rels : ClassesOf(rels)' = ClassesOf(rels)
      /\ \A rels, class : HavingClass(rels, class)' = HavingClass(rels, class)
  BY DEF Relations, Factorized, ClassesOf, HavingClass
<1>2. \A rels : InterestingClasses(rels)' = InterestingClasses(rels)
  BY <1>1 DEF InterestingClasses
<1>3. \A rels, required : ExecuteSemiJoinPlan(rels, required)' = ExecuteSemiJoinPlan(rels, required)
  BY DEF ExecuteSemiJoinPlan, Joined
<1>4. \A left, right : ConnectingRelations(left, right)' = ConnectingRelations(left, right)
  BY <1>1 DEF ConnectingRelations
<1>5. \A plan, class : FirstOccurrence(plan, class)' = FirstOccurrence(plan, class)
  BY <1>1 DEF FirstOccurrence
<1>6. \A plan, class : ClassEstimate(plan, class)' = ClassEstimate(plan, class)
  BY <1>3, <1>5 DEF ClassEstimate
<1>7. \A plan, left, right : EstimateFlat(plan, left, right)' = EstimateFlat(plan, left, right)
  BY <1>3, Zenon DEF EstimateFlat
<1>8. ASSUME NEW plan, NEW left, NEW right
      PROVE  EstimateFactorized(plan, left, right)' = EstimateFactorized(plan, left, right)
  <2> DEFINE connecting == ConnectingRelations(left, right)
             leftPath == Predecessors(left.tree, connecting \cap left.rels)
             rightPath == Predecessors(right.tree, connecting \cap right.rels)
             shaped == [plan EXCEPT !.tree =
                          IF plan.mode = "BottomInsert"
                          THEN MergeTrees(left.tree, leftPath, right.tree, rightPath)
                          ELSE MergeTrees(right.tree, rightPath, left.tree, leftPath)]
  <2>1. connecting' = connecting
    BY <1>4
  <2>2. leftPath' = leftPath /\ rightPath' = rightPath
    BY <2>1, Zenon DEF Predecessors
  <2>3. shaped' = shaped
    BY <2>2, Zenon
  <2> QED
    BY <1>2, <1>3, <1>6, <2>1, <2>2, <2>3, Zenon DEF EstimateFactorized
<1> QED
  BY <1>1, <1>7, <1>8 DEF MakeJoin

\* So the invariant may be shown of the new state's values with the query as it was.
LEMMA InvariantSteady ==
  ASSUME NEW P, NEW M, NEW S, NEW k, NEW T, NEW C,
         query' = query, algorithm' = algorithm,
         plans' = P, planMap' = M, sizes' = S, curSize' = k, todo' = T, candidates' = C,
         Inv(P, M, S, k, T, C)
  PROVE  Invariant'
<1> USE DEF Inv
<1>1. /\ Relations' = Relations /\ Factorized' = Factorized /\ QueryOK' = QueryOK
      /\ TreeCosts' = TreeCosts
      /\ \A left, right : HasJoinEdge(left, right)' <=> HasJoinEdge(left, right)
  BY QuerySteady
<1>2. \A l, r, mode : MakeJoin(plans, l, r, mode)' = MakeJoin(P, l, r, mode)
  BY MakeJoinSteady
<1>3. HeapInv(plans, curSize)'
  BY <1>1, <1>2 DEF HeapInv, IsPlan, IsSide, IsJoin
<1>4. MapInv(plans, planMap, curSize)'
  BY <1>1 DEF MapInv
<1>5. SizesInv(planMap, sizes)' /\ SizeInv(curSize)'
  BY <1>1 DEF SizesInv, SizeInv
<1>6. \A left, right : PairOf(planMap, curSize, left, right)' <=> PairOf(M, k, left, right)
  BY DEF PairOf
<1>7. TodoInv(planMap, curSize, todo)'
  BY <1>6 DEF TodoInv
<1>8. CandidatesInv(planMap, curSize, candidates)'
  BY <1>1, <1>6 DEF CandidatesInv, CandidateOf
<1>9. FlatInv(plans, planMap, curSize, todo)'
  BY <1>1, <1>2, <1>6 DEF FlatInv, Optimal, Bounded
<1>10. ParetoInv(plans, planMap)'
  BY <1>1 DEF ParetoInv
<1>11. FrontInv(plans, planMap, curSize, todo, candidates)'
  BY <1>1, <1>2, <1>6 DEF FrontInv, Beaten
<1> QED
  BY <1>1, <1>3, <1>4, <1>5, <1>7, <1>8, <1>9, <1>10, <1>11 DEF Invariant

-----------------------------------------------------------------------------
(* What the lists of the algorithms hold.                                  *)

\* The plan of a pointer.
LEMMA Pointed ==
  ASSUME NEW P, NEW M, NEW k, HeapInv(P, k), MapInv(P, M, k),
         NEW problem \in DOMAIN M, NEW p \in ToSet(M[problem])
  PROVE  p \in DOMAIN P /\ P[p].rels = problem /\ IsSide(P[p]) /\ IsPlan(P, k, P[p])
  BY DEF HeapInv, MapInv, IsPlan

\* Both sides of a pair are smaller than its problem.
LEMMA PairSides ==
  ASSUME QueryOK, NEW P, NEW M, NEW k \in Nat, MapInv(P, M, k),
         NEW left, NEW right, PairOf(M, k, left, right)
  PROVE  /\ left \in SUBSET Relations /\ right \in SUBSET Relations
         /\ left # {} /\ right # {} /\ left \cap right = {}
         /\ Cardinality(left) \in 1 .. k - 1 /\ Cardinality(right) \in 1 .. k - 1
         /\ IsList(M[left]) /\ IsList(M[right])
<1>1. /\ left \in SUBSET Relations /\ right \in SUBSET Relations
      /\ left # {} /\ right # {} /\ left \cap right = {}
      /\ Cardinality(left) + Cardinality(right) = k
      /\ IsList(M[left]) /\ IsList(M[right])
  BY DEF MapInv, PairOf
<1>2. Cardinality(left) \in Nat \ {0} /\ Cardinality(right) \in Nat \ {0}
  BY <1>1, OneRelation, RelationsFinite
<1>3. Cardinality(left) \in 1 .. k - 1 /\ Cardinality(right) \in 1 .. k - 1
  BY <1>1, <1>2
<1> QED
  BY <1>1, <1>3

LEMMA PairProblem ==
  ASSUME QueryOK, NEW P, NEW M, NEW k \in Nat, MapInv(P, M, k),
         NEW left, NEW right, PairOf(M, k, left, right)
  PROVE  /\ left \cup right \in SUBSET Relations /\ Cardinality(left \cup right) = k
         /\ IsProperSubset(left, left \cup right) /\ IsProperSubset(right, left \cup right)
<1>1. /\ left \in SUBSET Relations /\ right \in SUBSET Relations
      /\ left # {} /\ right # {} /\ left \cap right = {}
  BY PairSides
<1>2. Cardinality(left) + Cardinality(right) = k
  BY DEF PairOf
<1>3. left \cup right \in SUBSET Relations /\ Cardinality(left \cup right) = k
  BY <1>1, <1>2, DisjointSum
<1>4. IsProperSubset(left, left \cup right) /\ IsProperSubset(right, left \cup right)
  BY <1>1 DEF IsProperSubset
<1> QED
  BY <1>3, <1>4

\* The plan of a pair.
LEMMA PlanMade ==
  ASSUME QueryOK, NEW P, NEW M, NEW k \in Nat, HeapInv(P, k), MapInv(P, M, k),
         NEW left, NEW right, PairOf(M, k, left, right),
         NEW l \in ToSet(M[left]), NEW r \in ToSet(M[right]), NEW mode \in Modes
  PROVE  LET plan == MakeJoin(P, l, r, mode)
         IN  /\ IsPlan(P, k, plan) /\ IsSide(plan)
             /\ plan.rels = left \cup right /\ plan.left = l /\ plan.right = r
             /\ Cardinality(plan.rels) = k /\ k > 1
<1> DEFINE plan == MakeJoin(P, l, r, mode)
<1>1. /\ l \in DOMAIN P /\ P[l].rels = left /\ IsSide(P[l])
      /\ r \in DOMAIN P /\ P[r].rels = right /\ IsSide(P[r])
  BY Pointed DEF PairOf
<1>2. plan.rels = left \cup right /\ plan.left = l /\ plan.right = r
  BY <1>1, MakeJoinFields
<1>3. IsSide(plan)
  BY <1>1, MakeJoinSide
<1>4. /\ left # {} /\ Cardinality(left \cup right) = k /\ Cardinality(left) \in 1 .. k - 1
      /\ IsProperSubset(left, left \cup right) /\ IsProperSubset(right, left \cup right)
  <2>1. /\ left \in SUBSET Relations /\ right \in SUBSET Relations
        /\ left # {} /\ right # {} /\ left \cap right = {}
        /\ Cardinality(left) \in 1 .. k - 1 /\ Cardinality(right) \in 1 .. k - 1
        /\ IsList(M[left]) /\ IsList(M[right])
    BY PairSides, Zenon
  <2>2. /\ left \cup right \in SUBSET Relations /\ Cardinality(left \cup right) = k
        /\ IsProperSubset(left, left \cup right) /\ IsProperSubset(right, left \cup right)
    BY PairProblem, Zenon
  <2> QED
    BY <2>1, <2>2
<1>5. k > 1
  BY <1>4
<1>6. IsJoin(P, plan)
  BY <1>1, <1>2, <1>4 DEF IsJoin
<1> HIDE DEF plan
<1>7. IsPlan(P, k, plan)
  BY <1>2, <1>3, <1>4, <1>5, <1>6 DEF IsPlan
<1> QED
  BY <1>2, <1>3, <1>4, <1>5, <1>7 DEF plan

\* Candidates combine every plan of the left with every plan of the right side.
LEMMA CandidatesElements ==
  ASSUME NEW left, NEW right, IsList(planMap[left]), IsList(planMap[right])
  PROVE  /\ IsList(Candidates(left, right))
         /\ \A c \in ToSet(Candidates(left, right)) : CandidateOf(planMap, left, right, c)
         /\ \A l \in ToSet(planMap[left]), r \in ToSet(planMap[right]) :
              [l |-> l, r |-> r, mode |-> "TopInsert"] \in ToSet(Candidates(left, right))
<1> DEFINE L == planMap[left]
           R == planMap[right]
           modes == IF Cardinality(left \cup right) = 2 THEN <<"TopInsert">>
                    ELSE <<"TopInsert", "BottomInsert">>
           U == [l : ToSet(L), r : ToSet(R), mode : Modes]
           one(l, j) == [m \in DOMAIN modes |-> [l |-> l, r |-> R[j], mode |-> modes[m]]]
           rights(l) == [j \in DOMAIN R |-> one(l, j)]
           lefts == [i \in DOMAIN L |-> FlattenSeq(rights(L[i]))]
<1>1. Candidates(left, right) = FlattenSeq(lefts)
  BY DEF Candidates
<1>2. /\ modes \in Seq(Modes) /\ DOMAIN modes \in {1 .. 1, 1 .. 2} /\ modes[1] = "TopInsert"
      /\ \A m \in DOMAIN modes : modes[m] \in Modes
  <2>1. CASE Cardinality(left \cup right) = 2
    <3>1. modes = <<"TopInsert">> /\ DOMAIN <<"TopInsert">> = 1 .. 1
      BY <2>1
    <3> HIDE DEF modes
    <3> QED
      BY <3>1 DEF Modes
  <2>2. CASE Cardinality(left \cup right) # 2
    <3>1. modes = <<"TopInsert", "BottomInsert">> /\ DOMAIN modes = 1 .. 2
      BY <2>2
    <3> HIDE DEF modes
    <3> QED
      BY <3>1 DEF Modes
  <2> QED
    BY <2>1, <2>2
<1>3. /\ Len(L) \in Nat /\ DOMAIN L = 1 .. Len(L) /\ \A x : x \in ToSet(L) <=> \E i \in DOMAIN L : x = L[i]
      /\ Len(R) \in Nat /\ DOMAIN R = 1 .. Len(R) /\ \A x : x \in ToSet(R) <=> \E i \in DOMAIN R : x = R[i]
  BY ListFacts
<1> HIDE DEF modes
<1>4. \A l \in ToSet(L), j \in DOMAIN R : one(l, j) \in Seq(U)
  <2>1. ASSUME NEW l \in ToSet(L), NEW j \in DOMAIN R, NEW m \in DOMAIN modes
        PROVE  [l |-> l, r |-> R[j], mode |-> modes[m]] \in U
    BY <1>2, <1>3
  <2>2. ASSUME NEW l \in ToSet(L), NEW j \in DOMAIN R PROVE one(l, j) \in Seq(U)
    <3>1. \A m \in DOMAIN modes : [l |-> l, r |-> R[j], mode |-> modes[m]] \in U
      BY <2>1, <2>2
    <3> HIDE DEF U
    <3>2. one(l, j) \in [DOMAIN modes -> U]
      BY <3>1
    <3>3. \A n \in Nat : \A s \in [1 .. n -> U] : s \in Seq(U)
      OBVIOUS
    <3> HIDE DEF one
    <3> QED
      BY <1>2, <3>2, <3>3
  <2> QED
    BY <2>2
<1>5. ASSUME NEW l \in ToSet(L)
      PROVE  /\ rights(l) \in Seq(Seq(U)) /\ FlattenSeq(rights(l)) \in Seq(U)
             /\ \A x : x \in ToSet(FlattenSeq(rights(l))) <=>
                  \E j \in DOMAIN R : \E m \in DOMAIN modes : x = [l |-> l, r |-> R[j], mode |-> modes[m]]
  <2>1. rights(l) \in Seq(Seq(U))
    <3> HIDE DEF one, U
    <3> QED
      BY <1>3, <1>4
  <2>2. DOMAIN rights(l) = DOMAIN R /\ \A j \in DOMAIN R : rights(l)[j] = one(l, j)
    OBVIOUS
  <2>3. \A j : \A x : x \in ToSet(one(l, j)) <=>
          \E m \in DOMAIN modes : x = [l |-> l, r |-> R[j], mode |-> modes[m]]
    BY DEF ToSet
  <2> HIDE DEF rights, one
  <2>4. /\ FlattenSeq(rights(l)) \in Seq(U)
        /\ \A x : x \in ToSet(FlattenSeq(rights(l))) <=>
             \E j \in DOMAIN rights(l) : x \in ToSet(rights(l)[j])
    BY <2>1, FlattenElements
  <2> QED
    BY <2>1, <2>2, <2>3, <2>4
<1>6. lefts \in Seq(Seq(U)) /\ DOMAIN lefts = DOMAIN L
  <2> HIDE DEF U, rights
  <2>1. \A i \in DOMAIN L : FlattenSeq(rights(L[i])) \in Seq(U)
    BY <1>3, <1>5
  <2> QED
    BY <1>3, <2>1
<1>7. \A i \in DOMAIN L : lefts[i] = FlattenSeq(rights(L[i]))
  OBVIOUS
<1> HIDE DEF lefts, rights
<1>8. /\ FlattenSeq(lefts) \in Seq(U)
      /\ \A x : x \in ToSet(FlattenSeq(lefts)) <=> \E i \in DOMAIN lefts : x \in ToSet(lefts[i])
  BY <1>6, FlattenElements
<1>9. \A x : x \in ToSet(FlattenSeq(lefts)) <=>
        \E i \in DOMAIN L : \E j \in DOMAIN R : \E m \in DOMAIN modes :
          x = [l |-> L[i], r |-> R[j], mode |-> modes[m]]
  <2>1. \A i \in DOMAIN L : L[i] \in ToSet(L)
    BY <1>3
  <2> QED
    BY <1>5, <1>6, <1>7, <1>8, <2>1
<1>10. IsList(Candidates(left, right))
  BY <1>1, <1>8, SequencesAreLists
<1>11. ASSUME NEW c \in ToSet(Candidates(left, right))
       PROVE  CandidateOf(planMap, left, right, c)
  <2>1. PICK i \in DOMAIN L, j \in DOMAIN R, m \in DOMAIN modes :
          c = [l |-> L[i], r |-> R[j], mode |-> modes[m]]
    BY <1>1, <1>9
  <2>2. L[i] \in ToSet(L) /\ R[j] \in ToSet(R) /\ modes[m] \in Modes
    BY <1>2, <1>3
  <2> QED
    BY <2>1, <2>2 DEF CandidateOf
<1>12. ASSUME NEW l \in ToSet(L), NEW r \in ToSet(R)
       PROVE  [l |-> l, r |-> r, mode |-> "TopInsert"] \in ToSet(Candidates(left, right))
  <2>1. PICK i \in DOMAIN L, j \in DOMAIN R : l = L[i] /\ r = R[j]
    BY <1>3
  <2>2. 1 \in DOMAIN modes /\ modes[1] = "TopInsert"
    BY <1>2
  <2> QED
    BY <1>1, <1>9, <2>1, <2>2
<1> QED
  BY <1>10, <1>11, <1>12

\* The pairs of a size: all of them, and for the linear plans those with one
\* relation on the right.
LEMMA PairsElements ==
  ASSUME QueryOK, NEW k \in Nat, MapInv(plans, planMap, k), SizesInv(planMap, sizes),
         NEW size \in 2 .. Cardinality(Relations)
  PROVE  /\ IsList(Pairs(size))
         /\ \A t : t \in ToSet(Pairs(size)) <=>
              \E left, right : t = <<left, right>> /\ PairOf(planMap, size, left, right)
<1> DEFINE leftSizes == IF algorithm = "DPSize" THEN [i \in 1 .. (size - 1) |-> i] ELSE <<size - 1>>
           paired(left, right) == IF left \cap right = {} THEN << <<left, right>> >> ELSE <<>>
           rights(left, n) == [j \in DOMAIN sizes[size - n] |-> paired(left, sizes[size - n][j])]
           lefts(n) == [i \in DOMAIN sizes[n] |-> FlattenSeq(rights(sizes[n][i], n))]
           all == [i \in DOMAIN leftSizes |-> FlattenSeq(lefts(leftSizes[i]))]
           U == (DOMAIN planMap) \X (DOMAIN planMap)
           LeftSizes == IF algorithm = "DPSize" THEN 1 .. size - 1 ELSE {size - 1}
<1>1. Pairs(size) = FlattenSeq(all)
  BY DEF Pairs
<1>2. size \in Nat /\ LeftSizes \subseteq 1 .. size - 1 /\ \A n \in 1 .. size - 1 : size - n \in 1 .. size - 1
  OBVIOUS
<1>3. \A n \in 1 .. size - 1 : n \in Relations
  <2>1. PICK m \in Nat : Relations = 1 .. m
    BY DEF QueryOK
  <2>2. Cardinality(Relations) = m
    BY <2>1, FS_Interval
  <2> QED
    BY <2>1, <2>2
<1>4. \A n \in 1 .. size - 1 :
        /\ IsList(sizes[n]) /\ Len(sizes[n]) \in Nat /\ DOMAIN sizes[n] = 1 .. Len(sizes[n])
        /\ \A x : x \in DOMAIN planMap /\ Cardinality(x) = n <=> \E i \in DOMAIN sizes[n] : x = sizes[n][i]
  <2>1. ASSUME NEW n \in 1 .. size - 1
        PROVE  IsList(sizes[n]) /\ ToSet(sizes[n]) = {problem \in DOMAIN planMap : Cardinality(problem) = n}
    BY <1>3 DEF SizesInv
  <2> QED
    BY <2>1, ListFacts
<1>5. leftSizes \in Seq(Nat) /\ \A n : n \in LeftSizes <=> \E i \in DOMAIN leftSizes : n = leftSizes[i]
  <2>1. CASE algorithm = "DPSize"
    <3>1. leftSizes = [i \in 1 .. (size - 1) |-> i] /\ LeftSizes = 1 .. size - 1
      BY <2>1
    <3>2. size - 1 \in Nat
      BY <1>2
    <3>3. [i \in 1 .. (size - 1) |-> i] \in Seq(Nat)
      BY <3>2
    <3> QED
      BY <3>1, <3>3
  <2>2. CASE algorithm # "DPSize"
    <3>1. leftSizes = <<size - 1>> /\ LeftSizes = {size - 1} /\ size - 1 \in Nat
      BY <1>2, <2>2
    <3> QED
      BY <3>1
  <2> QED
    BY <2>1, <2>2
<1>6. \A left \in DOMAIN planMap, right \in DOMAIN planMap :
        /\ paired(left, right) \in Seq(U)
        /\ \A t : t \in ToSet(paired(left, right)) <=> t = <<left, right>> /\ left \cap right = {}
  <2>1. ASSUME NEW left \in DOMAIN planMap, NEW right \in DOMAIN planMap
        PROVE  /\ paired(left, right) \in Seq(U)
               /\ \A t : t \in ToSet(paired(left, right)) <=> t = <<left, right>> /\ left \cap right = {}
    <3>1. CASE left \cap right = {}
      <4>1. paired(left, right) = << <<left, right>> >> /\ <<left, right>> \in U
        BY <3>1
      <4> HIDE DEF U, paired
      <4> QED
        BY <3>1, <4>1 DEF ToSet
    <3>2. CASE left \cap right # {}
      <4>1. paired(left, right) = <<>>
        BY <3>2
      <4> HIDE DEF U, paired
      <4> QED
        BY <3>2, <4>1 DEF ToSet
    <3> QED
      BY <3>1, <3>2
  <2> QED
    BY <2>1
<1> HIDE DEF paired, U, leftSizes
<1>7. ASSUME NEW n \in 1 .. size - 1, NEW left \in DOMAIN planMap
      PROVE  /\ FlattenSeq(rights(left, n)) \in Seq(U)
             /\ \A t : t \in ToSet(FlattenSeq(rights(left, n))) <=>
                  \E right \in DOMAIN planMap :
                    t = <<left, right>> /\ left \cap right = {} /\ Cardinality(right) = size - n
  <2> DEFINE s == sizes[size - n]
  <2>1. /\ Len(s) \in Nat /\ DOMAIN s = 1 .. Len(s)
        /\ \A x : x \in DOMAIN planMap /\ Cardinality(x) = size - n <=> \E i \in DOMAIN s : x = s[i]
    BY <1>2, <1>4
  <2>2. rights(left, n) \in Seq(Seq(U)) /\ DOMAIN rights(left, n) = DOMAIN s
        /\ \A j \in DOMAIN s : rights(left, n)[j] = paired(left, s[j])
    <3> HIDE DEF s
    <3>1. rights(left, n) = [j \in DOMAIN s |-> paired(left, s[j])]
      BY DEF s
    <3> HIDE DEF rights
    <3>2. \A j \in DOMAIN s : paired(left, s[j]) \in Seq(U)
      BY <1>6, <2>1
    <3> QED
      BY <2>1, <3>1, <3>2
  <2> HIDE DEF s, rights
  <2>3. /\ FlattenSeq(rights(left, n)) \in Seq(U)
        /\ \A t : t \in ToSet(FlattenSeq(rights(left, n))) <=>
             \E j \in DOMAIN rights(left, n) : t \in ToSet(rights(left, n)[j])
    BY <2>2, FlattenElements
  <2>4. \A j \in DOMAIN s : s[j] \in DOMAIN planMap
    BY <2>1
  <2>5. \A j \in DOMAIN s : \A t : t \in ToSet(rights(left, n)[j]) <=>
          t = <<left, s[j]>> /\ left \cap s[j] = {}
    BY <1>6, <2>2, <2>4
  <2>6. \A t : t \in ToSet(FlattenSeq(rights(left, n))) <=>
          \E j \in DOMAIN s : t = <<left, s[j]>> /\ left \cap s[j] = {}
    BY <2>2, <2>3, <2>5
  <2> QED
    BY <2>1, <2>3, <2>6
<1>8. ASSUME NEW n \in 1 .. size - 1
      PROVE  /\ FlattenSeq(lefts(n)) \in Seq(U)
             /\ \A t : t \in ToSet(FlattenSeq(lefts(n))) <=>
                  \E left, right \in DOMAIN planMap :
                    /\ t = <<left, right>> /\ left \cap right = {}
                    /\ Cardinality(left) = n /\ Cardinality(right) = size - n
  <2> DEFINE s == sizes[n]
  <2>1. /\ Len(s) \in Nat /\ DOMAIN s = 1 .. Len(s)
        /\ \A x : x \in DOMAIN planMap /\ Cardinality(x) = n <=> \E i \in DOMAIN s : x = s[i]
    BY <1>4
  <2> HIDE DEF rights
  <2>2. lefts(n) \in Seq(Seq(U)) /\ DOMAIN lefts(n) = DOMAIN s
        /\ \A i \in DOMAIN s : lefts(n)[i] = FlattenSeq(rights(s[i], n))
    <3> HIDE DEF s
    <3>1. lefts(n) = [i \in DOMAIN s |-> FlattenSeq(rights(s[i], n))]
      BY DEF s
    <3> HIDE DEF lefts
    <3>2. \A i \in DOMAIN s : FlattenSeq(rights(s[i], n)) \in Seq(U)
      BY <1>7, <2>1
    <3> QED
      BY <2>1, <3>1, <3>2
  <2> HIDE DEF s, lefts
  <2>3. /\ FlattenSeq(lefts(n)) \in Seq(U)
        /\ \A t : t \in ToSet(FlattenSeq(lefts(n))) <=>
             \E i \in DOMAIN lefts(n) : t \in ToSet(lefts(n)[i])
    BY <2>2, FlattenElements
  <2>4. \A i \in DOMAIN s : s[i] \in DOMAIN planMap /\ Cardinality(s[i]) = n
    BY <2>1
  <2>5. \A i \in DOMAIN s : \A t : t \in ToSet(FlattenSeq(rights(s[i], n))) <=>
          \E right \in DOMAIN planMap :
            t = <<s[i], right>> /\ s[i] \cap right = {} /\ Cardinality(right) = size - n
    BY <1>7, <2>4
  <2> QED
    BY <2>1, <2>2, <2>3, <2>4, <2>5
<1> HIDE DEF lefts
<1>9. /\ FlattenSeq(all) \in Seq(U)
      /\ \A t : t \in ToSet(FlattenSeq(all)) <=>
           \E n \in LeftSizes : \E left, right \in DOMAIN planMap :
             /\ t = <<left, right>> /\ left \cap right = {}
             /\ Cardinality(left) = n /\ Cardinality(right) = size - n
  <2>1. Len(leftSizes) \in Nat /\ DOMAIN leftSizes = 1 .. Len(leftSizes)
        /\ \A i \in DOMAIN leftSizes : leftSizes[i] \in 1 .. size - 1
    BY <1>2, <1>5
  <2>2. all \in Seq(Seq(U)) /\ DOMAIN all = DOMAIN leftSizes
        /\ \A i \in DOMAIN leftSizes : all[i] = FlattenSeq(lefts(leftSizes[i]))
    <3>1. \A i \in DOMAIN leftSizes : FlattenSeq(lefts(leftSizes[i])) \in Seq(U)
      BY <1>8, <2>1
    <3> QED
      BY <2>1, <3>1
  <2> HIDE DEF all
  <2>3. /\ FlattenSeq(all) \in Seq(U)
        /\ \A t : t \in ToSet(FlattenSeq(all)) <=> \E i \in DOMAIN all : t \in ToSet(all[i])
    BY <2>2, FlattenElements
  <2> HIDE DEF LeftSizes
  <2>4. \A i \in DOMAIN leftSizes : \A t : t \in ToSet(FlattenSeq(lefts(leftSizes[i]))) <=>
          \E left, right \in DOMAIN planMap :
            /\ t = <<left, right>> /\ left \cap right = {}
            /\ Cardinality(left) = leftSizes[i] /\ Cardinality(right) = size - leftSizes[i]
    BY <1>8, <2>1
  <2> QED
    BY <1>5, <2>2, <2>3, <2>4
<1>10. \A left, right \in DOMAIN planMap :
         PairOf(planMap, size, left, right) <=>
           \E n \in LeftSizes : /\ left \cap right = {}
                                /\ Cardinality(left) = n /\ Cardinality(right) = size - n
  <2>1. ASSUME NEW left \in DOMAIN planMap, NEW right \in DOMAIN planMap
        PROVE  PairOf(planMap, size, left, right) <=>
                 \E n \in LeftSizes : /\ left \cap right = {}
                                      /\ Cardinality(left) = n /\ Cardinality(right) = size - n
    <3>1. left \in SUBSET Relations /\ right \in SUBSET Relations /\ left # {} /\ right # {}
      BY DEF MapInv
    <3>2. Cardinality(left) \in Nat \ {0} /\ Cardinality(right) \in Nat \ {0}
      BY <3>1, OneRelation, RelationsFinite
    <3> QED
      BY <1>2, <3>2 DEF PairOf
  <2> QED
    BY <2>1
<1> HIDE DEF all, LeftSizes
<1>11. IsList(Pairs(size))
  BY <1>1, <1>9, SequencesAreLists
<1>12. \A left, right : PairOf(planMap, size, left, right) => left \in DOMAIN planMap /\ right \in DOMAIN planMap
  BY DEF PairOf
<1> QED
  BY <1>1, <1>9, <1>10, <1>11, <1>12

-----------------------------------------------------------------------------
(* What the invariant says of a finished search.                           *)

LEMMA MinIs ==
  ASSUME NEW S \in SUBSET Nat, NEW m \in S, \A x \in S : m <= x
  PROVE  Min(S) = m
<1>1. PICK c \in S : c = Min(S) /\ \A x \in S : c <= x
  BY DEF Min
<1>2. c \in Nat /\ m \in Nat /\ c <= m /\ m <= c
  BY <1>1
<1> QED
  BY <1>1, <1>2

\* When its pairs are joined, a size is done.
LEMMA AllOptimal ==
  ASSUME NEW P, NEW M, NEW S, NEW k, NEW C, Inv(P, M, S, k, <<>>, C), ~Factorized,
         NEW problem \in SUBSET Relations, Cardinality(problem) <= k
  PROVE  Optimal(P, M, problem)
<1>1. /\ QueryOK /\ k \in Nat /\ HeapInv(P, k) /\ MapInv(P, M, k) /\ FlatInv(P, M, k, <<>>)
      /\ Cardinality(problem) \in Nat
  BY RelationsFinite DEF Inv, SizeInv
<1>2. CASE Cardinality(problem) < k
  BY <1>1, <1>2 DEF FlatInv
<1>3. CASE Cardinality(problem) = k
  <2> SUFFICES ASSUME NEW c \in TreeCosts[problem]
               PROVE  problem \in DOMAIN M /\ \A p \in ToSet(M[problem]) : P[p].cost <= c
    BY DEF Optimal
  <2>1. TreeCosts[problem] = CostsOf(TreeCosts, problem)
    BY <1>1, TreeCostsEquation
  <2>2. CASE Cardinality(problem) = 1
    <3>1. c = 0
      BY <2>1, <2>2 DEF CostsOf
    <3>2. problem \in DOMAIN M
      BY <1>1, <2>2, OneRelation DEF MapInv
    <3>3. ASSUME NEW p \in ToSet(M[problem]) PROVE P[p].cost <= c
      <4>1. P[p].rels = problem /\ IsPlan(P, k, P[p])
        BY <1>1, <3>2, Pointed
      <4>2. P[p].cost = 0
        BY <2>2, <4>1 DEF IsPlan
      <4> QED
        BY <3>1, <4>2
    <3> QED
      BY <3>2, <3>3
  <2>3. CASE Cardinality(problem) # 1
    <3> DEFINE e == ExecuteSemiJoinPlan(problem, problem)
    <3>1. PICK left \in Splits(problem) : c \in Sums(TreeCosts[left], TreeCosts[problem \ left], e)
      BY <2>1, <2>3 DEF CostsOf
    <3> DEFINE right == problem \ left
    <3>2. PICK a \in TreeCosts[left], b \in TreeCosts[right] : c = a + b + e
      <4> HIDE DEF e
      <4>1. \A A, B : c \in Sums(A, B, e) => \E a \in A, b \in B : c = a + b + e
        BY DEF Sums
      <4> QED
        BY <3>1, <4>1
    <3>3. /\ left \in SUBSET Relations /\ right \in SUBSET Relations
          /\ Cardinality(left) < Cardinality(problem) /\ Cardinality(right) < Cardinality(problem)
      BY <1>1, SplitsSmaller
    <3>4. /\ left \cup right = problem /\ left \cap right = {} /\ HasJoinEdge(left, right)
          /\ algorithm # "DPSize" => Cardinality(right) = 1
      BY DEF Splits
    <3> HIDE DEF right
    <3>5. Optimal(P, M, left) /\ Optimal(P, M, right)
      BY <1>1, <1>3, <3>3 DEF FlatInv
    <3>6. left \in DOMAIN M /\ \A p \in ToSet(M[left]) : P[p].cost <= a
      BY <3>2, <3>5 DEF Optimal
    <3>7. right \in DOMAIN M /\ \A p \in ToSet(M[right]) : P[p].cost <= b
      BY <3>2, <3>5 DEF Optimal
    <3>8. Cardinality(left) + Cardinality(right) = k
      BY <1>1, <1>3, <3>3, <3>4, DisjointSum
    <3>9. PairOf(M, k, left, right)
      BY <3>4, <3>6, <3>7, <3>8 DEF PairOf
    <3>10. Bounded(P, M, left, right)
      <4>1. <<left, right>> \notin ToSet(<<>>)
        BY DEF ToSet
      <4> QED
        BY <1>1, <3>4, <3>6, <3>7, <3>9, <4>1 DEF FlatInv
    <3>11. PICK l \in ToSet(M[left]) : TRUE
      <4>1. IsList(M[left]) /\ Len(M[left]) = 1
        BY <1>1, <3>6 DEF MapInv
      <4> QED
        BY <4>1, ListFacts
    <3>12. PICK r \in ToSet(M[right]) : TRUE
      <4>1. IsList(M[right]) /\ Len(M[right]) = 1
        BY <1>1, <3>7 DEF MapInv
      <4> QED
        BY <4>1, ListFacts
    <3>13. /\ P[l].rels = left /\ IsSide(P[l]) /\ P[r].rels = right /\ IsSide(P[r])
      BY <1>1, <3>6, <3>7, Pointed
    <3>14. MakeJoin(P, l, r, "TopInsert").rels = problem
      <4>1. MakeJoin(P, l, r, "TopInsert").rels = P[l].rels \cup P[r].rels
        BY MakeJoinFields
      <4> QED
        BY <3>4, <3>13, <4>1
    <3>15. MakeJoin(P, l, r, "TopInsert").cost = e + P[l].cost + P[r].cost
      BY <1>1, <3>13, <3>14, FlatCosts
    <3>16. ASSUME NEW p \in ToSet(M[problem]) PROVE P[p].cost <= c
      <4>1. P[p].cost <= MakeJoin(P, l, r, "TopInsert").cost
        BY <3>4, <3>10 DEF Bounded
      <4>2. problem \in DOMAIN M
        BY <3>4, <3>10 DEF Bounded
      <4>3. P[p].cost \in Nat
        BY <1>1, <4>2, Pointed DEF IsSide
      <4>4. P[l].cost \in Nat /\ P[r].cost \in Nat /\ P[l].cost <= a /\ P[r].cost <= b
        BY <3>6, <3>7, <3>13 DEF IsSide
      <4>5. a \in Nat /\ b \in Nat
        BY <1>1, <3>2, <3>3, TreeCostsNumbers
      <4>6. e \in Nat
        BY <1>1, OracleCounts
      <4> HIDE DEF e
      <4> QED
        BY <3>2, <3>15, <4>1, <4>3, <4>4, <4>5, <4>6
    <3> QED
      BY <3>4, <3>10, <3>16 DEF Bounded
  <2> QED
    BY <2>2, <2>3
<1> QED
  BY <1>1, <1>2, <1>3

\* A plan costs what the plans that it points to make it cost.
LEMMA InvariantCostsCurrent == Invariant => CostsCurrent
<1> SUFFICES ASSUME Invariant, NEW problem \in DOMAIN planMap, NEW p \in ToSet(planMap[problem]),
                    Cardinality(problem) > 1
             PROVE  plans[p] = MakeJoin(plans, plans[p].left, plans[p].right, plans[p].mode)
  BY DEF CostsCurrent
<1>1. HeapInv(plans, curSize) /\ MapInv(plans, planMap, curSize)
  BY DEF Invariant, Inv
<1>2. plans[p].rels = problem /\ IsPlan(plans, curSize, plans[p])
  BY <1>1, Pointed
<1>3. IsJoin(plans, plans[p])
  BY <1>2 DEF IsPlan
<1>4. PICK l, r, mode : plans[p] = MakeJoin(plans, l, r, mode)
  BY <1>3 DEF IsJoin
<1> QED
  BY <1>4, MakeJoinFields

LEMMA InvariantFlatOptimal == Invariant => FlatOptimal
<1> SUFFICES ASSUME Invariant, ~Factorized, Done,
                    NEW problem \in (SUBSET Relations) \ {{}}
             PROVE  IF TreeCosts[problem] = {} THEN problem \notin DOMAIN planMap
                    ELSE plans[planMap[problem][1]].cost = Min(TreeCosts[problem])
  BY DEF FlatOptimal
<1>1. /\ QueryOK /\ HeapInv(plans, curSize) /\ MapInv(plans, planMap, curSize)
      /\ FlatInv(plans, planMap, curSize, todo)
      /\ Inv(plans, planMap, sizes, curSize, <<>>, candidates)
  BY DEF Invariant, Inv, Done
<1>2. problem \in SUBSET Relations /\ Cardinality(problem) <= curSize
  BY <1>1, RelationsFinite DEF Done
<1>3. Optimal(plans, planMap, problem)
  BY <1>1, <1>2, AllOptimal
<1>4. ASSUME problem \in DOMAIN planMap
      PROVE  planMap[problem][1] \in ToSet(planMap[problem])
  <2>1. IsList(planMap[problem]) /\ Len(planMap[problem]) = 1
    BY <1>1, <1>4 DEF MapInv
  <2> QED
    BY <2>1, ListFacts
<1>5. ASSUME problem \in DOMAIN planMap
      PROVE  plans[planMap[problem][1]].cost \in TreeCosts[problem]
  BY <1>1, <1>4, <1>5 DEF FlatInv
<1>6. CASE TreeCosts[problem] = {}
  BY <1>5, <1>6
<1>7. CASE TreeCosts[problem] # {}
  <2>1. problem \in DOMAIN planMap
    BY <1>3, <1>7 DEF Optimal
  <2>2. \A c \in TreeCosts[problem] : plans[planMap[problem][1]].cost <= c
    BY <1>3, <1>4, <2>1 DEF Optimal
  <2>3. TreeCosts[problem] \in SUBSET Nat
    BY <1>1, <1>2, TreeCostsNumbers
  <2> QED
    BY <1>5, <1>7, <2>1, <2>2, <2>3, MinIs
<1> QED
  BY <1>6, <1>7

LEMMA InvariantParetoSets == Invariant => ParetoSets
  BY DEF Invariant, Inv, ParetoInv, ParetoSets, Compatible

LEMMA InvariantFrontIsCheapest == Invariant => FrontIsCheapest
<1> SUFFICES ASSUME Invariant, Factorized, Done, NEW r \in Relations,
                    NEW c \in ToSet(CandidatesFor(Relations, r))
             PROVE  NotWorse(plans[planMap[Relations][1]], Candidate(c))
  BY DEF FrontIsCheapest, NotWorse
<1>1. /\ QueryOK /\ HeapInv(plans, curSize) /\ MapInv(plans, planMap, curSize)
      /\ FrontInv(plans, planMap, curSize, todo, candidates)
      /\ todo = <<>> /\ candidates = <<>> /\ curSize = Cardinality(Relations)
  BY DEF Invariant, Inv, Done
<1> DEFINE left == Relations \ {r}
           right == {r}
<1>2. /\ left \in DOMAIN planMap /\ HasJoinEdge(left, right)
      /\ c \in ToSet(Candidates(left, right))
  <2>1. \A x : x \notin ToSet(<<>>)
    BY DEF ToSet
  <2> QED
    BY <2>1 DEF CandidatesFor
<1>3. right \in DOMAIN planMap
  BY <1>1 DEF MapInv
<1>4. left \cup right = Relations /\ left \cap right = {} /\ Cardinality(right) = 1
  BY FS_Singleton
<1> HIDE DEF left, right
<1>5. PairOf(planMap, curSize, left, right)
  <2>1. left \in SUBSET Relations /\ right \in SUBSET Relations
    BY <1>4
  <2> QED
    BY <1>1, <1>2, <1>3, <1>4, <2>1, DisjointSum DEF PairOf
<1>6. CandidateOf(planMap, left, right, c)
  <2>1. IsList(planMap[left]) /\ IsList(planMap[right])
    BY <1>1, <1>2, <1>3 DEF MapInv
  <2> QED
    BY <1>2, <2>1, CandidatesElements
<1>7. PICK l \in ToSet(planMap[left]), s \in ToSet(planMap[right]), mode \in Modes :
        c = [l |-> l, r |-> s, mode |-> mode]
  BY <1>6 DEF CandidateOf
<1>8. Beaten(plans, planMap, l, s)
  <2>1. \A x : x \notin ToSet(<<>>)
    BY DEF ToSet
  <2> QED
    BY <1>1, <1>2, <1>3, <1>4, <1>5, <2>1 DEF FrontInv
<1>9. planMap[Relations][1] \in ToSet(planMap[Relations])
  <2>1. IsList(planMap[Relations]) /\ planMap[Relations] # <<>>
    BY <1>1, <1>8 DEF MapInv, Beaten
  <2> QED
    BY <2>1, ListFacts
<1>10. NotWorse(plans[planMap[Relations][1]], MakeJoin(plans, l, s, "TopInsert"))
  BY <1>8, <1>9 DEF Beaten
<1>11. Candidate(c) = MakeJoin(plans, l, s, mode)
  BY <1>7 DEF Candidate
<1> QED
  BY <1>10, <1>11, ModeFree DEF NotWorse

-----------------------------------------------------------------------------
(* Steps.                                                                  *)

\* The first state: no algorithm has been called.
Idle ==
  /\ query = NoQuery /\ plans = <<>> /\ planMap = <<>> /\ sizes = <<>> /\ curSize = 0
  /\ todo = <<>> /\ candidates = <<>>

LEMMA IdleInvariant == Idle => Invariant
<1> SUFFICES ASSUME query = NoQuery, plans = <<>>, planMap = <<>>, sizes = <<>>, curSize = 0,
                    todo = <<>>, candidates = <<>>
             PROVE  Invariant
  BY DEF Idle
<1>1. Relations = {}
  BY DEF Relations, NoQuery
<1>2. IsList(<<>>) /\ DOMAIN <<>> = {} /\ ToSet(<<>>) = {}
  BY DEF IsList, ToSet
<1>3. Cardinality(Relations) = 0
  BY <1>1, FS_EmptySet
<1>4. QueryOK
  <2>1. 1 .. 0 = {}
    OBVIOUS
  <2> QED
    BY <1>1, <2>1 DEF QueryOK
<1>5. SizeInv(curSize)
  BY <1>1, <1>3 DEF SizeInv
<1>6. HeapInv(plans, curSize) /\ MapInv(plans, planMap, curSize) /\ SizesInv(planMap, sizes)
  BY <1>1, <1>2 DEF HeapInv, MapInv, SizesInv
<1>7. TodoInv(planMap, curSize, todo) /\ CandidatesInv(planMap, curSize, candidates)
  BY <1>2 DEF TodoInv, CandidatesInv
<1>8. FlatInv(plans, planMap, curSize, todo)
  <2>1. ASSUME NEW problem \in SUBSET Relations PROVE ~(Cardinality(problem) < curSize)
    <3>1. problem = {}
      BY <1>1
    <3>2. Cardinality(problem) = 0
      BY <3>1, FS_EmptySet
    <3> QED
      BY <3>2
  <2> QED
    BY <1>2, <2>1 DEF FlatInv
<1>9. ParetoInv(plans, planMap) /\ FrontInv(plans, planMap, curSize, todo, candidates)
  BY <1>2 DEF ParetoInv, FrontInv
<1> QED
  BY <1>4, <1>5, <1>6, <1>7, <1>8, <1>9 DEF Invariant, Inv

Started ==
  /\ QueryOK /\ query.classes \in Seq(SUBSET UNION {query.classes[r] : r \in Relations})
  /\ Relations # {}
  /\ plans = Prepared(query).plans /\ planMap = Prepared(query).planMap
  /\ sizes = Prepared(query).sizes /\ curSize = 1 /\ todo = <<>> /\ candidates = <<>>

\* A query with its base tables.
LEMMA StartedInvariant == Started => Invariant
<1> SUFFICES ASSUME Started PROVE Invariant
  OBVIOUS
<1> DEFINE n == Len(query.classes)
<1>1. n \in Nat /\ Relations = 1 .. n /\ n >= 1
  BY DEF Started, Relations
<1>2. /\ plans = [r \in 1 .. n |-> BaseTablePlan(r)]
      /\ planMap = [problem \in {{r} : r \in 1 .. n} |-> <<CHOOSE r \in 1 .. n : problem = {r}>>]
      /\ sizes = [size \in 1 .. n |-> IF size = 1 THEN [r \in 1 .. n |-> {r}] ELSE <<>>]
      /\ curSize = 1 /\ todo = <<>> /\ candidates = <<>>
  BY DEF Started, Prepared
<1> HIDE DEF n
<1>3. QueryOK
  BY DEF Started
<1>4. \A r : Cardinality({r}) = 1
  BY FS_Singleton
<1>5. IsList(<<>>) /\ ToSet(<<>>) = {}
  BY DEF IsList, ToSet
<1>6. DOMAIN planMap = {{r} : r \in 1 .. n} /\ \A r \in 1 .. n : planMap[{r}] = <<r>>
  <2>1. ASSUME NEW r \in 1 .. n PROVE (CHOOSE s \in 1 .. n : {r} = {s}) = r
    <3>1. \A s : {r} = {s} => s = r
      OBVIOUS
    <3> QED
      BY <3>1
  <2> QED
    BY <1>2, <2>1
<1>7. \A r : IsList(<<r>>) /\ Len(<<r>>) = 1 /\ ToSet(<<r>>) = {r}
  BY DEF IsList, ToSet
<1>8. /\ DOMAIN plans = 1 .. n
      /\ \A r \in 1 .. n : plans[r].rels = {r} /\ plans[r].cost = 0
                             /\ plans[r].previous = 0 /\ plans[r].current = 0
  BY <1>2 DEF BaseTablePlan
<1>9. SizeInv(curSize)
  <2>1. Cardinality(Relations) = n
    BY <1>1, FS_Interval
  <2> QED
    BY <1>1, <1>2, <2>1 DEF SizeInv
<1>10. HeapInv(plans, curSize)
  <2>1. IsList(plans)
    <3>1. plans \in [1 .. n -> ToSet(plans)]
      BY <1>2, <1>8 DEF ToSet
    <3> QED
      BY <1>1, <3>1 DEF IsList
  <2>2. ASSUME NEW r \in 1 .. n PROVE IsPlan(plans, curSize, plans[r])
    <3>1. IsSide(plans[r])
      BY <1>1, <1>8 DEF IsSide
    <3>2. plans[r].rels # {} /\ plans[r].cost = 0 /\ plans[r].rels = {r}
      BY <1>8
    <3>3. Cardinality(plans[r].rels) = 1
      BY <1>4, <3>2
    <3> QED
      BY <1>2, <3>1, <3>2, <3>3 DEF IsPlan
  <2> QED
    BY <1>8, <2>1, <2>2 DEF HeapInv
<1>11. MapInv(plans, planMap, curSize)
  <2>1. ASSUME NEW r \in 1 .. n
        PROVE  /\ {r} \in SUBSET Relations /\ {r} # {} /\ Cardinality({r}) <= curSize
               /\ IsList(planMap[{r}]) /\ Len(planMap[{r}]) = 1
               /\ \A p \in ToSet(planMap[{r}]) : p \in DOMAIN plans /\ plans[p].rels = {r}
    <3>1. {r} \in SUBSET Relations /\ {r} # {}
      BY <1>1
    <3>2. Cardinality({r}) <= curSize
      <4>1. Cardinality({r}) = 1 /\ curSize = 1
        BY <1>2, <1>4
      <4> QED
        BY <4>1
    <3>3. planMap[{r}] = <<r>>
      BY <1>6
    <3>4. IsList(planMap[{r}]) /\ Len(planMap[{r}]) = 1 /\ ToSet(planMap[{r}]) = {r}
      BY <1>7, <3>3
    <3> QED
      BY <1>8, <3>1, <3>2, <3>4
  <2> QED
    BY <1>1, <1>6, <2>1 DEF MapInv
<1>12. SizesInv(planMap, sizes)
  <2>1. DOMAIN sizes = Relations /\ IsList(sizes)
    <3>1. sizes \in [1 .. n -> ToSet(sizes)]
      BY <1>2 DEF ToSet
    <3> QED
      BY <1>1, <3>1 DEF IsList
  <2>2. ASSUME NEW i \in DOMAIN sizes
        PROVE  /\ IsList(sizes[i])
               /\ ToSet(sizes[i]) = {problem \in DOMAIN planMap : Cardinality(problem) = i}
    <3>1. CASE i = 1
      <4> DEFINE all == [r \in 1 .. n |-> {r}]
      <4>1. sizes[i] = all
        BY <1>1, <1>2, <3>1
      <4>2. ToSet(all) = {{r} : r \in 1 .. n}
        BY DEF ToSet
      <4>3. IsList(all)
        <5>1. all \in [1 .. n -> {{r} : r \in 1 .. n}]
          OBVIOUS
        <5> HIDE DEF all
        <5> QED
          BY <1>1, <4>2, <5>1 DEF IsList
      <4> HIDE DEF all
      <4>4. \A problem \in DOMAIN planMap : Cardinality(problem) = 1
        BY <1>4, <1>6
      <4> QED
        BY <1>6, <3>1, <4>1, <4>2, <4>3, <4>4
    <3>2. CASE i # 1
      <4>1. sizes[i] = <<>>
        BY <1>2, <2>1, <3>2, <1>1
      <4>2. \A problem \in DOMAIN planMap : Cardinality(problem) = 1
        BY <1>4, <1>6
      <4> QED
        BY <1>5, <3>2, <4>1, <4>2
    <3> QED
      BY <3>1, <3>2
  <2> QED
    BY <2>1, <2>2 DEF SizesInv
<1>13. TodoInv(planMap, curSize, todo) /\ CandidatesInv(planMap, curSize, candidates)
  BY <1>2, <1>5 DEF TodoInv, CandidatesInv
<1>14. \A left, right : ~PairOf(planMap, curSize, left, right)
  <2>1. \A problem \in DOMAIN planMap : Cardinality(problem) = 1
    BY <1>4, <1>6
  <2> QED
    BY <1>2, <2>1 DEF PairOf
<1>15. FlatInv(plans, planMap, curSize, todo)
  <2>1. ASSUME NEW r \in 1 .. n PROVE 0 \in TreeCosts[{r}]
    <3>1. {r} \in SUBSET Relations /\ CostsOf(TreeCosts, {r}) = {0}
      BY <1>1, <1>4 DEF CostsOf
    <3> QED
      BY <1>3, <3>1, TreeCostsEquation
  <2>2. ASSUME NEW problem \in DOMAIN planMap, NEW p \in ToSet(planMap[problem])
        PROVE  plans[p].cost \in TreeCosts[problem]
    <3>1. PICK r \in 1 .. n : problem = {r}
      BY <1>6
    <3>2. p = r
      BY <1>6, <1>7, <3>1
    <3> QED
      BY <1>8, <2>1, <3>1, <3>2
  <2>3. ASSUME NEW problem \in SUBSET Relations, Cardinality(problem) < curSize
        PROVE  Optimal(plans, planMap, problem)
    <3>1. problem = {} /\ Cardinality(problem) # 1
      BY <1>2, <1>3, <2>3, RelationsFinite, OneRelation
    <3>2. Splits(problem) = {}
      BY <3>1 DEF Splits
    <3>3. CostsOf(TreeCosts, problem) = {}
      BY <3>1, <3>2 DEF CostsOf
    <3>4. TreeCosts[problem] = {}
      BY <1>3, <3>3, TreeCostsEquation
    <3> QED
      BY <3>4 DEF Optimal
  <2> QED
    BY <1>14, <2>2, <2>3 DEF FlatInv
<1>16. ParetoInv(plans, planMap)
  <2>1. ASSUME NEW problem \in DOMAIN planMap, NEW p \in ToSet(planMap[problem]),
               NEW q \in ToSet(planMap[problem])
        PROVE  Compatible(plans[p], plans[q])
    <3>1. PICK r \in 1 .. n : problem = {r}
      BY <1>6
    <3>2. p = r /\ q = r
      BY <1>6, <1>7, <3>1
    <3> QED
      BY <3>2 DEF Compatible, ParetoBetter
  <2> QED
    BY <2>1 DEF ParetoInv
<1>17. FrontInv(plans, planMap, curSize, todo, candidates)
  BY <1>14 DEF FrontInv
<1> QED
  BY <1>3, <1>9, <1>10, <1>11, <1>12, <1>13, <1>15, <1>16, <1>17 DEF Invariant, Inv

\* The next size: what was joined is the best there is, and every pair is to be tried.
LEMMA NextSizeInvariant == Invariant /\ NextSize => Invariant'
<1> SUFFICES ASSUME Invariant, NextSize PROVE Invariant'
  OBVIOUS
<1> DEFINE k == curSize
           T == Pairs(k + 1)
<1>1. /\ todo = <<>> /\ candidates = <<>> /\ k < Cardinality(Relations)
      /\ curSize' = k + 1 /\ todo' = T
      /\ UNCHANGED <<query, algorithm, plans, planMap, sizes, candidates>>
  BY DEF NextSize
<1>2. /\ QueryOK /\ SizeInv(k) /\ HeapInv(plans, k) /\ MapInv(plans, planMap, k)
      /\ SizesInv(planMap, sizes) /\ FlatInv(plans, planMap, k, todo) /\ ParetoInv(plans, planMap)
      /\ Inv(plans, planMap, sizes, k, <<>>, candidates)
  BY <1>1 DEF Invariant, Inv
<1>3. Cardinality(Relations) \in Nat /\ k \in Nat
  BY <1>2, RelationsFinite DEF SizeInv
<1>4. k \in Nat \ {0} /\ k + 1 \in 2 .. Cardinality(Relations)
  <2>1. k # 0
    <3>1. CASE Relations = {}
      <4>1. Cardinality(Relations) = 0
        BY <3>1, FS_EmptySet
      <4> QED
        BY <1>1, <1>3, <4>1
    <3>2. CASE Relations # {}
      BY <1>2, <3>2 DEF SizeInv
    <3> QED
      BY <3>1, <3>2
  <2> HIDE DEF k
  <2> QED
    BY <1>1, <1>3, <2>1
<1> HIDE DEF k, T
<1>5. /\ IsList(T)
      /\ \A t : t \in ToSet(T) <=> \E left, right : t = <<left, right>> /\ PairOf(planMap, k + 1, left, right)
  BY <1>2, <1>3, <1>4, PairsElements DEF T
<1>6. SizeInv(k + 1)
  BY <1>2, <1>3, <1>4 DEF SizeInv
<1>7. HeapInv(plans, k + 1)
  <2>1. ASSUME NEW p \in DOMAIN plans PROVE IsPlan(plans, k + 1, plans[p])
    <3>1. IsPlan(plans, k, plans[p])
      BY <1>2 DEF HeapInv
    <3>2. Cardinality(plans[p].rels) \in Nat
      BY <1>2, <3>1, RelationsFinite DEF IsPlan, IsSide
    <3> QED
      BY <1>3, <3>1, <3>2 DEF IsPlan
  <2> QED
    BY <1>2, <2>1 DEF HeapInv
<1>8. MapInv(plans, planMap, k + 1)
  <2>1. ASSUME NEW problem \in DOMAIN planMap PROVE Cardinality(problem) <= k + 1
    <3>1. problem \in SUBSET Relations /\ Cardinality(problem) <= k
      BY <1>2 DEF MapInv
    <3>2. Cardinality(problem) \in Nat
      BY <1>2, <3>1, RelationsFinite
    <3> QED
      BY <1>3, <3>1, <3>2
  <2> QED
    BY <1>2, <2>1 DEF MapInv
<1>9. TodoInv(planMap, k + 1, T)
  BY <1>5 DEF TodoInv, PairOf
<1>10. CandidatesInv(planMap, k + 1, candidates)
  BY <1>1 DEF CandidatesInv, IsList, ToSet
<1>11. FlatInv(plans, planMap, k + 1, T)
  <2> SUFFICES ASSUME ~Factorized PROVE FlatInv(plans, planMap, k + 1, T)
    BY DEF FlatInv
  <2>1. ASSUME NEW problem \in SUBSET Relations, Cardinality(problem) < k + 1
        PROVE  Optimal(plans, planMap, problem)
    <3>1. Cardinality(problem) <= k
      BY <1>2, <1>3, <2>1, RelationsFinite
    <3> QED
      BY <1>2, <3>1, AllOptimal
  <2> QED
    BY <1>2, <1>5, <2>1 DEF FlatInv
<1>12. FrontInv(plans, planMap, k + 1, T, candidates)
  BY <1>5 DEF FrontInv
<1>13. Inv(plans, planMap, sizes, k + 1, T, candidates)
  BY <1>2, <1>6, <1>7, <1>8, <1>9, <1>10, <1>11, <1>12 DEF Inv
<1> QED
  BY <1>1, <1>13, InvariantSteady

-----------------------------------------------------------------------------
(***************************************************************************)
(* A change to one problem of the current size: other problems keep their  *)
(* lists, and other plans stay as they are.                                *)
(***************************************************************************)
Changes(P, M, Q, N, problem) ==
  /\ DOMAIN P \subseteq DOMAIN Q
  /\ \A p \in DOMAIN P : P[p].rels # problem => Q[p] = P[p]
  /\ DOMAIN N = DOMAIN M \cup {problem}
  /\ \A other \in DOMAIN M : other # problem => N[other] = M[other]

\* Such a change in a state of the search.
Step(P, M, Q, N, k, problem) ==
  /\ QueryOK /\ k \in Nat /\ k > 1 /\ HeapInv(P, k) /\ MapInv(P, M, k)
  /\ problem \in SUBSET Relations /\ Cardinality(problem) = k
  /\ Changes(P, M, Q, N, problem)

\* The list of the problem is as MapInv has it.
ListOf(Q, N, problem) ==
  /\ IsList(N[problem])
  /\ ~Factorized => Len(N[problem]) = 1
  /\ \A p \in ToSet(N[problem]) : p \in DOMAIN Q /\ Q[p].rels = problem

\* A pair keeps its lists and plans.
LEMMA PairsKept ==
  ASSUME NEW P, NEW M, NEW Q, NEW N, NEW k, NEW problem, Step(P, M, Q, N, k, problem)
  PROVE  /\ \A left, right : PairOf(N, k, left, right) <=> PairOf(M, k, left, right)
         /\ \A left, right : PairOf(M, k, left, right) =>
              /\ left # problem /\ right # problem
              /\ N[left] = M[left] /\ N[right] = M[right]
              /\ \A l \in ToSet(M[left]), r \in ToSet(M[right]) : \A mode :
                   MakeJoin(Q, l, r, mode) = MakeJoin(P, l, r, mode)
<1>0. /\ QueryOK /\ k \in Nat /\ k > 1 /\ HeapInv(P, k) /\ MapInv(P, M, k)
      /\ problem \in SUBSET Relations /\ Cardinality(problem) = k
      /\ Changes(P, M, Q, N, problem)
  BY DEF Step
<1> USE <1>0
<1>1. \A other \in DOMAIN N : other \in SUBSET Relations /\ (other = problem \/ other \in DOMAIN M)
                                /\ Cardinality(other) \in Nat \ {0}
  <2>1. ASSUME NEW other \in DOMAIN N
        PROVE  /\ other \in SUBSET Relations /\ (other = problem \/ other \in DOMAIN M)
               /\ Cardinality(other) \in Nat \ {0}
    <3>1. other \in SUBSET Relations /\ (other = problem \/ other \in DOMAIN M)
      BY DEF Changes, MapInv
    <3>2. CASE other = problem
      BY <3>1, <3>2
    <3>3. CASE other \in DOMAIN M
      <4>1. other # {}
        BY <3>3 DEF MapInv
      <4> QED
        BY <3>1, <4>1, OneRelation, RelationsFinite
    <3> QED
      BY <3>1, <3>2, <3>3
  <2> QED
    BY <2>1
<1>2. ASSUME NEW left, NEW right, PairOf(N, k, left, right)
      PROVE  left # problem /\ right # problem /\ PairOf(M, k, left, right)
  <2>1. /\ left \in DOMAIN N /\ right \in DOMAIN N /\ Cardinality(left) + Cardinality(right) = k
    BY <1>2 DEF PairOf
  <2>2. left # problem /\ right # problem
    BY <1>1, <2>1
  <2>3. left \in DOMAIN M /\ right \in DOMAIN M
    BY <1>1, <2>1, <2>2
  <2> QED
    BY <1>2, <2>2, <2>3 DEF PairOf
<1>3. ASSUME NEW left, NEW right, PairOf(M, k, left, right)
      PROVE  PairOf(N, k, left, right)
  BY <1>3 DEF PairOf, Changes
<1>4. ASSUME NEW left, NEW right, PairOf(M, k, left, right)
      PROVE  /\ left # problem /\ right # problem
             /\ N[left] = M[left] /\ N[right] = M[right]
             /\ \A l \in ToSet(M[left]), r \in ToSet(M[right]) : \A mode :
                  MakeJoin(Q, l, r, mode) = MakeJoin(P, l, r, mode)
  <2>1. left # problem /\ right # problem /\ left \in DOMAIN M /\ right \in DOMAIN M
    BY <1>2, <1>3, <1>4 DEF PairOf
  <2>2. N[left] = M[left] /\ N[right] = M[right]
    BY <2>1 DEF Changes
  <2>3. ASSUME NEW l \in ToSet(M[left]), NEW r \in ToSet(M[right]), NEW mode
        PROVE  MakeJoin(Q, l, r, mode) = MakeJoin(P, l, r, mode)
    <3>1. l \in DOMAIN P /\ P[l].rels = left /\ r \in DOMAIN P /\ P[r].rels = right
      BY <2>1, Pointed
    <3>2. Q[l] = P[l] /\ Q[r] = P[r]
      BY <2>1, <3>1 DEF Changes
    <3> QED
      BY <3>2, MakeJoinLocal
  <2> QED
    BY <2>1, <2>2, <2>3
<1> QED
  BY <1>2, <1>3, <1>4

LEMMA ListsKept ==
  ASSUME NEW P, NEW M, NEW Q, NEW N, NEW k, NEW problem, Step(P, M, Q, N, k, problem),
         ListOf(Q, N, problem)
  PROVE  /\ MapInv(Q, N, k)
         /\ \A T : TodoInv(M, k, T) => TodoInv(N, k, T)
         /\ \A C : CandidatesInv(M, k, C) => CandidatesInv(N, k, C)
<1>0. /\ QueryOK /\ k \in Nat /\ k > 1 /\ HeapInv(P, k) /\ MapInv(P, M, k)
      /\ problem \in SUBSET Relations /\ Cardinality(problem) = k
      /\ Changes(P, M, Q, N, problem)
  BY DEF Step
<1> USE <1>0
<1>1. /\ \A left, right : PairOf(N, k, left, right) <=> PairOf(M, k, left, right)
      /\ \A left, right : PairOf(M, k, left, right) => N[left] = M[left] /\ N[right] = M[right]
  <2>1. /\ \A left, right : PairOf(N, k, left, right) <=> PairOf(M, k, left, right)
        /\ \A left, right : PairOf(M, k, left, right) =>
             /\ left # problem /\ right # problem
             /\ N[left] = M[left] /\ N[right] = M[right]
             /\ \A l \in ToSet(M[left]), r \in ToSet(M[right]) : \A mode :
                  MakeJoin(Q, l, r, mode) = MakeJoin(P, l, r, mode)
    BY PairsKept
  <2> QED
    BY <2>1
<1>2. DOMAIN N = DOMAIN M \cup {problem}
  BY DEF Changes
<1>3. MapInv(Q, N, k)
  <2>1. ASSUME NEW other \in DOMAIN N
        PROVE  /\ other \in SUBSET Relations /\ other # {} /\ Cardinality(other) <= k
               /\ IsList(N[other])
               /\ ~Factorized \/ Cardinality(other) = 1 => Len(N[other]) = 1
               /\ \A p \in ToSet(N[other]) : p \in DOMAIN Q /\ Q[p].rels = other
    <3>1. CASE other = problem
      <4>1. problem # {}
        BY OneRelation
      <4> QED
        BY <3>1, <4>1 DEF ListOf
    <3>2. CASE other # problem
      <4>1. other \in DOMAIN M /\ N[other] = M[other]
        BY <1>2, <3>2 DEF Changes
      <4>2. ASSUME NEW p \in ToSet(M[other]) PROVE p \in DOMAIN Q /\ Q[p].rels = other
        <5>1. p \in DOMAIN P /\ P[p].rels = other
          BY <4>1, Pointed
        <5> QED
          BY <3>2, <5>1 DEF Changes
      <4> QED
        BY <4>1, <4>2 DEF MapInv
    <3> QED
      BY <3>1, <3>2
  <2> QED
    BY <1>2, <2>1 DEF MapInv
<1>4. ASSUME NEW T, TodoInv(M, k, T) PROVE TodoInv(N, k, T)
  BY <1>1, <1>2, <1>4 DEF TodoInv
<1>5. ASSUME NEW C, CandidatesInv(M, k, C) PROVE CandidatesInv(N, k, C)
  <2>1. ASSUME NEW c \in ToSet(C)
        PROVE  /\ Factorized
               /\ \E left, right \in DOMAIN N :
                    /\ PairOf(N, k, left, right) /\ left \cup right \in DOMAIN N
                    /\ CandidateOf(N, left, right, c)
    <3>1. Factorized
      BY <1>5, <2>1 DEF CandidatesInv
    <3>2. PICK left \in DOMAIN M, right \in DOMAIN M :
            /\ PairOf(M, k, left, right) /\ left \cup right \in DOMAIN M
            /\ CandidateOf(M, left, right, c)
      BY <1>5, <2>1 DEF CandidatesInv
    <3>3. CandidateOf(N, left, right, c)
      BY <1>1, <3>2 DEF CandidateOf
    <3> QED
      BY <1>1, <1>2, <3>1, <3>2, <3>3
  <2> QED
    BY <1>5, <2>1 DEF CandidatesInv
<1> QED
  BY <1>3, <1>4, <1>5

\* The problem is listed by its size when it is new.
LEMMA SizesKept ==
  ASSUME QueryOK, NEW M, NEW N, NEW S, NEW k \in Nat, k >= 1, k <= Cardinality(Relations),
         SizesInv(M, S), NEW problem \in SUBSET Relations, Cardinality(problem) = k,
         DOMAIN N = DOMAIN M \cup {problem}
  PROVE  SizesInv(N, IF problem \in DOMAIN M THEN S ELSE [S EXCEPT ![k] = Append(@, problem)])
<1>1. CASE problem \in DOMAIN M
  <2>1. DOMAIN N = DOMAIN M
    BY <1>1
  <2> QED
    BY <1>1, <2>1 DEF SizesInv
<1>2. CASE problem \notin DOMAIN M
  <2> DEFINE R == [S EXCEPT ![k] = Append(@, problem)]
  <2>1. IsList(S) /\ DOMAIN S = Relations /\ k \in Relations
    <3>1. PICK m \in Nat : Relations = 1 .. m
      BY DEF QueryOK
    <3>2. Cardinality(Relations) = m
      BY <3>1, FS_Interval
    <3> QED
      BY <3>1, <3>2 DEF SizesInv
  <2>2. /\ DOMAIN R = Relations
        /\ R[k] = Append(S[k], problem)
        /\ \A i \in Relations : i # k => R[i] = S[i]
    BY <2>1
  <2>3. IsList(R)
    <3>1. Len(S) \in Nat /\ Relations = 1 .. Len(S)
      BY <2>1, ListFacts
    <3>2. R \in [1 .. Len(S) -> ToSet(R)]
      BY <2>2, <3>1 DEF ToSet
    <3> HIDE DEF R
    <3> QED
      BY <3>1, <3>2 DEF IsList
  <2> HIDE DEF R
  <2>4. ASSUME NEW i \in DOMAIN R
        PROVE  IsList(R[i]) /\ ToSet(R[i]) = {other \in DOMAIN N : Cardinality(other) = i}
    <3>1. IsList(S[i]) /\ ToSet(S[i]) = {other \in DOMAIN M : Cardinality(other) = i}
      BY <2>1, <2>2 DEF SizesInv
    <3>2. CASE i = k
      <4>1. IsList(R[i]) /\ ToSet(R[i]) = ToSet(S[i]) \cup {problem}
        <5>1. R[i] = Append(S[k], problem) /\ IsList(S[k])
          BY <2>2, <3>1, <3>2
        <5>2. IsList(Append(S[k], problem)) /\ ToSet(Append(S[k], problem)) = ToSet(S[k]) \cup {problem}
          BY <5>1, AppendList
        <5> QED
          BY <3>2, <5>1, <5>2
      <4> QED
        BY <3>1, <3>2, <4>1
    <3>3. CASE i # k
      <4>1. R[i] = S[i]
        BY <2>2, <3>3
      <4> QED
        BY <3>1, <3>3, <4>1
    <3> QED
      BY <3>2, <3>3
  <2>5. SizesInv(N, R)
    BY <2>1, <2>2, <2>3, <2>4 DEF SizesInv
  <2> QED
    BY <1>2, <2>5 DEF R
<1> QED
  BY <1>1, <1>2

\* The costs of the problem are those of join trees, and no higher than before.
LEMMA FlatKept ==
  ASSUME NEW P, NEW M, NEW Q, NEW N, NEW k, NEW problem, Step(P, M, Q, N, k, problem),
         HeapInv(Q, k), ListOf(Q, N, problem), NEW T, FlatInv(P, M, k, T),
         ~Factorized => /\ \A p \in ToSet(N[problem]) : Q[p].cost \in TreeCosts[problem]
                        /\ problem \in DOMAIN M =>
                             \A p \in ToSet(N[problem]), q \in ToSet(M[problem]) : Q[p].cost <= P[q].cost
  PROVE  FlatInv(Q, N, k, T)
<1> SUFFICES ASSUME ~Factorized PROVE FlatInv(Q, N, k, T)
  BY DEF FlatInv
<1>0. /\ QueryOK /\ k \in Nat /\ k > 1 /\ HeapInv(P, k) /\ MapInv(P, M, k)
      /\ problem \in SUBSET Relations /\ Cardinality(problem) = k
      /\ Changes(P, M, Q, N, problem)
  BY DEF Step
<1> USE <1>0
<1>1. DOMAIN N = DOMAIN M \cup {problem} /\ MapInv(Q, N, k)
  BY ListsKept DEF Changes
<1>2. /\ \A left, right : PairOf(N, k, left, right) <=> PairOf(M, k, left, right)
      /\ \A left, right : PairOf(M, k, left, right) =>
           /\ left # problem /\ right # problem
           /\ N[left] = M[left] /\ N[right] = M[right]
           /\ \A l \in ToSet(M[left]), r \in ToSet(M[right]) : \A mode :
                MakeJoin(Q, l, r, mode) = MakeJoin(P, l, r, mode)
  BY PairsKept
<1>3. ASSUME NEW other \in DOMAIN M, other # problem
      PROVE  N[other] = M[other] /\ \A p \in ToSet(M[other]) : Q[p] = P[p]
  <2>1. ASSUME NEW p \in ToSet(M[other]) PROVE Q[p] = P[p]
    <3>1. p \in DOMAIN P /\ P[p].rels = other
      BY Pointed
    <3> QED
      BY <1>3, <3>1 DEF Changes
  <2> QED
    BY <1>3, <2>1 DEF Changes
<1>4. ASSUME NEW other \in DOMAIN N, NEW p \in ToSet(N[other])
      PROVE  Q[p].cost \in TreeCosts[other]
  <2>1. CASE other = problem
    BY <1>4, <2>1
  <2>2. CASE other # problem
    <3>1. other \in DOMAIN M /\ N[other] = M[other] /\ Q[p] = P[p]
      BY <1>1, <1>3, <1>4, <2>2
    <3> QED
      BY <1>4, <3>1 DEF FlatInv
  <2> QED
    BY <2>1, <2>2
<1>5. ASSUME NEW other \in SUBSET Relations, Cardinality(other) < k
      PROVE  Optimal(Q, N, other)
  <2>1. Optimal(P, M, other) /\ other # problem
    BY <1>5 DEF FlatInv
  <2> QED
    BY <1>1, <1>3, <2>1 DEF Optimal
<1>6. ASSUME NEW left \in DOMAIN N, NEW right \in DOMAIN N, PairOf(N, k, left, right),
             HasJoinEdge(left, right), <<left, right>> \notin ToSet(T)
      PROVE  Bounded(Q, N, left, right)
  <2>1. PairOf(M, k, left, right) /\ left \in DOMAIN M /\ right \in DOMAIN M
    BY <1>2, <1>6 DEF PairOf
  <2>2. Bounded(P, M, left, right)
    BY <1>6, <2>1 DEF FlatInv
  <2> SUFFICES ASSUME NEW p \in ToSet(N[left \cup right]), NEW l \in ToSet(N[left]), NEW r \in ToSet(N[right])
               PROVE  Q[p].cost <= MakeJoin(Q, l, r, "TopInsert").cost
    BY <1>1, <2>2 DEF Bounded
  <2>3. /\ l \in ToSet(M[left]) /\ r \in ToSet(M[right])
        /\ MakeJoin(Q, l, r, "TopInsert") = MakeJoin(P, l, r, "TopInsert")
    BY <1>2, <2>1
  <2>4. left \cup right \in DOMAIN M
    BY <2>2 DEF Bounded
  <2>5. CASE left \cup right # problem
    <3>1. p \in ToSet(M[left \cup right]) /\ Q[p] = P[p]
      BY <1>3, <2>4, <2>5
    <3> QED
      BY <2>2, <2>3, <3>1 DEF Bounded
  <2>6. CASE left \cup right = problem
    <3>1. PICK q \in ToSet(M[problem]) : TRUE
      <4>1. IsList(M[problem]) /\ Len(M[problem]) = 1
        BY <2>4, <2>6 DEF MapInv
      <4> QED
        BY <4>1, ListFacts
    <3>2. Q[p].cost <= P[q].cost
      BY <2>4, <2>6, <3>1
    <3>3. P[q].cost <= MakeJoin(P, l, r, "TopInsert").cost
      BY <2>2, <2>3, <2>6, <3>1 DEF Bounded
    <3>4. P[q].cost \in Nat
      BY <2>4, <2>6, Pointed DEF IsSide
    <3>5. Q[p].cost \in Nat
      <4>1. p \in DOMAIN Q
        BY <2>6 DEF ListOf
      <4> QED
        BY <4>1 DEF HeapInv, IsPlan, IsSide
    <3>6. MakeJoin(P, l, r, "TopInsert").cost \in Nat
      <4>1. "TopInsert" \in Modes
        BY DEF Modes
      <4> QED
        BY <2>1, <2>3, <4>1, PlanMade DEF IsSide
    <3> QED
      BY <2>3, <3>2, <3>3, <3>4, <3>5, <3>6
  <2> QED
    BY <2>5, <2>6
<1> QED
  BY <1>4, <1>5, <1>6 DEF FlatInv

\* The plans that are kept for the problem are compatible with each other.
LEMMA ParetoKept ==
  ASSUME NEW P, NEW M, NEW Q, NEW N, NEW k, NEW problem, Step(P, M, Q, N, k, problem),
         ParetoInv(P, M),
         Factorized => \A p, q \in ToSet(N[problem]) : Compatible(Q[p], Q[q])
  PROVE  ParetoInv(Q, N)
<1> SUFFICES ASSUME Factorized, NEW other \in DOMAIN N,
                    NEW p \in ToSet(N[other]), NEW q \in ToSet(N[other])
             PROVE  Compatible(Q[p], Q[q])
  BY DEF ParetoInv
<1>1. CASE other = problem
  BY <1>1
<1>2. CASE other # problem
  <2>1. /\ HeapInv(P, k) /\ MapInv(P, M, k) /\ Changes(P, M, Q, N, problem)
    BY DEF Step
  <2>2. other \in DOMAIN M /\ N[other] = M[other]
    BY <1>2, <2>1 DEF Changes
  <2>3. Q[p] = P[p] /\ Q[q] = P[q]
    <3>1. p \in DOMAIN P /\ P[p].rels = other /\ q \in DOMAIN P /\ P[q].rels = other
      BY <2>1, <2>2, Pointed
    <3> QED
      BY <1>2, <2>1, <3>1 DEF Changes
  <2> QED
    BY <2>2, <2>3 DEF ParetoInv
<1> QED
  BY <1>1, <1>2

LEMMA NotWorseTransitive ==
  ASSUME NEW a, NEW b, NEW c, IsSide(a), IsSide(b), IsSide(c), NotWorse(a, b), NotWorse(b, c)
  PROVE  NotWorse(a, c)
  BY DEF IsSide, NotWorse

\* The plans of the whole query are no worse than those it had.
LEMMA FrontKept ==
  ASSUME NEW P, NEW M, NEW Q, NEW N, NEW k, NEW problem, Step(P, M, Q, N, k, problem),
         HeapInv(Q, k), ListOf(Q, N, problem), NEW T, NEW C, FrontInv(P, M, k, T, C),
         Factorized /\ problem = Relations /\ Relations \in DOMAIN M /\ M[Relations] # <<>> =>
           /\ N[Relations] # <<>>
           /\ \A p \in ToSet(N[Relations]) : \E q \in ToSet(M[Relations]) : NotWorse(Q[p], P[q])
  PROVE  FrontInv(Q, N, k, T, C)
<1>0. /\ QueryOK /\ k \in Nat /\ k > 1 /\ HeapInv(P, k) /\ MapInv(P, M, k)
      /\ Changes(P, M, Q, N, problem)
  BY DEF Step
<1>1. /\ \A left, right : PairOf(N, k, left, right) <=> PairOf(M, k, left, right)
      /\ \A left, right : PairOf(M, k, left, right) =>
           /\ left # problem /\ right # problem
           /\ N[left] = M[left] /\ N[right] = M[right]
           /\ \A l \in ToSet(M[left]), r \in ToSet(M[right]) : \A mode :
                MakeJoin(Q, l, r, mode) = MakeJoin(P, l, r, mode)
  BY PairsKept
<1> SUFFICES ASSUME Factorized, NEW left \in DOMAIN N, NEW right \in DOMAIN N, PairOf(N, k, left, right),
                    left \cup right = Relations, HasJoinEdge(left, right),
                    <<left, right>> \notin ToSet(T),
                    NEW l \in ToSet(N[left]), NEW r \in ToSet(N[right]),
                    ~ \E mode \in Modes : [l |-> l, r |-> r, mode |-> mode] \in ToSet(C)
             PROVE  Beaten(Q, N, l, r)
  BY DEF FrontInv
<1>2. /\ PairOf(M, k, left, right) /\ left \in DOMAIN M /\ right \in DOMAIN M
      /\ l \in ToSet(M[left]) /\ r \in ToSet(M[right])
  BY <1>1 DEF PairOf
<1>3. MakeJoin(Q, l, r, "TopInsert") = MakeJoin(P, l, r, "TopInsert")
  BY <1>1, <1>2
<1>4. Beaten(P, M, l, r)
  BY <1>2 DEF FrontInv
<1>5. Relations \in DOMAIN M /\ M[Relations] # <<>>
  BY <1>4 DEF Beaten
<1>6. IsSide(MakeJoin(P, l, r, "TopInsert"))
  <2>1. "TopInsert" \in Modes
    BY DEF Modes
  <2> QED
    BY <1>0, <1>2, <2>1, PlanMade
<1>7. Relations \in DOMAIN N
  BY <1>0, <1>5 DEF Changes
<1>8. CASE problem = Relations
  <2>1. ASSUME NEW p \in ToSet(N[Relations])
        PROVE  NotWorse(Q[p], MakeJoin(Q, l, r, "TopInsert"))
    <3>1. PICK q \in ToSet(M[Relations]) : NotWorse(Q[p], P[q])
      BY <1>5, <1>8
    <3>2. NotWorse(P[q], MakeJoin(P, l, r, "TopInsert"))
      BY <1>4 DEF Beaten
    <3>3. IsSide(P[q])
      BY <1>0, <1>5, Pointed
    <3>4. IsSide(Q[p])
      <4>1. p \in DOMAIN Q
        BY <1>8 DEF ListOf
      <4> QED
        BY <4>1 DEF HeapInv, IsPlan
    <3>5. NotWorse(Q[p], MakeJoin(P, l, r, "TopInsert"))
      BY <1>6, <3>1, <3>2, <3>3, <3>4, NotWorseTransitive
    <3> QED
      BY <1>3, <3>5
  <2> QED
    BY <1>5, <1>7, <1>8, <2>1 DEF Beaten
<1>9. CASE problem # Relations
  <2>1. N[Relations] = M[Relations]
    BY <1>0, <1>5, <1>9 DEF Changes
  <2>2. ASSUME NEW p \in ToSet(M[Relations]) PROVE Q[p] = P[p]
    <3>1. p \in DOMAIN P /\ P[p].rels = Relations
      BY <1>0, <1>5, Pointed
    <3> QED
      BY <1>0, <1>9, <3>1 DEF Changes
  <2> QED
    BY <1>3, <1>4, <1>7, <2>1, <2>2 DEF Beaten
<1> QED
  BY <1>8, <1>9

\* The plan of a pair that has been joined, or a candidate that has been tried,
\* need not be listed any longer.
LEMMA TodoTail ==
  ASSUME NEW M, NEW k, NEW T, TodoInv(M, k, T), T # <<>>
  PROVE  /\ TodoInv(M, k, Tail(T))
         /\ \E left, right \in DOMAIN M : Head(T) = <<left, right>> /\ PairOf(M, k, left, right)
         /\ \A t \in ToSet(T) : t = Head(T) \/ t \in ToSet(Tail(T))
<1>1. IsList(T)
  BY DEF TodoInv
<1>2. IsList(Tail(T)) /\ Head(T) \in ToSet(T) /\ ToSet(T) = ToSet(Tail(T)) \cup {Head(T)}
  BY <1>1, TailList
<1> QED
  BY <1>2 DEF TodoInv

LEMMA CandidatesTail ==
  ASSUME NEW M, NEW k, NEW C, CandidatesInv(M, k, C), C # <<>>
  PROVE  /\ CandidatesInv(M, k, Tail(C)) /\ Factorized
         /\ \E left, right \in DOMAIN M :
              /\ PairOf(M, k, left, right) /\ left \cup right \in DOMAIN M
              /\ CandidateOf(M, left, right, Head(C))
         /\ \A c \in ToSet(C) : c = Head(C) \/ c \in ToSet(Tail(C))
<1>1. IsList(C)
  BY DEF CandidatesInv
<1>2. IsList(Tail(C)) /\ Head(C) \in ToSet(C) /\ ToSet(C) = ToSet(Tail(C)) \cup {Head(C)}
  BY <1>1, TailList
<1> QED
  BY <1>2 DEF CandidatesInv

LEMMA FlatTail ==
  ASSUME NEW P, NEW M, NEW k, NEW T, FlatInv(P, M, k, T), NEW left, NEW right,
         \A t \in ToSet(T) : t = <<left, right>> \/ t \in ToSet(Tail(T)),
         ~Factorized /\ HasJoinEdge(left, right) => Bounded(P, M, left, right)
  PROVE  FlatInv(P, M, k, Tail(T))
<1> SUFFICES ASSUME ~Factorized PROVE FlatInv(P, M, k, Tail(T))
  BY DEF FlatInv
<1>1. ASSUME NEW a \in DOMAIN M, NEW b \in DOMAIN M, PairOf(M, k, a, b), HasJoinEdge(a, b),
             <<a, b>> \notin ToSet(Tail(T))
      PROVE  Bounded(P, M, a, b)
  <2>1. CASE <<a, b>> = <<left, right>>
    <3>1. a = left /\ b = right
      BY <2>1
    <3> QED
      BY <1>1, <3>1
  <2>2. CASE <<a, b>> # <<left, right>>
    <3>1. <<a, b>> \notin ToSet(T)
      BY <1>1, <2>2
    <3> QED
      BY <1>1, <3>1 DEF FlatInv
  <2> QED
    BY <2>1, <2>2
<1> QED
  BY <1>1 DEF FlatInv

LEMMA FrontTail ==
  ASSUME NEW P, NEW M, NEW k, HeapInv(P, k), MapInv(P, M, k), NEW T, NEW C, FrontInv(P, M, k, T, C),
         C # <<>>, \A c \in ToSet(C) : c = Head(C) \/ c \in ToSet(Tail(C)),
         NEW left \in DOMAIN M, NEW right \in DOMAIN M, CandidateOf(M, left, right, Head(C)),
         Factorized /\ left \cup right = Relations => Beaten(P, M, Head(C).l, Head(C).r)
  PROVE  FrontInv(P, M, k, T, Tail(C))
<1> SUFFICES ASSUME Factorized, NEW a \in DOMAIN M, NEW b \in DOMAIN M, PairOf(M, k, a, b),
                    a \cup b = Relations, HasJoinEdge(a, b), <<a, b>> \notin ToSet(T),
                    NEW l \in ToSet(M[a]), NEW r \in ToSet(M[b]),
                    ~ \E mode \in Modes : [l |-> l, r |-> r, mode |-> mode] \in ToSet(Tail(C))
             PROVE  Beaten(P, M, l, r)
  BY DEF FrontInv
<1>1. CASE \E mode \in Modes : [l |-> l, r |-> r, mode |-> mode] \in ToSet(C)
  <2>1. PICK mode \in Modes : [l |-> l, r |-> r, mode |-> mode] = Head(C)
    BY <1>1
  <2>2. PICK s \in ToSet(M[left]), t \in ToSet(M[right]), other \in Modes :
          Head(C) = [l |-> s, r |-> t, mode |-> other]
    BY DEF CandidateOf
  <2>3. l = s /\ r = t /\ Head(C).l = l /\ Head(C).r = r
    BY <2>1, <2>2
  <2>4. P[l].rels = a /\ P[l].rels = left /\ P[r].rels = b /\ P[r].rels = right
    BY <2>3, Pointed
  <2> QED
    BY <2>3, <2>4
<1>2. CASE ~ \E mode \in Modes : [l |-> l, r |-> r, mode |-> mode] \in ToSet(C)
  BY <1>2 DEF FrontInv
<1> QED
  BY <1>1, <1>2

-----------------------------------------------------------------------------
(* Changes of the heap.                                                    *)

LEMMA JoinKept ==
  ASSUME NEW P, NEW Q, NEW plan, IsJoin(P, plan),
         \A p \in DOMAIN P : IsProperSubset(P[p].rels, plan.rels) => p \in DOMAIN Q /\ Q[p] = P[p]
  PROVE  IsJoin(Q, plan)
<1>1. PICK l \in DOMAIN P, r \in DOMAIN P, mode \in Modes :
        /\ IsProperSubset(P[l].rels, plan.rels) /\ IsProperSubset(P[r].rels, plan.rels)
        /\ plan = MakeJoin(P, l, r, mode)
  BY DEF IsJoin
<1>2. l \in DOMAIN Q /\ Q[l] = P[l] /\ r \in DOMAIN Q /\ Q[r] = P[r]
  BY <1>1
<1>3. plan = MakeJoin(Q, l, r, mode)
  BY <1>1, <1>2, MakeJoinLocal
<1> QED
  BY <1>1, <1>2, <1>3 DEF IsJoin

LEMMA PlanAppended ==
  ASSUME NEW P, NEW k, HeapInv(P, k), NEW plan, IsPlan(P, k, plan)
  PROVE  /\ HeapInv(Append(P, plan), k)
         /\ DOMAIN P \subseteq DOMAIN Append(P, plan) /\ Len(P) + 1 \in DOMAIN Append(P, plan)
         /\ \A p \in DOMAIN P : Append(P, plan)[p] = P[p]
         /\ Append(P, plan)[Len(P) + 1] = plan
<1> DEFINE Q == Append(P, plan)
<1>1. IsList(P)
  BY DEF HeapInv
<1>2. /\ IsList(Q) /\ DOMAIN Q = DOMAIN P \cup {Len(P) + 1}
      /\ \A p \in DOMAIN P : Q[p] = P[p]
      /\ Q[Len(P) + 1] = plan
  BY <1>1, AppendList
<1> HIDE DEF Q
<1>3. \A x : IsPlan(P, k, x) => IsPlan(Q, k, x)
  BY <1>2, JoinKept DEF IsPlan
<1>4. ASSUME NEW p \in DOMAIN Q PROVE IsPlan(Q, k, Q[p])
  <2>1. CASE p \in DOMAIN P
    BY <1>2, <1>3, <2>1 DEF HeapInv
  <2>2. CASE p = Len(P) + 1
    BY <1>2, <1>3, <2>2
  <2> QED
    BY <1>2, <2>1, <2>2
<1>5. HeapInv(Q, k)
  BY <1>2, <1>4 DEF HeapInv
<1> QED
  BY <1>2, <1>5 DEF Q

\* A plan of the largest problems has no plan that points to it.
LEMMA PlanOverwritten ==
  ASSUME QueryOK, NEW P, NEW k \in Nat, HeapInv(P, k), NEW old \in DOMAIN P,
         Cardinality(P[old].rels) = k, NEW plan, IsPlan(P, k, plan)
  PROVE  HeapInv([P EXCEPT ![old] = plan], k)
<1> DEFINE Q == [P EXCEPT ![old] = plan]
<1>1. /\ DOMAIN Q = DOMAIN P /\ Q[old] = plan
      /\ \A p \in DOMAIN P : p # old => Q[p] = P[p]
  OBVIOUS
<1>2. IsList(Q)
  <2>1. IsList(P)
    BY DEF HeapInv
  <2>2. Len(P) \in Nat /\ DOMAIN P = 1 .. Len(P)
    BY <2>1, ListFacts
  <2>3. Q \in [1 .. Len(P) -> ToSet(Q)]
    BY <2>2 DEF ToSet
  <2> HIDE DEF Q
  <2> QED
    BY <2>2, <2>3 DEF IsList
<1> HIDE DEF Q
<1>3. ASSUME NEW x, IsPlan(P, k, x) PROVE IsPlan(Q, k, x)
  <2>1. x.rels \in SUBSET Relations /\ Cardinality(x.rels) <= k
    BY <1>3 DEF IsPlan, IsSide
  <2>2. ASSUME NEW p \in DOMAIN P, IsProperSubset(P[p].rels, x.rels) PROVE p # old
    <3>1. P[p].rels \in SUBSET Relations /\ Cardinality(P[p].rels) < Cardinality(x.rels)
      BY <2>1, <2>2, PartSmaller
    <3>2. Cardinality(P[p].rels) \in Nat /\ Cardinality(x.rels) \in Nat
      BY <2>1, <3>1, RelationsFinite
    <3> QED
      BY <2>1, <3>1, <3>2
  <2>3. IsJoin(P, x) => IsJoin(Q, x)
    BY <1>1, <2>2, JoinKept
  <2> QED
    BY <1>3, <2>3 DEF IsPlan
<1>4. ASSUME NEW p \in DOMAIN Q PROVE IsPlan(Q, k, Q[p])
  BY <1>1, <1>3 DEF HeapInv
<1>5. HeapInv(Q, k)
  BY <1>2, <1>4 DEF HeapInv
<1> QED
  BY <1>5 DEF Q

-----------------------------------------------------------------------------
(* What DPFact keeps.                                                      *)

\* A plan with its estimates.
IsEstimated(plan) ==
  /\ IsSide(plan)
  /\ DOMAIN plan.estimates = InterestingClasses(plan.rels)
  /\ \A class \in DOMAIN plan.estimates : plan.estimates[class] \in Nat

\* A new plan and a plan that it leaves in the list do not beat each other.
LEMMA KeptCompatible ==
  ASSUME NEW plan, NEW other, IsEstimated(plan), IsEstimated(other), plan.rels = other.rels,
         Verdict(plan, other) = "keep"
  PROVE  Compatible(plan, other) /\ Compatible(other, plan)
<1> DEFINE equal == NeverWorse(plan, other) /\ NeverWorse(other, plan)
           dominated == IsProperSubset(PredecessorRelations(plan), PredecessorRelations(other))
           equivalent == plan.left = other.left /\ plan.right = other.right
<1>1. plan.previous \in Nat /\ other.previous \in Nat
  BY DEF IsEstimated, IsSide
<1>2. Verdict(plan, other) =
        CASE equal /\ plan.cost = other.cost ->
               IF \/ dominated
                  \/ equivalent /\ other.mode = "BottomInsert" /\ plan.mode = "TopInsert"
                  \/ other.previous > plan.previous
               THEN "stop"
               ELSE IF \/ other.previous < plan.previous
                       \/ equivalent /\ other.mode = "TopInsert" /\ plan.mode = "BottomInsert"
               THEN "give up" ELSE "keep"
          [] equal /\ ~(plan.cost = other.cost) -> IF plan.cost < other.cost THEN "stop" ELSE "give up"
          [] ~equal /\ ParetoBetter(plan, other) -> "drop"
          [] ~equal /\ ParetoBetter(other, plan) -> "give up"
          [] OTHER -> "keep"
  BY DEF Verdict
<1>3. plan.estimates = other.estimates => equal
  <2>1. ASSUME plan.estimates = other.estimates PROVE equal
    <3>1. \A class \in DOMAIN plan.estimates : plan.estimates[class] <= other.estimates[class]
      BY <2>1 DEF IsEstimated
    <3>2. \A class \in DOMAIN other.estimates : other.estimates[class] <= plan.estimates[class]
      BY <2>1 DEF IsEstimated
    <3> QED
      BY <3>1, <3>2 DEF NeverWorse
  <2> QED
    BY <2>1
<1> HIDE DEF dominated, equivalent
<1>4. CASE equal
  <2>1. plan.cost = other.cost /\ plan.previous = other.previous
    BY <1>1, <1>2, <1>4
  <2>2. ~ParetoBetter(plan, other) /\ ~ParetoBetter(other, plan)
    BY <1>4 DEF ParetoBetter
  <2> QED
    BY <2>1, <2>2 DEF Compatible
<1>5. CASE ~equal
  <2> HIDE DEF equal
  <2>1. ~ParetoBetter(plan, other) /\ ~ParetoBetter(other, plan)
    BY <1>2, <1>5
  <2> QED
    BY <1>3, <1>5, <2>1 DEF Compatible
<1> QED
  BY <1>4, <1>5

\* No class of the whole query is joined outside.
LEMMA TopClasses == InterestingClasses(Relations) = {}
  BY DEF InterestingClasses, ClassesOf

\* Among plans of the whole query only the cost and the tuples moved before count.
LEMMA TopVerdict ==
  ASSUME NEW plan, NEW other, IsEstimated(plan), IsEstimated(other),
         plan.rels = Relations, other.rels = Relations,
         plan.left = other.left /\ plan.right = other.right => plan.previous = other.previous
  PROVE  /\ Verdict(plan, other) = "give up" => NotWorse(other, plan)
         /\ Verdict(plan, other) # "give up" => NotWorse(plan, other)
         /\ Verdict(plan, other) = "keep" => NotWorse(other, plan)
<1>1. /\ plan.previous \in Nat /\ other.previous \in Nat /\ plan.cost \in Nat /\ other.cost \in Nat
      /\ DOMAIN plan.estimates = {} /\ DOMAIN other.estimates = {}
  BY TopClasses DEF IsEstimated, IsSide
<1>2. NeverWorse(plan, other) /\ NeverWorse(other, plan)
  BY <1>1 DEF NeverWorse
<1>3. PredecessorRelations(plan) = {} /\ PredecessorRelations(other) = {}
  BY TopClasses DEF PredecessorRelations
<1>4. ~IsProperSubset(PredecessorRelations(plan), PredecessorRelations(other))
  BY <1>3 DEF IsProperSubset
<1> DEFINE equivalent == plan.left = other.left /\ plan.right = other.right
<1>5. equivalent => plan.previous = other.previous
  OBVIOUS
<1>6. Verdict(plan, other) =
        IF plan.cost = other.cost
        THEN IF \/ equivalent /\ other.mode = "BottomInsert" /\ plan.mode = "TopInsert"
                \/ other.previous > plan.previous
             THEN "stop"
             ELSE IF \/ other.previous < plan.previous
                     \/ equivalent /\ other.mode = "TopInsert" /\ plan.mode = "BottomInsert"
             THEN "give up" ELSE "keep"
        ELSE IF plan.cost < other.cost THEN "stop" ELSE "give up"
  BY <1>2, <1>4 DEF Verdict
<1> HIDE DEF equivalent
<1>7. CASE plan.cost = other.cost
  <2> DEFINE stop == \/ equivalent /\ other.mode = "BottomInsert" /\ plan.mode = "TopInsert"
                     \/ other.previous > plan.previous
             giveUp == \/ other.previous < plan.previous
                       \/ equivalent /\ other.mode = "TopInsert" /\ plan.mode = "BottomInsert"
  <2>1. Verdict(plan, other) = IF stop THEN "stop" ELSE IF giveUp THEN "give up" ELSE "keep"
    BY <1>6, <1>7
  <2>2. stop => plan.previous <= other.previous
    BY <1>1, <1>5
  <2>3. giveUp => other.previous <= plan.previous
    BY <1>1, <1>5
  <2>4. ~stop /\ ~giveUp => plan.previous = other.previous
    BY <1>1
  <2> HIDE DEF stop, giveUp
  <2>5. plan.previous <= other.previous => NotWorse(plan, other)
    BY <1>7 DEF NotWorse
  <2>6. other.previous <= plan.previous => NotWorse(other, plan)
    BY <1>7 DEF NotWorse
  <2>7. CASE stop
    BY <2>1, <2>2, <2>5, <2>7
  <2>8. CASE ~stop /\ giveUp
    BY <2>1, <2>3, <2>6, <2>8
  <2>9. CASE ~stop /\ ~giveUp
    <3>1. plan.previous <= other.previous /\ other.previous <= plan.previous
      BY <1>1, <2>4, <2>9
    <3> QED
      BY <2>1, <2>5, <2>6, <2>9, <3>1
  <2> QED
    BY <2>7, <2>8, <2>9
<1>8. CASE plan.cost # other.cost
  <2>1. CASE plan.cost < other.cost
    <3>1. Verdict(plan, other) = "stop" /\ NotWorse(plan, other)
      BY <1>6, <1>8, <2>1 DEF NotWorse
    <3> QED
      BY <3>1
  <2>2. CASE ~(plan.cost < other.cost)
    <3>1. other.cost < plan.cost
      BY <1>1, <1>8, <2>2
    <3>2. Verdict(plan, other) = "give up"
      BY <1>6, <1>8, <2>2
    <3> QED
      BY <3>1, <3>2 DEF NotWorse
  <2> QED
    BY <2>1, <2>2
<1> QED
  BY <1>7, <1>8

LEMMA SmallSequences ==
  ASSUME NEW V, NEW y \in V
  PROVE  <<>> \in Seq(V) /\ <<y>> \in Seq(V)
<1>1. \A n \in Nat : \A s \in [1 .. n -> V] : s \in Seq(V)
  OBVIOUS
<1>2. <<y>> \in [1 .. 1 -> V]
  OBVIOUS
<1>3. <<>> \in [1 .. 0 -> V]
  OBVIOUS
<1> QED
  BY <1>1, <1>2, <1>3

\* The alternatives that are kept were looked at and none was given up for.
LEMMA SurvivingFacts ==
  ASSUME NEW P, NEW plan, NEW alternatives, IsList(alternatives)
  PROVE  LET surviving == Surviving(P, plan, alternatives)
         IN  /\ IsList(surviving.kept)
             /\ \A p \in ToSet(surviving.kept) :
                  p \in ToSet(alternatives) /\ Verdict(plan, P[p]) = "keep"
             /\ surviving.refused =>
                  \E p \in ToSet(alternatives) : Verdict(plan, P[p]) = "give up"
             /\ ~surviving.refused /\ alternatives # <<>> =>
                  alternatives[1] \in ToSet(alternatives) /\ Verdict(plan, P[alternatives[1]]) # "give up"
<1> DEFINE verdict(i) == Verdict(plan, P[alternatives[i]])
           ends == {i \in DOMAIN alternatives : verdict(i) \in {"stop", "give up"}}
           last == IF ends = {} THEN Len(alternatives) ELSE Min(ends)
           parts == [i \in 1 .. last |-> IF verdict(i) = "keep" THEN <<alternatives[i]>> ELSE <<>>]
           surviving == Surviving(P, plan, alternatives)
<1>1. /\ surviving.refused = (ends # {} /\ verdict(last) = "give up")
      /\ surviving.kept = FlattenSeq(parts)
  BY DEF Surviving
<1>2. /\ Len(alternatives) \in Nat /\ DOMAIN alternatives = 1 .. Len(alternatives)
      /\ \A x : x \in ToSet(alternatives) <=> \E i \in DOMAIN alternatives : x = alternatives[i]
  BY ListFacts
<1> HIDE DEF verdict, surviving
<1>3. last \in Nat /\ 1 .. last \subseteq DOMAIN alternatives
      /\ (ends # {} => last \in ends /\ \A i \in ends : last <= i)
  <2>1. CASE ends = {}
    BY <1>2, <2>1
  <2>2. CASE ends # {}
    <3>1. ends \subseteq Nat
      <4>1. ends \subseteq DOMAIN alternatives
        OBVIOUS
      <4> HIDE DEF ends
      <4> QED
        BY <1>2, <4>1
    <3>2. PICK m \in ends : \A i \in ends : m <= i
      BY <2>2, <3>1, SmallestExists
    <3>3. Min(ends) = m
      <4> HIDE DEF ends
      <4> QED
        BY <3>1, <3>2, MinIs
    <3>4. last = m
      BY <2>2, <3>3
    <3>5. last \in DOMAIN alternatives /\ last \in ends /\ \A i \in ends : last <= i
      BY <3>2, <3>4
    <3> HIDE DEF last, ends
    <3> QED
      BY <1>2, <3>5
  <2> QED
    BY <2>1, <2>2
<1> DEFINE U == ToSet(alternatives)
<1>4. parts \in Seq(Seq(U)) /\ DOMAIN parts = 1 .. last
  <2>1. ASSUME NEW i \in 1 .. last
        PROVE  (IF verdict(i) = "keep" THEN <<alternatives[i]>> ELSE <<>>) \in Seq(U)
    <3>1. alternatives[i] \in U
      BY <1>2, <1>3
    <3> HIDE DEF U
    <3>2. <<alternatives[i]>> \in Seq(U) /\ <<>> \in Seq(U)
      BY <3>1, SmallSequences
    <3>3. CASE verdict(i) = "keep"
      BY <3>2, <3>3
    <3>4. CASE verdict(i) # "keep"
      BY <3>2, <3>4
    <3> QED
      BY <3>3, <3>4
  <2> HIDE DEF last, U
  <2>2. parts \in [1 .. last -> Seq(U)] /\ DOMAIN parts = 1 .. last
    BY <2>1
  <2> DEFINE V == Seq(U)
  <2> HIDE DEF parts, V
  <2>3. \A n \in Nat : \A s \in [1 .. n -> V] : s \in Seq(V)
    OBVIOUS
  <2>4. last \in Nat /\ parts \in [1 .. last -> V]
    BY <1>3, <2>2 DEF V
  <2>5. parts \in Seq(V)
    BY <2>3, <2>4
  <2> QED
    BY <2>2, <2>5 DEF V
<1>a. ToSet(<<>>) = {} /\ \A y : ToSet(<<y>>) = {y}
  BY DEF ToSet
<1>5. \A i \in 1 .. last : \A x : x \in ToSet(parts[i]) => x = alternatives[i] /\ verdict(i) = "keep"
  <2>1. ASSUME NEW i \in 1 .. last, NEW x \in ToSet(parts[i])
        PROVE  x = alternatives[i] /\ verdict(i) = "keep"
    <3>1. CASE verdict(i) = "keep"
      <4>1. parts[i] = <<alternatives[i]>>
        BY <3>1
      <4> HIDE DEF parts
      <4> QED
        <5>1. ToSet(parts[i]) = {alternatives[i]}
          BY <1>a, <4>1, Zenon
        <5>2. x = alternatives[i]
          BY <5>1
        <5> QED
          BY <3>1, <5>2
    <3>2. CASE verdict(i) # "keep"
      <4>1. parts[i] = <<>>
        BY <3>2
      <4> HIDE DEF parts
      <4> QED
        BY <1>a, <2>1, <4>1
    <3> QED
      BY <3>1, <3>2
  <2> QED
    BY <2>1
<1> HIDE DEF parts, U
<1>6. /\ FlattenSeq(parts) \in Seq(U)
      /\ \A x : x \in ToSet(FlattenSeq(parts)) <=> \E i \in DOMAIN parts : x \in ToSet(parts[i])
  BY <1>4, FlattenElements
<1> HIDE DEF last
<1>7. IsList(surviving.kept)
  BY <1>1, <1>6, SequencesAreLists
<1>8. ASSUME NEW p \in ToSet(surviving.kept)
      PROVE  p \in ToSet(alternatives) /\ Verdict(plan, P[p]) = "keep"
  <2>1. PICK i \in 1 .. last : p \in ToSet(parts[i])
    BY <1>1, <1>4, <1>6
  <2>2. p = alternatives[i] /\ verdict(i) = "keep" /\ i \in DOMAIN alternatives
    BY <1>3, <1>5, <2>1
  <2> QED
    BY <1>2, <2>2 DEF verdict
<1>9. ASSUME surviving.refused
      PROVE  \E p \in ToSet(alternatives) : Verdict(plan, P[p]) = "give up"
  <2>1. last \in DOMAIN alternatives /\ verdict(last) = "give up"
    BY <1>1, <1>3, <1>9
  <2> QED
    BY <1>2, <2>1 DEF verdict
<1>10. ASSUME ~surviving.refused, alternatives # <<>>
       PROVE  alternatives[1] \in ToSet(alternatives) /\ Verdict(plan, P[alternatives[1]]) # "give up"
  <2>1. alternatives[1] \in ToSet(alternatives) /\ 1 \in DOMAIN alternatives
    <3>1. alternatives[1] \in ToSet(alternatives)
      BY <1>10, ListFacts
    <3>2. Len(alternatives) # 0
      BY <1>10 DEF IsList
    <3> QED
      BY <1>2, <3>1, <3>2
  <2>2. ASSUME verdict(1) = "give up" PROVE FALSE
    <3>1. 1 \in ends
      BY <2>1, <2>2
    <3>2. last = 1
      <4>1. last <= 1 /\ last \in DOMAIN alternatives
        BY <1>3, <3>1
      <4> HIDE DEF ends
      <4> QED
        BY <1>2, <4>1
    <3> QED
      BY <1>1, <1>10, <2>2, <3>1, <3>2
  <2> QED
    BY <2>1, <2>2 DEF verdict
<1> QED
  BY <1>7, <1>8, <1>9, <1>10 DEF surviving

-----------------------------------------------------------------------------
(* The joins of a pair.                                                    *)

LEMMA SoleElement ==
  ASSUME NEW s, IsList(s), Len(s) = 1
  PROVE  ToSet(s) = {s[1]}
<1>1. DOMAIN s = 1 .. 1 /\ \A x : x \in ToSet(s) <=> \E i \in DOMAIN s : x = s[i]
  BY ListFacts
<1>2. 1 .. 1 = {1}
  OBVIOUS
<1> QED
  BY <1>1, <1>2

\* createJoin: the pair is given up, or its plan overwrites the one of the
\* problem, or the problem is new.
LEMMA CreateJoinInvariant ==
  ASSUME Invariant, JoinPair, ~Factorized
  PROVE  Invariant'
<1> DEFINE k == curSize
<1>1. /\ todo # <<>> /\ candidates = <<>> /\ todo' = Tail(todo)
      /\ CreateJoin(Head(todo)[1], Head(todo)[2])
      /\ UNCHANGED <<query, algorithm, curSize, candidates>>
  BY DEF JoinPair
<1>2. /\ QueryOK /\ SizeInv(k) /\ HeapInv(plans, k) /\ MapInv(plans, planMap, k)
      /\ SizesInv(planMap, sizes) /\ TodoInv(planMap, k, todo) /\ CandidatesInv(planMap, k, candidates)
      /\ FlatInv(plans, planMap, k, todo)
  BY DEF Invariant, Inv
<1>3. k \in Nat /\ k <= Cardinality(Relations)
  BY <1>2, RelationsFinite DEF SizeInv
<1> HIDE DEF k
<1>4. PICK left \in DOMAIN planMap, right \in DOMAIN planMap :
        Head(todo) = <<left, right>> /\ PairOf(planMap, k, left, right)
  BY <1>1, <1>2, TodoTail
<1>5. \A t \in ToSet(todo) : t = <<left, right>> \/ t \in ToSet(Tail(todo))
  BY <1>1, <1>2, <1>4, TodoTail
<1>6. TodoInv(planMap, k, Tail(todo))
  BY <1>1, <1>2, TodoTail
<1> DEFINE l == planMap[left][1]
           r == planMap[right][1]
           problem == left \cup right
           known == problem \in DOMAIN planMap
           old == planMap[problem][1]
           plan == MakeJoin(plans, l, r, "TopInsert")
           hopeless == known /\ plans[old].cost < plans[l].cost + plans[r].cost
<1>7. IF hopeless \/ ~HasJoinEdge(left, right)
      THEN UNCHANGED <<plans, planMap, sizes>>
      ELSE IF known
      THEN /\ plans' = IF Cheaper(plan, plans[old]) THEN [plans EXCEPT ![old] = plan] ELSE plans
           /\ UNCHANGED <<planMap, sizes>>
      ELSE /\ plans' = Append(plans, plan)
           /\ planMap' = WithPlans(problem, <<Len(plans) + 1>>)
           /\ sizes' = WithProblem(problem)
  <2>1. Head(todo)[1] = left /\ Head(todo)[2] = right
    BY <1>4
  <2>2. CreateJoin(left, right)
    BY <1>1, <2>1, Zenon
  <2> HIDE DEF plan
  <2> QED
    BY <2>2 DEF CreateJoin, Overwritten, plan
<1>8. \A other \in DOMAIN planMap :
        IsList(planMap[other]) /\ Len(planMap[other]) = 1 /\ ToSet(planMap[other]) = {planMap[other][1]}
  BY <1>2, SoleElement DEF MapInv
<1>9. ToSet(planMap[left]) = {l} /\ ToSet(planMap[right]) = {r}
  BY <1>8
<1> HIDE DEF l, r
<1>10. /\ l \in ToSet(planMap[left]) /\ r \in ToSet(planMap[right])
       /\ plans[l].rels = left /\ IsSide(plans[l]) /\ plans[r].rels = right /\ IsSide(plans[r])
  BY <1>2, <1>9, Pointed
<1>11. /\ left \in SUBSET Relations /\ right \in SUBSET Relations /\ left # {} /\ right # {}
       /\ left \cap right = {} /\ problem \in SUBSET Relations /\ Cardinality(problem) = k
  <2>1. /\ left \in SUBSET Relations /\ right \in SUBSET Relations
        /\ left # {} /\ right # {} /\ left \cap right = {}
        /\ Cardinality(left) \in 1 .. k - 1 /\ Cardinality(right) \in 1 .. k - 1
        /\ IsList(planMap[left]) /\ IsList(planMap[right])
    BY <1>2, <1>3, <1>4, PairSides
  <2>2. /\ left \cup right \in SUBSET Relations /\ Cardinality(left \cup right) = k
        /\ IsProperSubset(left, left \cup right) /\ IsProperSubset(right, left \cup right)
    BY <1>2, <1>3, <1>4, PairProblem, Zenon
  <2> QED
    BY <2>1, <2>2
<1>12. /\ IsPlan(plans, k, plan) /\ IsSide(plan) /\ plan.rels = problem /\ k > 1
  <2>1. "TopInsert" \in Modes
    BY DEF Modes
  <2> QED
    BY <1>2, <1>3, <1>4, <1>10, <2>1, PlanMade
<1>13. plan.cost = ExecuteSemiJoinPlan(problem, problem) + plans[l].cost + plans[r].cost
  <2>1. plan.cost = ExecuteSemiJoinPlan(plan.rels, plan.rels) + plans[l].cost + plans[r].cost
    BY <1>2, <1>10, FlatCosts, Zenon
  <2> HIDE DEF plan, problem
  <2> QED
    BY <1>12, <2>1
<1>14. ExecuteSemiJoinPlan(problem, problem) \in Nat
  BY <1>2, <1>11, OracleCounts
<1>15. HasJoinEdge(left, right) => plan.cost \in TreeCosts[problem]
  <2>1. ASSUME HasJoinEdge(left, right) PROVE plan.cost \in TreeCosts[problem]
    <3>1. plans[l].cost \in TreeCosts[left] /\ plans[r].cost \in TreeCosts[right]
      BY <1>2, <1>10 DEF FlatInv
    <3>2. algorithm # "DPSize" => Cardinality(right) = 1
      BY <1>4 DEF PairOf
    <3>3. plans[l].cost + plans[r].cost + ExecuteSemiJoinPlan(problem, problem) \in TreeCosts[problem]
      BY <1>2, <1>11, <2>1, <3>1, <3>2, TreeCostsJoin
    <3>4. plan.cost = plans[l].cost + plans[r].cost + ExecuteSemiJoinPlan(problem, problem)
      <4> HIDE DEF plan
      <4> QED
        BY <1>10, <1>13, <1>14 DEF IsSide
    <3> QED
      BY <3>3, <3>4
  <2> QED
    BY <2>1
<1> HIDE DEF plan, problem
<1>16. ASSUME known
       PROVE  /\ old \in DOMAIN plans /\ plans[old].rels = problem /\ IsSide(plans[old])
              /\ ToSet(planMap[problem]) = {old}
  <2>1. ToSet(planMap[problem]) = {old}
    BY <1>8, <1>16
  <2> QED
    BY <1>2, <1>16, <2>1, Pointed
<1>17. ParetoInv(plans, planMap) /\ \A Q, N : ParetoInv(Q, N) /\ \A T, C : FrontInv(Q, N, k, T, C)
  BY DEF ParetoInv, FrontInv
\* The new state, from its parts.
<1>18. ASSUME NEW Q, NEW N, NEW S, HeapInv(Q, k), MapInv(Q, N, k), SizesInv(N, S), TodoInv(N, k, Tail(todo)),
              CandidatesInv(N, k, candidates), FlatInv(Q, N, k, todo),
              HasJoinEdge(left, right) => Bounded(Q, N, left, right),
              plans' = Q, planMap' = N, sizes' = S
       PROVE  Invariant'
  <2>1. FlatInv(Q, N, k, Tail(todo))
    BY <1>5, <1>18, FlatTail
  <2>2. Inv(Q, N, S, k, Tail(todo), candidates)
    BY <1>2, <1>17, <1>18, <2>1 DEF Inv
  <2>3. /\ query' = query /\ algorithm' = algorithm /\ plans' = Q /\ planMap' = N /\ sizes' = S
        /\ curSize' = k /\ todo' = Tail(todo) /\ candidates' = candidates
    BY <1>1, <1>18 DEF k
  <2> QED
    BY <2>2, <2>3, InvariantSteady
<1>19. CASE hopeless \/ ~HasJoinEdge(left, right)
  <2>1. plans' = plans /\ planMap' = planMap /\ sizes' = sizes
    BY <1>7, <1>19
  <2>2. ASSUME HasJoinEdge(left, right) PROVE Bounded(plans, planMap, left, right)
    <3>1. known /\ plans[old].cost < plans[l].cost + plans[r].cost
      BY <1>19, <2>2
    <3>2. plans[old].cost <= plan.cost
      BY <1>10, <1>13, <1>14, <1>16, <3>1 DEF IsSide
    <3> QED
      BY <1>9, <1>16, <3>1, <3>2 DEF Bounded, plan, problem
  <2> QED
    BY <1>2, <1>6, <1>18, <2>1, <2>2
<1>20. CASE ~hopeless /\ HasJoinEdge(left, right) /\ known
  <2> DEFINE Q == IF Cheaper(plan, plans[old]) THEN [plans EXCEPT ![old] = plan] ELSE plans
  <2>1. plans' = Q /\ planMap' = planMap /\ sizes' = sizes
    BY <1>7, <1>20
  <2>2. /\ DOMAIN Q = DOMAIN plans /\ Q[old].rels = problem
        /\ \A p \in DOMAIN plans : p # old => Q[p] = plans[p]
        /\ Q[old].cost <= plans[old].cost /\ Q[old].cost <= plan.cost
        /\ Q[old] = plan \/ Q[old] = plans[old]
    <3>1. CASE Cheaper(plan, plans[old])
      <4>1. Q = [plans EXCEPT ![old] = plan] /\ plan.cost < plans[old].cost
        BY <3>1 DEF Cheaper
      <4>2. Q[old] = plan
        BY <1>16, <1>20, <4>1
      <4> QED
        BY <1>12, <1>16, <1>20, <4>1, <4>2 DEF IsSide
    <3>2. CASE ~Cheaper(plan, plans[old])
      <4>1. Q = plans /\ ~(plan.cost < plans[old].cost)
        BY <3>2 DEF Cheaper
      <4> QED
        BY <1>12, <1>16, <1>20, <4>1 DEF IsSide
    <3> QED
      BY <3>1, <3>2
  <2>3. HeapInv(Q, k)
    <3>1. HeapInv([plans EXCEPT ![old] = plan], k)
      BY <1>2, <1>3, <1>11, <1>12, <1>16, <1>20, PlanOverwritten
    <3> QED
      BY <1>2, <3>1
  <2> HIDE DEF Q
  <2>4. Step(plans, planMap, Q, planMap, k, problem)
    <3>1. \A p \in DOMAIN plans : plans[p].rels # problem => Q[p] = plans[p]
      BY <1>16, <1>20, <2>2
    <3>2. Changes(plans, planMap, Q, planMap, problem)
      BY <1>20, <2>2, <3>1 DEF Changes
    <3> QED
      BY <1>2, <1>3, <1>11, <1>12, <3>2 DEF Step
  <2>5. ListOf(Q, planMap, problem)
    BY <1>8, <1>16, <1>20, <2>2 DEF ListOf
  <2>6. MapInv(Q, planMap, k)
    BY <2>4, <2>5, ListsKept
  <2>7. FlatInv(Q, planMap, k, todo)
    <3>1. Q[old].cost \in TreeCosts[problem]
      BY <1>2, <1>15, <1>16, <1>20, <2>2 DEF FlatInv
    <3>2. /\ \A p \in ToSet(planMap[problem]) : Q[p].cost \in TreeCosts[problem]
          /\ \A p \in ToSet(planMap[problem]), q \in ToSet(planMap[problem]) : Q[p].cost <= plans[q].cost
      BY <1>16, <1>20, <2>2, <3>1
    <3> QED
      BY <1>2, <2>3, <2>4, <2>5, <3>2, FlatKept
  <2>8. Bounded(Q, planMap, left, right)
    <3>1. MakeJoin(Q, l, r, "TopInsert") = plan
      BY <1>4, <1>10, <2>4, PairsKept DEF plan
    <3> QED
      BY <1>9, <1>16, <1>20, <2>2, <3>1 DEF Bounded, problem
  <2> QED
    BY <1>2, <1>6, <1>18, <2>1, <2>3, <2>6, <2>7, <2>8
<1>21. CASE ~hopeless /\ HasJoinEdge(left, right) /\ ~known
  <2> DEFINE Q == Append(plans, plan)
             new == Len(plans) + 1
             N == WithPlans(problem, <<new>>)
             S == WithProblem(problem)
  <2>1. plans' = Q /\ planMap' = N /\ sizes' = S
    BY <1>7, <1>21
  <2>2. /\ HeapInv(Q, k) /\ DOMAIN plans \subseteq DOMAIN Q /\ new \in DOMAIN Q
        /\ \A p \in DOMAIN plans : Q[p] = plans[p]
        /\ Q[new] = plan
    BY <1>2, <1>12, PlanAppended
  <2> HIDE DEF Q, new
  <2>3. /\ DOMAIN N = DOMAIN planMap \cup {problem} /\ N[problem] = <<new>>
        /\ \A other \in DOMAIN planMap : other # problem => N[other] = planMap[other]
    BY DEF WithPlans
  <2> HIDE DEF N
  <2>4. Step(plans, planMap, Q, N, k, problem)
    <3>1. Changes(plans, planMap, Q, N, problem)
      BY <2>2, <2>3 DEF Changes
    <3> QED
      BY <1>2, <1>3, <1>11, <1>12, <3>1 DEF Step
  <2>5. IsList(<<new>>) /\ Len(<<new>>) = 1 /\ ToSet(<<new>>) = {new}
    BY DEF IsList, ToSet
  <2>6. ListOf(Q, N, problem)
    BY <1>12, <2>2, <2>3, <2>5 DEF ListOf
  <2>7. MapInv(Q, N, k) /\ TodoInv(N, k, Tail(todo)) /\ CandidatesInv(N, k, candidates)
    BY <1>2, <1>6, <2>4, <2>6, ListsKept
  <2>8. SizesInv(N, S)
    <3>1. SizesInv(N, IF problem \in DOMAIN planMap THEN sizes ELSE [sizes EXCEPT ![k] = Append(@, problem)])
      <4>1. k >= 1
        BY <1>3, <1>12
      <4> QED
        BY <1>2, <1>3, <1>11, <2>3, <4>1, SizesKept, Zenon
    <3> QED
      BY <3>1 DEF WithProblem, k
  <2>9. FlatInv(Q, N, k, todo)
    <3>1. \A p \in ToSet(N[problem]) : Q[p].cost \in TreeCosts[problem]
      BY <1>15, <1>21, <2>2, <2>3, <2>5
    <3> QED
      BY <1>2, <1>21, <2>2, <2>4, <2>6, <3>1, FlatKept
  <2>10. Bounded(Q, N, left, right)
    <3>1. MakeJoin(Q, l, r, "TopInsert") = plan /\ N[left] = planMap[left] /\ N[right] = planMap[right]
      BY <1>4, <1>10, <2>4, PairsKept DEF plan
    <3>2. plan.cost <= plan.cost
      BY <1>12 DEF IsSide
    <3> QED
      BY <1>9, <2>2, <2>3, <2>5, <3>1, <3>2 DEF Bounded, problem
  <2> QED
    BY <1>18, <2>1, <2>2, <2>7, <2>8, <2>9, <2>10
<1> QED
  BY <1>19, <1>20, <1>21

\* createJoins: the problem has its list, and the candidates are to be tried.
LEMMA CreateJoinsInvariant ==
  ASSUME Invariant, JoinPair, Factorized
  PROVE  Invariant'
<1> DEFINE k == curSize
<1>1. /\ todo # <<>> /\ candidates = <<>> /\ todo' = Tail(todo)
      /\ CreateJoins(Head(todo)[1], Head(todo)[2])
      /\ UNCHANGED <<query, algorithm, curSize, plans>>
  BY DEF JoinPair
<1>2. /\ QueryOK /\ SizeInv(k) /\ HeapInv(plans, k) /\ MapInv(plans, planMap, k)
      /\ SizesInv(planMap, sizes) /\ TodoInv(planMap, k, todo) /\ ParetoInv(plans, planMap)
      /\ FrontInv(plans, planMap, k, todo, candidates)
  BY DEF Invariant, Inv
<1>3. k \in Nat /\ k <= Cardinality(Relations)
  BY <1>2, RelationsFinite DEF SizeInv
<1> HIDE DEF k
<1>4. PICK left \in DOMAIN planMap, right \in DOMAIN planMap :
        Head(todo) = <<left, right>> /\ PairOf(planMap, k, left, right)
  BY <1>1, <1>2, TodoTail
<1>5. \A t \in ToSet(todo) : t = <<left, right>> \/ t \in ToSet(Tail(todo))
  BY <1>1, <1>2, <1>4, TodoTail
<1>6. TodoInv(planMap, k, Tail(todo))
  BY <1>1, <1>2, TodoTail
<1> DEFINE problem == left \cup right
           N == WithPlans(problem, AlternativesOf(problem))
           S == WithProblem(problem)
           C == IF HasJoinEdge(left, right) THEN Candidates(left, right) ELSE <<>>
<1>7. planMap' = N /\ sizes' = S /\ candidates' = C
  <2>1. Head(todo)[1] = left /\ Head(todo)[2] = right
    BY <1>4
  <2>2. CreateJoins(left, right)
    BY <1>1, <2>1, Zenon
  <2> QED
    BY <2>2, Zenon DEF CreateJoins
<1>8. /\ left \in SUBSET Relations /\ right \in SUBSET Relations
      /\ left # {} /\ right # {} /\ left \cap right = {}
      /\ Cardinality(left) \in 1 .. k - 1 /\ Cardinality(right) \in 1 .. k - 1
      /\ IsList(planMap[left]) /\ IsList(planMap[right])
  BY <1>2, <1>3, <1>4, PairSides
<1>9. problem \in SUBSET Relations /\ Cardinality(problem) = k
  <2>1. /\ left \cup right \in SUBSET Relations /\ Cardinality(left \cup right) = k
        /\ IsProperSubset(left, left \cup right) /\ IsProperSubset(right, left \cup right)
    BY <1>2, <1>3, <1>4, PairProblem, Zenon
  <2> QED
    BY <2>1
<1>10. k > 1
  BY <1>3, <1>8
<1>11. IsList(<<>>) /\ \A x : x \notin ToSet(<<>>)
  BY DEF IsList, ToSet
<1>12. /\ IsList(C) /\ \A c \in ToSet(C) : CandidateOf(planMap, left, right, c)
       /\ HasJoinEdge(left, right) => \A l \in ToSet(planMap[left]), r \in ToSet(planMap[right]) :
            [l |-> l, r |-> r, mode |-> "TopInsert"] \in ToSet(C)
  BY <1>8, <1>11, CandidatesElements
<1> HIDE DEF C, problem
<1>13. /\ DOMAIN N = DOMAIN planMap \cup {problem}
       /\ \A other \in DOMAIN planMap : N[other] = planMap[other]
       /\ problem \notin DOMAIN planMap => N[problem] = <<>>
  BY DEF WithPlans, AlternativesOf
<1> HIDE DEF N
<1>14. Step(plans, planMap, plans, N, k, problem)
  <2>1. Changes(plans, planMap, plans, N, problem)
    BY <1>13 DEF Changes
  <2> QED
    BY <1>2, <1>3, <1>9, <1>10, <2>1 DEF Step
<1>15. ListOf(plans, N, problem)
  <2>1. CASE problem \in DOMAIN planMap
    BY <1>2, <1>13, <2>1 DEF ListOf, MapInv
  <2>2. CASE problem \notin DOMAIN planMap
    BY <1>11, <1>13, <2>2 DEF ListOf
  <2> QED
    BY <2>1, <2>2
<1>16. MapInv(plans, N, k) /\ TodoInv(N, k, Tail(todo))
  BY <1>6, <1>14, <1>15, ListsKept
<1>17. SizesInv(N, S)
  <2>1. SizesInv(N, IF problem \in DOMAIN planMap THEN sizes ELSE [sizes EXCEPT ![k] = Append(@, problem)])
    <3>1. k >= 1
      BY <1>3, <1>10
    <3> QED
      BY <1>2, <1>3, <1>9, <1>13, <3>1, SizesKept, Zenon
  <2> QED
    BY <2>1 DEF WithProblem, k
<1>18. /\ \A a, b : PairOf(N, k, a, b) <=> PairOf(planMap, k, a, b)
       /\ \A a, b : PairOf(planMap, k, a, b) => N[a] = planMap[a] /\ N[b] = planMap[b]
  BY <1>14, PairsKept
<1>19. CandidatesInv(N, k, C)
  <2>1. ASSUME NEW c \in ToSet(C) PROVE CandidateOf(N, left, right, c)
    BY <1>4, <1>12, <1>18 DEF CandidateOf
  <2>2. left \in DOMAIN N /\ right \in DOMAIN N /\ left \cup right \in DOMAIN N /\ PairOf(N, k, left, right)
    BY <1>4, <1>13, <1>18 DEF problem
  <2> QED
    BY <1>12, <2>1, <2>2 DEF CandidatesInv
<1>20. ParetoInv(plans, N)
  <2>1. \A p, q \in ToSet(N[problem]) : Compatible(plans[p], plans[q])
    BY <1>2, <1>11, <1>13 DEF ParetoInv
  <2> QED
    BY <1>2, <1>14, <2>1, ParetoKept
<1>21. FrontInv(plans, N, k, todo, candidates)
  <2>1. ASSUME problem = Relations, Relations \in DOMAIN planMap, planMap[Relations] # <<>>
        PROVE  /\ N[Relations] # <<>>
               /\ \A p \in ToSet(N[Relations]) : \E q \in ToSet(planMap[Relations]) : NotWorse(plans[p], plans[q])
    <3>1. N[Relations] = planMap[Relations]
      BY <1>13, <2>1
    <3>2. \A p \in ToSet(planMap[Relations]) : NotWorse(plans[p], plans[p])
      <4>1. \A p \in ToSet(planMap[Relations]) : IsSide(plans[p])
        BY <1>2, <2>1, Pointed
      <4> QED
        BY <4>1 DEF NotWorse, IsSide
    <3> QED
      BY <2>1, <3>1, <3>2
  <2> QED
    BY <1>2, <1>14, <1>15, <2>1, FrontKept
<1>22. FrontInv(plans, N, k, Tail(todo), C)
  <2> SUFFICES ASSUME NEW a \in DOMAIN N, NEW b \in DOMAIN N, PairOf(N, k, a, b),
                      a \cup b = Relations, HasJoinEdge(a, b), <<a, b>> \notin ToSet(Tail(todo)),
                      NEW l \in ToSet(N[a]), NEW r \in ToSet(N[b])
               PROVE  \/ \E mode \in Modes : [l |-> l, r |-> r, mode |-> mode] \in ToSet(C)
                      \/ Beaten(plans, N, l, r)
    BY DEF FrontInv
  <2>1. CASE <<a, b>> = <<left, right>>
    <3>1. a = left /\ b = right /\ l \in ToSet(planMap[left]) /\ r \in ToSet(planMap[right])
      BY <1>18, <2>1
    <3>2. "TopInsert" \in Modes
      BY DEF Modes
    <3> QED
      BY <1>12, <3>1, <3>2
  <2>2. CASE <<a, b>> # <<left, right>>
    <3>1. <<a, b>> \notin ToSet(todo)
      BY <1>5, <2>2
    <3>2. \A mode : [l |-> l, r |-> r, mode |-> mode] \notin ToSet(candidates)
      BY <1>1, <1>11
    <3> QED
      BY <1>21, <3>1, <3>2 DEF FrontInv
  <2> QED
    BY <2>1, <2>2
<1>23. FlatInv(plans, N, k, Tail(todo))
  BY DEF FlatInv
<1>24. Inv(plans, N, S, k, Tail(todo), C)
  BY <1>2, <1>16, <1>17, <1>19, <1>20, <1>22, <1>23 DEF Inv
<1>25. /\ query' = query /\ algorithm' = algorithm /\ plans' = plans /\ planMap' = N /\ sizes' = S
       /\ curSize' = k /\ todo' = Tail(todo) /\ candidates' = C
  BY <1>1, <1>7 DEF k
<1> QED
  BY <1>24, <1>25, InvariantSteady

-----------------------------------------------------------------------------
(* The candidates of a pair.                                               *)

\* A plan that DPFact joined has an estimate for every interesting class.
LEMMA JoinEstimated ==
  ASSUME QueryOK, NEW P, NEW l, NEW r, NEW mode, IsSide(P[l]), IsSide(P[r]), Factorized
  PROVE  LET plan == MakeJoin(P, l, r, mode)
         IN  /\ IsEstimated(plan)
             /\ plan.estimates = [class \in InterestingClasses(plan.rels) |-> plan.estimates[class]]
<1> DEFINE plan == MakeJoin(P, l, r, mode)
<1>1. /\ IsSide(plan)
      /\ DOMAIN plan.estimates = InterestingClasses(plan.rels)
      /\ \A class \in DOMAIN plan.estimates : plan.estimates[class] \in Nat
  BY FactorizedCosts, Zenon
<1>2. plan.estimates = [class \in DOMAIN plan.estimates |-> plan.estimates[class]]
  BY DEF MakeJoin, EstimateFactorized
<1> HIDE DEF plan
<1>3. plan.estimates = [class \in InterestingClasses(plan.rels) |-> plan.estimates[class]]
  BY <1>1, <1>2
<1> QED
  BY <1>1, <1>3 DEF IsEstimated, plan

\* And so has every plan that is listed.
IsListed(P, problem, p) ==
  /\ p \in DOMAIN P /\ P[p].rels = problem /\ IsEstimated(P[p])
  /\ P[p].estimates = [class \in InterestingClasses(problem) |-> P[p].estimates[class]]
  /\ \E l, r, mode : P[p] = MakeJoin(P, l, r, mode)

LEMMA ListedEstimated ==
  ASSUME QueryOK, Factorized, NEW P, NEW M, NEW k, HeapInv(P, k), MapInv(P, M, k)
  PROVE  \A problem \in DOMAIN M : Cardinality(problem) # 1 =>
           \A p \in ToSet(M[problem]) : IsListed(P, problem, p)
<1> SUFFICES ASSUME NEW problem \in DOMAIN M, Cardinality(problem) # 1, NEW p \in ToSet(M[problem])
             PROVE  IsListed(P, problem, p)
  OBVIOUS
<1>1. p \in DOMAIN P /\ P[p].rels = problem /\ IsSide(P[p]) /\ IsPlan(P, k, P[p])
  BY Pointed
<1>2. PICK l \in DOMAIN P, r \in DOMAIN P, mode \in Modes : P[p] = MakeJoin(P, l, r, mode)
  BY <1>1 DEF IsPlan, IsJoin
<1>3. IsSide(P[l]) /\ IsSide(P[r])
  BY DEF HeapInv, IsPlan
<1>4. /\ IsEstimated(MakeJoin(P, l, r, mode))
      /\ MakeJoin(P, l, r, mode).estimates
           = [class \in InterestingClasses(MakeJoin(P, l, r, mode).rels) |->
                MakeJoin(P, l, r, mode).estimates[class]]
  BY <1>3, JoinEstimated, Zenon
<1>5. /\ IsEstimated(P[p])
      /\ P[p].estimates = [class \in InterestingClasses(P[p].rels) |-> P[p].estimates[class]]
  BY <1>2, <1>4, Zenon
<1> QED
  BY <1>1, <1>2, <1>5 DEF IsListed

\* The plans that are kept for the whole query cost the same.
LEMMA TopPlansEqual ==
  ASSUME QueryOK, Factorized, NEW P, NEW M, NEW k, HeapInv(P, k), MapInv(P, M, k), ParetoInv(P, M),
         Relations \in DOMAIN M, Cardinality(Relations) # 1,
         NEW p \in ToSet(M[Relations]), NEW q \in ToSet(M[Relations])
  PROVE  P[p].cost = P[q].cost /\ P[p].previous = P[q].previous
<1>1. /\ P[p].estimates = [class \in InterestingClasses(Relations) |-> P[p].estimates[class]]
      /\ P[q].estimates = [class \in InterestingClasses(Relations) |-> P[q].estimates[class]]
  BY ListedEstimated DEF IsListed
<1>2. P[p].estimates = P[q].estimates
  BY <1>1, TopClasses
<1>3. Compatible(P[p], P[q])
  BY DEF ParetoInv
<1> QED
  BY <1>2, <1>3 DEF Compatible

\* chooseBetterPlan: the candidate is given up, or is listed beside the
\* alternatives that it leaves.
LEMMA ChooseBetterPlanInvariant ==
  ASSUME Invariant, ChooseBetterPlan
  PROVE  Invariant'
<1> DEFINE k == curSize
<1>1. /\ candidates # <<>> /\ candidates' = Tail(candidates)
      /\ query' = query /\ algorithm' = algorithm /\ sizes' = sizes /\ curSize' = k /\ todo' = todo
  BY DEF ChooseBetterPlan
<1>2. /\ QueryOK /\ SizeInv(k) /\ HeapInv(plans, k) /\ MapInv(plans, planMap, k)
      /\ SizesInv(planMap, sizes) /\ TodoInv(planMap, k, todo) /\ CandidatesInv(planMap, k, candidates)
      /\ ParetoInv(plans, planMap) /\ FrontInv(plans, planMap, k, todo, candidates)
  BY DEF Invariant, Inv
<1>3. LET candidate == Candidate(Head(candidates))
          surviving == Surviving(plans, candidate, planMap[candidate.rels])
      IN  IF Hopeless(candidate, planMap[candidate.rels]) \/ surviving.refused
          THEN UNCHANGED <<plans, planMap>>
          ELSE /\ plans' = Append(plans, candidate)
               /\ planMap' = [planMap EXCEPT ![candidate.rels] = Append(surviving.kept, Len(plans) + 1)]
  BY Zenon DEF ChooseBetterPlan
<1>4. k \in Nat
  BY <1>2, RelationsFinite DEF SizeInv
<1> HIDE DEF k
<1>5. /\ CandidatesInv(planMap, k, Tail(candidates)) /\ Factorized
      /\ \A x \in ToSet(candidates) : x = Head(candidates) \/ x \in ToSet(Tail(candidates))
  BY <1>1, <1>2, CandidatesTail
<1>6. PICK left \in DOMAIN planMap, right \in DOMAIN planMap :
        /\ PairOf(planMap, k, left, right) /\ left \cup right \in DOMAIN planMap
        /\ CandidateOf(planMap, left, right, Head(candidates))
  BY <1>1, <1>2, CandidatesTail
<1>7. PICK l \in ToSet(planMap[left]), r \in ToSet(planMap[right]), mode \in Modes :
        Head(candidates) = [l |-> l, r |-> r, mode |-> mode]
  BY <1>6 DEF CandidateOf
<1> DEFINE plan == MakeJoin(plans, l, r, mode)
           problem == left \cup right
           alternatives == planMap[problem]
           surviving == Surviving(plans, plan, alternatives)
<1>a. Candidate(Head(candidates)) = plan
  BY <1>7 DEF Candidate
<1>b. problem \in DOMAIN planMap
  BY <1>6
<1>8. /\ IsPlan(plans, k, plan) /\ IsSide(plan)
      /\ plan.rels = left \cup right /\ plan.left = l /\ plan.right = r
      /\ Cardinality(plan.rels) = k /\ k > 1
  BY <1>2, <1>4, <1>6, <1>7, PlanMade, Zenon
<1>9. /\ IsEstimated(plan)
      /\ plan.estimates = [class \in InterestingClasses(plan.rels) |-> plan.estimates[class]]
  <2>1. IsSide(plans[l]) /\ IsSide(plans[r])
    BY <1>2, <1>6, <1>7, Pointed
  <2> QED
    BY <1>2, <1>5, <2>1, JoinEstimated, Zenon
<1>10. \A x : NotWorse(x, plan) <=> NotWorse(x, MakeJoin(plans, l, r, "TopInsert"))
  <2>1. /\ plan.cost = MakeJoin(plans, l, r, "TopInsert").cost
        /\ plan.previous = MakeJoin(plans, l, r, "TopInsert").previous
    BY ModeFree, ZenonT(40)
  <2> HIDE DEF plan
  <2> QED
    BY <2>1 DEF NotWorse
<1>11. problem \in SUBSET Relations /\ Cardinality(problem) = k /\ Cardinality(problem) # 1
  <2>1. problem \in SUBSET Relations
    BY <1>2, <1>6 DEF MapInv
  <2> HIDE DEF plan
  <2> QED
    BY <1>4, <1>8, <2>1
<1>12. IsList(alternatives)
  BY <1>2, <1>6 DEF MapInv
<1>13. \A p \in ToSet(alternatives) :
         /\ p \in DOMAIN plans /\ plans[p].rels = problem /\ IsEstimated(plans[p])
         /\ plan.left = plans[p].left /\ plan.right = plans[p].right => plan.previous = plans[p].previous
  <2>1. ASSUME NEW p \in ToSet(alternatives)
        PROVE  /\ p \in DOMAIN plans /\ plans[p].rels = problem /\ IsEstimated(plans[p])
               /\ plan.left = plans[p].left /\ plan.right = plans[p].right => plan.previous = plans[p].previous
    <3>1. /\ p \in DOMAIN plans /\ plans[p].rels = problem /\ IsEstimated(plans[p])
          /\ plans[p].estimates = [class \in InterestingClasses(problem) |-> plans[p].estimates[class]]
          /\ \E s, u, other : plans[p] = MakeJoin(plans, s, u, other)
      <4> HIDE DEF problem, plan
      <4>1. \A other \in DOMAIN planMap : Cardinality(other) # 1 =>
              \A q \in ToSet(planMap[other]) : IsListed(plans, other, q)
        BY <1>2, <1>5, ListedEstimated, Zenon
      <4>2. IsListed(plans, problem, p)
        BY <1>b, <1>11, <2>1, <4>1, Zenon
      <4> QED
        BY <4>2, ZenonT(40) DEF IsListed
    <3>2. plan.left = plans[p].left /\ plan.right = plans[p].right => plan.previous = plans[p].previous
      <4> SUFFICES ASSUME plan.left = plans[p].left, plan.right = plans[p].right
                   PROVE  plan.previous = plans[p].previous
        OBVIOUS
      <4>1. PICK s, u, other : plans[p] = MakeJoin(plans, s, u, other)
        BY <3>1
      <4>2. /\ MakeJoin(plans, l, r, mode).left = MakeJoin(plans, s, u, other).left
            /\ MakeJoin(plans, l, r, mode).right = MakeJoin(plans, s, u, other).right
        BY <4>1, Zenon
      <4>3. l = s /\ r = u
        BY <4>2, MakeJoinFields, SMTT(40)
      <4>4. MakeJoin(plans, l, r, mode).previous = MakeJoin(plans, l, r, other).previous
        BY ModeFree
      <4> QED
        BY <4>1, <4>3, <4>4, Zenon
    <3> QED
      BY <3>1, <3>2
  <2> QED
    BY <2>1
<1>14. /\ IsList(surviving.kept)
       /\ \A p \in ToSet(surviving.kept) : p \in ToSet(alternatives) /\ Verdict(plan, plans[p]) = "keep"
       /\ surviving.refused => \E p \in ToSet(alternatives) : Verdict(plan, plans[p]) = "give up"
       /\ ~surviving.refused /\ alternatives # <<>> =>
            alternatives[1] \in ToSet(alternatives) /\ Verdict(plan, plans[alternatives[1]]) # "give up"
  BY <1>12, SurvivingFacts, Zenon
<1>15. IF Hopeless(plan, alternatives) \/ surviving.refused
       THEN UNCHANGED <<plans, planMap>>
       ELSE /\ plans' = Append(plans, plan)
            /\ planMap' = [planMap EXCEPT ![problem] = Append(surviving.kept, Len(plans) + 1)]
  <2>1. plan.rels = problem
    BY <1>8
  <2> HIDE DEF plan, problem
  <2> QED
    BY <1>3, <1>a, <2>1, Zenon
<1> HIDE DEF plan, surviving
<1>16. \A x : IsSide(x) => NotWorse(x, x)
  BY DEF IsSide, NotWorse
<1>17. ASSUME problem = Relations, NEW p \in ToSet(alternatives)
       PROVE  /\ Verdict(plan, plans[p]) = "give up" => NotWorse(plans[p], plan)
              /\ Verdict(plan, plans[p]) # "give up" => NotWorse(plan, plans[p])
              /\ Verdict(plan, plans[p]) = "keep" => NotWorse(plans[p], plan)
  <2>1. /\ IsEstimated(plans[p]) /\ plans[p].rels = Relations /\ plan.rels = Relations
        /\ plan.left = plans[p].left /\ plan.right = plans[p].right => plan.previous = plans[p].previous
    BY <1>8, <1>13, <1>17
  <2> QED
    BY <1>9, <2>1, TopVerdict, Zenon
\* The new state, from its parts.
<1>18. ASSUME NEW Q, NEW N, HeapInv(Q, k), MapInv(Q, N, k), SizesInv(N, sizes), TodoInv(N, k, todo),
              CandidatesInv(N, k, Tail(candidates)), ParetoInv(Q, N),
              FrontInv(Q, N, k, todo, candidates), left \in DOMAIN N, right \in DOMAIN N,
              CandidateOf(N, left, right, Head(candidates)), problem = Relations => Beaten(Q, N, l, r),
              plans' = Q, planMap' = N
       PROVE  Invariant'
  <2>1. FrontInv(Q, N, k, todo, Tail(candidates))
    BY <1>1, <1>5, <1>18, <1>7, FrontTail
  <2>2. FlatInv(Q, N, k, todo)
    BY <1>5 DEF FlatInv
  <2>3. Inv(Q, N, sizes, k, todo, Tail(candidates))
    BY <1>2, <1>18, <2>1, <2>2 DEF Inv
  <2>4. /\ query' = query /\ algorithm' = algorithm /\ plans' = Q /\ planMap' = N /\ sizes' = sizes
        /\ curSize' = k /\ todo' = todo /\ candidates' = Tail(candidates)
    BY <1>1, <1>18
  <2> QED
    BY <2>3, <2>4, InvariantSteady
<1>19. CASE Hopeless(plan, alternatives) \/ surviving.refused
  <2>1. plans' = plans /\ planMap' = planMap
    BY <1>15, <1>19
  <2>2. ASSUME problem = Relations PROVE Beaten(plans, planMap, l, r)
    <3>1. ~Hopeless(plan, alternatives)
      <4>1. PredecessorRelations(plan) = {}
        BY <1>8, <2>2, TopClasses DEF PredecessorRelations
      <4> QED
        BY <4>1 DEF Hopeless, IsProperSubset
    <3>2. PICK q \in ToSet(alternatives) : Verdict(plan, plans[q]) = "give up"
      BY <1>14, <1>19, <3>1
    <3>3. NotWorse(plans[q], plan)
      BY <1>17, <2>2, <3>2
    <3>4. alternatives # <<>>
      BY <1>12, <3>2, ListFacts
    <3>5. ASSUME NEW p \in ToSet(alternatives) PROVE NotWorse(plans[p], plan)
      <4>1. plans[p].cost = plans[q].cost /\ plans[p].previous = plans[q].previous
        <5>1. /\ Relations \in DOMAIN planMap /\ Cardinality(Relations) # 1
              /\ p \in ToSet(planMap[Relations]) /\ q \in ToSet(planMap[Relations])
          BY <1>b, <1>11, <2>2, Zenon
        <5> QED
          BY <1>2, <1>5, <5>1, TopPlansEqual
      <4> QED
        BY <3>3, <4>1 DEF NotWorse
    <3> QED
      BY <1>6, <1>10, <2>2, <3>4, <3>5 DEF Beaten
  <2> QED
    BY <1>2, <1>5, <1>6, <1>18, <2>1, <2>2
<1>20. CASE ~(Hopeless(plan, alternatives) \/ surviving.refused)
  <2> DEFINE Q == Append(plans, plan)
             new == Len(plans) + 1
             list == Append(surviving.kept, new)
             N == [planMap EXCEPT ![problem] = list]
  <2>1. plans' = Q /\ planMap' = N
    BY <1>15, <1>20
  <2>2. /\ HeapInv(Q, k) /\ DOMAIN plans \subseteq DOMAIN Q /\ new \in DOMAIN Q
        /\ \A p \in DOMAIN plans : Q[p] = plans[p]
        /\ Q[new] = plan
    BY <1>2, <1>8, PlanAppended
  <2>3. /\ IsList(list) /\ ToSet(list) = ToSet(surviving.kept) \cup {new}
    BY <1>14, AppendList
  <2> HIDE DEF Q, new, list
  <2>4. /\ DOMAIN N = DOMAIN planMap /\ N[problem] = list
        /\ \A other \in DOMAIN planMap : other # problem => N[other] = planMap[other]
    BY <1>6
  <2> HIDE DEF N
  <2>5. Step(plans, planMap, Q, N, k, problem)
    <3>1. Changes(plans, planMap, Q, N, problem)
      BY <1>6, <2>2, <2>4 DEF Changes
    <3> QED
      BY <1>2, <1>4, <1>8, <1>11, <3>1 DEF Step
  <2>6. \A p \in ToSet(list) :
          \/ p = new /\ Q[p] = plan
          \/ /\ p \in ToSet(alternatives) /\ Verdict(plan, plans[p]) = "keep"
             /\ Q[p] = plans[p] /\ plans[p].rels = problem /\ p \in DOMAIN plans
    BY <1>13, <1>14, <2>2, <2>3
  <2>7. list # <<>>
    BY <2>3, ListFacts
  <2>8. ListOf(Q, N, problem)
    BY <1>5, <1>8, <2>2, <2>3, <2>4, <2>6 DEF ListOf
  <2>9. MapInv(Q, N, k) /\ TodoInv(N, k, todo) /\ CandidatesInv(N, k, Tail(candidates))
    BY <1>2, <1>5, <2>5, <2>8, ListsKept
  <2>10. SizesInv(N, sizes)
    BY <1>2, <2>4 DEF SizesInv
  <2>11. ParetoInv(Q, N)
    <3>1. ASSUME NEW p \in ToSet(list), NEW q \in ToSet(list) PROVE Compatible(Q[p], Q[q])
      <4>1. CASE Q[p] = plan /\ Q[q] = plan
        BY <4>1 DEF Compatible, ParetoBetter
      <4>2. CASE q \in ToSet(alternatives) /\ Verdict(plan, plans[q]) = "keep" /\ Q[q] = plans[q] /\ Q[p] = plan
        BY <1>8, <1>9, <1>13, <4>2, KeptCompatible
      <4>3. CASE p \in ToSet(alternatives) /\ Verdict(plan, plans[p]) = "keep" /\ Q[p] = plans[p] /\ Q[q] = plan
        BY <1>8, <1>9, <1>13, <4>3, KeptCompatible
      <4>4. CASE p \in ToSet(alternatives) /\ q \in ToSet(alternatives) /\ Q[p] = plans[p] /\ Q[q] = plans[q]
        BY <1>2, <1>5, <1>6, <4>4 DEF ParetoInv
      <4> QED
        BY <2>6, <4>1, <4>2, <4>3, <4>4
    <3> QED
      BY <1>2, <2>4, <2>5, <3>1, ParetoKept
  <2>12. FrontInv(Q, N, k, todo, candidates)
    <3>1. ASSUME problem = Relations, alternatives # <<>>, NEW p \in ToSet(list)
          PROVE  \E q \in ToSet(alternatives) : NotWorse(Q[p], plans[q])
      <4>1. CASE Q[p] = plan
        <5>1. alternatives[1] \in ToSet(alternatives) /\ Verdict(plan, plans[alternatives[1]]) # "give up"
          BY <1>14, <1>20, <3>1
        <5>2. NotWorse(plan, plans[alternatives[1]])
          BY <1>17, <3>1, <5>1
        <5> QED
          BY <4>1, <5>1, <5>2
      <4>2. CASE p \in ToSet(alternatives) /\ Q[p] = plans[p]
        <5>1. NotWorse(plans[p], plans[p])
          BY <1>13, <1>16, <4>2 DEF IsEstimated
        <5> QED
          BY <4>2, <5>1
      <4>3. Q[p] = plan \/ (p \in ToSet(alternatives) /\ Q[p] = plans[p])
        BY <2>6, <3>1
      <4> QED
        BY <4>1, <4>2, <4>3, Zenon
    <3>2. problem = Relations /\ planMap[problem] # <<>> =>
            /\ N[problem] # <<>>
            /\ \A p \in ToSet(N[problem]) :
                 \E q \in ToSet(planMap[problem]) : NotWorse(Q[p], plans[q])
      BY <2>4, <2>7, <3>1, Zenon
    <3>3. FrontInv(plans, planMap, k, todo, candidates) /\ HeapInv(Q, k)
      BY <1>2, <2>2
    <3> QED
      BY <2>5, <2>8, <3>2, <3>3, FrontKept, ZenonT(40)
  <2>13. /\ N[left] = planMap[left] /\ N[right] = planMap[right]
         /\ MakeJoin(Q, l, r, "TopInsert") = MakeJoin(plans, l, r, "TopInsert")
    BY <1>6, <1>7, <2>5, PairsKept
  <2>14. ASSUME problem = Relations PROVE Beaten(Q, N, l, r)
    <3>1. ASSUME NEW p \in ToSet(list) PROVE NotWorse(Q[p], plan)
      <4>1. CASE Q[p] = plan
        BY <1>8, <1>16, <4>1
      <4>2. CASE p \in ToSet(alternatives) /\ Verdict(plan, plans[p]) = "keep" /\ Q[p] = plans[p]
        BY <1>17, <2>14, <4>2
      <4> QED
        BY <2>6, <4>1, <4>2
    <3>2. \A p \in ToSet(list) : NotWorse(Q[p], MakeJoin(Q, l, r, "TopInsert"))
      BY <1>10, <2>13, <3>1
    <3> QED
      BY <1>6, <2>4, <2>7, <2>14, <3>2 DEF Beaten
  <2>15. left \in DOMAIN N /\ right \in DOMAIN N /\ CandidateOf(N, left, right, Head(candidates))
    BY <1>6, <2>4, <2>13 DEF CandidateOf
  <2> QED
    BY <1>18, <2>1, <2>2, <2>9, <2>10, <2>11, <2>12, <2>14, <2>15
<1> QED
  BY <1>19, <1>20

-----------------------------------------------------------------------------
(* The dynamic programs.                                                   *)

\* Between two queries there is nothing to join.
LEMMA NothingListed ==
  ASSUME Invariant, query = NoQuery
  PROVE  todo = <<>> /\ candidates = <<>>
<1>1. Relations = {}
  BY DEF Relations, NoQuery
<1>2. DOMAIN planMap = {}
  BY <1>1 DEF Invariant, Inv, MapInv
<1>3. IsList(todo) /\ ToSet(todo) = {}
  BY <1>2 DEF Invariant, Inv, TodoInv
<1>4. IsList(candidates) /\ ToSet(candidates) = {}
  BY <1>2 DEF Invariant, Inv, CandidatesInv
<1> QED
  BY <1>3, <1>4, ListFacts

LEMMA QueryFacts ==
  ASSUME NEW q, IsQuery(q)
  PROVE  \E n \in Nat \ {0} :
           /\ DOMAIN q.classes = 1 .. n
           /\ q.classes \in Seq(SUBSET UNION {q.classes[r] : r \in DOMAIN q.classes})
           /\ \A r \in 1 .. n : \E m \in Nat : DOMAIN q.rows[r] = 1 .. m
<1>a. PICK n \in Nat \ {0} : \E classes, values :
        /\ q.classes \in [1 .. n -> SUBSET classes]
        /\ \A r \in 1 .. n : q.rows[r] \in Seq([q.classes[r] -> values])
  BY DEF IsQuery
<1>1. PICK classes, values :
        /\ q.classes \in [1 .. n -> SUBSET classes]
        /\ \A r \in 1 .. n : q.rows[r] \in Seq([q.classes[r] -> values])
  BY <1>a
<1> DEFINE used == UNION {q.classes[r] : r \in DOMAIN q.classes}
<1>2. DOMAIN q.classes = 1 .. n
  BY <1>1
<1>3. \A r \in 1 .. n : q.classes[r] \in SUBSET used
  BY <1>2
<1> HIDE DEF used
<1>4. q.classes \in [1 .. n -> SUBSET used]
  BY <1>1, <1>3
<1>5. q.classes \in Seq(SUBSET used)
  BY <1>4
<1>6. ASSUME NEW r \in 1 .. n PROVE \E m \in Nat : DOMAIN q.rows[r] = 1 .. m
  <2> DEFINE S == [q.classes[r] -> values]
  <2>1. q.rows[r] \in Seq(S)
    BY <1>1
  <2> HIDE DEF S
  <2>2. Len(q.rows[r]) \in Nat /\ DOMAIN q.rows[r] = 1 .. Len(q.rows[r])
    BY <2>1, SequencesAreLists
  <2> QED
    BY <2>2
<1> QED
  BY <1>2, <1>5, <1>6 DEF used

LEMMA StartInvariant ==
  ASSUME Invariant, query = NoQuery, NEW q, IsQuery(q), StartOrdering(q)
  PROVE  Invariant'
<1>1. todo = <<>> /\ candidates = <<>>
  BY NothingListed
<1>2. /\ query' = q /\ plans' = Prepared(q).plans /\ planMap' = Prepared(q).planMap
      /\ sizes' = Prepared(q).sizes /\ curSize' = 1 /\ todo' = <<>> /\ candidates' = <<>>
  BY <1>1 DEF StartOrdering
<1>3. PICK n \in Nat \ {0} :
        /\ DOMAIN q.classes = 1 .. n
        /\ q.classes \in Seq(SUBSET UNION {q.classes[r] : r \in DOMAIN q.classes})
        /\ \A r \in 1 .. n : \E m \in Nat : DOMAIN q.rows[r] = 1 .. m
  BY QueryFacts
<1>4. Relations' = 1 .. n /\ Relations' = DOMAIN q.classes
  BY <1>2, <1>3 DEF Relations
<1>5. QueryOK'
  BY <1>2, <1>3, <1>4 DEF QueryOK
<1>6. Relations' # {}
  <2>1. 1 \in 1 .. n
    BY <1>3
  <2> QED
    BY <1>4, <2>1
<1>7. (query.classes \in Seq(SUBSET UNION {query.classes[r] : r \in Relations}))'
  BY <1>2, <1>3, <1>4
<1>8. Started'
  BY <1>2, <1>5, <1>6, <1>7 DEF Started
<1>9. Started' => Invariant'
  BY StartedInvariant, PTL
<1> QED
  BY <1>8, <1>9

LEMMA EndInvariant ==
  ASSUME Done, EndOrdering
  PROVE  Invariant'
<1>1. Idle'
  BY DEF Done, EndOrdering, Idle
<1>2. Idle' => Invariant'
  BY IdleInvariant, PTL
<1> QED
  BY <1>1, <1>2

LEMMA StutterInvariant ==
  ASSUME Invariant, UNCHANGED orderingVars
  PROVE  Invariant'
<1>1. /\ query' = query /\ algorithm' = algorithm /\ plans' = plans /\ planMap' = planMap
      /\ sizes' = sizes /\ curSize' = curSize /\ todo' = todo /\ candidates' = candidates
  BY DEF orderingVars
<1>2. Inv(plans, planMap, sizes, curSize, todo, candidates)
  BY DEF Invariant
<1> QED
  BY <1>1, <1>2, InvariantSteady

\* Every state of the dynamic programs satisfies the invariant, for every query.
THEOREM OrderingInvariant == OrderingSpec => []Invariant
<1>1. OrderingInit => Invariant
  BY IdleInvariant DEF OrderingInit, Idle
<1>2. Invariant /\ [OrderingNext]_orderingVars => Invariant'
  <2> SUFFICES ASSUME Invariant, [OrderingNext]_orderingVars PROVE Invariant'
    OBVIOUS
  <2>1. CASE query = NoQuery /\ \E q : IsQuery(q) /\ StartOrdering(q)
    BY <2>1, StartInvariant
  <2>2. CASE NextSize
    BY <2>2, NextSizeInvariant
  <2>3. CASE JoinPair
    BY <2>3, CreateJoinInvariant, CreateJoinsInvariant
  <2>4. CASE ChooseBetterPlan
    BY <2>4, ChooseBetterPlanInvariant
  <2>5. CASE Done /\ EndOrdering
    BY <2>5, EndInvariant
  <2>6. CASE UNCHANGED orderingVars
    BY <2>6, StutterInvariant
  <2> QED
    BY <2>1, <2>2, <2>3, <2>4, <2>5, <2>6 DEF OrderingNext, Ordering
<1> QED
  BY <1>1, <1>2, PTL DEF OrderingSpec

\* Although DPSize overwrites plans that others point to, no plan of the search is
\* priced by a plan that is no longer there (DPSize.cpp:38).
THEOREM CostsStayCurrent == OrderingSpec => []CostsCurrent
<1>1. Invariant => CostsCurrent
  BY InvariantCostsCurrent
<1> QED
  BY <1>1, OrderingInvariant, PTL

\* The flat algorithms find a cheapest join tree of every problem that has one, and the
\* first plan that DPFact lists is the best of all candidates it compared.
THEOREM OptimizerFindsBestPlan == OrderingSpec => []BestPlanChosen
<1>1. Invariant => BestPlanChosen
  BY InvariantFlatOptimal, InvariantFrontIsCheapest, InvariantParetoSets DEF BestPlanChosen
<1> QED
  BY <1>1, OrderingInvariant, PTL

=============================================================================
