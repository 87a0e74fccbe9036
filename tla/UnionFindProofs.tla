--------------------------- MODULE UnionFindProofs ---------------------------
(***************************************************************************)
(* What the model checker shows of UnionFind for five elements, for every  *)
(* number of elements: the forest invariant, and that every call answers   *)
(* by the sets that were united.                                           *)
(***************************************************************************)
EXTENDS UnionFind, TLAPS

LEMMA ElementsExist ==
  ASSUME ForestTyped
  PROVE  /\ Existing \subseteq Elements
         /\ size \in Nat
         /\ \A x : x \in Existing <=> x \in Nat /\ x < size
         /\ \A x \in Existing :
              /\ rank[x] \in Nat
              /\ class[x] \in Elements
              /\ HasRepresentative(x) => Representative(x) \in Existing
<1>1. /\ size \in Nat /\ size <= MaxElements
      /\ \A x : x \in Existing <=> x \in Nat /\ x < size
      /\ \A x : x \in Elements <=> x \in Nat /\ x < MaxElements
  BY MaxAssumption DEF ForestTyped, Existing, Elements
<1>2. Existing \subseteq Elements
  BY <1>1, MaxAssumption
<1>3. ASSUME NEW x \in Existing, HasRepresentative(x)
      PROVE  Representative(x) \in Existing
  <2>1. representative[x] \in 0 .. size
    BY <1>2 DEF ForestTyped
  <2> QED
    BY <1>1, <1>3, <2>1 DEF HasRepresentative, Representative
<1> QED
  BY <1>1, <1>2, <1>3 DEF ForestTyped

\* Two roots of one set are the same element: each would outrank the other.
LEMMA OneRoot ==
  ASSUME ForestTyped, RootInv, NEW x, NEW y, RootOf(x, y),
         NEW z \in Existing, class[z] = class[x], ~HasRepresentative(z)
  PROVE  z = x
<1>1. x \in Existing /\ rank[x] \in Nat /\ rank[z] \in Nat
  BY ElementsExist DEF RootOf
<1> QED
  BY <1>1 DEF RootInv, RootOf

LEMMA InitIInv == UnionInit => IInv
<1> SUFFICES ASSUME UnionInit PROVE IInv
  OBVIOUS
<1>1. UnionTyped
  BY MaxAssumption DEF UnionInit, UnionTyped, ForestTyped, LocalsTyped, Existing, Elements, HasRepresentative, UnionLabels, Operations
<1> QED
  BY <1>1 DEF UnionInit, IInv, RankedForest, ParentInv, RootInv, FreshInv, FindInv, CallerInv,
              EqualInv, Existing, Elements

-----------------------------------------------------------------------------
(* The steps that leave the sets alone.                                    *)

\* An element that is added is a root, alone in its set.
LEMMA AddElementIInv == IInv /\ AddElement => IInv'
<1> SUFFICES ASSUME IInv, AddElement PROVE IInv'
  OBVIOUS
<1> USE DEF IInv, RankedForest, AddElement, forest, locals
<1>1. Existing' = Existing \cup {size} /\ size \in Elements \ Existing /\ size \in Nat
  BY MaxAssumption DEF UnionTyped, ForestTyped, Existing, Elements
<1>2. ForestTyped' /\ LocalsTyped'
  <2>1. size + 1 \in 0 .. MaxElements /\ representative \in [Elements -> 0 .. size + 1]
    BY MaxAssumption DEF UnionTyped, ForestTyped
  <2>2. ForestTyped'
    BY <1>1, <2>1 DEF UnionTyped, ForestTyped, HasRepresentative
  <2> QED
    BY <1>1, <2>2 DEF UnionTyped, LocalsTyped
<1>3. class[size] = size /\ ~HasRepresentative(size) /\ \A x \in Existing : class[x] # size
  BY <1>1, ElementsExist DEF FreshInv, UnionTyped, ForestTyped
<1>4. ParentInv'
  BY <1>1, <1>3 DEF ParentInv, HasRepresentative, Representative
<1>5. RootInv'
  BY <1>1, <1>3 DEF RootInv, HasRepresentative
<1>6. FreshInv'
  BY <1>1, <1>3 DEF FreshInv
<1>7. FindInv' /\ CallerInv' /\ EqualInv'
  BY DEF FindInv, CallerInv, EqualInv
<1> QED
  BY <1>2, <1>4, <1>5, <1>6, <1>7 DEF UnionTyped

\* A step that touches neither the forest nor the sets keeps what is said of them.
LEMMA ForestUnchanged ==
  ASSUME IInv, UNCHANGED <<forest, class>>
  PROVE  ForestTyped' /\ RankedForest' /\ FreshInv'
  BY DEF IInv, UnionTyped, ForestTyped, RankedForest, ParentInv, RootInv, FreshInv, forest, HasRepresentative,
         Representative, Existing

\* A call that has returned relies on nothing.
LEMMA IdleIInv ==
  ASSUME unionPc' = "idle"
  PROVE  FindInv' /\ CallerInv' /\ EqualInv'
  BY DEF FindInv, CallerInv, EqualInv

LEMMA CallsIInv == IInv /\ Calls => IInv'
<1> SUFFICES ASSUME IInv, Calls PROVE IInv'
  OBVIOUS
<1>1. ForestTyped' /\ RankedForest' /\ FreshInv' /\ Existing' = Existing
  BY ForestUnchanged DEF Calls, Call, forest, Existing
<1>2. PICK a \in Existing, b \in Existing :
        \/ Call("find", a, a, "find", a)
        \/ Call("union", a, b, "find", a)
        \/ Call("optimize", 0, 0, "find", 0)
        \/ Call("single", 0, 0, "find", 0)
        \/ Call("equal", a, a, "findConst", a)
  BY DEF Calls
<1>3. 0 \in Existing /\ a \in Nat /\ b \in Nat
  BY ElementsExist DEF IInv, UnionTyped
<1>4. LocalsTyped'
  <2>1. /\ unionPc' \in {"find", "findConst"} /\ op' \in Operations /\ args' \in Nat \X Nat
        /\ entry' = root' /\ entry' \in Existing /\ entry' \in Nat
        /\ UNCHANGED <<idx, first, set, path>>
    BY <1>2, <1>3 DEF Call, Operations
  <2> QED
    BY <1>1, <2>1 DEF IInv, UnionTyped, LocalsTyped, UnionLabels
<1>5. FindInv' /\ CallerInv' /\ EqualInv'
  BY <1>1, <1>2, <1>3 DEF Call, FindInv, CallerInv, EqualInv
<1> QED
  BY <1>1, <1>4, <1>5 DEF IInv, UnionTyped

LEMMA FindIInv == IInv /\ Find => IInv'
<1> SUFFICES ASSUME IInv, Find PROVE IInv'
  OBVIOUS
<1>1. /\ ForestTyped' /\ RankedForest' /\ FreshInv' /\ Existing' = Existing
      /\ representative' = representative /\ class' = class
  BY ForestUnchanged DEF Find, forest, Existing
<1>2. /\ entry \in Existing /\ entry' = entry /\ unionPc' \in {"climb", "found"}
      /\ root' \in Existing /\ root' \in Nat /\ class[root'] = class[entry]
      /\ unionPc' = "found" => ~HasRepresentative(root')
  BY ElementsExist DEF IInv, RankedForest, ParentInv, UnionTyped, LocalsTyped, Find
<1>3. LocalsTyped'
  BY <1>1, <1>2 DEF IInv, UnionTyped, LocalsTyped, Find, UnionLabels
<1>4. FindInv'
  BY <1>1, <1>2 DEF FindInv, RootOf, HasRepresentative
<1>5. CallerInv'
  BY <1>1 DEF IInv, Find, CallerInv, RootOf, HasRepresentative
<1>6. EqualInv'
  BY <1>2 DEF EqualInv
<1> QED
  BY <1>1, <1>3, <1>4, <1>5, <1>6 DEF IInv, UnionTyped

LEMMA ClimbIInv == IInv /\ Climb => IInv'
<1> SUFFICES ASSUME IInv, Climb PROVE IInv'
  OBVIOUS
<1>1. /\ ForestTyped' /\ RankedForest' /\ FreshInv' /\ Existing' = Existing
      /\ representative' = representative /\ class' = class
  BY ForestUnchanged DEF Climb, forest, Existing
<1>2. /\ entry \in Existing /\ entry' = entry /\ unionPc' \in {"climb", "compress"}
      /\ root' \in Existing /\ root' \in Nat /\ class[root'] = class[entry]
      /\ unionPc' = "compress" => ~HasRepresentative(root') /\ idx' = entry
  BY ElementsExist DEF IInv, RankedForest, ParentInv, UnionTyped, LocalsTyped, FindInv, Climb
<1>3. LocalsTyped'
  BY <1>1, <1>2 DEF IInv, UnionTyped, LocalsTyped, Climb, UnionLabels
<1>4. FindInv'
  BY <1>1, <1>2 DEF FindInv, RootOf, HasRepresentative
<1>5. CallerInv'
  BY <1>1 DEF IInv, Climb, CallerInv, RootOf, HasRepresentative
<1>6. EqualInv'
  BY <1>2 DEF EqualInv
<1> QED
  BY <1>1, <1>3, <1>4, <1>5, <1>6 DEF IInv, UnionTyped

\* A compression hangs an element that is not a root below the root of its set.
LEMMA CompressIInv == IInv /\ Compress => IInv'
<1> SUFFICES ASSUME IInv, Compress PROVE IInv'
  OBVIOUS
<1>1. /\ Existing' = Existing /\ class' = class /\ rank' = rank /\ size' = size
      /\ entry' = entry /\ root' = root /\ first' = first /\ op' = op /\ args' = args
      /\ idx \in Existing /\ root \in Existing /\ entry \in Existing
      /\ RootOf(root, entry) /\ class[idx] = class[root]
  BY DEF IInv, UnionTyped, LocalsTyped, FindInv, RootOf, Compress, Existing
<1>2. CASE idx = root
  <2>1. UNCHANGED <<forest, class>> /\ unionPc' = "found" /\ idx' = idx
    BY <1>1, <1>2 DEF Compress, forest
  <2>2. ForestTyped' /\ RankedForest' /\ FreshInv'
    BY <2>1, ForestUnchanged
  <2>3. LocalsTyped'
    BY <1>1, <2>1 DEF IInv, UnionTyped, LocalsTyped, Compress, UnionLabels
  <2>4. FindInv' /\ CallerInv' /\ EqualInv'
    BY <1>1, <2>1 DEF IInv, Compress, forest, FindInv, CallerInv, EqualInv, RootOf, HasRepresentative
  <2> QED
    BY <2>2, <2>3, <2>4 DEF IInv, UnionTyped
<1>3. CASE idx # root
  <2>1. HasRepresentative(idx)
    BY <1>1, <1>3, OneRoot DEF IInv, UnionTyped, RankedForest
  <2>2. /\ representative' = [representative EXCEPT ![idx] = root + 1]
        /\ idx' = Representative(idx) /\ unionPc' = unionPc /\ unionPc = "compress"
    BY <1>3 DEF Compress
  <2>3. /\ idx' \in Existing /\ idx' \in Nat /\ class[idx'] = class[root]
        /\ root + 1 \in 1 .. size
        /\ idx \in Elements /\ size \in Nat
    BY <1>1, <2>1, <2>2, ElementsExist DEF IInv, UnionTyped, RankedForest, ParentInv
  <2>4. /\ ForestTyped'
        /\ \A x \in Existing : HasRepresentative(x)' <=> HasRepresentative(x)
        /\ \A x \in Existing :
             HasRepresentative(x) => Representative(x)' = IF x = idx THEN root ELSE Representative(x)
    <3>1. ForestTyped'
      BY <1>1, <2>2, <2>3 DEF IInv, UnionTyped, ForestTyped, HasRepresentative
    <3>2. Existing \subseteq Elements /\ representative \in [Elements -> 0 .. size] /\ root \in Nat
      BY <1>1, ElementsExist DEF IInv, UnionTyped, ForestTyped
    <3> QED
      BY <2>1, <2>2, <2>3, <3>1, <3>2 DEF HasRepresentative, Representative
  <2>5. ParentInv'
    <3>1. rank[idx] < rank[root]
      BY <1>1, <1>3 DEF IInv, RankedForest, RootInv, RootOf
    <3> QED
      BY <1>1, <2>4, <3>1 DEF IInv, RankedForest, ParentInv
  <2>6. RootInv' /\ FreshInv'
    BY <1>1, <2>4 DEF IInv, RankedForest, RootInv, FreshInv
  <2>7. LocalsTyped'
    BY <1>1, <2>2, <2>3 DEF IInv, UnionTyped, LocalsTyped, Compress
  <2>8. FindInv'
    BY <1>1, <2>2, <2>3, <2>4 DEF FindInv, RootOf
  <2>9. CallerInv'
    BY <1>1, <2>2, <2>4 DEF IInv, CallerInv, RootOf
  <2>10. EqualInv'
    BY <2>2 DEF EqualInv
  <2> QED
    BY <2>4, <2>5, <2>6, <2>7, <2>8, <2>9, <2>10 DEF IInv, UnionTyped, RankedForest
<1> QED
  BY <1>2, <1>3

LEMMA OptimizeNextIInv == IInv /\ OptimizeNext => IInv'
<1> SUFFICES ASSUME IInv, OptimizeNext PROVE IInv'
  OBVIOUS
<1>1. /\ ForestTyped' /\ RankedForest' /\ FreshInv' /\ Existing' = Existing
      /\ representative' = representative /\ class' = class
  BY ForestUnchanged DEF OptimizeNext, forest, Existing
<1>2. CASE unionPc' = "idle"
  <2>1. LocalsTyped'
    BY <1>2 DEF OptimizeNext, FindOf, Return, LocalsTyped, UnionLabels, Operations
  <2> QED
    BY <1>1, <1>2, <2>1, IdleIInv DEF IInv, UnionTyped
<1>3. CASE unionPc' # "idle"
  <2>1. /\ entry + 1 < size /\ entry' = entry + 1 /\ root' = entry + 1 /\ unionPc' = "find"
        /\ op = "optimize" /\ UNCHANGED <<op, args, idx, set, path, first>>
    BY <1>3 DEF OptimizeNext, FindOf, Return
  <2>2. entry + 1 \in Existing /\ entry + 1 \in Nat
    BY <2>1, ElementsExist DEF IInv, UnionTyped, LocalsTyped
  <2>3. LocalsTyped'
    BY <1>1, <2>1, <2>2 DEF IInv, UnionTyped, LocalsTyped, UnionLabels
  <2>4. FindInv' /\ CallerInv' /\ EqualInv'
    BY <2>1 DEF FindInv, CallerInv, EqualInv
  <2> QED
    BY <1>1, <2>3, <2>4 DEF IInv, UnionTyped
<1> QED
  BY <1>2, <1>3

LEMMA SingleNextIInv == IInv /\ SingleNext => IInv'
<1> SUFFICES ASSUME IInv, SingleNext PROVE IInv'
  OBVIOUS
<1>1. /\ ForestTyped' /\ RankedForest' /\ FreshInv' /\ Existing' = Existing
      /\ representative' = representative /\ class' = class
  BY ForestUnchanged DEF SingleNext, forest, Existing
<1>2. CASE unionPc' = "idle"
  <2>1. LocalsTyped'
    BY <1>2 DEF SingleNext, FindOf, Return, LocalsTyped, UnionLabels, Operations
  <2> QED
    BY <1>1, <1>2, <2>1, IdleIInv DEF IInv, UnionTyped
<1>3. CASE unionPc' # "idle"
  <2>1. /\ entry + 1 < size /\ entry' = entry + 1 /\ root' = entry + 1 /\ unionPc' = "find"
        /\ unionPc = "found" /\ op = "single" /\ UNCHANGED <<op, args, idx, set, path>>
        /\ first' = root /\ (entry = 0 \/ first = root)
    BY <1>3 DEF SingleNext, FindOf, Return
  <2>2. entry + 1 \in Existing /\ entry + 1 \in Nat /\ entry \in Nat /\ root \in Nat
    BY <2>1, ElementsExist DEF IInv, UnionTyped, LocalsTyped
  <2>3. LocalsTyped'
    BY <1>1, <2>1, <2>2 DEF IInv, UnionTyped, LocalsTyped, UnionLabels
  <2>4. RootOf(root, 0) /\ \A x \in 0 .. entry : class[x] = class[0]
    <3>1. RootOf(root, entry) /\ (entry > 0 => RootOf(root, 0) /\ \A x \in 0 .. entry - 1 : class[x] = class[0])
      BY <2>1, <2>2 DEF IInv, FindInv, CallerInv
    <3> QED
      BY <2>2, <3>1 DEF RootOf
  <2>5. CallerInv'
    BY <1>1, <2>1, <2>2, <2>4 DEF CallerInv, RootOf, HasRepresentative
  <2>6. FindInv' /\ EqualInv'
    BY <2>1 DEF FindInv, EqualInv
  <2> QED
    BY <1>1, <2>3, <2>5, <2>6 DEF IInv, UnionTyped
<1> QED
  BY <1>2, <1>3

LEMMA FindReturnsIInv == IInv /\ FindReturns => IInv'
<1> SUFFICES ASSUME IInv, FindReturns PROVE IInv'
  OBVIOUS
<1>1. ForestTyped' /\ RankedForest' /\ FreshInv'
  BY ForestUnchanged DEF FindReturns
<1>2. LocalsTyped' /\ unionPc' = "idle"
  BY DEF FindReturns, Return, LocalsTyped, UnionLabels, Operations
<1> QED
  BY <1>1, <1>2, IdleIInv DEF IInv, UnionTyped

LEMMA UnionFirstIInv == IInv /\ UnionFirst => IInv'
<1> SUFFICES ASSUME IInv, UnionFirst PROVE IInv'
  OBVIOUS
<1>1. /\ ForestTyped' /\ RankedForest' /\ FreshInv' /\ Existing' = Existing
      /\ representative' = representative /\ class' = class
  BY ForestUnchanged DEF UnionFirst, forest, Existing
<1>2. args[2] \in Existing /\ args[2] \in Nat /\ RootOf(root, args[1]) /\ args[1] \in Existing /\ root \in Nat
  BY ElementsExist DEF IInv, UnionTyped, LocalsTyped, FindInv, CallerInv, UnionFirst
<1>3. LocalsTyped'
  BY <1>1, <1>2 DEF IInv, UnionTyped, LocalsTyped, UnionFirst, UnionLabels, Operations
<1>4. FindInv' /\ EqualInv' /\ CallerInv'
  BY <1>1, <1>2 DEF UnionFirst, FindInv, EqualInv, CallerInv, RootOf, HasRepresentative
<1> QED
  BY <1>1, <1>3, <1>4 DEF IInv, UnionTyped
-----------------------------------------------------------------------------
(* The union.                                                              *)

\* The sets of x and y become one, and no others.
United(x, y) ==
  \A u, v \in Existing : class'[u] = class'[v] <=>
    class[u] = class[v] \/ {class[u], class[v]} = {class[x], class[y]}

\* A root x below a root y of another set: if y outranks x afterwards, and the
\* labels say that the two sets became one, the forest is as it should be.
LEMMA Linked ==
  ASSUME ForestTyped, RankedForest,
         NEW x \in Existing, NEW y \in Existing,
         ~HasRepresentative(x), ~HasRepresentative(y), class[x] # class[y],
         Hang(x, y), NEW n \in Nat, rank' = [rank EXCEPT ![y] = n],
         rank[x] < n, rank[y] <= n, size' = size, United(x, y)
  PROVE  RankedForest'
<1> USE DEF United
<1>1. /\ Existing' = Existing /\ \A u \in Existing : rank[u] \in Nat
      /\ x \in Elements /\ y \in Elements /\ y \in Nat
      /\ rank' \in [Elements -> Nat] /\ rank'[y] = n
      /\ \A u \in Existing : u # y => rank'[u] = rank[u]
      /\ \A u \in Existing : u \in Elements
  BY ElementsExist DEF ForestTyped, Existing
<1>2. /\ representative'[x] = y + 1
      /\ \A u \in Existing : u # x => representative'[u] = representative[u]
  BY <1>1 DEF Hang, ForestTyped
<1>3. /\ Representative(x)' = y /\ HasRepresentative(x)'
      /\ \A u \in Existing : u # x =>
           /\ Representative(u)' = Representative(u)
           /\ HasRepresentative(u)' <=> HasRepresentative(u)
  BY <1>1, <1>2 DEF HasRepresentative, Representative
<1>4. ParentInv'
  <2> SUFFICES ASSUME NEW u \in Existing, HasRepresentative(u)'
               PROVE  class'[Representative(u)'] = class'[u] /\ rank'[u] < rank'[Representative(u)']
    BY <1>1 DEF ParentInv
  <2>1. CASE u = x
    <3>1. class'[y] = class'[x]
      OBVIOUS
    <3> QED
      BY <1>1, <1>3, <2>1, <3>1
  <2>2. CASE u # x
    <3>1. /\ HasRepresentative(u) /\ Representative(u) \in Existing /\ u # y
          /\ class[Representative(u)] = class[u] /\ rank[u] < rank[Representative(u)]
      BY <1>3, <2>2, ElementsExist DEF RankedForest, ParentInv
    <3>2. class'[Representative(u)] = class'[u]
      BY <3>1
    <3>3. rank'[u] = rank[u] /\ rank[Representative(u)] <= rank'[Representative(u)]
      <4>1. \A v \in Existing : rank[v] <= rank'[v]
        BY <1>1
      <4> QED
        BY <1>1, <3>1, <4>1
    <3>4. rank'[u] < rank'[Representative(u)]
      <4>1. rank'[Representative(u)] \in Nat
        BY <1>1, <3>1
      <4> QED
        BY <1>1, <3>1, <3>3, <4>1
    <3> QED
      BY <1>3, <2>2, <3>2, <3>4
  <2> QED
    BY <2>1, <2>2
<1>5. RootInv'
  <2> SUFFICES ASSUME NEW u \in Existing, NEW v \in Existing, class'[u] = class'[v],
                      ~HasRepresentative(v)', u # v
               PROVE  rank'[u] < rank'[v]
    BY <1>1 DEF RootInv
  <2>1. v # x /\ ~HasRepresentative(v)
    BY <1>3
  <2>2. CASE class[u] = class[v]
    <3>1. rank[u] < rank[v] /\ (u = y => rank[v] < rank[u])
      BY <2>1, <2>2 DEF RankedForest, RootInv
    <3> QED
      BY <1>1, <3>1
  <2>3. CASE class[u] # class[v]
    <3>1. {class[u], class[v]} = {class[x], class[y]}
      BY <2>3
    <3>2. v = y
      <4>1. class[v] # class[x]
        <5> SUFFICES ASSUME class[v] = class[x] PROVE FALSE
          OBVIOUS
        <5>1. rank[v] < rank[x] /\ rank[x] < rank[v]
          BY <2>1 DEF RankedForest, RootInv
        <5> QED
          BY <1>1, <5>1
      <4>2. class[v] = class[y]
        BY <3>1, <4>1
      <4>3. v # y => rank[v] < rank[y] /\ rank[y] < rank[v]
        BY <2>1, <4>2 DEF RankedForest, RootInv
      <4> QED
        BY <1>1, <4>3
    <3>3. class[u] = class[x]
      BY <2>3, <3>1, <3>2
    <3>4. u = x \/ rank[u] < rank[x]
      BY <3>3 DEF RankedForest, RootInv
    <3> QED
      BY <1>1, <3>2, <3>4
  <2> QED
    BY <2>2, <2>3
<1> QED
  BY <1>4, <1>5 DEF RankedForest

\* What relabelling does: two elements are together if they were, or if they
\* were in the two sets.
LEMMA MergedTogether ==
  ASSUME ForestTyped, FreshInv, NEW a \in Existing, NEW b \in Existing,
         class' = Merged(a, b), size' = size
  PROVE  /\ class' \in [Elements -> Elements]
         /\ FreshInv'
         /\ \A u, v \in Existing : class'[u] = class'[v] <=>
              class[u] = class[v] \/ {class[u], class[v]} = {class[a], class[b]}
<1>1. /\ Existing' = Existing /\ Existing \subseteq Elements
      /\ \A x \in Elements : class[x] \in Elements
  BY ElementsExist DEF Existing, ForestTyped
<1>2. \A x \in Elements : class'[x] = IF class[x] = class[b] THEN class[a] ELSE class[x]
  BY DEF Merged
<1>3. class' \in [Elements -> Elements]
  BY <1>1 DEF Merged
<1>4. FreshInv'
  BY <1>1, <1>2 DEF FreshInv
<1>5. \A u, v \in Existing : class'[u] = class'[v] <=>
         class[u] = class[v] \/ {class[u], class[v]} = {class[a], class[b]}
  BY <1>1, <1>2
<1> QED
  BY <1>3, <1>4, <1>5

LEMMA UnionSecondIInv ==
  ASSUME IInv, UnionSecond
  PROVE  /\ IInv'
         /\ RightAnswer'
<1>1. /\ ForestTyped /\ RankedForest /\ FreshInv /\ Existing' = Existing /\ size' = size
      /\ args[1] \in Existing /\ args[2] \in Existing
      /\ RootOf(first, args[1]) /\ RootOf(root, args[2])
      /\ class' = Merged(args[1], args[2]) /\ op = "union2"
  <2>1. unionPc = "found" /\ op = "union2" /\ size' = size /\ class' = Merged(args[1], args[2])
    BY DEF UnionSecond
  <2>2. ForestTyped /\ RankedForest /\ FreshInv /\ FindInv /\ CallerInv /\ entry \in Existing
    BY <2>1 DEF IInv, UnionTyped, LocalsTyped
  <2> QED
    BY <2>1, <2>2 DEF CallerInv, FindInv, Existing
<1>2. /\ class' \in [Elements -> Elements] /\ FreshInv'
      /\ \A u, v \in Existing : class'[u] = class'[v] <=>
           class[u] = class[v] \/ {class[u], class[v]} = {class[args[1]], class[args[2]]}
  BY <1>1, MergedTogether
<1>3. /\ first \in Existing /\ root \in Existing
      /\ ~HasRepresentative(first) /\ ~HasRepresentative(root)
      /\ class[first] = class[args[1]] /\ class[root] = class[args[2]]
      /\ first \in Nat /\ root \in Nat /\ first \in Elements /\ root \in Elements
      /\ rank[first] \in Nat /\ rank[root] \in Nat
  BY <1>1, ElementsExist DEF RootOf
<1>4. CASE first = root
  <2>1. Return(root) /\ representative' = representative /\ rank' = rank
    BY <1>4 DEF UnionSecond
  <2>2. \A u, v \in Existing : class'[u] = class'[v] <=> class[u] = class[v]
    BY <1>2, <1>3, <1>4
  <2>3. RankedForest'
    BY <1>1, <2>1, <2>2, ElementsExist
       DEF RankedForest, ParentInv, RootInv, HasRepresentative, Representative
  <2>4. ForestTyped'
    BY <1>1, <1>2, <2>1 DEF ForestTyped, HasRepresentative
  <2>5. LocalsTyped' /\ unionPc' = "idle"
    BY <2>1 DEF Return, LocalsTyped, UnionLabels, Operations
  <2>6. IInv'
    BY <1>2, <2>3, <2>4, <2>5, IdleIInv DEF IInv, UnionTyped
  <2>7. answer' = [op |-> "union2", of |-> args, value |-> root]
    BY <1>1, <2>1 DEF Return
  <2> QED
    BY <1>1, <1>2, <1>3, <1>4, <2>1, <2>6, <2>7 DEF RightAnswer, HasRepresentative
<1>5. CASE first # root
  <2>1. class[first] # class[root]
    BY <1>1, <1>3, <1>5, OneRoot DEF RankedForest
  <2>2. ASSUME NEW x \in Existing, NEW y \in Existing, {x, y} = {first, root},
               Hang(x, y), NEW n \in Nat, rank' = [rank EXCEPT ![y] = n],
               rank[x] < n, rank[y] <= n, Return(y)
        PROVE  IInv' /\ RightAnswer'
    <3>1. /\ ~HasRepresentative(x) /\ ~HasRepresentative(y) /\ class[x] # class[y] /\ x # y
          /\ {class[x], class[y]} = {class[args[1]], class[args[2]]}
          /\ x \in Elements /\ y \in Elements /\ y \in Nat /\ y < size /\ size \in Nat
      BY <1>1, <1>3, <2>1, <2>2, ElementsExist
    <3>2. United(x, y)
      BY <1>2, <3>1 DEF United
    <3>3. RankedForest'
      <4>1. ForestTyped /\ RankedForest /\ size' = size
        BY <1>1
      <4>2. /\ ~HasRepresentative(x) /\ ~HasRepresentative(y) /\ class[x] # class[y]
            /\ Hang(x, y) /\ rank' = [rank EXCEPT ![y] = n] /\ rank[x] < n /\ rank[y] <= n
        BY <2>2, <3>1
      <4> QED
        BY <3>2, <4>1, <4>2, Linked
    <3>4. ForestTyped'
      <4>1. rank' \in [Elements -> Nat] /\ y + 1 \in 0 .. size
        BY <1>1, <2>2, <3>1 DEF ForestTyped
      <4> QED
        BY <1>1, <1>2, <2>2, <3>1, <4>1 DEF ForestTyped, Hang, HasRepresentative
    <3>5. LocalsTyped' /\ unionPc' = "idle"
      BY <2>2 DEF Return, LocalsTyped, UnionLabels, Operations
    <3>6. IInv'
      BY <1>2, <3>3, <3>4, <3>5, IdleIInv DEF IInv, UnionTyped
    <3>7. answer' = [op |-> "union2", of |-> args, value |-> y]
      BY <1>1, <2>2 DEF Return
    <3>8. ~HasRepresentative(y)' /\ class'[y] = class'[args[1]] /\ class'[args[1]] = class'[args[2]]
      <4>1. representative'[y] = representative[y]
        BY <1>1, <2>2, <3>1 DEF Hang, ForestTyped
      <4>2. class'[args[1]] = class'[args[2]]
        BY <1>1, <1>2
      <4>3. class[y] = class[args[1]] \/ class[y] = class[args[2]]
        BY <1>3, <2>2
      <4>4. class'[y] = class'[args[1]]
        BY <1>1, <1>2, <4>2, <4>3
      <4> QED
        BY <3>1, <4>1, <4>2, <4>4 DEF HasRepresentative
    <3> QED
      BY <1>1, <3>6, <3>7, <3>8 DEF RightAnswer
  <2>3. LinkRoots(first, root)
    BY <1>5 DEF UnionSecond
  <2>4. rank = [rank EXCEPT ![first] = rank[first]] /\ rank = [rank EXCEPT ![root] = rank[root]]
    BY <1>1, <1>3 DEF ForestTyped
  <2>5. CASE rank[first] < rank[root]
    <3>1. Hang(first, root) /\ Return(root) /\ rank' = rank
      BY <2>3, <2>5 DEF LinkRoots
    <3>2. rank' = [rank EXCEPT ![root] = rank[root]]
      BY <2>4, <3>1
    <3>3. rank[root] <= rank[root]
      BY <1>3
    <3> QED
      BY <1>3, <2>2, <2>5, <3>1, <3>2, <3>3
  <2>6. CASE rank[first] > rank[root]
    <3>1. Hang(root, first) /\ Return(first) /\ rank' = rank
      BY <1>3, <2>3, <2>6 DEF LinkRoots
    <3>2. rank' = [rank EXCEPT ![first] = rank[first]] /\ {root, first} = {first, root}
      BY <2>4, <3>1
    <3>3. rank[root] < rank[first] /\ rank[first] <= rank[first]
      BY <1>3, <2>6
    <3> QED
      BY <1>3, <2>2, <3>1, <3>2, <3>3
  <2>7. CASE rank[first] = rank[root] /\ first < root
    <3>1. Hang(root, first) /\ Return(first) /\ rank' = [rank EXCEPT ![first] = rank[first] + 1]
      BY <1>3, <2>3, <2>7 DEF LinkRoots
    <3>2. /\ rank[root] < rank[first] + 1 /\ rank[first] <= rank[first] + 1 /\ rank[first] + 1 \in Nat
          /\ {root, first} = {first, root}
      BY <1>3, <2>7
    <3> QED
      BY <1>3, <2>2, <3>1, <3>2
  <2>8. CASE rank[first] = rank[root] /\ ~(first < root)
    <3>1. Hang(first, root) /\ Return(root) /\ rank' = [rank EXCEPT ![root] = rank[root] + 1]
      BY <1>3, <2>3, <2>8 DEF LinkRoots
    <3>2. /\ rank[first] < rank[root] + 1 /\ rank[root] <= rank[root] + 1 /\ rank[root] + 1 \in Nat
          /\ {first, root} = {first, root}
      BY <1>3, <2>8
    <3> QED
      BY <1>3, <2>2, <3>1, <3>2
  <2> QED
    BY <1>3, <2>5, <2>6, <2>7, <2>8
<1> QED
  BY <1>4, <1>5
-----------------------------------------------------------------------------
(* getEqualElements.                                                       *)

LEMMA FindConstIInv == IInv /\ FindConst => IInv'
<1> SUFFICES ASSUME IInv, FindConst PROVE IInv'
  OBVIOUS
<1>1. /\ ForestTyped' /\ RankedForest' /\ FreshInv' /\ Existing' = Existing
      /\ representative' = representative /\ class' = class /\ size' = size /\ size \in Nat
      /\ \A x \in Existing : x \in Nat
  BY ForestUnchanged, ElementsExist DEF IInv, UnionTyped, FindConst, forest, Existing
<1>2. /\ unionPc = "findConst" /\ op = "equal" /\ args[1] \in Existing
      /\ class[root] = class[args[1]] /\ root \in Existing
      /\ UNCHANGED <<op, args, entry, first, path>>
  BY DEF IInv, UnionTyped, LocalsTyped, EqualInv, FindConst
<1>3. CASE HasRepresentative(root)
  <2>1. unionPc' = "findConst" /\ root' = Representative(root) /\ UNCHANGED <<idx, set>>
    BY <1>2, <1>3 DEF FindConst
  <2>2. root' \in Existing /\ class[root'] = class[root]
    BY <1>2, <1>3, <2>1, ElementsExist DEF IInv, UnionTyped, RankedForest, ParentInv
  <2>3. LocalsTyped'
    BY <1>1, <1>2, <2>1, <2>2 DEF IInv, UnionTyped, LocalsTyped
  <2>4. FindInv' /\ CallerInv' /\ EqualInv'
    BY <1>1, <1>2, <2>1, <2>2 DEF FindInv, CallerInv, EqualInv
  <2> QED
    BY <1>1, <2>3, <2>4 DEF IInv, UnionTyped
<1>4. CASE ~HasRepresentative(root)
  <2>1. unionPc' = "equal" /\ root' = root /\ set' = {root} /\ idx' = 0
    BY <1>2, <1>4 DEF FindConst
  <2>2. LocalsTyped'
    BY <1>1, <1>2, <2>1 DEF IInv, UnionTyped, LocalsTyped, UnionLabels
  <2>3. \A x \in Existing : class[x] = class[args[1]] /\ ~HasRepresentative(x) => x = root
    BY <1>2, <1>4, OneRoot DEF IInv, UnionTyped, RankedForest, RootOf
  <2>4. FindInv' /\ CallerInv'
    BY <2>1 DEF FindInv, CallerInv
  <2>5. EqualInv'
    BY <1>1, <1>2, <2>1, <2>3 DEF EqualInv, HasRepresentative
  <2> QED
    BY <1>1, <2>2, <2>4, <2>5 DEF IInv, UnionTyped
<1> QED
  BY <1>3, <1>4

\* When the loop is through, the set holds all members and nothing else.
LEMMA EqualIInv ==
  ASSUME IInv, Equal
  PROVE  /\ IInv'
         /\ unionPc' = "idle" => RightAnswer'
<1>1. /\ ForestTyped' /\ RankedForest' /\ FreshInv' /\ Existing' = Existing
      /\ representative' = representative /\ class' = class /\ size' = size /\ size \in Nat
      /\ \A x : x \in Existing <=> x \in Nat /\ x < size
  BY ForestUnchanged, ElementsExist DEF IInv, UnionTyped, Equal, forest, Existing
<1>2. /\ unionPc = "equal" /\ op = "equal" /\ args[1] \in Existing
      /\ idx <= size /\ idx \in Nat /\ set \subseteq Existing
      /\ \A x \in set : class[x] = class[args[1]]
      /\ \A x \in Existing :
           class[x] = class[args[1]] /\ (~HasRepresentative(x) \/ x < idx) => x \in set
  BY DEF IInv, UnionTyped, LocalsTyped, EqualInv, Equal
<1>3. CASE idx = size
  <2>1. Return(set)
    BY <1>2, <1>3 DEF Equal
  <2>2. LocalsTyped' /\ unionPc' = "idle"
    BY <2>1 DEF Return, LocalsTyped, UnionLabels, Operations
  <2>3. IInv'
    BY <1>1, <2>2, IdleIInv DEF IInv, UnionTyped
  <2>4. set = {x \in Existing : class[x] = class[args[1]]}
    BY <1>1, <1>2, <1>3
  <2>5. answer' = [op |-> "equal", of |-> args, value |-> set]
    BY <1>2, <2>1 DEF Return
  <2> QED
    BY <1>1, <2>3, <2>4, <2>5 DEF RightAnswer
<1>4. CASE idx # size
  <2>1. /\ idx \in Existing /\ UNCHANGED <<op, args, entry, first, set>>
        /\ idx < size
    BY <1>1, <1>2, <1>4 DEF Equal
  <2>2. CASE idx \in set \/ ~HasRepresentative(idx)
    <3>1. idx' = idx + 1 /\ root' = root /\ path' = path /\ unionPc' = "equal"
      BY <1>2, <1>4, <2>2 DEF Equal
    <3>2. LocalsTyped'
      BY <1>1, <1>2, <2>1, <3>1 DEF IInv, UnionTyped, LocalsTyped
    <3>3. \A x \in Existing :
            class[x] = class[args[1]] /\ (~HasRepresentative(x) \/ x < idx + 1) => x \in set
      BY <1>1, <1>2, <2>1, <2>2
    <3>4. idx + 1 <= size
      BY <1>1, <1>2, <2>1
    <3>5. EqualInv' /\ FindInv' /\ CallerInv'
      BY <1>1, <1>2, <2>1, <3>1, <3>3, <3>4 DEF EqualInv, FindInv, CallerInv, HasRepresentative
    <3> QED
      BY <1>1, <3>1, <3>2, <3>5 DEF IInv, UnionTyped
  <2>3. CASE idx \notin set /\ HasRepresentative(idx)
    <3>1. /\ idx' = idx /\ root' = Representative(idx) /\ path' = set \cup {idx}
          /\ unionPc' = "walk"
      BY <1>2, <1>4, <2>3 DEF Equal
    <3>2. root' \in Existing /\ class[root'] = class[idx]
      BY <2>1, <2>3, <3>1, ElementsExist DEF IInv, UnionTyped, RankedForest, ParentInv
    <3>3. LocalsTyped'
      BY <1>1, <1>2, <2>1, <3>1, <3>2 DEF IInv, UnionTyped, LocalsTyped, UnionLabels
    <3>4. EqualInv' /\ FindInv' /\ CallerInv'
      BY <1>1, <1>2, <2>1, <3>1, <3>2 DEF EqualInv, FindInv, CallerInv, HasRepresentative
    <3> QED
      BY <1>1, <3>1, <3>3, <3>4 DEF IInv, UnionTyped
  <2> QED
    BY <2>2, <2>3
<1> QED
  BY <1>3, <1>4

\* The path of an element meets the set exactly if the element is a member.
LEMMA WalkIInv == IInv /\ Walk => IInv'
<1> SUFFICES ASSUME IInv, Walk PROVE IInv'
  OBVIOUS
<1>1. /\ ForestTyped' /\ RankedForest' /\ FreshInv' /\ Existing' = Existing
      /\ representative' = representative /\ class' = class /\ size' = size /\ size \in Nat
      /\ \A x : x \in Existing <=> x \in Nat /\ x < size
  BY ForestUnchanged, ElementsExist DEF IInv, UnionTyped, Walk, forest, Existing
<1>2. /\ unionPc = "walk" /\ op = "equal" /\ args[1] \in Existing
      /\ idx \in Existing /\ idx \in Nat /\ idx < size /\ root \in Existing
      /\ set \subseteq Existing /\ path \subseteq Existing
      /\ \A x \in set : class[x] = class[args[1]]
      /\ \A x \in Existing :
           class[x] = class[args[1]] /\ (~HasRepresentative(x) \/ x < idx) => x \in set
      /\ class[root] = class[idx]
      /\ set \cup {idx} \subseteq path
      /\ \A x \in path \ set : class[x] = class[idx]
      /\ UNCHANGED <<op, args, entry, first>>
  BY <1>1 DEF IInv, UnionTyped, LocalsTyped, EqualInv, Walk
<1>3. CASE HasRepresentative(root) /\ root \notin set
  <2>1. /\ path' = path \cup {root} /\ root' = Representative(root)
        /\ UNCHANGED <<unionPc, idx, set>>
    BY <1>3 DEF Walk
  <2>2. root' \in Existing /\ class[root'] = class[idx]
    BY <1>2, <1>3, <2>1, ElementsExist DEF IInv, UnionTyped, RankedForest, ParentInv
  <2>3. LocalsTyped'
    BY <1>1, <1>2, <2>1, <2>2 DEF IInv, UnionTyped, LocalsTyped, UnionLabels
  <2>4. FindInv' /\ CallerInv'
    BY <1>2, <2>1 DEF FindInv, CallerInv
  <2>5. EqualInv'
    BY <1>1, <1>2, <2>1, <2>2 DEF EqualInv, HasRepresentative
  <2> QED
    BY <1>1, <2>3, <2>4, <2>5 DEF IInv, UnionTyped
<1>4. CASE ~HasRepresentative(root) \/ root \in set
  <2>1. /\ set' = IF root \in set THEN path ELSE set
        /\ idx' = idx + 1 /\ unionPc' = "equal" /\ path' = path /\ root' = root
    BY <1>4 DEF Walk
  <2>2. LocalsTyped'
    BY <1>1, <1>2, <2>1 DEF IInv, UnionTyped, LocalsTyped, UnionLabels
  <2>3. idx + 1 <= size /\ \A x \in set' : class[x] = class[args[1]]
    BY <1>1, <1>2, <2>1
  <2>4. class[idx] = class[args[1]] => idx \in set'
    BY <1>2, <1>4, <2>1
  <2>5. set \subseteq set'
    BY <1>2, <2>1
  <2>6. \A x \in Existing :
          class[x] = class[args[1]] /\ (~HasRepresentative(x) \/ x < idx + 1) => x \in set'
    BY <1>1, <1>2, <2>4, <2>5
  <2>7. FindInv' /\ CallerInv'
    BY <2>1 DEF FindInv, CallerInv
  <2>8. EqualInv'
    BY <1>1, <1>2, <2>1, <2>3, <2>6 DEF EqualInv, HasRepresentative
  <2> QED
    BY <1>1, <2>2, <2>7, <2>8 DEF IInv, UnionTyped
<1> QED
  BY <1>3, <1>4

-----------------------------------------------------------------------------
(* The theorems.                                                           *)

LEMMA StutterIInv == IInv /\ UNCHANGED unionVars => IInv'
<1> SUFFICES ASSUME IInv, UNCHANGED unionVars PROVE IInv'
  OBVIOUS
<1>1. ForestTyped' /\ RankedForest' /\ FreshInv'
  BY ForestUnchanged DEF unionVars
<1>2. LocalsTyped'
  BY DEF IInv, UnionTyped, LocalsTyped, unionVars, forest, locals, Existing
<1>3. FindInv' /\ CallerInv' /\ EqualInv'
  BY DEF IInv, FindInv, CallerInv, EqualInv, RootOf, unionVars, forest, locals, Existing,
         HasRepresentative
<1> QED
  BY <1>1, <1>2, <1>3 DEF IInv, UnionTyped

LEMMA NextIInv == IInv /\ [UnionNext]_unionVars => IInv'
  BY AddElementIInv, CallsIInv, FindIInv, ClimbIInv, CompressIInv, FindReturnsIInv,
     UnionFirstIInv, UnionSecondIInv, OptimizeNextIInv, SingleNextIInv, FindConstIInv,
     EqualIInv, WalkIInv, StutterIInv
     DEF UnionNext, UnionStep

\* The inductive invariant: the forest, and what each half-way call relies on.
THEOREM InductiveInvariant == UnionSpec => []IInv
<1>1. UnionInit => IInv
  BY InitIInv
<1>2. IInv /\ [UnionNext]_unionVars => IInv'
  BY NextIInv
<1> QED
  BY <1>1, <1>2, PTL DEF UnionSpec

\* Every index the calls use exists, whatever the number of elements.
THEOREM TypeCorrect == UnionSpec => []UnionTyped
<1>1. IInv => UnionTyped
  BY DEF IInv
<1> QED
  BY <1>1, InductiveInvariant, PTL

\* One tree per set, ordered by rank, also half-way through a compression.
THEOREM ForestStaysRanked == UnionSpec => []RankedForest
<1>1. IInv => RankedForest
  BY DEF IInv
<1> QED
  BY <1>1, InductiveInvariant, PTL

\* isSingleSet compares all elements with the first; it stops at the first
\* that differs.
LEMMA SingleAnswers == IInv /\ SingleNext /\ unionPc' = "idle" => RightAnswer'
<1> SUFFICES ASSUME IInv, SingleNext, unionPc' = "idle" PROVE RightAnswer'
  OBVIOUS
<1> DEFINE set0Id == IF entry = 0 THEN root ELSE first
<1>1. /\ class' = class /\ Existing' = Existing /\ op = "single" /\ unionPc = "found"
      /\ \/ set0Id # root /\ Return(FALSE)
         \/ set0Id = root /\ entry + 1 = size /\ Return(TRUE)
  BY DEF SingleNext, FindOf, forest, Existing
<1>2. /\ entry \in Existing /\ RootOf(root, entry)
      /\ entry > 0 => RootOf(first, 0) /\ \A x \in 0 .. entry - 1 : class[x] = class[0]
  BY <1>1 DEF IInv, UnionTyped, LocalsTyped, FindInv, CallerInv
<1>3. size \in Nat /\ \A x : x \in Existing <=> x \in Nat /\ x < size
  BY ElementsExist DEF IInv, UnionTyped
<1>4. CASE set0Id # root /\ Return(FALSE)
  <2>1. entry > 0 /\ RootOf(first, 0) /\ first # root /\ 0 \in Existing
    <3>1. entry # 0 /\ first # root
      BY <1>4
    <3>2. entry > 0 /\ 0 \in Existing
      BY <1>2, <1>3, <3>1
    <3> QED
      BY <1>2, <3>1, <3>2
  <2>2. class[entry] # class[0]
    <3>1. root \in Existing /\ ~HasRepresentative(root) /\ class[root] = class[entry]
      BY <1>2 DEF RootOf
    <3> QED
      BY <2>1, <3>1, OneRoot DEF IInv, UnionTyped, RankedForest, RootOf
  <2>3. answer' = [op |-> "single", of |-> args, value |-> FALSE]
    BY <1>1, <1>4 DEF Return
  <2> QED
    BY <1>1, <1>2, <2>1, <2>2, <2>3 DEF RightAnswer
<1>5. CASE set0Id = root /\ entry + 1 = size /\ Return(TRUE)
  <2>1. \A x \in Existing : class[x] = class[0]
    <3>1. class[entry] = class[0]
      BY <1>2, <1>3, <1>5 DEF RootOf
    <3>2. \A x \in Existing : x = entry \/ x \in 0 .. entry - 1
      BY <1>2, <1>3, <1>5
    <3> QED
      BY <1>2, <1>3, <3>1, <3>2
  <2>2. answer' = [op |-> "single", of |-> args, value |-> TRUE]
    BY <1>1, <1>5 DEF Return
  <2> QED
    BY <1>1, <2>1, <2>2 DEF RightAnswer
<1> QED
  BY <1>1, <1>4, <1>5

\* A call answers by the sets that were united, for every number of elements
\* and every history of compressions.
THEOREM AnswersAreRight == UnionSpec => AnswersRight
<1>1. IInv /\ [UnionNext]_unionVars => [unionPc # "idle" /\ unionPc' = "idle" => RightAnswer']_unionVars
  <2> SUFFICES ASSUME IInv, UnionNext, unionPc # "idle", unionPc' = "idle" PROVE RightAnswer'
    OBVIOUS
  <2>1. CASE FindReturns
    <3>1. /\ class' = class /\ Existing' = Existing /\ representative' = representative
          /\ answer' = [op |-> "find", of |-> args, value |-> root]
          /\ RootOf(root, entry) /\ args = <<entry, entry>>
      BY <2>1 DEF FindReturns, Return, IInv, FindInv, CallerInv, forest, Existing
    <3> QED
      BY <3>1 DEF RightAnswer, RootOf, HasRepresentative
  <2>2. CASE UnionSecond
    BY <2>2, UnionSecondIInv
  <2>3. CASE SingleNext
    BY <2>3, SingleAnswers
  <2>4. CASE OptimizeNext
    <3>1. answer' = [op |-> "optimize", of |-> args, value |-> 0]
      BY <2>4 DEF OptimizeNext, FindOf, Return
    <3> QED
      BY <3>1 DEF RightAnswer
  <2>5. CASE Equal
    BY <2>5, EqualIInv
  <2> QED
    BY <2>1, <2>2, <2>3, <2>4, <2>5
       DEF UnionNext, UnionStep, AddElement, Calls, Call, Find, Climb, Compress, UnionFirst, FindConst, Walk
<1> QED
  BY <1>1, InductiveInvariant, PTL DEF UnionSpec, AnswersRight
==============================================================================
