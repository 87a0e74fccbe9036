------------------------------ MODULE UnionFind ------------------------------
(***************************************************************************)
(* factDB/infra/UnionFind: disjoint sets with union by rank and path       *)
(* compression.  The optimizer keeps the columns that joins equate in one, *)
(* and the relations of a query that are connected.  A step is one round   *)
(* of a loop, so that the forest is seen half compressed, too.             *)
(*                                                                         *)
(* The variable class is what the structure stands for: it labels the      *)
(* elements by their set and changes by the arguments of unionSets only.   *)
(***************************************************************************)
EXTENDS Naturals

CONSTANT MaxElements  \* bound: elements

ASSUME MaxAssumption == MaxElements \in Nat

Elements == 0 .. MaxElements - 1

VARIABLES
  size,           \* number of elements
  representative, \* per element: 0 for a root, or its parent + 1
  rank,           \* per element: its rank
  op,             \* the call: "find", "union", "optimize", "single" or "equal"
  args,           \* its arguments
  unionPc,             \* where it is
  entry,          \* find: the entry; the index in the loops that call it
  root,           \* find: representative
  idx,           \* find: iter; getEqualElements: idx
  first,          \* what the first call of find returned
  set,            \* getEqualElements: bitSet
  path,           \* getEqualElements: accessPath
  answer,         \* what the last call returned
  class           \* per element: the label of its set

forest == <<size, representative, rank>>
locals == <<op, args, entry, root, idx, first, set, path>>
unionVars == <<forest, locals, unionPc, answer, class>>

HasRepresentative(x) == representative[x] # 0
Representative(x) == representative[x] - 1

NoAnswer == [op |-> "none", of |-> <<0, 0>>, value |-> 0]

UnionInit ==
  /\ size = 0
  /\ representative = [x \in Elements |-> 0]
  /\ rank = [x \in Elements |-> 0]
  /\ op = "none" /\ args = <<0, 0>>
  /\ entry = 0 /\ root = 0 /\ idx = 0 /\ first = 0
  /\ set = {} /\ path = {}
  /\ unionPc = "idle"
  /\ answer = NoAnswer
  /\ class = [x \in Elements |-> x]

Existing == 0 .. size - 1

\* getId of a value that is new.
AddElement ==
  /\ unionPc = "idle"
  /\ size < MaxElements
  /\ size' = size + 1
  /\ UNCHANGED <<representative, rank, locals, unionPc, answer, class>>

Call(name, a, b, label, e) ==
  /\ unionPc = "idle"
  /\ op' = name
  /\ args' = <<a, b>>
  /\ unionPc' = label
  /\ entry' = e /\ root' = e
  /\ answer' = NoAnswer
  /\ UNCHANGED <<forest, idx, first, set, path, class>>

Calls ==
  \E a, b \in Existing :
    \/ Call("find", a, a, "find", a)
    \/ Call("union", a, b, "find", a)
    \/ Call("optimize", 0, 0, "find", 0)
    \/ Call("single", 0, 0, "find", 0)
    \/ Call("equal", a, a, "findConst", a)

\* The call ends, its local variables are gone.
Return(value) ==
  /\ unionPc' = "idle"
  /\ answer' = [op |-> op, of |-> args, value |-> value]
  /\ op' = "none" /\ args' = <<0, 0>>
  /\ entry' = 0 /\ root' = 0 /\ idx' = 0 /\ first' = 0
  /\ set' = {} /\ path' = {}

-----------------------------------------------------------------------------
(* find                                                                    *)

\* The entry is a root, a child of a root, or further down.
Find ==
  /\ unionPc = "find"
  /\ IF ~HasRepresentative(entry) THEN root' = entry /\ unionPc' = "found"
     ELSE /\ root' = Representative(entry)
          /\ unionPc' = IF HasRepresentative(root') THEN "climb" ELSE "found"
  /\ UNCHANGED <<forest, op, args, entry, idx, first, set, path, answer, class>>

Climb ==
  /\ unionPc = "climb"
  /\ IF HasRepresentative(root) THEN root' = Representative(root) /\ UNCHANGED <<unionPc, idx>>
     ELSE unionPc' = "compress" /\ idx' = entry /\ UNCHANGED root
  /\ UNCHANGED <<forest, op, args, entry, first, set, path, answer, class>>

Compress ==
  /\ unionPc = "compress"
  /\ IF idx = root THEN unionPc' = "found" /\ UNCHANGED <<representative, idx>>
     ELSE /\ idx' = Representative(idx)
          /\ representative' = [representative EXCEPT ![idx] = root + 1]
          /\ UNCHANGED unionPc
  /\ UNCHANGED <<size, rank, op, args, entry, root, first, set, path, answer, class>>

-----------------------------------------------------------------------------
(* The callers of find.                                                    *)

FindReturns ==
  /\ unionPc = "found" /\ op = "find"
  /\ Return(root)
  /\ UNCHANGED <<forest, class>>

UnionFirst ==
  /\ unionPc = "found" /\ op = "union"
  /\ op' = "union2" /\ unionPc' = "find"
  /\ first' = root
  /\ entry' = args[2] /\ root' = args[2]
  /\ UNCHANGED <<forest, args, idx, set, path, answer, class>>

Hang(x, y) == representative' = [representative EXCEPT ![x] = y + 1]

\* Mutant: equal ranks are left as they are.
LinkKeepsRank(x, y) ==
  IF rank[x] < rank[y] \/ (rank[x] = rank[y] /\ y < x)
  THEN Hang(x, y) /\ Return(y) /\ UNCHANGED rank
  ELSE Hang(y, x) /\ Return(x) /\ UNCHANGED rank

\* The root of smaller rank gets a parent; of equals, the one of larger number.
LinkRoots(x, y) ==
  IF rank[x] < rank[y] THEN Hang(x, y) /\ Return(y) /\ UNCHANGED rank
  ELSE IF rank[x] > rank[y] THEN Hang(y, x) /\ Return(x) /\ UNCHANGED rank
  ELSE IF x < y THEN Hang(y, x) /\ Return(x) /\ rank' = [rank EXCEPT ![x] = @ + 1]
  ELSE Hang(x, y) /\ Return(y) /\ rank' = [rank EXCEPT ![y] = @ + 1]

\* The sets of a and b become one.
Merged(a, b) ==
  [x \in Elements |-> IF class[x] = class[b] THEN class[a] ELSE class[x]]

UnionSecond ==
  /\ unionPc = "found" /\ op = "union2"
  /\ IF first = root THEN Return(root) /\ UNCHANGED <<representative, rank>>
     ELSE LinkRoots(first, root)
  /\ class' = Merged(args[1], args[2])
  /\ UNCHANGED size

FindOf(x) ==
  /\ unionPc' = "find" /\ entry' = x /\ root' = x
  /\ UNCHANGED <<op, args, idx, set, path>>

\* optimizeAccessPaths compresses all paths.
OptimizeNext ==
  /\ unionPc = "found" /\ op = "optimize"
  /\ \/ entry + 1 < size /\ FindOf(entry + 1) /\ UNCHANGED <<first, answer>>
     \/ entry + 1 = size /\ Return(0)
  /\ UNCHANGED <<forest, class>>

\* isSingleSet compares all elements with the first.
SingleNext ==
  /\ unionPc = "found" /\ op = "single"
  /\ LET set0Id == IF entry = 0 THEN root ELSE first
     IN  \/ set0Id # root /\ Return(FALSE)
         \/ /\ set0Id = root /\ entry + 1 < size
            /\ FindOf(entry + 1)
            /\ first' = set0Id
            /\ UNCHANGED answer
         \/ set0Id = root /\ entry + 1 = size /\ Return(TRUE)
  /\ UNCHANGED <<forest, class>>

-----------------------------------------------------------------------------
(* getEqualElements                                                        *)

FindConst ==
  /\ unionPc = "findConst"
  /\ IF HasRepresentative(root)
     THEN root' = Representative(root) /\ UNCHANGED <<unionPc, idx, set>>
     ELSE unionPc' = "equal" /\ set' = {root} /\ idx' = 0 /\ UNCHANGED root
  /\ UNCHANGED <<forest, op, args, entry, first, path, answer, class>>

Equal ==
  /\ unionPc = "equal"
  /\ \/ idx = size /\ Return(set)
     \/ /\ idx < size
        /\ IF idx \in set \/ ~HasRepresentative(idx)
           THEN idx' = idx + 1 /\ UNCHANGED <<root, path, unionPc>>
           ELSE /\ path' = set \cup {idx}
                /\ root' = Representative(idx)
                /\ unionPc' = "walk"
                /\ UNCHANGED idx
        /\ UNCHANGED <<op, args, entry, first, set, answer>>
  /\ UNCHANGED <<forest, class>>

\* Mutant: the path is taken whether or not it meets the set.
WalkTakesPath ==
  /\ unionPc = "walk"
  /\ IF HasRepresentative(root) /\ root \notin set
     THEN path' = path \cup {root} /\ root' = Representative(root) /\ UNCHANGED <<unionPc, idx, set>>
     ELSE set' = path /\ idx' = idx + 1 /\ unionPc' = "equal" /\ UNCHANGED <<path, root>>
  /\ UNCHANGED <<forest, op, args, entry, first, answer, class>>

\* The path of the element belongs to the set if it meets the set.
Walk ==
  /\ unionPc = "walk"
  /\ IF HasRepresentative(root) /\ root \notin set
     THEN path' = path \cup {root} /\ root' = Representative(root) /\ UNCHANGED <<unionPc, idx, set>>
     ELSE /\ set' = IF root \in set THEN path ELSE set
          /\ idx' = idx + 1 /\ unionPc' = "equal"
          /\ UNCHANGED <<path, root>>
  /\ UNCHANGED <<forest, op, args, entry, first, answer, class>>

-----------------------------------------------------------------------------
UnionStep ==
  \/ Find \/ Climb \/ Compress \/ FindReturns \/ UnionFirst \/ UnionSecond
  \/ OptimizeNext \/ SingleNext \/ FindConst \/ Equal \/ Walk

UnionNext == AddElement \/ Calls \/ UnionStep

UnionSpec == UnionInit /\ [][UnionNext]_unionVars

-----------------------------------------------------------------------------
UnionLabels == {"idle", "find", "climb", "compress", "found", "findConst", "equal", "walk"}
Operations == {"none", "find", "union", "union2", "optimize", "single", "equal"}

\* The variables have their types, an index is below the size while it is used,
\* and the elements that do not exist yet are untouched.
ForestTyped ==
  /\ size \in 0 .. MaxElements
  /\ representative \in [Elements -> 0 .. size]
  /\ rank \in [Elements -> Nat]
  /\ class \in [Elements -> Elements]
  /\ \A x \in Elements \ Existing : ~HasRepresentative(x)

LocalsTyped ==
  /\ op \in Operations /\ unionPc \in UnionLabels
  /\ args \in Nat \X Nat
  /\ entry \in Nat /\ root \in Nat /\ idx \in Nat /\ first \in Nat
  /\ unionPc # "idle" => entry \in Existing /\ root \in Existing
  /\ unionPc \in {"compress", "walk"} => idx \in Existing
  /\ set \subseteq Existing /\ path \subseteq Existing

UnionTyped == ForestTyped /\ LocalsTyped

\* The parent of an element is in its set and has a higher rank, so paths end.
ParentInv ==
  \A x \in Existing : HasRepresentative(x) =>
    class[Representative(x)] = class[x] /\ rank[x] < rank[Representative(x)]

\* The root of a set has the highest rank of the set, so there is only one.
RootInv ==
  \A x, y \in Existing :
    class[x] = class[y] /\ ~HasRepresentative(y) /\ x # y => rank[x] < rank[y]

\* At every step of every call, half-way through a compression, too, the
\* elements form a forest with one tree per set.
RankedForest == ParentInv /\ RootInv

-----------------------------------------------------------------------------
(* What else a call relies on between its steps: with the above, it makes  *)
(* the inductive invariant.                                                *)

RootOf(r, x) == r \in Existing /\ ~HasRepresentative(r) /\ class[r] = class[x]

\* An element that does not exist yet is alone in its set.
FreshInv == \A x \in Elements : IF x \in Existing THEN class[x] \in Existing ELSE class[x] = x

\* find stays in the set of the entry.
FindInv ==
  /\ unionPc = "climb" => class[root] = class[entry]
  /\ unionPc = "compress" => RootOf(root, entry) /\ class[idx] = class[entry]
  /\ unionPc = "found" => RootOf(root, entry)

\* A caller of find knows what the calls before returned.
CallerInv ==
  unionPc \in {"find", "climb", "compress", "found"} =>
    /\ op \in {"find", "union", "union2", "optimize", "single"}
    /\ op = "find" => args = <<entry, entry>>
    /\ op = "union" => args[1] = entry /\ args[2] \in Existing
    /\ op = "union2" => args[1] \in Existing /\ args[2] = entry /\ RootOf(first, args[1])
    /\ op = "single" /\ entry > 0 =>
         RootOf(first, 0) /\ \A x \in 0 .. entry - 1 : class[x] = class[0]

\* getEqualElements collects members only, among them the root and all
\* elements the loop has passed.
EqualInv ==
  unionPc \in {"findConst", "equal", "walk"} =>
    /\ op = "equal" /\ args[1] \in Existing
    /\ unionPc = "findConst" => class[root] = class[args[1]]
    /\ unionPc \in {"equal", "walk"} =>
         /\ idx <= size
         /\ \A x \in set : class[x] = class[args[1]]
         /\ \A x \in Existing :
              class[x] = class[args[1]] /\ (~HasRepresentative(x) \/ x < idx) => x \in set
    /\ unionPc = "walk" =>
         /\ class[root] = class[idx]
         /\ set \cup {idx} \subseteq path
         /\ \A x \in path \ set : class[x] = class[idx]

IInv == UnionTyped /\ RankedForest /\ FreshInv /\ FindInv /\ CallerInv /\ EqualInv

-----------------------------------------------------------------------------
\* What the calls promise: find and unionSets return the root of the set,
\* isSingleSet and getEqualElements tell the sets apart.
RightAnswer ==
  LET a == answer.of[1]
      b == answer.of[2]
      value == answer.value
  IN  /\ answer.op \in {"find", "union2"} =>
           /\ value \in Existing /\ ~HasRepresentative(value)
           /\ class[value] = class[a] /\ class[a] = class[b]
      /\ answer.op = "single" => (value <=> \A x, y \in Existing : class[x] = class[y])
      /\ answer.op = "equal" => value = {x \in Existing : class[x] = class[a]}

\* Whatever paths the calls before compressed, a call answers by the sets that
\* were united: the columns that no condition equates are never joined.
AnswersRight == [][unionPc # "idle" /\ unionPc' = "idle" => RightAnswer']_unionVars

=============================================================================
