------------------------ MODULE FactorizedExecution ------------------------
(***************************************************************************)
(* What the code generated for a plan does (CodegenFactorized and the      *)
(* generators of newftree/generator), once FactorizedTreeDeriver has given *)
(* every operator its tree.  The memory of a query is a sequence of lists  *)
(* of elements.  List t is the root list of tree t; for a scan it is the   *)
(* table.  A place (a list and an index into it) is what a handle or one   *)
(* variable of a C++ iterator points to.  Pipelines run one after another; *)
(* the rows of one, cut into chunks, are processed by several threads, and *)
(* one row is one action.  A row calls the consumers up to the end of its  *)
(* pipeline, with the stages BeforeLoop, InLoop and AfterLoop.             *)
(***************************************************************************)
EXTENDS FactorizedTreeDeriver

CONSTANTS
  Databases(_), \* the databases that the plan with this topmost operator is run on, {} if it
                \* is only prepared: per relation its sequence of rows
  ChunkSize,   \* codegen.chunkSize
  BoundsWidth, \* elements of the root list per bound of beginAt, 50 in the code
  Threads      \* bound: chunks in progress at once

ASSUME SizesAssumption == {ChunkSize, BoundsWidth, Threads} \subseteq Nat \ {0}

VARIABLES
  database,  \* <<>>: the plan is only prepared
  store,     \* lists, hash tables, output and count; <<>> before the query runs
  pipelines, \* the operators that start the pipelines still to run
  work,      \* the current pipeline: its number of rows, its bounds, what is next
  chunks     \* the chunks in progress, by their first row

execVars == <<database, store, pipelines, work, chunks>>
allVars == <<vars, execVars>>

Nowhere == [list |-> 0, idx |-> 1]
NoHandles == [marks |-> <<>>, handles |-> <<>>]
NoRow == [hs |-> NoHandles, handle |-> Nowhere, path |-> <<>>, inserted |-> FALSE,
          ihs |-> <<>>, skip |-> FALSE]
NoWork == [size |-> 0, bounds |-> <<>>, next |-> 1]

(***************************************************************************)
(* Elements and the places where they are                                  *)
(***************************************************************************)
Iter(name) == trees[name.tree].iterators[name.pos]
FrontIterator(t) == [tree |-> t, pos |-> 1]
Merging(t) == GetMergingIterator(trees, t)
LastIterator(t) == [tree |-> t, pos |-> Len(trees[t].iterators)]
Referenced(name) == [name EXCEPT !.pos = Iter(name).ref]

\* isNodeInIteratorContained, and isNodeRequiredByReferenceIterator.
Contained(name) == TransitiveRequired(trees[name.tree], name.pos)
Fixed(name) ==
  IF Iter(name).ref = 0 THEN {} ELSE TransitiveRequired(trees[name.tree], Iter(name).ref)

Available(t) == IF trees[t].composed THEN ComposedAvailableNodes(nodes, trees, t) ELSE {}
\* The nodes that the iterator has variables of its own for.
Own(name) == Contained(name) \ Available(name.tree)

RECURSIVE Preorder(_)
Preorder(n) ==
  <<n>> \o FlattenSeq([i \in DOMAIN nodes[n].children |-> Preorder(nodes[n].children[i].node)])
InOrder(t, set) == SelectSeq(Preorder(trees[t].root), LAMBDA n : n \in set)

ParentOf(t, n) == CHOOSE p \in NodesOf(t) : n \in Children(nodes, p)
IsLeaf(n) == nodes[n].children = <<>>

ElementAt(m, place) == m.lists[place.list][place.idx]
IsLastPlace(m, place) == place.list = 0 \/ place.idx > Len(m.lists[place.list])
Places(m, list) == {[list |-> list, idx |-> i] : i \in 1 .. Len(m.lists[list])}
BeginOf(list) == [list |-> list, idx |-> 1]

\* What a view asks its two iterators for is in the tree of one of them.
SideOf(it, node) == CHOOSE s \in ToSet(it.sub) : node \in NodesOf(s.name.tree)
SideWith(it, iu) == CHOOSE s \in ToSet(it.sub) : iu \in CollectIUs(nodes, trees[s.name.tree])

\* get<child>: the list of the elements of a child node.
RECURSIVE ListOf(_, _, _)
ListOf(m, it, child) ==
  LET parent == ParentOf(it.name.tree, child)
  IN  IF parent \in Available(it.name.tree) THEN ListOf(m, SideOf(it, child), child)
      ELSE ElementAt(m, it.at[parent]).kids[child]

\* get<iu>: the value of a column.
RECURSIVE ValueOf(_, _, _)
ValueOf(m, it, iu) ==
  LET node == NodeWith(it.name.tree, iu)
  IN  IF node \in Available(it.name.tree) THEN ValueOf(m, SideWith(it, iu), iu)
      ELSE ElementAt(m, it.at[node]).vals[iu]

(***************************************************************************)
(* Iterators: the iterator they are of, a place per node and, for a view   *)
(* of a composed tree, its upper and lower iterators.                      *)
(***************************************************************************)
IsLast(m, it) == \A n \in Own(it.name) : IsLastPlace(m, it.at[n])
IsAnyLast(m, it) == \E n \in Own(it.name) : IsLastPlace(m, it.at[n])

\* A begin() for each of the nodes, parents first.
RECURSIVE BeginBelow(_, _, _)
BeginBelow(m, it, ns) ==
  IF ns = <<>> THEN it
  ELSE LET parent == ParentOf(it.name.tree, Head(ns))
           place == IF parent \in DOMAIN it.at /\ IsLastPlace(m, it.at[parent]) THEN Nowhere
                    ELSE BeginOf(ListOf(m, it, Head(ns)))
       IN  BeginBelow(m, [it EXCEPT !.at = (Head(ns) :> place) @@ @], Tail(ns))

SetEnd(it) == [it EXCEPT !.at = [n \in DOMAIN it.at |-> Nowhere]]

\* The nodes that operator++ moves, in the order of the traversal.
VariableNodes(name) ==
  LET fixed == IF Iter(name).ref # 0 /\ Fixed(name) = {} THEN {trees[name.tree].root}
               ELSE Fixed(name) \cup Available(name.tree)
  IN  InOrder(name.tree, Iter(name).required \ fixed)

\* generateCode of Increment: the node vs[k], and those before it while it is last.
RECURSIVE Advance(_, _, _, _), Settle(_, _, _, _)
Advance(m, it, vs, k) ==
  Settle(m, IF IsLastPlace(m, it.at[vs[k]]) THEN it ELSE [it EXCEPT !.at[vs[k]].idx = @ + 1],
         vs, k)
Settle(m, it, vs, k) ==
  IF ~IsLastPlace(m, it.at[vs[k]]) THEN it
  ELSE IF k = 1 THEN SetEnd(it)
  ELSE LET moved == Advance(m, it, vs, k - 1)
       IN  IF IsLast(m, moved) THEN moved
           ELSE Settle(m, BeginBelow(m, moved, <<vs[k]>>), vs, k)

Incremented(m, it) ==
  LET vs == VariableNodes(it.name)
  IN  IF vs = <<>> THEN SetEnd(it) ELSE Advance(m, it, vs, Len(vs))

\* fromTblIterator, and begin of a tree (used when nothing is iterated).
AtRoot(name, place) == [name |-> name, at |-> trees[name.tree].root :> place, sub |-> <<>>]

\* Mutant: the first position is taken as it is, even if a list of it is empty.
FirstPosition(m, name, r) ==
  LET top == trees[name.tree].root
      copied == (Contained(name) \cap Fixed(name)) \cup {top}
  IN  IF trees[name.tree].scan THEN [r EXCEPT !.name = name]
      ELSE BeginBelow(m, [name |-> name, sub |-> <<>>, at |-> [n \in copied |-> r.at[n]]],
                      InOrder(name.tree, Contained(name) \ copied))

\* A begin() of a child of a node that is at its end reads past a list: the iterator
\* is left there, and its use is a fault.
FromReferencedIterator(m, name, r) ==
  LET top == trees[name.tree].root
      copied == (Contained(name) \cap Fixed(name)) \cup {top}
      begun == Contained(name) \ copied
      i == BeginBelow(m, [name |-> name, sub |-> <<>>, at |-> [n \in copied |-> r.at[n]]],
                      InOrder(name.tree, begun))
      pastEnd == \E n \in begun : IsLastPlace(m, i.at[ParentOf(name.tree, n)])
  IN  IF trees[name.tree].scan THEN [r EXCEPT !.name = name]
      ELSE IF IsAnyLast(m, i) /\ ~pastEnd THEN Incremented(m, i) ELSE i

FromHandleStorage(m, name, path) ==
  LET top == trees[name.tree].root
      handled == (Contained(name) \cup {top}) \cap PathFrom(nodes, top)
  IN  BeginBelow(m, [name |-> name, sub |-> <<>>, at |-> [n \in handled |-> path[n]]],
                 InOrder(name.tree, Contained(name) \ handled))

\* constructMergingIterator: the view of a composed tree.
View(m, t, its) ==
  BeginBelow(m, [name |-> Merging(t), at |-> <<>>,
                 sub |-> <<its[trees[t].top], its[trees[t].lower]>>],
             InOrder(t, Own(Merging(t))))

\* for (; !it.isLast(); ++it)
RECURSIVE PositionsFrom(_, _)
PositionsFrom(m, it) ==
  IF IsLast(m, it) THEN <<>> ELSE <<it>> \o PositionsFrom(m, Incremented(m, it))

\* isSubtreeEmpty reads the sizes that iterableSize has left in the elements.
IsSubtreeEmpty(m, it) ==
  \E n \in Contained(it.name) :
    /\ \E c \in Children(nodes, n) : c \notin Iter(it.name).required
    /\ ElementAt(m, it.at[n]).size = 0

RECURSIVE SkipEmpty(_, _)
SkipEmpty(m, it) ==
  IF ~IsAnyLast(m, it) /\ IsSubtreeEmpty(m, it) THEN SkipEmpty(m, Incremented(m, it)) ELSE it


(***************************************************************************)
(* Sizes                                                                   *)
(***************************************************************************)
\* The tuples below the elements of a list that no iterator requires.
RECURSIVE ListSize(_, _, _)
ListSize(m, n, list) ==
  IF IsLeaf(n) THEN Len(m.lists[list])
  ELSE MapThenSumSet(LAMBDA p : FoldLeft(LAMBDA size, c :
                       size * ListSize(m, c.node, ElementAt(m, p).kids[c.node]),
                       1, nodes[n].children),
                     Places(m, list))

\* The size below an element is kept in the element if it is the last that the
\* iterator requires on its path.
CachesSize(name, n) ==
  /\ n \in Contained(name)
  /\ ~IsLeaf(n)
  /\ Children(nodes, n) \cap Iter(name).required = {}

\* iteratedTupleSize from the node n, with the memory that has the size cached.
RECURSIVE SizeBelow(_, _, _, _)
SizeBelow(m, it, n, useCache) ==
  LET caches == useCache /\ CachesSize(it.name, n)
      below(r, c) ==
        IF c.node \in Contained(it.name)
        THEN LET s == SizeBelow(r.m, it, c.node, useCache)
             IN  [m |-> s.m, size |-> r.size * s.size]
        ELSE [r EXCEPT !.size = @ * ListSize(r.m, c.node, ListOf(r.m, it, c.node))]
      computed == FoldLeft(below, [m |-> m, size |-> 1], nodes[n].children)
      place == it.at[n]
  IN  IF caches /\ ElementAt(m, place).size # 0
      THEN [m |-> m, size |-> ElementAt(m, place).size]
      ELSE IF caches
           THEN [computed EXCEPT !.m.lists[place.list][place.idx].size = computed.size]
           ELSE computed

\* The rest of the root list, when nothing is iterated.
RECURSIVE SizeOfRest(_, _)
SizeOfRest(m, it) ==
  LET n == trees[it.name.tree].root
  IN  IF IsLastPlace(m, it.at[n]) THEN 0
      ELSE SizeBelow(m, it, n, FALSE).size + SizeOfRest(m, [it EXCEPT !.at[n].idx = @ + 1])

\* The sides of a view multiply; a side of which the view itself iterates more is
\* counted from the nodes that neither it nor its iterators require.
RECURSIVE ViewSize(_, _, _, _)
ViewSize(m, it, n, considered) ==
  FoldLeft(LAMBDA size, c :
             size * (IF c.node \in considered
                     THEN ListSize(m, c.node, ListOf(m, it, c.node))
                     ELSE ViewSize(m, it, c.node, considered)),
           1, nodes[n].children)

RECURSIVE IteratedTupleSize(_, _, _)
IteratedTupleSize(m, it, useCache) ==
  LET t == it.name.tree
      top == trees[t].root
      flat == Available(t) \cup Iter(it.name).required
      side(s, from, ns) ==
        IF Iter(it.name).ius \cap CollectIUs(nodes, trees[s.name.tree])
             \subseteq ComposedAvailableIUs(nodes, trees, t)
        THEN IteratedTupleSize(m, s, useCache).size
        ELSE ViewSize(m, it, from, ns \ flat)
  IN  IF trees[t].scan THEN [m |-> m, size |-> 1]
      ELSE IF trees[t].composed
      THEN [m |-> m,
            size |-> side(it.sub[1], top, CollectUpperTreeNodes(nodes, trees, t))
                     * side(it.sub[2], GetLastMergedNode(nodes, trees[t]),
                            CollectLowerTreeNodes(nodes, trees, t))]
      ELSE IF Iter(it.name).ius = {} THEN [m |-> m, size |-> SizeOfRest(m, it)]
      ELSE SizeBelow(m, it, top, useCache)

\* clearCachedIteratedTupleSize: of all elements of the nodes that are required.
RECURSIVE ClearSizes(_, _, _, _)
ClearSizes(m, name, n, list) ==
  LET clear(r, p) ==
        FoldLeft(LAMBDA q, c : IF c.node \in Contained(name)
                               THEN ClearSizes(q, name, c.node, ElementAt(q, p).kids[c.node])
                               ELSE q,
                 [r EXCEPT !.lists[p.list][p.idx].size = 0], nodes[n].children)
  IN  FoldLeft(clear, m, [i \in 1 .. Len(m.lists[list]) |-> [list |-> list, idx |-> i]])

\* iterableSize of a list: how many positions the iterator has below its elements.
\* Elements of required nodes get their own number; what is not required only has
\* to be there.
RECURSIVE IterableSize(_, _, _, _)
IterableSize(m, own, n, list) ==
  LET element(r, p) ==
        LET s == FoldLeft(LAMBDA q, c :
                   LET b == IterableSize(q.m, own, c.node, ElementAt(q.m, p).kids[c.node])
                   IN  [m |-> b.m, size |-> q.size * b.size],
                   [m |-> r.m, size |-> 1], nodes[n].children)
        IN  [m |-> IF n \in own
                   THEN [s.m EXCEPT !.lists[p.list][p.idx].size = s.size] ELSE s.m,
             size |-> r.size + s.size]
      sum == FoldLeft(element, [m |-> m, size |-> 0],
                      [i \in 1 .. Len(m.lists[list]) |-> [list |-> list, idx |-> i]])
      atMostOne(r) == [r EXCEPT !.size = IF r.size = 0 THEN 0 ELSE 1]
  IN  IF ~IsLeaf(n) THEN (IF n \in own THEN sum ELSE atMostOne(sum))
      ELSE LET leaf == [m |-> m, size |-> Len(m.lists[list])]
           IN  IF n \in own THEN leaf ELSE atMostOne(leaf)

\* The bounds: how many positions the first BoundsWidth, 2 * BoundsWidth, ...
\* elements of the root list have.
Bounds(sizes) ==
  [b \in 1 .. (Len(sizes) \div BoundsWidth) + 1 |->
     FoldLeft(LAMBDA x, y : x + y, 0,
              SubSeq(sizes, 1, IF b * BoundsWidth < Len(sizes) THEN b * BoundsWidth
                               ELSE Len(sizes)))]

(***************************************************************************)
(* beginAt: the iterator at a position.  w has the iterator, the positions *)
(* passed (offset) and, per node, what is left of its tupleSize.           *)
(***************************************************************************)
\* The while loop over the list of a node.
RECURSIVE Walk(_, _, _, _, _)
Walk(m, place, scaler, offset, idx) ==
  LET size == scaler * ElementAt(m, place).size
  IN  IF IsLastPlace(m, place) \/ offset + size > idx
      THEN [place |-> place, offset |-> offset]
      ELSE Walk(m, [place EXCEPT !.idx = @ + 1], scaler, offset + size, idx)

\* Mutant: every element of a leaf counts as one, whatever else is left to iterate.
WalkUnscaled(m, place, scaler, offset, idx) ==
  LET last == Len(m.lists[place.list])
      to == IF idx - offset < last THEN idx - offset ELSE last
  IN  [place |-> [place EXCEPT !.idx = to + 1], offset |-> offset + to]

\* The loop over a leaf, whose elements all stand for scaler positions.
WalkLeaf(m, place, scaler, offset, idx) ==
  LET steps == (idx - offset) \div scaler
      last == Len(m.lists[place.list])
      to == IF steps < last THEN steps ELSE last
  IN  [place |-> [place EXCEPT !.idx = to + 1], offset |-> offset + to * scaler]

SizesIn(m, list) == MapThenSumSet(LAMBDA p : ElementAt(m, p).size, Places(m, list))

RECURSIVE BeginAtNode(_, _, _, _, _)
BeginAtNode(m, w, n, start, idx) ==
  LET t == w.it.name.tree
      isRoot == n = trees[t].root
      parent == ParentOf(t, n)
      list == start.list
      share == IF isRoot THEN 1
               ELSE IF Len(nodes[parent].children) = 1 THEN w.left[parent]
               ELSE w.left[parent] \div (IF IsLeaf(n) THEN Len(m.lists[list])
                                         ELSE SizesIn(m, list))
      found == IF IsLeaf(n) THEN WalkLeaf(m, start, share, w.offset, idx)
               ELSE Walk(m, start, share, w.offset, idx)
      size == IF Len(nodes[n].children) = 1 \/ IsLastPlace(m, found.place) THEN share
              ELSE ElementAt(m, found.place).size * share
      here == [it |-> [w.it EXCEPT !.at = (n :> found.place) @@ @],
               offset |-> found.offset,
               left |-> (n :> size) @@ (IF isRoot THEN <<>> ELSE parent :> share) @@ w.left]
  IN  IF IsLastPlace(m, found.place) THEN here
      ELSE FoldLeft(LAMBDA v, c :
                      IF c.node \in Iter(w.it.name).required
                      THEN BeginAtNode(m, v, c.node, BeginOf(ListOf(m, v.it, c.node)), idx)
                      ELSE v,
                    here, nodes[n].children)

\* lower_bound finds the first bound that is not below idx.
BeginAt(m, t, bounds, idx) ==
  LET block == CHOOSE b \in DOMAIN bounds :
                 bounds[b] >= idx /\ \A c \in DOMAIN bounds : bounds[c] >= idx => b <= c
      start == [list |-> t, idx |-> (block - 1) * BoundsWidth + 1]
      w == [it |-> [name |-> FrontIterator(t), at |-> <<>>, sub |-> <<>>], left |-> <<>>,
            offset |-> IF block = 1 THEN 0 ELSE bounds[block - 1]]
  IN  BeginAtNode(m, w, trees[t].root, start, idx).it


(***************************************************************************)
(* Building trees                                                          *)
(***************************************************************************)
\* push_back: a new element with empty lists; references are set by merge.
PushBack(m, list, n, vals) ==
  LET children == nodes[n].children
      listOf(i) == IF children[i].ref THEN Nowhere.list ELSE Len(m.lists) + i
      kids == [c \in Children(nodes, n) |->
                 listOf(CHOOSE i \in DOMAIN children : children[i].node = c)]
      pushed == [m.lists EXCEPT ![list] = Append(@, [vals |-> vals, kids |-> kids, size |-> 0])]
  IN  [m EXCEPT !.lists = pushed \o [i \in DOMAIN children |-> <<>>]]

NextPlace(m, list) == [list |-> list, idx |-> Len(m.lists[list]) + 1]
ValuesOf(m, it, n) == [iu \in IUsAt(nodes, n) |-> ValueOf(m, it, iu)]

\* merge: the list of a referenced child is shared.
MergeReferences(m, place, it, children) ==
  FoldLeft(LAMBDA q, c : [q EXCEPT !.lists[place.list][place.idx].kids[c.node] =
                                     ListOf(q, it, c.node)],
           m, SelectSeq(children, LAMBDA c : c.ref))

\* The nodes of the tree above that a node of the merged tree has its columns from.
SourceNodes(t, n) ==
  {b \in NodesOf(trees[t].top.tree) : IUsAt(nodes, b) \cap IUsAt(nodes, n) # {}}

\* What a HandleStorage remembers of an iterator: the row of a scan by its values.
Mark(m, it, b) ==
  IF trees[it.name.tree].scan THEN ElementAt(m, it.at[b]).vals ELSE it.at[b]

ScanOf(t) == CHOOSE op \in DOMAIN ftStorage : ftStorage[op] = t

\* A new HandleStorage of tree t.  Places are null; a row has the default values.
HandleStorage(t) ==
  LET top == trees[t].top.tree
  IN  [marks |-> [b \in NodesOf(top) |->
                    IF trees[top].scan THEN [iu \in ScanOf(top).ius |-> 0] ELSE Nowhere],
       handles |-> [n \in PathFrom(nodes, trees[t].root) |-> Nowhere]]

\* Mutant: a handle is reused whatever it was made for.
ReuseAny(m, t, n, it, w) == w.cached /\ w.hs.handles[n] # Nowhere

\* useCached: the handle is the one for the same sources, from the root down.
UseCached(m, t, n, it, w) ==
  w.cached /\ \A b \in SourceNodes(t, n) : w.hs.marks[b] = Mark(m, it, b)

\* genCode of AppendEmptyTree.  w has the memory and the handles.  The last node of
\* the merged path is the one whose handle is returned.
RECURSIVE AppendNode(_, _, _, _, _)
AppendNode(w, t, n, list, it) ==
  LET useCached == UseCached(w.m, t, n, it, w)
      merged == nodes[n].merged
      lowerRoot == IUsAt(nodes, trees[trees[t].lower.tree].root)
      children == SelectSeq(nodes[n].children, LAMBDA c :
                    c.node # merged /\ Head(nodes[c.node].ius) \notin lowerRoot)
      place == NextPlace(w.m, list)
      marked == [b \in DOMAIN w.hs.marks |->
                   IF b \in SourceNodes(t, n) THEN Mark(w.m, it, b) ELSE w.hs.marks[b]]
      pushed == [w EXCEPT !.m = MergeReferences(PushBack(@, list, n, ValuesOf(@, it, n)),
                                                place, it, children),
                          !.hs = [marks |-> marked, handles |-> (n :> place) @@ @.handles],
                          !.cached = FALSE]
      copied == FoldLeft(LAMBDA v, c :
                           AppendNode(v, t, c.node, ElementAt(v.m, place).kids[c.node], it),
                         pushed, SelectSeq(children, LAMBDA c : ~c.ref))
      done == IF useCached THEN w ELSE copied
  IN  IF merged = NullNode THEN done
      ELSE AppendNode(done, t, merged, ElementAt(done.m, done.hs.handles[n]).kids[merged], it)

\* appendEmptyTree, with a HandleStorage to reuse or a new one.
AppendEmptyTree(m, t, it, hs, caching) ==
  AppendNode([m |-> m, hs |-> hs, cached |-> caching, caching |-> caching],
             t, trees[t].root, t, it)
NewHandle(w, t) == w.hs.handles[GetLastMergedNode(nodes, trees[t])]

\* insertAsChild, below the element at place.  Nodes with children that are not
\* references are found again in the InsertHandleStorage by what they come from.
RECURSIVE InsertNode(_, _, _, _, _, _)
InsertNode(w, t, n, place, it, key) ==
  LET owning == SelectSeq(nodes[n].children, LAMBDA c : ~c.ref)
      before == NodesOf(it.name.tree)
      sources == {b \in before : IUsAt(nodes, b) \cap IUsAt(nodes, n) # {}}
      newKey == IF w.caching THEN [b \in sources |-> it.at[b]] @@ key ELSE key
      known == w.caching /\ w.cached /\ <<n, newKey>> \in DOMAIN w.ihs
      list == ElementAt(w.m, place).kids[n]
      new == NextPlace(w.m, list)
      pushed == [w EXCEPT
        !.m = MergeReferences(PushBack(@, list, n, ValuesOf(@, it, n)), new, it,
                              nodes[n].children),
        !.ihs = IF owning = <<>> THEN @ ELSE (<<n, newKey>> :> new) @@ @,
        !.cached = FALSE]
      here == IF known THEN w ELSE pushed
      handle == IF known THEN w.ihs[<<n, newKey>>] ELSE new
  IN  FoldLeft(LAMBDA v, c : [InsertNode(v, t, c.node, handle, it, newKey)
                                EXCEPT !.cached = here.cached],
               here, owning)

InsertAsChild(m, t, place, it, ihs, caching) ==
  InsertNode([m |-> m, ihs |-> ihs, cached |-> TRUE, caching |-> caching],
             t, InsertedNode(nodes, trees[t]), place, it, <<>>)

(***************************************************************************)
(* Consuming a row.  env has what the code has in scope: the values of     *)
(* columns and the iterators.  A read through an iterator that is at its   *)
(* end, or through a null handle, is a fault.                              *)
(***************************************************************************)
Dereferenced(m, env, it) ==
  IF IsAnyLast(m, it) THEN [env EXCEPT !.atEnd = TRUE]
  ELSE [env EXCEPT !.its = (it.name :> it) @@ @,
                   !.ius = [iu \in Iter(it.name).ius |-> ValueOf(m, it, iu)] @@ @]

AfterTree(join) == ftStorage[join]
LeftTree(join) == TreeOf(join.left)
LeftStarter(join) == PipelineStarter(join.left)
Consumer(op) ==
  CHOOSE c \in {root} \cup Operators(root.child) :
    IF c.kind = "InnerJoin" THEN op \in {c.left, c.right} ELSE c.kind # "Scan" /\ c.child = op

LeftKeys(join, env) == [c \in join.conditions |-> env.ius[c[1]]]
RightKeys(join, env) == [c \in join.conditions |-> env.ius[c[2]]]

HashInsert(m, join, env, val) ==
  [m EXCEPT !.hash[AfterTree(join)] = Append(@, [key |-> LeftKeys(join, env), val |-> val])]

\* The values in the chain with the key of the right side; a semi join stops at one.
Lookup(m, join, env) ==
  LET found == SelectSeq(m.hash[AfterTree(join)], LAMBDA e : e.key = RightKeys(join, env))
      vals == [i \in DOMAIN found |-> found[i].val]
  IN  IF join.type = "RightSemi" /\ vals # <<>> THEN <<Head(vals)>> ELSE vals

\* The left side was composed by a top insert: it is built row by row in the tree
\* before the join.
StartLeftTree(m, t, env) ==
  LET started(w) ==
        [w.m EXCEPT !.row = [@ EXCEPT !.handle = NewHandle(w, t), !.path = w.hs.handles,
                                      !.inserted = FALSE, !.ihs = <<>>]]
  IN  started(AppendEmptyTree(m, t, env.its[trees[t].top],
                              [HandleStorage(t) EXCEPT !.marks = <<>>], FALSE))

InsertLeft(m, t, env) ==
  LET inserted(w) == [w.m EXCEPT !.row = [@ EXCEPT !.ihs = w.ihs, !.inserted = TRUE]]
  IN  inserted(InsertAsChild(m, t, m.row.handle, env.its[trees[t].lower], m.row.ihs, TRUE))

\* The left side into the tree after a bottom insert, and its handle into the table.
InsertTop(m, join, env, hs) ==
  LET t == AfterTree(join)
      appended(w) == [m |-> HashInsert(w.m, join, env, NewHandle(w, t)), hs |-> w.hs]
  IN  appended(AppendEmptyTree(m, t, env.its[trees[t].top], hs, TRUE))

\* The positions of the left iterator in what was inserted for this row.
InsertedPositions(m, t) ==
  LET parent == FromHandleStorage(m, Referenced(Merging(t)), m.row.path)
  IN  FromReferencedIterator(m, Merging(t), parent)

BuildBottomInsert(stage, join, env, m) ==
  LET l == LeftTree(join)
      insert(r, it) ==
        IF r.m.fault # "none" \/ IsAnyLast(r.m, it)
        THEN [r EXCEPT !.m.fault = IF @ = "none" THEN "iterator at its end" ELSE @]
        ELSE InsertTop(r.m, join, Dereferenced(r.m, env, it), r.hs)
      keep(r) == [r.m EXCEPT !.row.hs = r.hs]
  IN  IF IsTopInsert(LeftStarter(join))
      THEN CASE stage = "BeforeLoop" -> StartLeftTree(m, l, env)
             [] stage = "InLoop" -> InsertLeft(m, l, env)
             [] stage = "AfterLoop" ->
                  IF ~m.row.inserted THEN m
                  ELSE FoldLeft(insert, [m |-> m, hs |-> HandleStorage(AfterTree(join))],
                                PositionsFrom(m, InsertedPositions(m, l))).m
      ELSE IF stage # "InLoop" THEN m
      ELSE keep(InsertTop(m, join, env, m.row.hs))

BuildTopInsert(stage, join, env, m) ==
  LET l == LeftTree(join)
      merging == Merging(l)
      insert(r, it) ==
        LET e == Dereferenced(r, env, it)
        IN  IF r.fault # "none" THEN r
            ELSE IF e.atEnd THEN [r EXCEPT !.fault = "iterator at its end"]
            ELSE HashInsert(r, join, e, it)
  IN  IF IsTopInsert(LeftStarter(join))
      THEN CASE stage = "BeforeLoop" -> StartLeftTree(m, l, env)
             [] stage = "InLoop" -> InsertLeft(m, l, env)
             [] stage = "AfterLoop" ->
                  IF ~m.row.inserted THEN m
                  ELSE IF Iter(merging).ius = Iter(Referenced(merging)).ius
                  THEN HashInsert(m, join, env, InsertedPositions(m, l))
                  ELSE FoldLeft(insert, m, PositionsFrom(m, InsertedPositions(m, l)))
      ELSE IF stage # "AfterLoop" THEN m
      ELSE HashInsert(m, join, env, env.its[FrontIterator(l)])

\* The right side goes below the handles that are found, one after the other.
ProbeBottomInsert(stage, join, env, m) ==
  LET t == AfterTree(join)
      insert(r, handle) ==
        IF r.fault # "none" THEN r
        ELSE IF handle = Nowhere THEN [r EXCEPT !.fault = "null handle"]
        ELSE InsertAsChild(r, t, handle, env.its[trees[t].lower], <<>>, FALSE).m
  IN  IF stage = "InLoop" THEN FoldLeft(insert, m, Lookup(m, join, env)) ELSE m

\* What the loops of a top insert over one match put in scope, in their order: the
\* last iterator of the left tree if it refers to another, else the merging one.
LeftScopes(m, join, env, val) ==
  LET l == LeftTree(join)
      child == IF Iter(LastIterator(l)).ref # 0 THEN LastIterator(l) ELSE Merging(l)
      e == [env EXCEPT !.its = (val.name :> val) @@ @]
      scopes(its) == [i \in DOMAIN its |-> Dereferenced(m, e, its[i])]
  IN  IF trees[l].scan
      THEN IF child = Merging(l) THEN <<e>> ELSE <<Dereferenced(m, e, [val EXCEPT !.name = child])>>
      ELSE IF child = Merging(l) THEN <<Dereferenced(m, e, val)>>
      ELSE scopes(PositionsFrom(m, FromReferencedIterator(m, child, val)))

\* ... and the positions of its view, if the join is composed on the fly.
ComposedScopes(m, join, env) ==
  LET t == AfterTree(join)
      view == View(m, t, env.its)
  IN  IF env.atEnd \/ ~trees[t].composed THEN <<env>>
      ELSE IF Own(Merging(t)) = {} THEN <<Dereferenced(m, env, view)>>
      ELSE LET its == PositionsFrom(m, view)
           IN  [i \in DOMAIN its |-> Dereferenced(m, env, its[i])]

Scopes(m, join, env, val) ==
  FoldLeft(LAMBDA s, e : s \o ComposedScopes(m, join, e), <<>>, LeftScopes(m, join, env, val))

\* Mutant: the rows that were counted before are counted again.
ClearNothing(m) == m

\* Count::Prepare: iterableSize has used the sizes of the elements before.
ClearCachedSizes(m) ==
  LET join == PipelineStarter(root.child)
  IN  IF /\ root.kind = "Count" /\ join.kind = "InnerJoin"
         /\ LeftStarter(join).kind = "InnerJoin" /\ LeftStarter(join).mode = "BottomInsert"
      THEN LET l == LeftTree(join)
           IN  ClearSizes(m, Merging(l), trees[l].root, l)
      ELSE m

CountRow(m, env) ==
  LET join == PipelineStarter(root.child)
      t == TreeOf(root.child)
      upper == IteratedTupleSize(m, env.its[trees[t].top], FALSE).size
      lower == IteratedTupleSize(m, env.its[trees[t].lower], TRUE)
      whole == IteratedTupleSize(m, env.its[LastIterator(t)], TRUE)
  IN  CASE join.kind = "Scan" -> [m EXCEPT !.count = @ + 1]
        [] IsTopInsert(join) -> [lower.m EXCEPT !.count = @ + upper * lower.size]
        [] OTHER -> [whole.m EXCEPT !.count = @ + whole.size]

\* The predicate of a selection, by example: all its columns are 1.
Holds(selection, ius) == \A iu \in selection.ius : ius[iu] = 1

\* visitConsume: the row goes from caller to op.  skip is set by a continue in the
\* code of the row itself.
RECURSIVE Consume(_, _, _, _, _)
Consume(stage, op, caller, env, m) ==
  LET probing == op.kind = "InnerJoin" /\ caller = op.right
      forward(q) == Consume(stage, Consumer(op), op, env, q)
      found == Lookup(m, op, env)
      top == Consumer(op)
      one(r, e) == Consume("InLoop", top, op, e, r)
      each(r, val) == FoldLeft(one, r, Scopes(r, op, env, val))
      start == Consume("BeforeLoop", top, op, env, m)
  IN  CASE m.fault # "none" \/ m.row.skip -> m
        [] env.atEnd -> [m EXCEPT !.fault = "iterator at its end"]
        [] op.kind = "Selection" ->
             IF stage = "InLoop" /\ ~Holds(op, env.ius) THEN [m EXCEPT !.row.skip = TRUE]
             ELSE forward(m)
        [] op.kind = "Count" -> IF stage = "InLoop" THEN CountRow(m, env) ELSE m
        [] op.kind = "Print" ->
             IF stage = "InLoop"
             THEN [m EXCEPT !.output = Append(@, [iu \in op.output |-> env.ius[iu]])] ELSE m
        [] probing /\ op.mode = "BottomInsert" -> ProbeBottomInsert(stage, op, env, m)
        [] probing /\ op.mode = "TopInsert" ->
             IF stage # "InLoop" \/ found = <<>> THEN m
             ELSE Consume("AfterLoop", top, op, env, FoldLeft(each, start, found))
        [] OTHER -> IF op.mode = "BottomInsert" THEN BuildBottomInsert(stage, op, env, m)
                                                ELSE BuildTopInsert(stage, op, env, m)

ConsumeRow(op, env, m) ==
  FoldLeft(LAMBDA r, stage : Consume(stage, Consumer(op), op, env, r), m,
           <<"BeforeLoop", "InLoop", "AfterLoop">>)


(***************************************************************************)
(* The pipelines                                                           *)
(***************************************************************************)
\* The order of visitProduce.  A bottom insert starts a pipeline over its tree once
\* its right side is there.
RECURSIVE Pipelines(_)
Pipelines(op) ==
  CASE op.kind = "Scan" -> <<op>>
    [] op.kind = "InnerJoin" ->
         Pipelines(op.left) \o Pipelines(op.right)
         \o (IF op.mode = "BottomInsert" THEN <<op>> ELSE <<>>)
    [] OTHER -> Pipelines(op.child)

Prepared == todo = <<>> /\ earlier = <<>>
Starter == Head(pipelines)
NoEnv == [ius |-> <<>>, its |-> <<>>, atEnd |-> FALSE]

\* Where the pipeline of op ends, past the selections and the top inserts probed.
RECURSIVE Sink(_)
Sink(op) ==
  LET c == Consumer(op)
  IN  IF c.kind = "Selection" \/ (IsTopInsert(c) /\ op = c.right) THEN Sink(c) ELSE c

\* TLSPrepare: a bottom insert built straight from its pipeline reuses handles
\* within a chunk.
ChunkHandles(op) ==
  LET sink == Sink(op)
  IN  IF /\ sink.kind = "InnerJoin" /\ sink.mode = "BottomInsert"
         /\ op \in Operators(sink.left) /\ ~IsTopInsert(LeftStarter(sink))
      THEN HandleStorage(AfterTree(sink)) ELSE NoHandles

\* The trees and hash tables of the query, all empty, and the tables of the scans.
Open ==
  /\ Prepared /\ database # <<>>
  /\ store = <<>>
  /\ store' = [lists |-> [t \in DOMAIN trees |->
                            IF trees[t].scan
                            THEN [i \in DOMAIN database[ScanOf(t).relation] |->
                                    [vals |-> database[ScanOf(t).relation][i],
                                     kids |-> <<>>, size |-> 0]]
                            ELSE <<>>],
               hash |-> [t \in DOMAIN trees |-> <<>>],
               output |-> <<>>, count |-> 0, fault |-> "none", row |-> NoRow]
  /\ pipelines' = Pipelines(root.child)
  /\ UNCHANGED <<vars, database, work, chunks>>

Idle == work = NoWork /\ chunks = <<>>
Counting == Sink(Starter).kind = "Count"

\* The rows of a scan, or the positions of the tree of a bottom insert; a single
\* row if nothing of the tree is iterated.
StartPipeline ==
  /\ store # <<>> /\ store.fault = "none" /\ pipelines # <<>> /\ Idle
  /\ LET t == ftStorage[Starter]
         own == Iter(FrontIterator(t)).required
         sized == IterableSize(store, own, trees[t].root, t)
         sizes == [i \in DOMAIN sized.m.lists[t] |-> sized.m.lists[t][i].size]
         rows(n) == [size |-> n, bounds |-> <<>>, next |-> 0]
         iterated == Starter.kind = "InnerJoin" /\ own # {}
         m == IF iterated THEN sized.m ELSE store
     IN  /\ work' = IF iterated THEN [rows(sized.size) EXCEPT !.bounds = Bounds(sizes)]
                    ELSE rows(IF trees[t].scan THEN Len(store.lists[t]) ELSE 1)
         /\ store' = IF Counting THEN ClearCachedSizes(m) ELSE m
  /\ UNCHANGED <<vars, database, pipelines, chunks>>

\* A thread takes the next chunk; in the tree of a bottom insert it seeks its start.
StartChunk ==
  /\ work.next < work.size
  /\ Cardinality(DOMAIN chunks) < Threads
  /\ LET t == ftStorage[Starter]
         first == work.next
         end == IF first + ChunkSize < work.size THEN first + ChunkSize ELSE work.size
         it == IF work.bounds = <<>> THEN AtRoot(FrontIterator(t), BeginOf(t))
               ELSE BeginAt(store, t, work.bounds, first)
     IN  /\ chunks' = (first :> [idx |-> first, end |-> end, it |-> it,
                                 hs |-> ChunkHandles(Starter)]) @@ chunks
         /\ work' = [work EXCEPT !.next = end]
  /\ UNCHANGED <<vars, database, store, pipelines>>

\* A row of a table has all its columns in scope; the position of a tree those that
\* its iterator iterates, if any.
RowScope(it, idx) ==
  LET t == it.name.tree
      place == [list |-> t, idx |-> idx + 1]
  IN  CASE trees[t].scan ->
             [its |-> FrontIterator(t) :> AtRoot(FrontIterator(t), place),
              ius |-> ElementAt(store, place).vals, atEnd |-> FALSE]
        [] ~trees[t].scan /\ Iter(it.name).ius = {} -> [NoEnv EXCEPT !.its = it.name :> it]
        [] OTHER -> Dereferenced(store, NoEnv, it)

\* One row of a chunk.
ProcessRow ==
  /\ store # <<>> /\ store.fault = "none"
  /\ \E first \in DOMAIN chunks :
       LET chunk == chunks[first]
           it == IF work.bounds = <<>> THEN chunk.it ELSE SkipEmpty(store, chunk.it)
           moved == IF work.bounds = <<>> THEN it ELSE Incremented(store, it)
           done(m) ==
             /\ store' = [m EXCEPT !.row = NoRow]
             /\ chunks' = IF chunk.idx + 1 = chunk.end
                          THEN [c \in DOMAIN chunks \ {first} |-> chunks[c]]
                          ELSE [chunks EXCEPT ![first] =
                                  [@ EXCEPT !.idx = @ + 1, !.it = moved, !.hs = m.row.hs]]
       IN  done(ConsumeRow(Starter, RowScope(it, chunk.idx),
                           [store EXCEPT !.row = [NoRow EXCEPT !.hs = chunk.hs]]))
  /\ UNCHANGED <<vars, database, pipelines, work>>

EndPipeline ==
  /\ store # <<>> /\ store.fault = "none"
  /\ pipelines # <<>> /\ work # NoWork /\ work.next = work.size /\ chunks = <<>>
  /\ pipelines' = Tail(pipelines)
  /\ work' = NoWork
  /\ UNCHANGED <<vars, database, store, chunks>>

ExecInit ==
  /\ Init
  /\ database \in IF earlier = <<>> /\ Databases(root) # {} THEN Databases(root) ELSE {<<>>}
  /\ store = <<>>
  /\ pipelines = <<>>
  /\ work = NoWork
  /\ chunks = <<>>

ExecNext ==
  \/ Next /\ UNCHANGED execVars
  \/ Open \/ StartPipeline \/ StartChunk \/ ProcessRow \/ EndPipeline

ExecSpec == ExecInit /\ [][ExecNext]_allVars


(***************************************************************************)
(* Properties                                                              *)
(***************************************************************************)
RowsOf(relation) == {relation :> i : i \in DOMAIN database[relation]}
ValueIn(tuple, iu) == database[iu[1]][tuple[iu[1]]][iu]

\* The tuples of an operator: for each relation below the row that it is from.
RECURSIVE Tuples(_)
Tuples(op) ==
  CASE op.kind = "Scan" -> RowsOf(op.relation)
    [] op.kind = "Selection" ->
         {u \in Tuples(op.child) : Holds(op, [iu \in op.ius |-> ValueIn(u, iu)])}
    [] op.kind = "InnerJoin" ->
         LET matches(a, b) == \A c \in op.conditions : ValueIn(a, c[1]) = ValueIn(b, c[2])
         IN  IF op.type = "RightSemi"
             THEN {b \in Tuples(op.right) : \E a \in Tuples(op.left) : matches(a, b)}
             ELSE UNION {{a @@ b : b \in {u \in Tuples(op.right) : matches(a, u)}}
                         : a \in Tuples(op.left)}

Started == store # <<>>
Running == Started /\ store.fault = "none"
Done == Running /\ pipelines = <<>>

\* The factorized execution returns the result of the flat join, whatever the order
\* in which the threads process the chunks: it never prints a tuple more often than
\* the join has it, nor counts more tuples; at the end it has counted all, and printed
\* all if it prints columns of every relation, else each of them at least once.
ResultExact ==
  Running =>
    LET tuples == Tuples(root.child)
        complete == {iu[1] : iu \in root.output} = {iu[1] : iu \in IUs(root.child)}
        printed(v) == Cardinality({i \in DOMAIN store.output : store.output[i] = v})
        expected(v) == Cardinality({u \in tuples :
                                      \A iu \in root.output : ValueIn(u, iu) = v[iu]})
        values == {[iu \in root.output |-> ValueIn(u, iu)] : u \in tuples}
    IN  IF root.kind = "Count"
        THEN store.count <= Cardinality(tuples) /\ (Done => store.count = Cardinality(tuples))
        ELSE /\ \A v \in ToSet(store.output) : printed(v) <= expected(v)
             /\ Done => values = ToSet(store.output)
             /\ Done /\ complete => Len(store.output) = Cardinality(tuples)

\* A bottom insert has the handle of the last row of its chunk by its values, and at
\* first a null handle under the default values: a chunk of its scan begins with them.
DefaultFirst ==
  \E join \in Operators(root.child) :
    /\ join.kind = "InnerJoin" /\ join.mode = "BottomInsert" /\ LeftStarter(join).kind = "Scan"
    /\ LET rows == database[LeftStarter(join).relation]
           passes(i) == \A op \in Operators(join.left) : op.kind = "Selection" => Holds(op, rows[i])
           reach(first) == {i \in DOMAIN rows : i \in first .. first + ChunkSize - 1 /\ passes(i)}
       IN  \E k \in 0 .. Len(rows) \div ChunkSize :
             LET reached == reach(k * ChunkSize + 1)
             IN  /\ reached # {}
                 /\ \A iu \in LeftStarter(join).ius : rows[Min(reached)][iu] = 0

\* The elements of a node of a tree.
RECURSIVE ElementsOf(_, _)
ElementsOf(t, n) ==
  IF n = trees[t].root THEN ToSet(store.lists[t])
  ELSE UNION {ToSet(store.lists[e.kids[n]]) : e \in ElementsOf(t, ParentOf(t, n))}

\* An iterator that is begun moves the last of its lists if any is empty: it has another
\* branch than that of an empty list.
EmptyBranch ==
  \E t \in DOMAIN trees : \E pos \in DOMAIN trees[t].iterators :
    LET own == Contained([tree |-> t, pos |-> pos])
        apart(b, c) == b \notin NodesFrom(nodes, c) /\ c \notin NodesFrom(nodes, b)
    IN  /\ ~trees[t].scan /\ ~trees[t].composed
        /\ \E n \in own : \E c \in Children(nodes, n) \cap own :
             /\ \E b \in own : apart(b, c)
             /\ \E e \in ElementsOf(t, n) : store.lists[e.kids[c]] = <<>>

\* No iterator is dereferenced at its end (asserted in Dereference.hpp:18), and no
\* element is inserted below a handle that points nowhere.
NoFault == Started => store.fault = "none"

\* An element is inserted below a null handle only if a chunk begins with a row of default
\* values, an iterator is used at its end only with two branches of which one is empty.
FaultsExplained ==
  Started =>
    /\ store.fault = "null handle" => DefaultFirst
    /\ store.fault = "iterator at its end" => EmptyBranch

\* The result is that of the flat join, unless the execution ends with one of two faults,
\* for the rows and the trees that bring it about.
ExecutionExact == FaultsExplained /\ ResultExact

\* A pipeline over a tree is cut into chunks by number: iterableSize returns how many
\* positions the iterator has that are not empty, and beginAt finds each of them.
IterableExact ==
  Running /\ work.next = 0 /\ work.bounds # <<>> /\ work.size > 0 =>
    LET t == ftStorage[Starter]
        begin == BeginBelow(store, AtRoot(FrontIterator(t), BeginOf(t)),
                            Tail(InOrder(t, Own(FrontIterator(t)))))
        first == IF IsAnyLast(store, begin) THEN Incremented(store, begin) ELSE begin
        positions == SelectSeq(PositionsFrom(store, first),
                               LAMBDA it : ~IsSubtreeEmpty(store, it))
    IN  /\ Len(positions) = work.size
        /\ \A k \in DOMAIN positions : BeginAt(store, t, work.bounds, k - 1) = positions[k]

\* The size that a Count finds in an element is the size below it: what iterableSize
\* has left there for another purpose is gone.
CacheCoherent ==
  Running /\ root.kind = "Count" /\ work # NoWork /\ Counting =>
    LET join == PipelineStarter(root.child)
        l == LeftTree(join)
        caching == {n \in NodesOf(l) : CachesSize(Merging(l), n)}
        actual(e, n) == FoldLeft(LAMBDA size, c : size * ListSize(store, c.node, e.kids[c.node]),
                                 1, nodes[n].children)
    IN  join.kind = "InnerJoin" /\ IsTopInsert(join) /\ ~trees[l].scan =>
          \A n \in caching : \A e \in ElementsOf(l, n) : e.size \in {0, actual(e, n)}

=============================================================================
