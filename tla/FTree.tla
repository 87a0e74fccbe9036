------------------------------- MODULE FTree -------------------------------
(***************************************************************************)
(* Factorized trees (newftree/FTree, FNode and FIterator) as values.  The  *)
(* heap H is the sequence of all owning nodes, numbered as globalFNodeId   *)
(* numbers them; a child of a node is a link to an owning node, which      *)
(* either owns it or only references it (FNodeReferencing).  A tree has    *)
(* its iterators, and once it is merged the two iterators it came from.    *)
(* An iterator is named by its tree and its position in the tree's list.   *)
(***************************************************************************)
EXTENDS Naturals, Sequences, FiniteSets, SequencesExt

NullNode == 0
NoIterator == [tree |-> 0, pos |-> 0]

(***************************************************************************)
(* FNode                                                                   *)
(***************************************************************************)
EmptyNode == [ius |-> <<>>, children |-> <<>>, merged |-> NullNode, lock |-> FALSE]

IUsAt(H, n) == ToSet(H[n].ius)

\* OrderedIUSet::merge appends, whatever is there already.
AddIUs(H, n, ius) == [H EXCEPT ![n].ius = @ \o ius]

\* addChild() without arguments: the new node has the next id.
AddEmptyChild(H, parent) ==
  Append([H EXCEPT ![parent].children = Append(@, [node |-> Len(H) + 1, ref |-> FALSE])],
         EmptyNode)

AddToMergedNode(H, parent, n) ==
  LET G == IF H[parent].merged # NullNode THEN H
           ELSE [AddEmptyChild(H, parent) EXCEPT ![parent].merged = Len(H) + 1]
  IN  AddIUs(G, G[parent].merged, H[n].ius)

\* addChild(child, referencing): a reference, or a copy down to the references.
RECURSIVE AddChild(_, _, _, _)
AddChild(H, parent, child, referencing) ==
  IF referencing \/ child.ref
  THEN [H EXCEPT ![parent].children = Append(@, [child EXCEPT !.ref = TRUE])]
  ELSE LET copy == Len(H) + 1
           G == AddIUs(AddEmptyChild(H, parent), copy, H[child.node].ius)
       IN  FoldLeft(LAMBDA h, c : AddChild(h, copy, c, FALSE), G, H[child.node].children)

Children(H, n) == {H[n].children[i].node : i \in DOMAIN H[n].children}

\* The nodes a traversal from n reaches, through references too.
RECURSIVE NodesFrom(_, _)
NodesFrom(H, n) == {n} \cup UNION {NodesFrom(H, c) : c \in Children(H, n)}

(***************************************************************************)
(* FIterator                                                               *)
(***************************************************************************)
\* Mutant: the ancestors are not required.
RequiredWithoutAncestors(H, root, ius) ==
  {n \in NodesFrom(H, root) : IUsAt(H, n) \cap ius # {}}

\* The nodes that hold an iterated IU, and their ancestors.
RequiredNodes(H, root, ius) ==
  {n \in NodesFrom(H, root) : \E d \in NodesFrom(H, n) : IUsAt(H, d) \cap ius # {}}

NewIterator(H, root, ius) ==
  [ius |-> ius, required |-> RequiredNodes(H, root, ius), ref |-> 0]

RECURSIVE TransitiveRequired(_, _)
TransitiveRequired(tree, pos) ==
  LET iter == tree.iterators[pos]
  IN  iter.required \cup (IF iter.ref = 0 THEN {} ELSE TransitiveRequired(tree, iter.ref))

(***************************************************************************)
(* FTree                                                                   *)
(***************************************************************************)
EmptyTree(root) ==
  [root |-> root, iterators |-> <<>>, top |-> NoIterator, lower |-> NoIterator,
   inserted |-> 0, scan |-> FALSE, composed |-> FALSE]

WasMerged(tree) == tree.top # NoIterator \/ tree.lower # NoIterator

CollectIUs(H, tree) == UNION {IUsAt(H, n) : n \in NodesFrom(H, tree.root)}

CreateIterator(H, tree, ius) ==
  [tree EXCEPT !.iterators = Append(@, NewIterator(H, tree.root, ius))]

\* createSubiterator(iterator pos, ius).
CreateSubiterator(H, tree, pos, ius) ==
  [tree EXCEPT !.iterators = Append(@, [NewIterator(H, tree.root, ius) EXCEPT !.ref = pos])]

RequiredIUs(H, trees, iter) ==
  UNION {IUsAt(H, n) : n \in TransitiveRequired(trees[iter.tree], iter.pos)}

\* Mutant: only the last composition counts.
OneCompositionIUs(H, trees, t) ==
  IF trees[t].composed /\ WasMerged(trees[t])
  THEN RequiredIUs(H, trees, trees[t].top) \cup RequiredIUs(H, trees, trees[t].lower)
  ELSE {}

\* What the join that composes the tree, and the ones it was composed from, hold
\* in variables: no node of the tree stores it.
RECURSIVE ComposedAvailableIUs(_, _, _)
ComposedAvailableIUs(H, trees, t) ==
  LET top == trees[t].top
      lower == trees[t].lower
  IN  IF trees[t].composed /\ WasMerged(trees[t])
      THEN RequiredIUs(H, trees, top) \cup RequiredIUs(H, trees, lower)
           \cup ComposedAvailableIUs(H, trees, top.tree)
           \cup ComposedAvailableIUs(H, trees, lower.tree)
      ELSE {}

ComposedAvailableNodes(H, trees, t) ==
  LET available == ComposedAvailableIUs(H, trees, t)
  IN  {n \in NodesFrom(H, trees[t].root) : H[n].ius # <<>> /\ Head(H[n].ius) \in available}

\* The loop of createRootToLeafPathPaper: below a required node that is merged
\* into the node under parent, everything else becomes a child of parent.
RECURSIVE PathPaper(_, _, _, _, _)
PathPaper(H, parent, children, required, composed) ==
  LET place(h, c) ==
        IF c.node \in required
        THEN LET g == AddToMergedNode(h, parent, c.node)
             IN  PathPaper(g, g[parent].merged, h[c.node].children, required, composed)
        ELSE AddChild(h, parent, c, c.node \notin composed)
  IN  FoldLeft(place, H, children)

\* The loop of createRootToLeafPathNaive: required nodes end up in the root.
RECURSIVE PathNaive(_, _, _, _, _)
PathNaive(H, newRoot, children, required, composed) ==
  LET place(h, c) ==
        IF c.node \in required
        THEN PathNaive(AddIUs(h, newRoot, h[c.node].ius), newRoot, h[c.node].children,
                       required, composed)
        ELSE AddChild(h, newRoot, c, c.node \notin composed)
  IN  FoldLeft(place, H, children)

CreateRootToLeafPath(H, trees, iter, newRoot, naive) ==
  LET root == trees[iter.tree].root
      required == TransitiveRequired(trees[iter.tree], iter.pos)
      composed == ComposedAvailableNodes(H, trees, iter.tree) \cup required
      G == AddIUs(H, newRoot, H[root].ius)
  IN  IF naive THEN PathNaive(G, newRoot, H[root].children, required, composed)
               ELSE PathPaper(G, newRoot, H[root].children, required, composed)

RECURSIVE LastMergedFrom(_, _)
LastMergedFrom(H, n) ==
  IF H[n].merged = NullNode THEN n ELSE LastMergedFrom(H, H[n].merged)

GetLastMergedNode(H, tree) == LastMergedFrom(H, tree.root)

InsertedNode(H, tree) == Last(H[GetLastMergedNode(H, tree)].children).node

\* mergeTrees(trees[after], left, right, mode), with the new heap and trees.
MergeTrees(H, trees, after, left, right, mode, naive) ==
  LET upper == IF mode = "BottomInsert" THEN left ELSE right
      lower == IF mode = "BottomInsert" THEN right ELSE left
      H1 == CreateRootToLeafPath(H, trees, upper, trees[after].root, naive)
      H2 == AddEmptyChild(H1, GetLastMergedNode(H1, trees[after]))
      inserted == Len(H2)
      H3 == CreateRootToLeafPath(H2, trees, lower, inserted, naive)
  IN  [nodes |-> [H3 EXCEPT ![inserted].lock = mode = "BottomInsert"],
       trees |-> [trees EXCEPT ![after].top = upper, ![after].lower = lower,
                               ![upper.tree].inserted = after,
                               ![lower.tree].inserted = after]]

\* The iterator that the merge of this tree used.
GetMergingIterator(trees, t) ==
  LET merged == trees[trees[t].inserted]
  IN  IF trees[t].inserted = 0 THEN NoIterator
      ELSE IF merged.top.tree = t THEN merged.top ELSE merged.lower

\* collectUpperTreeNodes from a node of the merged path.  At its end one child
\* comes from the lower tree; it is told by the first IU of its node.
RECURSIVE UpperNodesFrom(_, _, _)
UpperNodesFrom(H, n, lowerRootIUs) ==
  {n} \cup UNION
    (IF H[n].merged # NullNode
     THEN {IF c = H[n].merged THEN UpperNodesFrom(H, c, lowerRootIUs) ELSE NodesFrom(H, c)
             : c \in Children(H, n)}
     ELSE {NodesFrom(H, c) : c \in {d \in Children(H, n) : Head(H[d].ius) \notin lowerRootIUs}})

CollectUpperTreeNodes(H, trees, t) ==
  UpperNodesFrom(H, trees[t].root, IUsAt(H, trees[trees[t].lower.tree].root))

CollectLowerTreeNodes(H, trees, t) == NodesFrom(H, InsertedNode(H, trees[t]))

\* The merged path: the nodes from the root along the merged children.
RECURSIVE PathFrom(_, _)
PathFrom(H, n) ==
  {n} \cup (IF H[n].merged = NullNode THEN {} ELSE PathFrom(H, H[n].merged))

\* The nodes that a tree owns: what is reached without following a reference.
RECURSIVE OwnedFrom(_, _)
OwnedFrom(H, n) ==
  {n} \cup UNION {OwnedFrom(H, c.node) : c \in {d \in ToSet(H[n].children) : ~d.ref}}

=============================================================================
