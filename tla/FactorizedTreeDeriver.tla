----------------------- MODULE FactorizedTreeDeriver -----------------------
(***************************************************************************)
(* Preparing a plan for factorized execution: the prepare methods of the   *)
(* algebra (InnerJoin, Selection, TableScan, Print and Count) push the IUs *)
(* (columns) that are required down the plan and, on the way back, the     *)
(* FactorizedTreeDeriver derives the factorized tree of every operator.    *)
(* An operator is a record that holds its children.  The calls in progress *)
(* are a stack; every call before and after its children is one action.    *)
(***************************************************************************)
EXTENDS FTree

CONSTANTS
  Plans,     \* the plans to prepare
  Outputs,   \* the sets of IUs a Print may have to print, {} for a Count
  Estimated  \* the operators that the estimator prepares alone before the plan

VARIABLES
  root,         \* the topmost operator, a Print or Count above a plan
  earlier,      \* what is still to be prepared, with other derivers, before
  naive,        \* the setting codegen.factorized.naiveMerge
  todo,         \* the stack of the calls in progress
  required,     \* per operator: its sets of required IUs
  nodes, trees, \* the heap of the nodes and the trees (ownedTrees)
  ftStorage     \* the tree of every operator that starts a pipeline

vars == <<root, earlier, naive, todo, required, nodes, trees, ftStorage>>

(***************************************************************************)
(* The algebra                                                             *)
(***************************************************************************)
Scan(relation, ius) == [kind |-> "Scan", relation |-> relation, ius |-> ius]
Select(child, ius) == [kind |-> "Selection", child |-> child, ius |-> ius]
Join(left, right, conditions, mode, type) ==
  [kind |-> "InnerJoin", left |-> left, right |-> right,
   conditions |-> conditions, mode |-> mode, type |-> type]
Top(kind, child, output) == [kind |-> kind, child |-> child, output |-> output]

RECURSIVE IUs(_)
IUs(op) ==
  CASE op.kind = "Scan" -> op.ius
    [] op.kind = "Selection" -> IUs(op.child)
    [] op.kind = "InnerJoin" ->
         IF op.type = "RightSemi" THEN IUs(op.right) ELSE IUs(op.left) \cup IUs(op.right)

\* getPipelineStarter: the scan or join below any selections.
RECURSIVE PipelineStarter(_)
PipelineStarter(op) == IF op.kind = "Selection" THEN PipelineStarter(op.child) ELSE op

IsTopInsert(op) == op.kind = "InnerJoin" /\ op.mode = "TopInsert"

Keys(join) == UNION {{c[1], c[2]} : c \in join.conditions}

\* An operator, and all below it.
RECURSIVE Operators(_)
Operators(op) ==
  {op} \cup (IF op.kind = "InnerJoin" THEN Operators(op.left) \cup Operators(op.right)
             ELSE IF op.kind = "Scan" THEN {} ELSE Operators(op.child))

(***************************************************************************)
(* The calls.  requiredPipeline is passed by reference: a call names the   *)
(* set it was given, the field of an operator above.                       *)
(***************************************************************************)
Before(op, owner, field, ius) ==
  [stage |-> "BeforeCall", op |-> op, owner |-> owner, field |-> field, required |-> ius]
After(op) == [stage |-> "AfterCall", op |-> op]

Call == Head(todo)
Pipeline == required[Call.owner][Call.field]
Calls(stage, kind) == todo # <<>> /\ Call.stage = stage /\ Call.op.kind = kind
With(op, sets) == (op :> sets) @@ required

Prepare(newRoot) ==
  /\ root' = newRoot
  /\ todo' = <<Before(newRoot, newRoot, "", {})>>
  /\ nodes' = <<>>
  /\ trees' = <<>>
  /\ ftStorage' = <<>>

Init ==
  \E plan \in Plans, output \in Outputs, kind \in {"Print", "Count"} :
    /\ output \subseteq IUs(plan)
    /\ output = {} <=> kind = "Count"
    /\ \E first \in {<<>>} \cup {<<op>> : op \in Operators(plan) \cap Estimated} :
         LET last == Top(kind, plan, output)
             start == IF first = <<>> THEN last ELSE Top("Print", first[1], IUs(first[1]))
         IN  /\ root = start
             /\ earlier = IF first = <<>> THEN <<>> ELSE <<last>>
             /\ todo = <<Before(start, start, "", {})>>
    /\ naive \in BOOLEAN
    /\ required = <<>>
    /\ nodes = <<>>
    /\ trees = <<>>
    /\ ftStorage = <<>>

\* Print::prepare and Count::prepare, which requires nothing.
PrepareTop ==
  /\ Calls("BeforeCall", "Print") \/ Calls("BeforeCall", "Count")
  /\ required' = With(root, [pipeline |-> root.output])
  /\ todo' = <<Before(root.child, root, "pipeline", root.output), After(root)>>
  /\ UNCHANGED <<root, earlier, naive, nodes, trees, ftStorage>>

\* Selection::prepare adds the IUs of its predicate to the set of its caller.
PrepareSelection ==
  /\ Calls("BeforeCall", "Selection")
  /\ required' = [required EXCEPT ![Call.owner][Call.field] = @ \cup Call.op.ius]
  /\ todo' = <<[Call EXCEPT !.op = Call.op.child]>> \o Tail(todo)
  /\ UNCHANGED <<root, earlier, naive, nodes, trees, ftStorage>>

\* Mutant: a bottom insert keeps what the pipeline above requires, too, and a
\* top insert does not.
RightPipelineSwapped(join, pipeline) ==
  (Keys(join) \ IUs(join.left))
  \cup (IF join.mode = "BottomInsert" THEN pipeline \ IUs(join.left) ELSE {})

\* rightPipelineRequiredPipeline: only a top insert stays in its pipeline.
RightPipeline(join, pipeline) ==
  (Keys(join) \ IUs(join.left))
  \cup (IF join.mode = "TopInsert" THEN pipeline \ IUs(join.left) ELSE {})

\* Mutant: what the pipeline above requires of the left child is forgotten.
LeftRequiredOfJoin(join, pipeline, above) ==
  (above \cup Keys(join)) \cap IUs(join.left)

LeftRequired(join, pipeline, above) ==
  (above \cup pipeline \cup Keys(join)) \cap IUs(join.left)

\* InnerJoin::prepare up to the calls of the children, left first.  The right
\* set takes in what rightPipelineRequiredPipeline held before, if anything.
PrepareJoin ==
  /\ Calls("BeforeCall", "InnerJoin")
  /\ LET join == Call.op
         stale == IF join \in DOMAIN required THEN required[join].rightPipeline ELSE {}
         left == LeftRequired(join, Pipeline, Call.required)
         right == ((Call.required \cup Pipeline) \ IUs(join.left)) \cup stale
     IN  /\ required' = With(join,
              [parent |-> Call.required, parentPipeline |-> Pipeline,
               left |-> left, leftPipeline |-> Keys(join) \cap IUs(join.left),
               right |-> right, rightPipeline |-> RightPipeline(join, Pipeline)])
         /\ todo' = <<Before(join.left, join, "leftPipeline", left),
                      Before(join.right, join, "rightPipeline", right),
                      After(join)>> \o Tail(todo)
  /\ UNCHANGED <<root, earlier, naive, nodes, trees, ftStorage>>

\* TableScan::prepare, and the tree of one node that the deriver makes of it.
PrepareScan ==
  /\ Calls("BeforeCall", "Scan")
  /\ LET n == Len(nodes) + 1
         t == Len(trees) + 1
         ius == Call.required \cup Pipeline
     IN  /\ required' = With(Call.op, [required |-> ius, pipeline |-> Pipeline])
         /\ nodes' = Append(nodes, [EmptyNode EXCEPT !.ius = SetToSeq(ius)])
         /\ trees' = Append(trees, [CreateIterator(nodes', EmptyTree(n), Pipeline)
                                      EXCEPT !.scan = TRUE])
         /\ ftStorage' = (Call.op :> t) @@ ftStorage
  /\ todo' = Tail(todo)
  /\ UNCHANGED <<root, earlier, naive>>

TreeOf(op) == ftStorage[PipelineStarter(op)]

\* A top insert as the right child is not materialized (a selection between
\* them would hide it; selections are below the joins only).
ComposesRight(op) == IsTopInsert(op)

\* Before the merge, in a top insert on top of a top insert: the front iterator
\* gets a referenced iterator over what the pipeline below has of its right side.
FixUpperPart(tree, leftJoin) ==
  LET fixed == required[leftJoin].right \cap required[leftJoin].parentPipeline
      extended == CreateIterator(nodes, tree, fixed)
  IN  [extended EXCEPT !.iterators[1].ref = Len(extended.iterators)]

\* After the merge, in a bottom insert on top of a top insert: over the root.
FixRoot(H, tree) ==
  LET extended == CreateIterator(H, tree, IUsAt(H, tree.root))
  IN  [extended EXCEPT !.iterators[1].ref = Len(extended.iterators)]

\* visitPrepare(AfterCall, InnerJoin).
DeriveJoin ==
  /\ Calls("AfterCall", "InnerJoin")
  /\ LET join == Call.op
         leftJoin == PipelineStarter(join.left)
         l == TreeOf(join.left)
         r == TreeOf(join.right)
         after == Len(trees) + 1
         overTopInsert == IsTopInsert(leftJoin)
         fixed == IF overTopInsert /\ join.mode = "TopInsert"
                  THEN FixUpperPart(trees[l], leftJoin) ELSE trees[l]
         inputs == [trees EXCEPT ![l] = fixed,
                                 ![r].composed = @ \/ ComposesRight(join.right)]
         merged == MergeTrees(Append(nodes, EmptyNode),
                              Append(inputs, EmptyTree(Len(nodes) + 1)), after,
                              [tree |-> l, pos |-> 1], [tree |-> r, pos |-> 1],
                              join.mode, naive)
         derived == [merged.trees EXCEPT ![after] =
                       CreateIterator(merged.nodes, @, required[join].parentPipeline)]
     IN  /\ nodes' = merged.nodes
         /\ trees' = IF overTopInsert /\ join.mode = "BottomInsert"
                     THEN [derived EXCEPT ![l] = FixRoot(merged.nodes, @)] ELSE derived
         /\ ftStorage' = (join :> after) @@ ftStorage
  /\ todo' = Tail(todo)
  /\ UNCHANGED <<root, earlier, naive, required>>

\* visitPrepare(AfterCall, Print): printing from a top insert needs an iterator
\* over all that its left side has to deliver.  A Count needs none.
DeriveTop ==
  /\ Calls("AfterCall", "Print") \/ Calls("AfterCall", "Count")
  /\ LET join == PipelineStarter(root.child)
         l == TreeOf(join.left)
     IN  trees' = IF root.kind = "Print" /\ IsTopInsert(join)
                  THEN [trees EXCEPT ![l] =
                          CreateSubiterator(nodes, @, 1, required[join].left)]
                  ELSE trees
  /\ todo' = <<>>
  /\ UNCHANGED <<root, earlier, naive, required, nodes, ftStorage>>

\* The plan itself, after the estimator had prepared an operator of it.  The
\* deriver is a new one; the operators keep their sets.
PrepareAgain ==
  /\ todo = <<>>
  /\ earlier # <<>>
  /\ earlier' = Tail(earlier)
  /\ Prepare(Head(earlier))
  /\ UNCHANGED <<naive, required>>

Next == \/ PrepareTop \/ PrepareSelection \/ PrepareJoin \/ PrepareScan
        \/ DeriveJoin \/ DeriveTop \/ PrepareAgain

Spec == Init /\ [][Next]_vars

(***************************************************************************)
(* Properties                                                              *)
(***************************************************************************)
DerivedJoins == {op \in DOMAIN ftStorage : op.kind = "InnerJoin"}
NodesOf(t) == NodesFrom(nodes, trees[t].root)
Relations(n) == {iu[1] : iu \in IUsAt(nodes, n)}

\* What someone asks for: the output, the join conditions and the selections.
Asked ==
  root.output \cup UNION {IF op.kind = "InnerJoin" THEN Keys(op)
                          ELSE IF op.kind = "Selection" THEN op.ius ELSE {}
                          : op \in Operators(root.child)}

\* Every column is stored where it is needed, and once: the tree of a scan has
\* all columns of its relation that the output, a join or a selection of the plan
\* asks for; a merged tree has the columns of both its inputs, each in one node
\* only, all columns of a relation in the same node, and no node twice.  The last
\* is what genPredecessorInformation asserts (PredecessorDetector.cpp:49).  A merged
\* tree is split by collectUpperTreeNodes and collectLowerTreeNodes, so that the two
\* factors that iteratedTupleSize multiplies count every node once.
StoredOnce ==
  \A op \in DOMAIN ftStorage :
    LET t == ftStorage[op]
        stored == CollectIUs(nodes, trees[t])
    IN  /\ op.kind = "Scan" => /\ Asked \cap op.ius \subseteq stored
                               /\ stored \subseteq op.ius
        /\ op.kind = "InnerJoin" =>
             stored = CollectIUs(nodes, trees[TreeOf(op.left)])
                      \cup CollectIUs(nodes, trees[TreeOf(op.right)])
        /\ \A n \in NodesOf(t) : IsInjective(nodes[n].ius)
        /\ \A m, n \in NodesOf(t) : m # n =>
             /\ Relations(m) \cap Relations(n) = {}
             /\ Children(nodes, m) \cap Children(nodes, n) = {}
        /\ op.kind = "InnerJoin" =>
             LET upper == CollectUpperTreeNodes(nodes, trees, t)
                 lower == CollectLowerTreeNodes(nodes, trees, t)
             IN  upper \cap lower = {} /\ upper \cup lower = NodesOf(t)

NodeWith(t, iu) == CHOOSE n \in NodesOf(t) : iu \in IUsAt(nodes, n)

\* The path constraint of factorized representations: in the tree of a join, and
\* in every tree it is merged into later, the two columns of each of its
\* conditions lie on one path from the root to a leaf.  Values in different
\* branches of a factorized tree are independent of each other.
JoinKeysOnPath ==
  \A op \in DerivedJoins :
    \A join \in {o \in Operators(op) : o.kind = "InnerJoin"} :
      \A c \in join.conditions :
        LET a == NodeWith(ftStorage[op], c[1])
            b == NodeWith(ftStorage[op], c[2])
        IN  a \in NodesFrom(nodes, b) \/ b \in NodesFrom(nodes, a)

\* The trees that are composed on the fly while they are probed: those of top
\* inserts on the right side of a join.
Composed ==
  {TreeOf(join.right) : join \in {j \in DerivedJoins : IsTopInsert(PipelineStarter(j.right))}}

\* A node is referenced only if it is stored: its owner is a tree that execution
\* builds, not one that is only composed on the fly.
ReferencesMaterialized ==
  \A t \in DOMAIN trees : \A n \in OwnedFrom(nodes, trees[t].root) :
    \A c \in ToSet(nodes[n].children) : c.ref =>
      \E s \in DOMAIN trees \ Composed : c.node \in OwnedFrom(nodes, trees[s].root)

\* Every iterator iterates columns of its own tree (asserted in the constructor,
\* FIterator.cpp:14-16), also when an operator was prepared for another plan before.
\* The one that a join makes for a left tree built by a top insert is created from the
\* handles of the merged path (fromHandleStorage): what it refers to is on that path.
IteratorsContained ==
  /\ \A t \in DOMAIN trees : \A i \in DOMAIN trees[t].iterators :
       trees[t].iterators[i].ius \subseteq CollectIUs(nodes, trees[t])
  /\ \A op \in DerivedJoins : IsTopInsert(PipelineStarter(op.left)) =>
       LET tree == trees[TreeOf(op.left)]
       IN  /\ tree.iterators[1].ref # 0
           /\ tree.iterators[tree.iterators[1].ref].required
                \subseteq PathFrom(nodes, tree.root)

FrontIUs(op) == trees[TreeOf(op)].iterators[1].ius
MergingIUs(op) ==
  LET iter == GetMergingIterator(trees, TreeOf(op))
  IN  trees[iter.tree].iterators[iter.pos].ius

\* The iterators of a pipeline deliver what its code uses: the join keys on both
\* sides (the hash table is built and probed with them), the columns of a
\* selection in the pipeline of its scan, and what is printed at the end: from the
\* tree for a bottom insert, and from both sides for a top insert.
PipelinesDeliver ==
  /\ \A join \in DerivedJoins :
       /\ Keys(join) \cap IUs(join.left) \subseteq MergingIUs(join.left)
       /\ Keys(join) \cap IUs(join.right) \subseteq FrontIUs(join.right)
       /\ \A side \in {join.left, join.right} :
            side.kind = "Selection" => side.ius \subseteq FrontIUs(side)
  /\ todo = <<>> =>
       LET last == PipelineStarter(root.child)
       IN  root.output \subseteq
             IF IsTopInsert(last)
             THEN FrontIUs(last.right) \cup Last(trees[TreeOf(last.left)].iterators).ius
             ELSE FrontIUs(last)

\* The trees of every plan can be executed: everything is stored once and where it is
\* asked for, join keys lie on one path, and what is referenced or iterated is there.
TreesExact == StoredOnce /\ JoinKeysOnPath /\ ReferencesMaterialized /\ IteratorsContained

=============================================================================
