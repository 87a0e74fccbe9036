----------------------------- MODULE QueryGraph -----------------------------
(***************************************************************************)
(* The operator trees of a query on their way through the optimizer        *)
(* (opt/PredicatePushDown, CreateJoins, FlattenJoins), the query graph     *)
(* that is made of them (OptimizerRepresentationGenerator, QueryGraph) and *)
(* the operator tree that is made of a plan over the graph (Plan).         *)
(*                                                                         *)
(* A column is <<relation, name>>.  A predicate is the set of the terms it *)
(* is the conjunction of; a term is an equality of two columns or some     *)
(* other expression over its columns.                                      *)
(***************************************************************************)
EXTENDS Naturals, Sequences, FiniteSets, FiniteSetsExt, SequencesExt

(***************************************************************************)
(* Operators                                                               *)
(***************************************************************************)
Equal(a, b) == [type |-> "CompareEqual", ius |-> <<a, b>>]
Other(ius) == [type |-> "Other", ius |-> ius]

\* The relations whose columns a term uses.
Mentions(term) == {iu[1] : iu \in ToSet(term.ius)}

IsJoinCondition(term) == term.type = "CompareEqual"

TableScan(r) == [kind |-> "TableScan", rel |-> r]
Selection(child, terms) == [kind |-> "Selection", child |-> child, terms |-> terms]
CrossProduct(left, right) == [kind |-> "CrossProduct", left |-> left, right |-> right]
RECURSIVE Operators(_)
Operators(op) ==
  {op} \cup CASE op.kind = "TableScan" -> {}
              [] op.kind = "Selection" -> Operators(op.child)
              [] OTHER -> Operators(op.left) \cup Operators(op.right)

RelationsOf(op) == {scan.rel : scan \in {o \in Operators(op) : o.kind = "TableScan"}}

\* The constructor puts the left side of every condition first.
InnerJoin(left, right, conditions, type, mode) ==
  LET oriented(c) == IF c[1][1] \in RelationsOf(left) THEN c ELSE <<c[2], c[1]>>
  IN  [kind |-> "InnerJoin", left |-> left, right |-> right,
       conditions |-> {oriented(c) : c \in conditions}, type |-> type, mode |-> mode]

\* Without terms there is no selection.
Filtered(op, terms) == IF terms = {} THEN op ELSE Selection(op, terms)

(***************************************************************************)
(* SemanticAnalysis: the relations of the FROM clause from left to right,  *)
(* the WHERE clause above all of them.                                     *)
(***************************************************************************)
AnalyseFrom(n) == FoldLeft(CrossProduct, TableScan(1), [i \in 1 .. n - 1 |-> TableScan(i + 1)])

AnalyseSelect(n, where) == Filtered(AnalyseFrom(n), where)

(***************************************************************************)
(* PredicatePushDown.  A selection is only ever above a cross product or a *)
(* table here: the joins are made by the next pass.                        *)
(***************************************************************************)
\* Mutant: what needs a column of the left side goes to the left.
PushAnywhere(terms, left, right) ==
  Filtered(CrossProduct(Filtered(left, {t \in terms : Mentions(t) \cap RelationsOf(left) # {}}),
                        Filtered(right, {t \in terms : Mentions(t) \cap RelationsOf(left) = {}})), {})

PushDownBinaryOperator(terms, left, right) ==
  LET toLeft == {t \in terms : Mentions(t) \cap RelationsOf(right) = {}}
      toRight == {t \in terms \ toLeft : Mentions(t) \cap RelationsOf(left) = {}}
  IN  Filtered(CrossProduct(Filtered(left, toLeft), Filtered(right, toRight)),
               terms \ (toLeft \cup toRight))

RECURSIVE PushedDown(_)
PushedDown(op) ==
  CASE op.kind = "CrossProduct" -> CrossProduct(PushedDown(op.left), PushedDown(op.right))
    [] op.kind = "Selection" /\ op.child.kind = "CrossProduct" ->
         LET split == PushDownBinaryOperator(op.terms, op.child.left, op.child.right)
         IN  IF split.kind = "Selection" THEN Selection(PushedDown(split.child), split.terms)
             ELSE PushedDown(split)
    [] OTHER -> op

(***************************************************************************)
(* CreateJoins: a selection above a cross product gives its equalities to  *)
(* a join.                                                                 *)
(***************************************************************************)
RECURSIVE JoinsCreated(_)
JoinsCreated(op) ==
  CASE op.kind = "CrossProduct" -> CrossProduct(JoinsCreated(op.left), JoinsCreated(op.right))
    [] op.kind = "Selection" /\ op.child.kind = "CrossProduct" ->
         LET equalities == {t \in op.terms : IsJoinCondition(t)}
             left == JoinsCreated(op.child.left)
             right == JoinsCreated(op.child.right)
         IN  Filtered(IF equalities = {} THEN CrossProduct(left, right)
                      ELSE InnerJoin(left, right, {t.ius : t \in equalities}, "Inner", "BottomInsert"),
                      op.terms \ equalities)
    [] OTHER -> op

(***************************************************************************)
(* FlattenJoins                                                            *)
(***************************************************************************)
RECURSIVE Flattened(_)
Flattened(op) ==
  CASE op.kind = "TableScan" -> op
    [] op.kind = "Selection" -> [op EXCEPT !.child = Flattened(@)]
    [] op.kind = "CrossProduct" -> [op EXCEPT !.left = Flattened(@), !.right = Flattened(@)]
    [] OTHER -> [op EXCEPT !.left = Flattened(@), !.right = Flattened(@), !.mode = "TopInsert"]

(***************************************************************************)
(* OptimizerRepresentation: an edge for every condition of a join, the     *)
(* predicates by relation.  Only a selection on a table has one.           *)
(***************************************************************************)
Edge(left, right, conditions, type) ==
  [left |-> left, right |-> right, conditions |-> conditions, type |-> type]

RECURSIVE Joins(_)
Joins(op) ==
  CASE op.kind = "TableScan" -> <<>>
    [] op.kind = "Selection" -> Joins(op.child)
    [] op.kind = "CrossProduct" -> Joins(op.left) \o Joins(op.right)
    [] OTHER -> Joins(op.left) \o Joins(op.right) \o
                SetToSeq({Edge({c[1][1]}, {c[2][1]}, {c}, op.type) : c \in op.conditions})

IsRepresentable(op) ==
  \A o \in Operators(op) : o.kind = "Selection" => Cardinality(RelationsOf(o)) = 1

Representation(op) ==
  [rels |-> RelationsOf(op),
   joins |-> Joins(op),
   predicates |-> [r \in RelationsOf(op) |->
     UNION {o.terms : o \in {s \in Operators(op) : s.kind = "Selection" /\ RelationsOf(s) = {r}}}]]

(***************************************************************************)
(* QueryGraph: the classes of columns that the joins make equal.           *)
(***************************************************************************)
Unite(partition, elements) ==
  LET touched == {c \in partition : c \cap elements # {}}
  IN  (partition \ touched) \cup {elements \cup UNION touched}

\* The classes of the columns in some sets of equal ones.
ClassesBy(equals) == FoldSet(LAMBDA e, partition : Unite(partition, e), {}, equals)

ColumnsOf(edge) == UNION {ToSet(c) : c \in edge.conditions}

\* innerJoinEquivalentIUs
StrongClasses(graph) ==
  ClassesBy({ColumnsOf(e) : e \in {j \in ToSet(graph.joins) : j.type = "Inner"}})

OfRelations(class, rels) == {iu \in class : iu[1] \in rels}

\* getConnectingJoins: a condition for every class that both sides have a column of,
\* and the conditions of the semi joins between the sides.  Which two columns the
\* condition compares is up to the estimator, or to the one that made the operators
\* of the plan before: any two.
ConnectingClasses(graph, left, right) ==
  {c \in StrongClasses(graph) : OfRelations(c, left) # {} /\ OfRelations(c, right) # {}}

InnerConditions(graph, left, right) ==
  FoldSet(LAMBDA c, all : {conditions \cup {<<l, r>>} : conditions \in all,
                             l \in OfRelations(c, left), r \in OfRelations(c, right)},
          {{}}, ConnectingClasses(graph, left, right))

SemiConditions(graph, left, right) ==
  UNION {j.conditions : j \in {e \in ToSet(graph.joins) :
           /\ e.type = "RightSemi"
           /\ \/ e.left \subseteq left /\ e.right \subseteq right
              \/ e.left \subseteq right /\ e.right \subseteq left}}

(***************************************************************************)
(* Plan: a tree of joins over relations, and its operators.                *)
(***************************************************************************)
BaseTable(r) == [rels |-> {r}, mode |-> "BaseTable"]
JoinOf(left, right, mode) ==
  [rels |-> left.rels \cup right.rels, left |-> left, right |-> right, mode |-> mode]

RECURSIVE OperatorPlans(_, _)
OperatorPlans(graph, plan) ==
  IF plan.mode = "BaseTable"
  THEN {Filtered(TableScan(r), graph.predicates[r]) : r \in plan.rels}
  ELSE LET semi == SemiConditions(graph, plan.left.rels, plan.right.rels)
           join(left, right, inner) ==
             InnerJoin(left, right, inner \cup semi,
                       IF inner = {} /\ semi # {} THEN "RightSemi" ELSE "Inner", plan.mode)
       IN  {join(left, right, inner) :
              left \in OperatorPlans(graph, plan.left), right \in OperatorPlans(graph, plan.right),
              inner \in InnerConditions(graph, plan.left.rels, plan.right.rels)}

=============================================================================
