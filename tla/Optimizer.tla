------------------------------ MODULE Optimizer ------------------------------
(***************************************************************************)
(* QueryOptimizer::optimize: the passes over the operator tree of a        *)
(* SELECT.  The selections are pushed down and joins are made of them;     *)
(* the joins are ordered, by a cached plan, by one of the dynamic programs *)
(* (JoinOrdering) or by AnyPlan; the sides of the joins are swapped and,   *)
(* for the flat engine, their modes dropped.                               *)
(*                                                                         *)
(* Beside it, the query that FactorizedEstimator::executeSemiJoinPlan      *)
(* sends to the oracle for a plan: what the required relations of the plan *)
(* have in common with the others is put into semi joins, and AnyPlan      *)
(* makes a plan of them.                                                   *)
(***************************************************************************)
EXTENDS JoinOrdering, QueryGraph

CONSTANTS
  Selects,  \* [n, where, sizes]: relations 1..n, WHERE, and how many rows they have
  Values    \* of the columns

VARIABLES
  select,   \* what was parsed
  pass,     \* the pass that is next, or how it ended
  tree,     \* the operator tree
  graph,    \* the query graph of the pass
  parts,    \* planMap of AnyPlan: the plans that it has not joined yet
  required  \* the relations to count the rows of; {} if the query is optimized

optimizerVars == <<select, pass, tree, graph, parts, required>>
allVars == <<orderingVars, optimizerVars>>

EmptyGraph == [rels |-> {}, joins |-> <<>>, predicates |-> <<>>]

OptimizerInit ==
  /\ OrderingInit
  /\ select \in Selects
  /\ tree = AnalyseSelect(select.n, select.where)
  /\ pass = "PredicatePushdown"
  /\ graph = EmptyGraph
  /\ parts = {}
  /\ required = {}

(***************************************************************************)
(* pushPredicatesDown                                                      *)
(***************************************************************************)
PushPredicatesDown ==
  /\ pass = "PredicatePushdown"
  /\ tree' = PushedDown(tree)
  /\ pass' = "CreateJoins"
  /\ UNCHANGED <<orderingVars, select, graph, parts, required>>

\* CreateJoins, and the query graph that reorderJoins begins with.
CreateJoinsOfTree ==
  /\ pass = "CreateJoins"
  /\ LET joined == JoinsCreated(tree)
     IN  /\ tree' = joined
         /\ IF IsRepresentable(joined)
            THEN graph' = Representation(joined) /\ pass' = "Reordering"
            ELSE UNCHANGED graph /\ pass' = "NotImplementedYet"
  /\ UNCHANGED <<orderingVars, select, parts, required>>

(***************************************************************************)
(* reorderJoins: a cached plan.  Without one, and with opt.reorderPlans    *)
(* off, there is no plan.                                                  *)
(***************************************************************************)
\* The plans that the algorithm can have left in the cache.
RECURSIVE CachedPlans(_)
CachedPlans(rels) ==
  LET isLinear == algorithm \in {"DPSizeLinear", "DPFactLeftDeep"}
      modes == IF algorithm = "DPFactLeftDeep" /\ Cardinality(rels) > 2
               THEN {"TopInsert", "BottomInsert"} ELSE {"TopInsert"}
      lefts == {left \in SUBSET rels \ {{}, rels} :
                  /\ ConnectingClasses(graph, left, rels \ left) # {}
                  /\ isLinear => Cardinality(rels \ left) = 1}
  IN  IF Cardinality(rels) = 1 THEN {BaseTable(r) : r \in rels}
      ELSE UNION {{JoinOf(l, r, mode) : l \in CachedPlans(left),
                                        r \in CachedPlans(rels \ left), mode \in modes}
                  : left \in lefts}

UseCachedPlan ==
  /\ pass = "Reordering"
  /\ \E plan \in CachedPlans(graph.rels) : tree' \in OperatorPlans(graph, plan)
  /\ pass' = "OptimizeBuildSides"
  /\ UNCHANGED <<orderingVars, select, graph, parts, required>>

DoNotGeneratePlan ==
  /\ pass = "Reordering"
  /\ pass' = "DoNotGeneratePlan"
  /\ UNCHANGED <<orderingVars, select, tree, graph, parts, required>>

(***************************************************************************)
(* reorderJoins: the dynamic programs                                      *)
(***************************************************************************)
\* The tables with n rows for columns of some classes, as sequences in an order.
Tables(classes, n) ==
  LET code(row) == FoldSet(LAMBDA c, sum : Cardinality(Values) * sum + row[c], 0, classes)
  IN  {t \in [1 .. n -> [classes -> Values]] : \A i \in 1 .. n - 1 : code(t[i]) <= code(t[i + 1])}

\* relations2equivClasses, and what the tables may hold.
OrderingQueries ==
  LET classes == [r \in 1 .. select.n |->
                    {c \in StrongClasses(graph) : OfRelations(c, {r}) # {}}]
      allRows == FoldLeft(LAMBDA all, r : {Append(rows, t) : rows \in all,
                                             t \in Tables(classes[r], select.sizes[r])},
                          {<<>>}, [r \in 1 .. select.n |-> r])
  IN  {[classes |-> classes, rows |-> rows] : rows \in allRows}

StartDynamicProgram ==
  /\ pass = "Reordering"
  /\ algorithm # "AnyPlan"
  /\ \E q \in OrderingQueries : StartOrdering(q)
  /\ pass' = "Ordering"
  /\ UNCHANGED <<select, tree, graph, parts, required>>

OrderJoins ==
  /\ Ordering
  /\ UNCHANGED optimizerVars

\* The plan behind a pointer.
RECURSIVE PlanTree(_)
PlanTree(p) ==
  IF plans[p].mode = "BaseTable" THEN BaseTable(p)
  ELSE JoinOf(PlanTree(plans[p].left), PlanTree(plans[p].right), plans[p].mode)

UseOptimalPlan ==
  /\ Done
  /\ Relations \in DOMAIN planMap /\ planMap[Relations] # <<>>
  /\ tree' \in OperatorPlans(graph, PlanTree(planMap[Relations][1]))
  /\ EndOrdering
  /\ pass' = "OptimizeBuildSides"
  /\ UNCHANGED <<select, graph, parts, required>>

(***************************************************************************)
(* AnyPlan                                                                 *)
(***************************************************************************)
StartAnyPlan ==
  /\ pass = "Reordering"
  /\ algorithm = "AnyPlan"
  /\ parts' = {BaseTable(r) : r \in graph.rels}
  /\ pass' = "AnyPlan"
  /\ UNCHANGED <<orderingVars, select, tree, graph, required>>

\* The plan that covers one side of a join and has nothing of the other.
CandidatesOf(side, other) == {p \in parts : side \subseteq p.rels /\ other \cap p.rels = {}}

LeftCandidates(join) == CandidatesOf(join.left, join.right)
RightCandidates(join) == CandidatesOf(join.right, join.left)

DoableJoins ==
  SelectSeq(graph.joins, LAMBDA j : LeftCandidates(j) # {} /\ RightCandidates(j) # {})

\* The first join that can be applied is.
ApplyJoin ==
  /\ pass = "AnyPlan"
  /\ DoableJoins # <<>>
  /\ \E l \in LeftCandidates(Head(DoableJoins)), r \in RightCandidates(Head(DoableJoins)) :
       parts' = (parts \ {l, r}) \cup {JoinOf(l, r, "TopInsert")}
  /\ UNCHANGED <<orderingVars, select, pass, tree, graph, required>>

\* The first join that one plan is there for, or one with the same side that needs less.
HalfDoable ==
  LET halfDoable == SelectSeq(graph.joins, LAMBDA j : LeftCandidates(j) \cup RightCandidates(j) # {})
      needsLess(j, half) ==
        \/ LeftCandidates(j) # {} /\ half.left = j.left /\ IsProperSubset(j.right, half.right)
        \/ RightCandidates(j) # {} /\ half.right = j.right /\ IsProperSubset(j.left, half.left)
  IN  FoldLeft(LAMBDA half, j : IF needsLess(j, half) THEN j ELSE half, Head(halfDoable), halfDoable)

\* createCrossproduct, of all plans of a side in the order of a hash map.
CrossProducts(plansOfSide) ==
  IF plansOfSide = {} THEN {{}}
  ELSE {{FoldLeft(LAMBDA all, p : JoinOf(all, p, "TopInsert"), Head(order), Tail(order))} :
          order \in SetToSeqs(plansOfSide)}

\* No join can be applied: the parts of the side that is missing are put together.
CrossParts ==
  /\ pass = "AnyPlan"
  /\ DoableJoins = <<>> /\ Cardinality(parts) > 1
  /\ LET partsOf(side, other) == {p \in parts : p.rels \cap side # {} /\ p.rels \cap other = {}}
         left == partsOf(HalfDoable.left, HalfDoable.right)
         right == partsOf(HalfDoable.right, HalfDoable.left)
     IN  \E l \in CrossProducts(left), r \in CrossProducts(right) :
           parts' = (parts \ (left \cup right)) \cup l \cup r
  /\ Cardinality(parts') < Cardinality(parts)
  /\ UNCHANGED <<orderingVars, select, pass, tree, graph, required>>

UseAnyPlan ==
  /\ pass = "AnyPlan"
  /\ \E plan \in parts : parts = {plan} /\ tree' \in OperatorPlans(graph, plan)
  /\ parts' = {}
  /\ pass' = IF required = {} THEN "OptimizeBuildSides" ELSE "Estimated"
  /\ UNCHANGED <<orderingVars, select, graph, required>>

(***************************************************************************)
(* executeSemiJoinPlan.  A join that the required relations and the others *)
(* share becomes a semi join with all that the others have joined on its   *)
(* left side.                                                              *)
(***************************************************************************)
\* The relations that are connected with some by joins.
RECURSIVE ConnectedBy(_, _)
ConnectedBy(joins, rels) ==
  LET more == rels \cup UNION {j.left \cup j.right :
                                 j \in {e \in joins : (e.left \cup e.right) \cap rels # {}}}
  IN  IF more = rels THEN rels ELSE ConnectedBy(joins, more)

\* Mutant: the semi joins that depend on the same relations stay apart.
Unmerged(semiJoins) == semiJoins

\* Those with the same left side are merged: it may be all that connects the right sides.
Merged(semiJoins) ==
  {LET same == {s \in semiJoins : s.left = j.left}
   IN  Edge(j.left, UNION {s.right : s \in same}, UNION {s.conditions : s \in same}, "RightSemi")
   : j \in semiJoins}

SemiJoinGraph(g, needed) ==
  LET isKept(j) == j.left \cup j.right \subseteq needed \/ (j.left \cup j.right) \cap needed = {}
      kept == SelectSeq(g.joins, isKept)
      outer(j) == IF j.right \subseteq needed THEN j.left ELSE j.right
      semi(j) == Edge(ConnectedBy(ToSet(kept), outer(j)), (j.left \cup j.right) \ outer(j),
                      j.conditions, "RightSemi")
  IN  [g EXCEPT !.joins = kept \o
         SetToSeq(Merged({semi(j) : j \in {e \in ToSet(g.joins) : ~isKept(e)}}))]

\* For a plan that DPFact prices.  Its operator tree may be one that was cached for
\* another question: the columns of its conditions are any of their classes.
EstimateBySemiJoins ==
  /\ pass = "Reordering"
  /\ algorithm = "DPFactLeftDeep"
  /\ \E rels \in SUBSET graph.rels : Cardinality(rels) > 1 /\ \E plan \in CachedPlans(rels) :
       \E needed \in SUBSET rels \ {{}, rels} : \E op \in OperatorPlans(graph, plan) :
         /\ required' = needed
         /\ graph' = SemiJoinGraph(Representation(op), needed)
         /\ parts' = {BaseTable(r) : r \in rels}
  /\ pass' = "AnyPlan"
  /\ UNCHANGED <<orderingVars, select, tree>>

(***************************************************************************)
(* OptimizeBuildSides and FlattenJoins                                     *)
(***************************************************************************)
\* The sides of a join are swapped if the estimates say so.
RECURSIVE BuildSides(_)
BuildSides(op) ==
  CASE op.kind = "TableScan" -> {BaseTable(op.rel)}
    [] op.kind = "Selection" -> BuildSides(op.child)
    [] OTHER -> UNION {{JoinOf(l, r, "TopInsert"), JoinOf(r, l, "BottomInsert")} :
                         l \in BuildSides(op.left), r \in BuildSides(op.right)}

OptimizeBuildSides ==
  /\ pass = "OptimizeBuildSides"
  /\ IF algorithm = "DPFactLeftDeep" THEN UNCHANGED <<tree, graph>>
     ELSE /\ graph' = Representation(tree)
          /\ \E plan \in BuildSides(tree) : tree' \in OperatorPlans(graph', plan)
  /\ pass' = "FlattenJoins"
  /\ UNCHANGED <<orderingVars, select, parts, required>>

\* In the flat engine, or with opt.doBottomInserts off.
FlattenJoins ==
  /\ pass = "FlattenJoins"
  /\ tree' \in {tree, Flattened(tree)}
  /\ pass' = "Optimized"
  /\ UNCHANGED <<orderingVars, select, graph, parts, required>>

Terminated ==
  /\ pass \in {"NotImplementedYet", "DoNotGeneratePlan", "Optimized", "Estimated"}
  /\ UNCHANGED allVars

OptimizerNext ==
  \/ PushPredicatesDown \/ CreateJoinsOfTree
  \/ UseCachedPlan \/ DoNotGeneratePlan \/ StartDynamicProgram \/ OrderJoins \/ UseOptimalPlan
  \/ StartAnyPlan \/ ApplyJoin \/ CrossParts \/ UseAnyPlan \/ EstimateBySemiJoins
  \/ OptimizeBuildSides \/ FlattenJoins \/ Terminated

OptimizerSpec == OptimizerInit /\ [][OptimizerNext]_allVars

-----------------------------------------------------------------------------
(***************************************************************************)
(* Properties                                                              *)
(***************************************************************************)
\* The relations whose columns an operator delivers: a semi join those of its right side.
RECURSIVE Visible(_)
Visible(op) ==
  CASE op.kind = "TableScan" -> {op.rel}
    [] op.kind = "Selection" -> Visible(op.child)
    [] op.kind = "InnerJoin" /\ op.type = "RightSemi" -> Visible(op.right)
    [] OTHER -> Visible(op.left) \cup Visible(op.right)

InScope(op) ==
  CASE op.kind = "TableScan" -> TRUE
    [] op.kind = "Selection" -> \A t \in op.terms : Mentions(t) \subseteq Visible(op.child)
    [] OTHER ->
         /\ RelationsOf(op.left) \cap RelationsOf(op.right) = {}
         /\ op.kind = "InnerJoin" => \A c \in op.conditions :
              c[1][1] \in Visible(op.left) /\ c[2][1] \in Visible(op.right)

EqualTerms(terms) == {ToSet(t.ius) : t \in {u \in terms : IsJoinCondition(u)}}
OtherTerms(terms) == {t \in terms : ~IsJoinCondition(t)}

TermsOf(op) == UNION {o.terms : o \in {s \in Operators(op) : s.kind = "Selection"}}
ConditionsOf(op) == UNION {o.conditions : o \in {j \in Operators(op) : j.kind = "InnerJoin"}}

\* The operators are the query over some relations: every operator finds the columns it
\* uses below, they compare the same columns with each other, by way of others if
\* need be, and filter by the same terms.
IsQueryOver(op, rels) ==
  LET classes == ClassesBy(EqualTerms(select.where))
      equal == ClassesBy(EqualTerms(TermsOf(op)) \cup {ToSet(c) : c \in ConditionsOf(op)})
      inRels == {OfRelations(c, rels) : c \in classes}
  IN  /\ \A o \in Operators(op) : InScope(o)
      /\ RelationsOf(op) = rels
      /\ equal = {c \in inRels : Cardinality(c) > 1}
      /\ OtherTerms(TermsOf(op)) = {t \in OtherTerms(select.where) : Mentions(t) \subseteq rels}

\* No pass loses, duplicates or misplaces a condition of the query, whatever plan a cache
\* or an algorithm answers with and whichever columns of a class its joins compare; a
\* query is only refused for a term that is no equality of two relations' columns.
QueryKept ==
  required = {} =>
    IF pass = "NotImplementedYet"
    THEN \E t \in OtherTerms(select.where) : Cardinality(Mentions(t)) > 1
    ELSE IsQueryOver(tree, 1 .. select.n) /\ Visible(tree) = 1 .. select.n

\* The query that the oracle counts for a plan by semi joins has the rows of the required
\* relations that the whole plan has, each of them once: all conditions of the plan, and
\* the other relations below the semi joins only.
CountExact ==
  pass = "Estimated" => IsQueryOver(tree, graph.rels) /\ Visible(tree) = required

=============================================================================
