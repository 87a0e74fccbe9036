---------------------------- MODULE JoinOrdering ----------------------------
(***************************************************************************)
(* The dynamic programs that order the inner joins of a query (opt/algs:   *)
(* DPSize, DPSizeLinear and DPFactLeftDeep) with the estimators they price *)
(* plans by.  DPSize keeps the cheapest flat plan of every set of          *)
(* relations; DPFact keeps a list of plans per set, because a factorized   *)
(* plan is good or bad for each column that later joins will use.          *)
(*                                                                         *)
(* A relation stands for its node of the factorized tree: a tree maps each *)
(* relation to the relations in its node and in the nodes above it.  The   *)
(* oracle is exact, as the one that executes the count queries is.         *)
(***************************************************************************)
EXTENDS Naturals, Sequences, FiniteSets, FiniteSetsExt, SequencesExt

CONSTANT Algorithms  \* the settings of optimizer.algorithm

ASSUME AlgorithmsAssumption ==
  Algorithms \subseteq {"DPSize", "DPSizeLinear", "DPFactLeftDeep", "AnyPlan"}

VARIABLES query,      \* [classes, rows], both by relation 1..n; no relations: idle
          algorithm,
          plans,      \* every plan allocated; a pointer is its index
          planMap,    \* the set of relations of a problem -> pointers
          sizes,      \* the problems found, by their number of relations
          curSize,    \* the size the outer loop is at
          todo,       \* the pairs of disjoint problems it has not joined
          candidates  \* the joins of the current pair that DPFact has not tried

orderingVars == <<query, algorithm, plans, planMap, sizes, curSize, todo, candidates>>

(***************************************************************************)
(* QueryGraph                                                              *)
(***************************************************************************)
Relations == DOMAIN query.classes

ClassesOf(rels) == UNION {query.classes[r] : r \in rels}

HasJoinEdge(left, right) == ClassesOf(left) \cap ClassesOf(right) # {}

HavingClass(rels, class) == {r \in rels : class \in query.classes[r]}

(***************************************************************************)
(* The oracle.  A combination picks a row of every relation; it is in the  *)
(* join when the rows agree on every class that relations share.  With     *)
(* some relations only semi joined, the required ones are counted.         *)
(***************************************************************************)
Joined(rels) ==
  LET rows(r) == DOMAIN query.rows[r]
      all == {c \in [rels -> UNION {rows(r) : r \in rels}] : \A r \in rels : c[r] \in rows(r)}
      value(c, r, class) == query.rows[r][c[r]][class]
  IN  {c \in all : \A r, s \in rels : \A class \in query.classes[r] \cap query.classes[s] :
         value(c, r, class) = value(c, s, class)}

ExecuteSemiJoinPlan(rels, required) ==
  Cardinality({Restrict(c, required) : c \in Joined(rels)})

(***************************************************************************)
(* Factorized trees, by relation                                           *)
(***************************************************************************)
Predecessors(tree, rels) == UNION {tree[r] : r \in rels}

\* The first of some relations that share a class: every path to one passes it.
IsFirst(tree, rels, r) == r \in rels /\ \A s \in rels : tree[r] \subseteq tree[s]

FindFirstRelation(tree, rels) == CHOOSE r \in rels : IsFirst(tree, rels, r)

\* Depth of the node of r.
Level(tree, r) == Cardinality({tree[s] : s \in tree[r]})

\* createRootToLeafPath: the required nodes of one level become one node, and
\* so a path; the rest stays below the node it was below.
Linear(tree, required) ==
  [r \in DOMAIN tree |-> tree[r] \cup
     {s \in required : \E t \in tree[r] \cap required : Level(tree, s) <= Level(tree, t)}]

\* mergeTrees: the lower tree goes below the path of the upper one.
MergeTrees(upper, upperRequired, lower, lowerRequired) ==
  Linear(upper, upperRequired) @@
  [r \in DOMAIN lower |-> upperRequired \cup Linear(lower, lowerRequired)[r]]

(***************************************************************************)
(* Estimates.  A flat one has a cost, a factorized one also a count for    *)
(* every interesting class: how often a join on it would expand the tree.  *)
(***************************************************************************)
Factorized == algorithm = "DPFactLeftDeep"

\* The classes of columns that are joined inside and outside of rels.
InterestingClasses(rels) == ClassesOf(rels) \cap ClassesOf(Relations \ rels)

BaseTablePlan(r) ==
  [rels |-> {r}, left |-> 0, right |-> 0, mode |-> "BaseTable", tree |-> [s \in {r} |-> {r}],
   cost |-> 0, estimates |-> <<>>, previous |-> 0, current |-> 0]

\* FlatEstimator::estimateJoinPlan: the sizes of all intermediate results.
EstimateFlat(plan, left, right) ==
  [plan EXCEPT !.cost = ExecuteSemiJoinPlan(plan.rels, plan.rels) + left.cost + right.cost]

\* The relations whose columns a join of the two uses: the first of every class.
ConnectingRelations(left, right) ==
  UNION {{FindFirstRelation(left.tree, HavingClass(left.rels, class)),
          FindFirstRelation(right.tree, HavingClass(right.rels, class))} :
         class \in ClassesOf(left.rels) \cap ClassesOf(right.rels)}

FirstOccurrence(plan, class) == FindFirstRelation(plan.tree, HavingClass(plan.rels, class))

\* The estimate of a class: the tuples on the path to its first occurrence.
ClassEstimate(plan, class) ==
  ExecuteSemiJoinPlan(plan.rels, plan.tree[FirstOccurrence(plan, class)])

\* FactorizedEstimator::estimateJoinPlan, with the f-tree the deriver builds for
\* the join: the left side on top of the right for a bottom insert.
EstimateFactorized(plan, left, right) ==
  LET connecting == ConnectingRelations(left, right)
      leftPath == Predecessors(left.tree, connecting \cap left.rels)
      rightPath == Predecessors(right.tree, connecting \cap right.rels)
      shaped == [plan EXCEPT !.tree =
                   IF plan.mode = "BottomInsert"
                   THEN MergeTrees(left.tree, leftPath, right.tree, rightPath)
                   ELSE MergeTrees(right.tree, rightPath, left.tree, leftPath)]
  IN  [shaped EXCEPT
         !.cost = left.cost + right.cost + ExecuteSemiJoinPlan(left.rels, leftPath)
                    + ExecuteSemiJoinPlan(right.rels, rightPath),
         !.previous = left.previous + left.current + right.previous + right.current,
         !.current = ExecuteSemiJoinPlan(plan.rels, Predecessors(shaped.tree, connecting)),
         !.estimates = [class \in InterestingClasses(plan.rels) |-> ClassEstimate(shaped, class)]]

\* Plan::makeJoin on the heap P.
MakeJoin(P, l, r, mode) ==
  LET plan == [BaseTablePlan(0) EXCEPT !.rels = P[l].rels \cup P[r].rels,
                                       !.left = l, !.right = r, !.mode = mode]
  IN  IF Factorized THEN EstimateFactorized(plan, P[l], P[r])
                    ELSE EstimateFlat(plan, P[l], P[r])

(***************************************************************************)
(* DPSize: chooseBetterPlan and createJoin.  A better plan overwrites the  *)
(* one that the map points to.                                             *)
(***************************************************************************)
\* A problem that is new to planMap is listed for the larger sizes.
WithProblem(problem) ==
  IF problem \in DOMAIN planMap THEN sizes
  ELSE [sizes EXCEPT ![curSize] = Append(@, problem)]

\* planMap with the plans of a problem.
WithPlans(problem, pointers) ==
  [p \in DOMAIN planMap \cup {problem} |-> IF p = problem THEN pointers ELSE planMap[p]]

\* Mutant: the dearest plan wins.
CostsMore(plan, old) == plan.cost > old.cost

Cheaper(plan, old) == plan.cost < old.cost

\* Mutant: the sides are moved into the old plan, its estimate is not.
SidesOverwritten(old, plan) ==
  [old EXCEPT !.left = plan.left, !.right = plan.right]

Overwritten(old, plan) == plan

CreateJoin(left, right) ==
  LET l == planMap[left][1]
      r == planMap[right][1]
      known == left \cup right \in DOMAIN planMap
      old == planMap[left \cup right][1]
      hopeless == known /\ plans[old].cost < plans[l].cost + plans[r].cost
      plan == MakeJoin(plans, l, r, "TopInsert")
  IN  IF hopeless \/ ~HasJoinEdge(left, right)
      THEN UNCHANGED <<plans, planMap, sizes>>
      ELSE IF known
      THEN /\ plans' = IF Cheaper(plan, plans[old])
                       THEN [plans EXCEPT ![old] = Overwritten(@, plan)] ELSE plans
           /\ UNCHANGED <<planMap, sizes>>
      ELSE /\ plans' = Append(plans, plan)
           /\ planMap' = WithPlans(left \cup right, <<Len(plans) + 1>>)
           /\ sizes' = WithProblem(left \cup right)

(***************************************************************************)
(* DPFact: chooseBetterPlan keeps the plans of a problem of which none is  *)
(* at least as good as another for every interesting class.                *)
(***************************************************************************)
\* getPredecessorRelations: what any later join has to expand.
PredecessorRelations(plan) ==
  UNION {plan.tree[FirstOccurrence(plan, class)] : class \in InterestingClasses(plan.rels)}

IsProperSubset(s, t) == s \subseteq t /\ s # t

NeverWorse(plan, other) ==
  \A class \in DOMAIN plan.estimates : plan.estimates[class] <= other.estimates[class]

ParetoBetter(plan, other) == NeverWorse(plan, other) /\ ~NeverWorse(other, plan)

\* Mutant: a plan is only given up for its cost.
VerdictOnCost(plan, alternative) ==
  IF plan.estimates = alternative.estimates /\ plan.cost >= alternative.cost THEN "give up"
  ELSE IF ParetoBetter(plan, alternative) THEN "drop" ELSE "keep"

\* What an iteration of the second loop does: drop the alternative and stop, give
\* up the new plan, keep the alternative, or drop it.
Verdict(plan, alternative) ==
  LET equal == NeverWorse(plan, alternative) /\ NeverWorse(alternative, plan)
      sameCost == plan.cost = alternative.cost
      equivalent == plan.left = alternative.left /\ plan.right = alternative.right
      dominated == IsProperSubset(PredecessorRelations(plan), PredecessorRelations(alternative))
  IN  CASE equal /\ sameCost ->
             IF \/ dominated
                \/ equivalent /\ alternative.mode = "BottomInsert" /\ plan.mode = "TopInsert"
                \/ alternative.previous > plan.previous
             THEN "stop"
             ELSE IF \/ alternative.previous < plan.previous
                     \/ equivalent /\ alternative.mode = "TopInsert" /\ plan.mode = "BottomInsert"
             THEN "give up" ELSE "keep"
        [] equal /\ ~sameCost -> IF plan.cost < alternative.cost THEN "stop" ELSE "give up"
        [] ~equal /\ ParetoBetter(plan, alternative) -> "drop"
        [] ~equal /\ ParetoBetter(alternative, plan) -> "give up"
        [] OTHER -> "keep"

\* The alternatives that are left beside a new plan, or the refusal of the plan.
\* What comes after the alternative that stops the loop is not looked at.
Surviving(P, plan, alternatives) ==
  LET verdict(i) == Verdict(plan, P[alternatives[i]])
      ends == {i \in DOMAIN alternatives : verdict(i) \in {"stop", "give up"}}
      last == IF ends = {} THEN Len(alternatives) ELSE Min(ends)
  IN  [refused |-> ends # {} /\ verdict(last) = "give up",
       kept |-> FlattenSeq([i \in 1..last |->
                  IF verdict(i) = "keep" THEN <<alternatives[i]>> ELSE <<>>])]

\* The candidates, in the order of addParetoEfficientPlans.
Candidates(left, right) ==
  LET modes == IF Cardinality(left \cup right) = 2 THEN <<"TopInsert">>
               ELSE <<"TopInsert", "BottomInsert">>
      ofLeft(l) == FlattenSeq([j \in DOMAIN planMap[right] |->
                     [m \in DOMAIN modes |-> [l |-> l, r |-> planMap[right][j], mode |-> modes[m]]]])
  IN  FlattenSeq([i \in DOMAIN planMap[left] |-> ofLeft(planMap[left][i])])

\* Those that join a problem from relation r and the rest.
CandidatesFor(problem, r) ==
  IF Cardinality(problem) > 1 /\ problem \ {r} \in DOMAIN planMap
       /\ HasJoinEdge(problem \ {r}, {r})
  THEN Candidates(problem \ {r}, {r}) ELSE <<>>

AlternativesOf(problem) == IF problem \in DOMAIN planMap THEN planMap[problem] ELSE <<>>

\* The problem gets its list, and a place in sizes, even when nothing joins it.
CreateJoins(left, right) ==
  LET problem == left \cup right
  IN  /\ planMap' = WithPlans(problem, AlternativesOf(problem))
      /\ sizes' = WithProblem(problem)
      /\ candidates' = IF HasJoinEdge(left, right) THEN Candidates(left, right) ELSE <<>>

Candidate(c) == MakeJoin(plans, c.l, c.r, c.mode)

\* Without a look at its estimates: an alternative expands fewer relations.
Hopeless(plan, alternatives) ==
  \E p \in ToSet(alternatives) :
    IsProperSubset(PredecessorRelations(plans[p]), PredecessorRelations(plan))

\* One call of chooseBetterPlan.
ChooseBetterPlan ==
  /\ candidates # <<>>
  /\ candidates' = Tail(candidates)
  /\ LET plan == Candidate(Head(candidates))
         alternatives == planMap[plan.rels]
         surviving == Surviving(plans, plan, alternatives)
     IN  IF Hopeless(plan, alternatives) \/ surviving.refused
         THEN UNCHANGED <<plans, planMap>>
         ELSE /\ plans' = Append(plans, plan)
              /\ planMap' = [planMap EXCEPT ![plan.rels] = Append(surviving.kept, Len(plans) + 1)]
  /\ UNCHANGED <<query, algorithm, sizes, curSize, todo>>

(***************************************************************************)
(* generateOptimalPlan: the pairs of disjoint problems of every size, from *)
(* small left sides to large ones; only the last for the linear plans.     *)
(***************************************************************************)
Pairs(size) ==
  LET leftSizes == IF algorithm = "DPSize" THEN [i \in 1..(size - 1) |-> i] ELSE <<size - 1>>
      paired(left, right) == IF left \cap right = {} THEN << <<left, right>> >> ELSE <<>>
      ofLeft(left, n) == LET rights == sizes[size - n]
                         IN  FlattenSeq([j \in DOMAIN rights |-> paired(left, rights[j])])
      ofSize(n) == FlattenSeq([i \in DOMAIN sizes[n] |-> ofLeft(sizes[n][i], n)])
  IN  FlattenSeq([i \in DOMAIN leftSizes |-> ofSize(leftSizes[i])])

\* prepareBaseTables, and the lists of the problems of one relation.
Prepared(q) ==
  LET n == Len(q.classes)
  IN  [plans |-> [r \in 1..n |-> BaseTablePlan(r)],
       planMap |-> [problem \in {{r} : r \in 1..n} |-> <<CHOOSE r \in 1..n : problem = {r}>>],
       sizes |-> [size \in 1..n |-> IF size = 1 THEN [r \in 1..n |-> {r}] ELSE <<>>]]

\* The algorithm has not been called, or its object is gone.
NoQuery == [classes |-> <<>>, rows |-> <<>>]

OrderingInit ==
  /\ algorithm \in Algorithms
  /\ query = NoQuery /\ plans = <<>> /\ planMap = <<>> /\ sizes = <<>> /\ curSize = 0
  /\ todo = <<>> /\ candidates = <<>>

StartOrdering(q) ==
  LET prepared == Prepared(q)
  IN  /\ query' = q
      /\ plans' = prepared.plans /\ planMap' = prepared.planMap /\ sizes' = prepared.sizes
      /\ curSize' = 1
      /\ UNCHANGED <<algorithm, todo, candidates>>

EndOrdering ==
  /\ query' = NoQuery /\ plans' = <<>> /\ planMap' = <<>> /\ sizes' = <<>> /\ curSize' = 0
  /\ UNCHANGED <<algorithm, todo, candidates>>

NextSize ==
  /\ todo = <<>> /\ candidates = <<>>
  /\ curSize < Cardinality(Relations)
  /\ curSize' = curSize + 1
  /\ todo' = Pairs(curSize + 1)
  /\ UNCHANGED <<query, algorithm, plans, planMap, sizes, candidates>>

JoinPair ==
  /\ todo # <<>> /\ candidates = <<>>
  /\ todo' = Tail(todo)
  /\ IF Factorized
     THEN CreateJoins(Head(todo)[1], Head(todo)[2]) /\ UNCHANGED plans
     ELSE CreateJoin(Head(todo)[1], Head(todo)[2]) /\ UNCHANGED candidates
  /\ UNCHANGED <<query, algorithm, curSize>>

Done == Relations # {} /\ todo = <<>> /\ candidates = <<>> /\ curSize = Cardinality(Relations)

Ordering == NextSize \/ JoinPair \/ ChooseBetterPlan

(***************************************************************************)
(* The dynamic programs by themselves, for one query after another: tables *)
(* of any number and size, with any columns and values.                    *)
(***************************************************************************)
IsQuery(q) ==
  /\ q = [classes |-> q.classes, rows |-> q.rows]
  /\ \E n \in Nat \ {0} : \E classes, values :
       /\ q.classes \in [1 .. n -> SUBSET classes]
       /\ DOMAIN q.rows = 1 .. n
       /\ \A r \in 1 .. n : q.rows[r] \in Seq([q.classes[r] -> values])

OrderingNext ==
  \/ query = NoQuery /\ algorithm # "AnyPlan" /\ \E q : IsQuery(q) /\ StartOrdering(q)
  \/ Ordering
  \/ Done /\ EndOrdering

OrderingSpec == OrderingInit /\ [][OrderingNext]_orderingVars

-----------------------------------------------------------------------------
(***************************************************************************)
(* Properties                                                              *)
(***************************************************************************)
\* A plan's cost and estimates are those of the plans it points to, although
\* DPSize overwrites plans that others may point to (DPSize.cpp:38).
CostsCurrent ==
  todo = <<>> /\ candidates = <<>> => \A problem \in DOMAIN planMap : \A p \in ToSet(planMap[problem]) :
    Cardinality(problem) > 1 =>
      plans[p] = MakeJoin(plans, plans[p].left, plans[p].right, plans[p].mode)

\* The costs of all join trees of a problem: of the linear ones, one side is a
\* single relation.  Each tree costs the sum of its intermediate results.
TreeCosts[problem \in SUBSET Relations] ==
  LET splits == {left \in (SUBSET problem) \ {{}, problem} :
                   /\ algorithm # "DPSize" => Cardinality(problem \ left) = 1
                   /\ HasJoinEdge(left, problem \ left)}
  IN  IF Cardinality(problem) = 1 THEN {0}
      ELSE UNION {{a + b + ExecuteSemiJoinPlan(problem, problem) :
                     a \in TreeCosts[left], b \in TreeCosts[problem \ left]} : left \in splits}

\* The flat algorithms find a plan for every problem that has one, and none of its
\* join trees without cross products is cheaper (DPSize.cpp:25-51).
FlatOptimal ==
  ~Factorized /\ Done => \A problem \in (SUBSET Relations) \ {{}} :
    LET costs == TreeCosts[problem]
    IN  IF costs = {} THEN problem \notin DOMAIN planMap
                      ELSE plans[planMap[problem][1]].cost = Min(costs)

\* DPFact answers with the first plan in the list (DPFact.cpp:228): it is the
\* cheapest of all candidates, and of the cheapest it moves the fewest tuples.
FrontIsCheapest ==
  Factorized /\ Done =>
    LET front == plans[planMap[Relations][1]]
    IN  \A r \in Relations : \A c \in ToSet(CandidatesFor(Relations, r)) :
          LET candidate == Candidate(c)
          IN  \/ front.cost < candidate.cost
              \/ (front.cost = candidate.cost /\ front.previous <= candidate.previous)

\* No plan that is kept for a problem is beaten by another that is kept, and those
\* that expand the same tuples cost the same (DPFact.cpp:75-83).
ParetoSets ==
  Factorized => \A problem \in DOMAIN planMap :
    \A p, q \in ToSet(planMap[problem]) :
      /\ ~ParetoBetter(plans[p], plans[q])
      /\ plans[p].estimates = plans[q].estimates =>
           plans[p].cost = plans[q].cost /\ plans[p].previous = plans[q].previous

\* Whichever algorithm ran, its last problem is answered with the best plan that it
\* can tell from the others, and DPFact keeps only plans that none of them beats.
BestPlanChosen == FlatOptimal /\ FrontIsCheapest /\ ParetoSets

=============================================================================
