------------------------------ MODULE MCInfra ------------------------------
(***************************************************************************)
(* What the engines are built on, one part at a time, so that the states   *)
(* of the parts add up and do not multiply.                                *)
(*                                                                         *)
(* Pool: two workers and a caller that runs up to two loops.  Ranges of up *)
(* to three indices and grains of up to two give loops with fewer chunks   *)
(* than threads, with as many, with more, and with a last chunk cut off.   *)
(*                                                                         *)
(* Join: over one column.  The hashes of the left values x and y are       *)
(* equal, c shares their slot and z has another while the table has more   *)
(* slots than one.  The right tuple has c, or w, which no left tuple has   *)
(* and whose hash is that of c.  Up to three entries in two vectors need   *)
(* two slots or four.  And over two columns with the values x and y, whose *)
(* hashes differ.                                                          *)
(*                                                                         *)
(* Union-find: all orders of calls on up to five elements, so that paths   *)
(* of length two are compressed and sets of equal and of different rank    *)
(* are united.                                                             *)
(*                                                                         *)
(* Bit sets of words of two bytes: of one word, with the numbers at the    *)
(* ends of its nibbles and bytes, and of two, with those at the ends of    *)
(* the words.                                                              *)
(***************************************************************************)
EXTENDS ThreadPool, HashJoin, UnionFind, TLC

CONSTANTS
  c, w, x, y, z,  \* column values
  Parts           \* what is checked, of "pool", "join", "union", "word" and "words"

MCKeys == {<<c>>, <<x>>, <<y>>, <<z>>}
MCRightKeys == {<<w>>, <<c>>}
MCColumnHash == (x :> {2}) @@ (y :> {2}) @@ (c :> {0, 2}) @@ (z :> {0, 1}) @@ (w :> {0, 2})
MCHash == (<<x>> :> 4) @@ (<<y>> :> 4) @@ (<<c>> :> 5) @@ (<<z>> :> 3) @@ (<<w>> :> 5)

MCTwoKeys == {x, y} \X {x, y}
MCTwoColumnHash == (x :> {2}) @@ (y :> {0, 1})
MCTwoHash == [key \in MCTwoKeys |->
                IF key = <<x, x>> THEN 4 ELSE IF key = <<y, y>> THEN 3 ELSE 7]

VARIABLES
  part,  \* one of Parts
  leftBits, rightBits, leftSet, rightSet

Word == INSTANCE BitSet WITH
          WordBits <- 16, Size <- 10, Elements <- {0, 3, 4, 7, 8, 11, 15},
          left <- leftBits, right <- rightBits
Two == INSTANCE BitSet WITH
         WordBits <- 16, Size <- 20, Elements <- {0, 3, 4, 15, 16, 25, 31},
         left <- leftBits, right <- rightBits

bitVars == <<leftBits, rightBits, leftSet, rightSet>>

\* The parts that do not run are in one initial state.
MCInit ==
  /\ part \in Parts
  /\ PoolInit /\ JoinInit /\ UnionInit
  /\ part # "join" => ~semi /\ right = [r \in Right |-> CHOOSE key \in RightKeys : TRUE]
  /\ IF part = "words" THEN Two!Init ELSE Word!Init
\* Two parts may be over: the pool is destroyed, or all right tuples were looked up.
MCOver ==
  \/ part = "pool" /\ pc[Main] = "gone"
  \/ part = "join" /\ \A r \in Right : state[r] = "done"
MCNext ==
  /\ UNCHANGED part
  /\ \/ part = "pool" /\ PoolNext /\ UNCHANGED <<joinVars, unionVars, bitVars>>
     \/ part = "join" /\ JoinNext /\ UNCHANGED <<poolVars, unionVars, bitVars>>
     \/ part = "union" /\ UnionNext /\ UNCHANGED <<poolVars, joinVars, bitVars>>
     \/ part = "word" /\ Word!Next /\ UNCHANGED <<poolVars, joinVars, unionVars>>
     \/ part = "words" /\ Two!Next /\ UNCHANGED <<poolVars, joinVars, unionVars>>
     \/ MCOver /\ UNCHANGED <<poolVars, joinVars, unionVars, bitVars>>

\* The fairness of FairSpec and of JoinSpec, in the part that has it.
MCSpec ==
  /\ MCInit /\ [][MCNext]_<<part, poolVars, joinVars, unionVars, bitVars>>
  /\ \A t \in Threads : WF_poolVars(part = "pool" /\ Step(t))
  /\ WF_poolVars(part = "pool" /\ ResetCursor)
  /\ WF_poolVars(part = "pool" /\ Join)
  /\ WF_joinVars(part = "join" /\ Build /\ UNCHANGED probeVars)
  /\ WF_joinVars(part = "join" /\ FinishBuild /\ UNCHANGED probeVars)
  /\ \A r \in Right : WF_joinVars(part = "join" /\ Probe(r))

SetsExact == (part = "word" => Word!SetsExact) /\ (part = "words" => Two!SetsExact)
QueriesExact == (part = "word" => Word!QueriesExact) /\ (part = "words" => Two!QueriesExact)
IntersectExact == (part = "word" => Word!IntersectExact) /\ (part = "words" => Two!IntersectExact)
=============================================================================
