------------------------------ MODULE HashIndex ------------------------------
(***************************************************************************)
(* What the hash table of a join promises (ChainingHashTable.hpp): insert  *)
(* only collects the elements, finalize builds the index over all of them, *)
(* and the index it leaves behind has every element in it, once.           *)
(***************************************************************************)
VARIABLES
  phase,     \* "insert", "build" or "probe"
  stored,    \* the elements inserted
  indexed    \* the elements a lookup can reach

vars == <<phase, stored, indexed>>

Init ==
  /\ phase = "insert"
  /\ stored = {}
  /\ indexed = {}

Insert(e) ==
  /\ phase = "insert"
  /\ e \notin stored
  /\ stored' = stored \cup {e}
  /\ UNCHANGED <<phase, indexed>>

StartBuild ==
  /\ phase = "insert"
  /\ phase' = "build"
  /\ UNCHANGED <<stored, indexed>>

\* Some elements become reachable at once; none that were are lost.
Publish(run) ==
  /\ phase = "build"
  /\ run # {}
  /\ indexed' = indexed \cup run
  /\ UNCHANGED <<phase, stored>>

FinishBuild ==
  /\ phase = "build"
  /\ indexed = stored
  /\ phase' = "probe"
  /\ UNCHANGED <<stored, indexed>>

\* The sets are written as the steps leave them, to be evaluated as a property.
Next ==
  \/ \E e \in stored' : Insert(e)
  \/ StartBuild
  \/ Publish((stored \ indexed) \cap indexed')
  \/ FinishBuild

Spec == Init /\ [][Next]_vars

=============================================================================
