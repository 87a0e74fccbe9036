----------------------------- MODULE ParallelFor -----------------------------
(***************************************************************************)
(* What ThreadPool::parallelFor promises its caller (ThreadPool.hpp,       *)
(* "Parallel for over [0, n)", "Blocks until all chunks are complete"): a  *)
(* call hands out the indices of its range, every index is executed once,  *)
(* by whoever and in whatever grouping, and only then does it return.      *)
(***************************************************************************)
EXTENDS Naturals

CONSTANT MaxIndex   \* the largest end of a range

VARIABLES
  active,   \* is a call to parallelFor in progress?
  bound,    \* the indices of the current (or latest) call
  runs      \* how often the loop body ran for an index in that call

Index == 0 .. MaxIndex - 1

vars == <<active, bound, runs>>

Init ==
  /\ active = FALSE
  /\ bound = {}
  /\ runs = [i \in Index |-> 0]

Call ==
  /\ ~active
  /\ \E first, last \in 0 .. MaxIndex :
       /\ first < last
       /\ bound' = first .. last - 1
  /\ active' = TRUE
  /\ runs' = [i \in Index |-> 0]

\* One chunk: some indices that nobody executed before.
Execute ==
  /\ active
  /\ \E chunk \in SUBSET bound :
       /\ chunk # {}
       /\ \A i \in chunk : runs[i] = 0
       /\ runs' = [i \in Index |-> IF i \in chunk THEN 1 ELSE runs[i]]
  /\ UNCHANGED <<active, bound>>

Return ==
  /\ active
  /\ \A i \in bound : runs[i] = 1
  /\ active' = FALSE
  /\ UNCHANGED <<bound, runs>>

Next == Call \/ Execute \/ Return

Spec == Init /\ [][Next]_vars

=============================================================================
