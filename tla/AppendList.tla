------------------------------ MODULE AppendList ------------------------------
(***************************************************************************)
(* What the lists of factDB/infra/list promise to threads that append to   *)
(* one list at the same time: a call adds its elements at once and in one  *)
(* piece, and nothing that was added moves, changes or is lost.            *)
(***************************************************************************)
EXTENDS Naturals, Sequences

CONSTANTS
  Threads,  \* the threads
  MaxSize   \* bound: the elements of one call

VARIABLES
  list,    \* the elements, each the thread that appended it
  calling  \* the threads that are in a call

Init == list = <<>> /\ calling = {}

\* A call takes effect when it begins.
Call(t, n) ==
  /\ t \notin calling
  /\ calling' = calling \cup {t}
  /\ list' = list \o [i \in 1 .. n |-> t]

Return(t) ==
  /\ t \in calling
  /\ calling' = calling \ {t}
  /\ UNCHANGED list

\* resize of an empty list, before the threads come.
Resize(t, n) ==
  /\ list = <<>> /\ calling = {}
  /\ list' = [i \in 1 .. n |-> t]
  /\ UNCHANGED calling

Destroy == calling = {} /\ list' = <<>> /\ UNCHANGED calling

Next ==
  \/ Destroy
  \/ \E t \in Threads :
       \/ Return(t)
       \/ \E n \in 0 .. MaxSize : Call(t, n) \/ Resize(t, n)

Spec == Init /\ [][Next]_<<list, calling>>

=============================================================================
