------------------------------- MODULE MCLists -------------------------------
(***************************************************************************)
(* The lists, one kind of them at a time, so that their states add up and  *)
(* do not multiply.                                                        *)
(*                                                                         *)
(* Tree: three threads append.  An inline list has two elements in its     *)
(* header and gets five: the layout changes, the helper has room for one   *)
(* more, then a segment of its own follows.  A vector is raced to by three *)
(* threads for up to four elements one by one, or grows by four at once,   *)
(* which takes a last segment ahead.  Six elements in the deques of three  *)
(* threads fill three chunks, let an array grow twice and leave deques     *)
(* empty.                                                                  *)
(*                                                                         *)
(* Appends: three threads append four elements to one chunked or linked    *)
(* list.  A chunk of one element is followed by one twice as long as the   *)
(* list, while others wait for the lock or take a slot.                    *)
(*                                                                         *)
(* Merged: two threads, two lists with three elements and two merges, also *)
(* of a list with itself and of one that grows after it was merged.        *)
(***************************************************************************)
EXTENDS Lists

CONSTANTS t1, t2, t3, o1, o2

VARIABLES
  part,  \* "tree", "appends" or "merged"
  mergePc, owner, sizeVal, chunks, empty, shared, seen, place,
  nodes, first, node, old, class, borrowed, sizeNo, dead, merged

Appends == INSTANCE MergedLists WITH
  Threads <- {t1, t2, t3}, Owners <- {o1}, MinChunk <- 1, MaxLength <- 4, MaxMerges <- 0,
  pc <- mergePc, kind <- class, gone <- dead
Merged == INSTANCE MergedLists WITH
  Threads <- {t1, t2}, Owners <- {o1, o2}, MinChunk <- 1, MaxLength <- 3, MaxMerges <- 2,
  pc <- mergePc, kind <- class, gone <- dead

treeVars == <<size, firstBlock, table, segment, heap, gone, destroyed, pc, method, index, stop,
              block, filled, locked, layout, inline, helper, kind, deque, chain, handles>>
mergeVars == <<mergePc, owner, sizeVal, chunks, empty, shared, seen, place, nodes, first, node,
               old, class, borrowed, sizeNo, dead, merged>>

MCInit ==
  /\ Init
  /\ \/ part = "tree" /\ Appends!Init /\ class = "chunked"
     \/ /\ kind = "vector"
        /\ \/ part = "appends" /\ Appends!Init
           \/ part = "merged" /\ Merged!Init

MCNext ==
  /\ UNCHANGED part
  /\ \/ part = "tree" /\ Next /\ UNCHANGED mergeVars
     \/ part = "appends" /\ Appends!Next /\ UNCHANGED treeVars
     \/ part = "merged" /\ Merged!Next /\ UNCHANGED treeVars

\* A thread that is in a call goes on.
MCSpec ==
  /\ MCInit /\ [][MCNext]_<<part, treeVars, mergeVars>>
  /\ \A t \in Threads : /\ WF_treeVars(part = "tree" /\ Step(t))
                        /\ WF_mergeVars(part = "appends" /\ Appends!Step(t))

\* Walks and indexes of every class of lists give what was appended, once each,
\* and everything that was allocated or constructed is freed or destroyed once.
ElementsExact ==
  /\ part = "tree" => WalksExact /\ MemoryExact
  /\ part = "appends" => Appends!WalksExact

\* A merged list shows what its lists held when they were merged.
MergedExact == part = "merged" => Merged!MergedExact

\* Every class of lists that threads append to together implements AppendList.
AllRefine == Refines /\ [][part = "appends" => Appends!StepRefines]_mergeVars

\* Every call on every class of lists returns: nobody waits for ever for a table,
\* a segment, the change of the layout, a lock or a slot.
AppendBusy(t) == part = "appends" /\ mergePc[t] # "idle"
AllReturn ==
  /\ AppendsReturn
  /\ \A t \in Threads : AppendBusy(t) ~> ~AppendBusy(t)
=============================================================================
