------------------------------ MODULE InlineList ------------------------------
(***************************************************************************)
(* factDB/infra/list/tbb/InlineWrapper: a list that keeps its first        *)
(* elements in the memory of its own header, and becomes a concurrent      *)
(* vector with the first element that does not fit.  Whoever appends takes *)
(* an index from the counter, which the array and the vector share, and    *)
(* reads `locked': below and up to InlineElements it counts the elements   *)
(* that were written, one more says that the vector is there.  The call    *)
(* that takes index InlineElements waits for all inline elements, moves    *)
(* them to a vector of its own and hands its table over; calls with later  *)
(* indexes wait for it.                                                    *)
(***************************************************************************)
EXTENDS ConcurrentVector

CONSTANT InlineElements  \* how many elements fit into the header

ASSUME InlineAssumption == InlineElements \in Nat

VARIABLES
  locked,  \* the atomic counter
  layout,  \* the member of the union that is active: "inline" or "list"
  inline,  \* the elements of the array
  helper   \* the vector that the switching call builds: its block

inlineVars == <<locked, layout, inline, helper>>

InlineIndexes == 0 .. InlineElements - 1

InlineInit ==
  /\ locked = 0
  /\ layout = "inline"
  /\ inline = [i \in InlineIndexes |-> Nobody]
  /\ helper = 0

-----------------------------------------------------------------------------
(* emplace_back                                                            *)

TakeIndex(t) ==
  /\ pc[t] = "idle"
  /\ Take(t, "emplace", 1)
  /\ Goto(t, "locked")
  /\ UNCHANGED inlineVars

LoadLocked(t) ==
  /\ pc[t] = "locked"
  /\ Goto(t, IF locked > InlineElements THEN "awaitList"
             ELSE IF index[t] < InlineElements THEN "inline"
             ELSE IF index[t] = InlineElements THEN "switch" ELSE "awaitList")
  /\ UNCHANGED <<size, memoryVars, endVars, localVars, inlineVars>>

ConstructInline(t) ==
  /\ pc[t] = "inline"
  /\ inline' = [inline EXCEPT ![index[t]] = t]
  /\ Goto(t, "commit")
  /\ UNCHANGED <<size, memoryVars, endVars, localVars, locked, layout, helper>>

Commit(t) ==
  /\ pc[t] = "commit"
  /\ locked' = locked + 1
  /\ Return(t)
  /\ UNCHANGED <<size, memoryVars, endVars, layout, inline, helper>>

\* Mutant: the call does not wait for the inline elements to be written.
BuildHelperAtOnce(t) ==
  LET first == SegmentIndexOf(InlineElements) + 1
  IN  /\ pc[t] = "switch"
      /\ heap' = Append(heap, [FirstBlock(first) EXCEPT !.at =
                   [i \in DOMAIN @ |-> IF i < InlineElements THEN inline[i]
                                       ELSE IF i = InlineElements THEN t ELSE Nobody]])
      /\ helper' = Len(heap) + 1
      /\ Goto(t, "initFrom")
      /\ UNCHANGED <<size, firstBlock, table, segment, endVars, localVars, locked, layout, inline>>

\* helper.resize makes one block for the inline elements and the new one.
BuildHelper(t) ==
  LET first == SegmentIndexOf(InlineElements) + 1
  IN  /\ pc[t] = "switch"
      /\ locked = InlineElements
      /\ heap' = Append(heap, [FirstBlock(first) EXCEPT !.at =
                   [i \in DOMAIN @ |-> IF i < InlineElements THEN inline[i]
                                       ELSE IF i = InlineElements THEN t ELSE Nobody]])
      /\ helper' = Len(heap) + 1
      /\ Goto(t, "initFrom")
      /\ UNCHANGED <<size, firstBlock, table, segment, endVars, localVars, locked, layout, inline>>

\* The table of the helper becomes that of the list; its fields overwrite the
\* array, the counter they share with it is left alone.
InitFrom(t) ==
  LET first == SegmentIndexOf(InlineElements) + 1
  IN  /\ pc[t] = "initFrom"
      /\ firstBlock' = first
      /\ table' = TRUE
      /\ segment' = [k \in Segments |-> IF k < first THEN helper ELSE 0]
      /\ layout' = "list"
      /\ inline' = [i \in InlineIndexes |-> Nobody]
      /\ helper' = 0
      /\ Goto(t, "commit")
      /\ UNCHANGED <<size, heap, endVars, localVars, locked>>

AwaitList(t) ==
  /\ pc[t] = "awaitList"
  /\ locked = InlineElements + 1
  /\ Goto(t, "first")
  /\ UNCHANGED <<size, memoryVars, endVars, localVars, inlineVars>>

IsInlined == size <= InlineElements

\* ~InlineWrapper destroys the vector; elements in the array are destroyed by
\* nobody, as they have trivial destructors.
DestroyInline ==
  /\ AllIdle /\ ~gone
  /\ IF IsInlined THEN gone' = TRUE /\ UNCHANGED <<memoryVars, destroyed>> ELSE Clear
  /\ UNCHANGED <<size, pc, localVars, inlineVars>>

\* resize of an empty list, whose elements the caller then writes.  Beyond
\* the array the vector is made at once, and `locked' says so.
ResizeInline(t, n) ==
  /\ AllIdle /\ ~gone /\ size = 0
  /\ size' = n
  /\ IF n <= InlineElements
     THEN /\ locked' = n
          /\ inline' = [i \in InlineIndexes |-> IF i < n THEN t ELSE Nobody]
          /\ UNCHANGED <<memoryVars, layout>>
     ELSE /\ locked' = InlineElements + 1
          /\ layout' = "list"
          /\ inline' = [i \in InlineIndexes |-> Nobody]
          /\ LET first == SegmentIndexOf(n - 1) + 1
             IN  /\ firstBlock' = first
                 /\ table' = TRUE
                 /\ heap' = <<[FirstBlock(first) EXCEPT !.at =
                               [i \in DOMAIN @ |-> IF i < n THEN t ELSE Nobody]]>>
                 /\ segment' = [k \in Segments |-> IF k < first THEN 1 ELSE 0]
  /\ UNCHANGED <<endVars, pc, localVars, helper>>

InlineStep(t) ==
  \/ LoadLocked(t) \/ ConstructInline(t) \/ Commit(t)
  \/ BuildHelper(t) \/ InitFrom(t) \/ AwaitList(t)

=============================================================================
