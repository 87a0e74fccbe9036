--------------------------- MODULE ConcurrentVector ---------------------------
(***************************************************************************)
(* factDB/infra/list/tbb/ConcurrentVector and SegmentTable: a vector that  *)
(* grows by several threads at once and never moves an element.  A call    *)
(* takes its indexes by fetch_add on the size; segment k of the table      *)
(* holds the indexes from 2^k on.  The first segments share one block,     *)
(* which the calls race to allocate; each later segment is allocated by    *)
(* the call that took its first index, everybody else waits.               *)
(*                                                                         *)
(* The embedded table has no entries, as the code sets it up, so the first *)
(* call replaces it.  A pointer to a block is its number in the order of   *)
(* allocation, 0 is nullptr.  An element is the thread that constructed    *)
(* it.  Allocations do not fail.  A step is one access to shared memory.   *)
(***************************************************************************)
EXTENDS Naturals, Sequences, FiniteSets

CONSTANTS
  Threads,     \* the threads
  Nobody,      \* memory in which no element was constructed
  Deltas,      \* the arguments of grow_by, grow_to_at_least and reserve
  MaxSegment,  \* the last segment of a table
  MaxSize      \* bound: the elements

ASSUME NobodyAssumption == Nobody \notin Threads
ASSUME DeltasAssumption == Deltas \subseteq Nat \ {0}
ASSUME SegmentAssumption == MaxSegment \in Nat
ASSUME SizeAssumption == MaxSize \in Nat /\ MaxSize <= 2 ^ (MaxSegment + 1)

VARIABLES
  size,       \* my_size, what the calls count up
  firstBlock, \* my_first_block, how many segments share the first block
  table,      \* was the embedded table replaced by a long one?
  segment,    \* the table: per segment its block
  heap,       \* the blocks in the order of their allocation
  gone,       \* was the vector destroyed?
  destroyed,  \* the elements that the destructor destroyed, in its order
  pc,         \* where each thread is in its call
  method,     \* the operation it calls
  index,      \* the index it constructs next
  stop,       \* the end of the indexes it took, or waits for
  block,      \* the block that it allocated and did not yet publish
  filled      \* the next segment that it lets point to its block

memoryVars == <<firstBlock, table, segment, heap>>
localVars == <<method, index, stop, block, filled>>
endVars == <<gone, destroyed>>
vectorVars == <<size, memoryVars, endVars, pc, localVars>>

Goto(t, label) == pc' = [pc EXCEPT ![t] = label]
AllIdle == \A t \in Threads : pc[t] = "idle"

-----------------------------------------------------------------------------
(* The geometry of the segments.                                           *)

Segments == 0 .. MaxSegment
SegmentBase(k) == IF k = 0 THEN 0 ELSE 2 ^ k
SegmentSize(k) == IF k = 0 THEN 2 ELSE 2 ^ k
SegmentIndexOf(i) == CHOOSE k \in Segments : SegmentBase(k) <= i /\ i < 2 ^ (k + 1)

\* A block for the indexes from base on.
Block(base, n) == [live |-> TRUE, base |-> base, at |-> [i \in base .. base + n - 1 |-> Nobody]]
FirstBlock(k) == Block(0, SegmentSize(k))
SegmentBlock(k) == Block(SegmentBase(k), SegmentSize(k))

VectorInit ==
  /\ size = 0
  /\ firstBlock = 0
  /\ table = FALSE
  /\ segment = [k \in Segments |-> 0]
  /\ heap = <<>>
  /\ gone = FALSE
  /\ destroyed = <<>>
  /\ pc = [t \in Threads |-> "idle"]
  /\ method = [t \in Threads |-> "none"]
  /\ index = [t \in Threads |-> 0]
  /\ stop = [t \in Threads |-> 0]
  /\ block = [t \in Threads |-> 0]
  /\ filled = [t \in Threads |-> 0]

-----------------------------------------------------------------------------
(* The calls take their indexes.                                           *)

Take(t, m, n) ==
  /\ size + n <= MaxSize
  /\ size' = size + n
  /\ method' = [method EXCEPT ![t] = m]
  /\ index' = [index EXCEPT ![t] = size]
  /\ stop' = [stop EXCEPT ![t] = size + n]
  /\ UNCHANGED <<memoryVars, endVars, block, filled>>

EmplaceBack(t) == pc[t] = "idle" /\ Take(t, "emplace", 1) /\ Goto(t, "first")
GrowBy(t, n) == pc[t] = "idle" /\ Take(t, "grow", n) /\ Goto(t, "first")

\* What others took already is waited for.
GrowToAtLeast(t, n) ==
  /\ pc[t] = "idle"
  /\ IF size < n THEN Take(t, "grow", n - size) /\ Goto(t, "first")
     ELSE /\ stop' = [stop EXCEPT ![t] = n]
          /\ method' = [method EXCEPT ![t] = "wait"]
          /\ Goto(t, "wait")
          /\ UNCHANGED <<size, memoryVars, endVars, index, block, filled>>

Return(t) ==
  /\ Goto(t, "idle")
  /\ method' = [method EXCEPT ![t] = "none"]
  /\ index' = [index EXCEPT ![t] = 0]
  /\ stop' = [stop EXCEPT ![t] = 0]
  /\ block' = [block EXCEPT ![t] = 0]
  /\ filled' = [filled EXCEPT ![t] = 0]

\* Segments are never taken away, so the order of the looks does not matter.
AwaitGrowth(t) ==
  /\ pc[t] = "wait"
  /\ table
  /\ \A k \in 0 .. SegmentIndexOf(stop[t] - 1) : segment[k] # 0
  /\ Return(t)
  /\ UNCHANGED <<size, memoryVars, endVars>>

-----------------------------------------------------------------------------
(* internal_subscript and create_segment: find or make the place.  Entries *)
(* that were set stay, so that to wait for one is not to take a step.      *)

\* The call that took index 0 replaces the embedded table.
ExtendTable(t) == table' = (table \/ index[t] = 0)

AssignFirstBlock(t) ==
  /\ pc[t] = "first"
  /\ firstBlock' = IF firstBlock # 0 THEN firstBlock
                   ELSE IF method[t] = "emplace" THEN 1
                   ELSE SegmentIndexOf(stop[t] - 1) + 1
  /\ ExtendTable(t)
  /\ Goto(t, "segment")
  /\ UNCHANGED <<size, segment, heap, endVars, localVars>>

SegmentOf(t) == SegmentIndexOf(index[t])

\* Only the call that took the first index of a segment comes here.
StoreSegment(k) ==
  /\ heap' = Append(heap, SegmentBlock(k))
  /\ segment' = [segment EXCEPT ![k] = Len(heap) + 1]

\* internal_grow allocates its last segment ahead.
LastSegment(t) == SegmentIndexOf(stop[t] - 1)
EnablesLast(t) ==
  /\ method[t] = "grow"
  /\ LastSegment(t) > firstBlock /\ segment[LastSegment(t)] = 0
  /\ SegmentBase(LastSegment(t)) \in index[t] .. stop[t] - 1

EnableLast(t) ==
  /\ pc[t] = "segment" /\ table
  /\ EnablesLast(t)
  /\ StoreSegment(LastSegment(t))
  /\ UNCHANGED <<size, firstBlock, table, endVars, pc, localVars>>

\* A block for the first segments, of which the first to come publishes its.
AllocateFirstBlock(t) ==
  /\ pc[t] = "segment" /\ table /\ ~EnablesLast(t)
  /\ segment[SegmentOf(t)] = 0
  /\ SegmentOf(t) < firstBlock /\ segment[0] = 0
  /\ heap' = Append(heap, FirstBlock(firstBlock))
  /\ block' = [block EXCEPT ![t] = Len(heap) + 1]
  /\ Goto(t, "exchange")
  /\ UNCHANGED <<size, firstBlock, table, segment, endVars, method, index, stop, filled>>

CreateSegment(t) ==
  /\ pc[t] = "segment" /\ table /\ ~EnablesLast(t)
  /\ segment[SegmentOf(t)] = 0
  /\ SegmentOf(t) >= firstBlock /\ index[t] = SegmentBase(SegmentOf(t))
  /\ StoreSegment(SegmentOf(t))
  /\ UNCHANGED <<size, firstBlock, table, endVars, pc, localVars>>

\* Mutant: the call that loses publishes its block all the same.
ExchangeAnyway(t) ==
  /\ pc[t] = "exchange"
  /\ segment' = [segment EXCEPT ![0] = block[t]]
  /\ filled' = [filled EXCEPT ![t] = 1]
  /\ Goto(t, "fill")
  /\ UNCHANGED <<size, firstBlock, table, heap, endVars, method, index, stop, block>>

\* compare_exchange_strong on the first entry of the table.
Exchange(t) ==
  /\ pc[t] = "exchange"
  /\ IF segment[0] = 0
     THEN /\ segment' = [segment EXCEPT ![0] = block[t]]
          /\ filled' = [filled EXCEPT ![t] = 1]
          /\ Goto(t, "fill")
          /\ UNCHANGED <<heap, block>>
     ELSE /\ heap' = [heap EXCEPT ![block[t]].live = FALSE]
          /\ block' = [block EXCEPT ![t] = 0]
          /\ Goto(t, "segment")
          /\ UNCHANGED <<segment, filled>>
  /\ UNCHANGED <<size, firstBlock, table, endVars, method, index, stop>>

\* Mutant: only the segment of the call is filled.
FillOwn(t) ==
  /\ pc[t] = "fill"
  /\ segment' = [segment EXCEPT ![SegmentOf(t)] = block[t]]
  /\ block' = [block EXCEPT ![t] = 0]
  /\ filled' = [filled EXCEPT ![t] = 0]
  /\ Goto(t, "segment")
  /\ UNCHANGED <<size, firstBlock, table, heap, endVars, method, index, stop>>

\* The other segments of the first block, one store each.
FillSegment(t) ==
  /\ pc[t] = "fill"
  /\ IF filled[t] < firstBlock
     THEN /\ segment' = [segment EXCEPT ![filled[t]] = block[t]]
          /\ filled' = [filled EXCEPT ![t] = @ + 1]
          /\ UNCHANGED <<pc, block>>
     ELSE /\ Goto(t, "segment")
          /\ block' = [block EXCEPT ![t] = 0]
          /\ filled' = [filled EXCEPT ![t] = 0]
          /\ UNCHANGED segment
  /\ UNCHANGED <<size, firstBlock, table, heap, endVars, method, index, stop>>

\* A call that does not make the segment waits for it.
Construct(t) ==
  /\ pc[t] = "segment" /\ table /\ ~EnablesLast(t)
  /\ segment[SegmentOf(t)] # 0
  /\ heap' = [heap EXCEPT ![segment[SegmentOf(t)]].at[index[t]] = t]
  /\ IF index[t] + 1 = stop[t] THEN Return(t)
     ELSE /\ index' = [index EXCEPT ![t] = @ + 1]
          /\ UNCHANGED <<pc, method, stop, block, filled>>
  /\ UNCHANGED <<size, firstBlock, table, segment, endVars>>

GrowStep(t) ==
  \/ AssignFirstBlock(t) \/ EnableLast(t)
  \/ AllocateFirstBlock(t) \/ CreateSegment(t) \/ Exchange(t) \/ FillSegment(t) \/ Construct(t)

-----------------------------------------------------------------------------
(* What one thread does alone: reserve and the destructor.                 *)

\* reserve(n): what is missing of the first block and of the segments below n.
Reserved(n) ==
  LET first == IF firstBlock = 0 THEN SegmentIndexOf(n - 1) + 1 ELSE firstBlock
      shared == IF segment[0] = 0 THEN <<FirstBlock(first)>> ELSE <<>>
      later == {k \in Segments : k >= first /\ SegmentBase(k) < n /\ segment[k] = 0}
      rank(k) == Cardinality({j \in later : j <= k})
  IN  /\ firstBlock' = first
      /\ table' = TRUE
      /\ heap' = heap \o shared \o
                   [i \in 1 .. Cardinality(later) |-> SegmentBlock(CHOOSE k \in later : rank(k) = i)]
      /\ segment' = [k \in Segments |->
                       IF segment[k] # 0 THEN segment[k]
                       ELSE IF k < first THEN Len(heap) + 1
                       ELSE IF k \in later THEN Len(heap) + Len(shared) + rank(k) ELSE 0]

Reserve(n) ==
  /\ AllIdle /\ ~gone
  /\ Reserved(n)
  /\ UNCHANGED <<size, endVars, pc, localVars>>

NumberOfElementsInSegment(k) ==
  IF k = 0 THEN (IF size < 2 THEN size ELSE 2)
  ELSE IF size < SegmentBase(k) THEN 0
  ELSE IF 2 * SegmentBase(k) > size THEN size - SegmentBase(k)
  ELSE SegmentBase(k)

\* The first segment owns the block that the first ones share.
OwnsBlock(k) == k = 0 \/ k >= firstBlock

\* clear_segments goes from the last segment to the first.
IndexesOf(k) ==
  [i \in 1 .. NumberOfElementsInSegment(k) |-> <<segment[k], SegmentBase(k) + i - 1>>]
DestroyedFrom[k \in 0 .. MaxSegment + 1] ==
  IF k = 0 THEN <<>>
  ELSE (IF segment[k - 1] = 0 THEN <<>> ELSE IndexesOf(k - 1)) \o DestroyedFrom[k - 1]

Freed == {segment[k] : k \in {j \in Segments : segment[j] # 0 /\ OwnsBlock(j)}}

\* ~segment_table: clear_segments and clear_table.
Clear ==
  /\ gone' = TRUE
  /\ destroyed' = DestroyedFrom[MaxSegment + 1]
  /\ heap' = [b \in DOMAIN heap |->
                IF b \in Freed THEN [heap[b] EXCEPT !.live = FALSE] ELSE heap[b]]
  /\ segment' = [k \in Segments |-> 0]
  /\ table' = FALSE
  /\ firstBlock' = 0

Destroy ==
  /\ AllIdle /\ ~gone
  /\ Clear
  /\ UNCHANGED <<size, pc, localVars>>

VectorNext ==
  \/ \E t \in Threads :
       \/ ~gone /\ EmplaceBack(t)
       \/ \E n \in Deltas : ~gone /\ (GrowBy(t, n) \/ GrowToAtLeast(t, n))
       \/ GrowStep(t) \/ AwaitGrowth(t)
  \/ \E n \in Deltas : Reserve(n)
  \/ Destroy

-----------------------------------------------------------------------------
(* Reading: operator[] and the iterators.                                  *)

\* The element at an index, whose segment is there.
ElementAt(i) == heap[segment[SegmentIndexOf(i)]].at[i]

\* vector_iterator: an index, and the element if it was looked up before.
\* Its next element is beside it unless it is the first one of a segment.
Advanced(it) ==
  [index |-> it.index + 1,
   item |-> IF it.item = <<>> \/ (\E k \in 1 .. MaxSegment : it.index + 1 = 2 ^ k) THEN <<>>
            ELSE <<it.item[1], it.item[2] + 1>>]
Dereferenced(it) ==
  IF it.item = <<>> THEN ElementAt(it.index) ELSE heap[it.item[1]].at[it.item[2]]

\* The iterator that emplace_back returned for an index.
ReturnedFor(i) == [index |-> i, item |-> <<segment[SegmentIndexOf(i)], i>>]

=============================================================================
