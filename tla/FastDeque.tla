------------------------------ MODULE FastDeque ------------------------------
(***************************************************************************)
(* factDB/infra/list/FastDeque, TLFastDeque and TLSIteratorThreadLocal:    *)
(* the lists of one thread, and the list at the root of a tree, which is   *)
(* one deque per thread.  Chunk k of a deque holds 2^k elements and is     *)
(* found in an array of pointers that grows by doubling, with one entry    *)
(* more for the iterator past the end.  With an inlined chunk the first    *)
(* element lies in the deque itself and the array comes with the second.   *)
(*                                                                         *)
(* The pointer to a chunk is shifted so that pointer + index is the        *)
(* element, so an address is a pair <<chunk, index>>, and good if an       *)
(* element was constructed there; the inlined chunk is chunk 0.  Writing   *)
(* outside of an array, or freeing what was not allocated, is a fault.     *)
(***************************************************************************)
EXTENDS Integers, Sequences, FiniteSets

\* What an array of pointers holds besides numbers of chunks: 0, and memory
\* that was never written or is no longer there.
Null == -1
Garbage == -2
Nowhere == <<Null, 0>>

ChunkSize(k) == 2 ^ k
ChunkStart(k) == 2 ^ k - 1
ChunkCount(n) == IF n = 0 THEN 0 ELSE CHOOSE k \in 1 .. n : 2 ^ (k - 1) <= n /\ n < 2 ^ k
NextPowerOfTwo(n) ==
  IF n = 0 THEN 0 ELSE CHOOSE p \in {2 ^ k : k \in 0 .. n} : n <= p /\ p < 2 * n

\* A deque with `inlined' chunks, 0 or 1, and nothing in it.  `array' is the
\* array of chunks, numbered from 0, `version' tells a new array from the old.
EmptyDeque(inlined) ==
  [inlined |-> inlined, size |-> 0, array |-> <<>>, version |-> 0,
   at |-> <<>>, allocated |-> {}, fault |-> FALSE]

HasArray(d) == d.version > 0
InlinedElements(d) == ChunkStart(d.inlined)

-----------------------------------------------------------------------------
(* Growing.                                                                *)

\* memcpy of the old entries, memset from the target on.
NewArray(d, target, capacity) ==
  [i \in 0 .. capacity |->
     IF i >= target THEN Null
     ELSE IF HasArray(d) /\ i < NextPowerOfTwo(ChunkCount(d.size)) THEN d.array[i] ELSE Garbage]

\* An array is freed with the size that follows from the size of the deque.
ArrayOf(d) == <<"array", d.version, NextPowerOfTwo(ChunkCount(d.size)) + 1>>

ResizeChunkArray(d, target) ==
  LET required == NextPowerOfTwo(target)
  IN  IF required <= NextPowerOfTwo(ChunkCount(d.size)) THEN d
      ELSE [d EXCEPT
              !.array = NewArray(d, target, required),
              !.version = @ + 1,
              !.allocated = (IF HasArray(d) THEN @ \ {ArrayOf(d)} ELSE @)
                            \cup {<<"array", d.version + 1, required + 1>>},
              !.fault = @ \/ (HasArray(d) /\ ArrayOf(d) \notin d.allocated)]

\* Entries are written only within the array.
SetChunk(d, k) ==
  IF k \notin DOMAIN d.array THEN [d EXCEPT !.fault = TRUE]
  ELSE [d EXCEPT !.array[k] = k]
AllocateChunk(d, k) ==
  IF k < d.inlined THEN SetChunk(d, k)
  ELSE [SetChunk(d, k) EXCEPT !.allocated = @ \cup {<<"chunk", k, ChunkSize(k)>>}]

\* resizeImplByOne: the deque with room for one more, in its last chunk.
RoomForOne(d) ==
  LET current == ChunkCount(d.size)
      grown == ResizeChunkArray(d, current + 1)
      linked == IF current = d.inlined /\ d.inlined > 0 THEN SetChunk(grown, 0) ELSE grown
  IN  IF current < d.inlined \/ ~(\E k \in 0 .. current : d.size = ChunkStart(k)) THEN d
      ELSE AllocateChunk(linked, current)
LastChunk(d) ==
  IF d.size < InlinedElements(d) THEN 0 ELSE d.array[ChunkCount(d.size + 1) - 1]

\* emplace_back
Emplace(d, value) ==
  LET e == RoomForOne(d)
      place == <<LastChunk(e), e.size>>
  IN  [e EXCEPT !.size = @ + 1,
                !.at = [a \in DOMAIN @ \cup {place} |-> IF a = place THEN value ELSE @[a]]]

\* resize; within the last chunk the code leaves the size as it is.
Resized(d, n) ==
  LET current == ChunkCount(d.size)
      target == ChunkCount(n)
      e == ResizeChunkArray(d, target)
      added == current .. target - 1
  IN  IF n <= d.size \/ target = current THEN d
      ELSE [e EXCEPT
              !.size = n,
              !.array = [k \in DOMAIN @ |-> IF k \in added THEN k ELSE @[k]],
              !.allocated = @ \cup {<<"chunk", k, ChunkSize(k)>> : k \in added},
              !.fault = @ \/ ~(added \subseteq DOMAIN e.array)]

\* The destructor: what it frees, with the sizes it computes.
DequeFreed(d) ==
  IF ~HasArray(d) THEN {}
  ELSE {<<"chunk", k, ChunkSize(k)>> : k \in d.inlined .. ChunkCount(d.size) - 1} \cup {ArrayOf(d)}

-----------------------------------------------------------------------------
(* iterator_base: a position in the array of chunks, an element, the index *)
(* and the size that the deque had.                                        *)

NoIterator == [version |-> 0, chunk |-> 0, element |-> Nowhere, idx |-> 0, size |-> 0]

\* Reading an entry of the array, which may be freed or end before it.
Entry(d, it, c) ==
  IF it.version = d.version /\ c \in DOMAIN d.array THEN d.array[c] ELSE Garbage

Begin(d) ==
  [NoIterator EXCEPT
     !.version = d.version,
     !.element = IF d.inlined > 0 THEN <<0, 0>>
                 ELSE IF HasArray(d) THEN <<d.array[0], 0>> ELSE Nowhere,
     !.size = d.size]

\* The iterator at index i, c chunks further on.
Moved(d, it, i, c) ==
  IF it.size > InlinedElements(d)
  THEN [it EXCEPT !.idx = i, !.chunk = c, !.element = <<Entry(d, it, c), i>>]
  ELSE [it EXCEPT !.idx = i, !.element = <<@[1], i>>]

IsPowerOfTwo(n) == \E k \in 0 .. n : n = 2 ^ k

\* Mutant: the next chunk is entered one element late.
AdvanceLate(d, it) ==
  LET i == it.idx + 1
  IN  Moved(d, it, i, it.chunk + IF IsPowerOfTwo(i) THEN 1 ELSE 0)

\* operator++, operator--, operator+= and end() - 1.
Advance(d, it) ==
  LET i == it.idx + 1
  IN  Moved(d, it, i, it.chunk + IF IsPowerOfTwo(i + 1) THEN 1 ELSE 0)
Back(d, it) ==
  LET i == it.idx - 1
  IN  Moved(d, it, i, it.chunk - IF IsPowerOfTwo(i + 2) THEN 1 ELSE 0)
Jump(d, it, n) ==
  LET i == it.idx + n
  IN  Moved(d, it, i, it.chunk + ChunkCount(i + 1) - ChunkCount(it.idx + 1))
JumpBack(d, it, n) ==
  LET i == it.idx - n
  IN  Moved(d, it, i, it.chunk + ChunkCount(i + 1) - ChunkCount(it.idx + 1))

End(d) == IF d.size = 0 THEN Begin(d) ELSE Jump(d, Begin(d), d.size)
IsLast(it) == it.idx = it.size \/ it.element = Nowhere
SamePosition(it, other) ==
  it.version = other.version /\ it.chunk = other.chunk /\ it.element = other.element
Read(d, it) == IF it.element \in DOMAIN d.at THEN d.at[it.element] ELSE Garbage

\* emplace_back returns the iterator at the new element; a push_back into a
\* list of another class uses end() - 1.
Handles(d) ==
  LET last == IF d.size = 1 THEN Begin(d) ELSE Jump(d, Begin(d), d.size - 1)
  IN  {last.element, JumpBack(d, End(d), 1).element}

-----------------------------------------------------------------------------
(* TLFastDeque: the chain of deques, and a position in it and in a deque;  *)
(* behind the chain is its end.                                            *)

AtEnd(chain, it) == it.deque > Len(chain)
Inner(deque, chain, it) == deque[chain[it.deque]]

\* The next deque from position p on that is not empty.
SkipEmpty(deque, chain, p) ==
  LET full == {q \in p .. Len(chain) : deque[chain[q]].size > 0}
      next == IF full = {} THEN Len(chain) + 1 ELSE CHOOSE q \in full : \A r \in full : q <= r
  IN  [deque |-> next,
       list |-> IF full = {} THEN NoIterator ELSE Begin(deque[chain[next]])]

ListBegin(deque, chain) == SkipEmpty(deque, chain, 1)

ListAdvance(deque, chain, it) ==
  LET d == Inner(deque, chain, it)
      next == Advance(d, it.list)
  IN  IF AtEnd(chain, it) THEN it
      ELSE IF SamePosition(next, End(d)) THEN SkipEmpty(deque, chain, it.deque + 1)
      ELSE [it EXCEPT !.list = next]

\* The elements from position p of the chain to the end of position q.
LengthOf(deque, chain, p, q) ==
  LET sum[r \in p - 1 .. q] == IF r = p - 1 THEN 0 ELSE sum[r - 1] + deque[chain[r]].size
  IN  sum[q]

\* operator+= with less than what is left: the first deque that reaches so far.
ListJump(deque, chain, it, n) ==
  LET d == Inner(deque, chain, it)
      here == End(d).idx - it.list.idx
      left(p) == here + LengthOf(deque, chain, it.deque + 1, p)
      next == CHOOSE p \in it.deque + 1 .. Len(chain) :
                n < left(p) /\ (\A q \in it.deque + 1 .. p - 1 : left(q) <= n)
      rest == n - left(next - 1)
      first == Begin(deque[chain[next]])
  IN  IF n < here THEN [it EXCEPT !.list = Jump(d, @, n)]
      ELSE [deque |-> next, list |-> Jump(deque[chain[next]], first, rest)]

ListRead(deque, chain, it) == Read(Inner(deque, chain, it), it.list)

=============================================================================
