--------------------------- MODULE PooledAllocator ---------------------------
(***************************************************************************)
(* factDB/infra/alloc/AllocatorPooled.hpp: a pool of objects of one type   *)
(* in chunks of doubling capacity.  allocate() takes a slot by fetch_add   *)
(* on the chunk's begin pointer; whoever overshoots the end tries to put   *)
(* begin back by compare_exchange and then grows the pool under a lock.    *)
(* The destructor and the iterator rely on begin as the end of the used    *)
(* slots, so an overshoot that stays would let them run past the chunk.    *)
(*                                                                         *)
(* Chunks are numbered in the order of their allocation, 0 is nullptr, and *)
(* a pointer into a chunk is the offset of a slot from its first one.  A   *)
(* step is one access to shared memory.                                    *)
(***************************************************************************)
EXTENDS Integers, Sequences

CONSTANTS
  Threads,        \* the threads that allocate
  NoThread,       \* nobody holds the lock
  FirstCapacity,  \* slots of the first chunk: max(2048 / sizeof(T), 1)
  MaxAllocations, \* bound: calls of allocate()
  WeakMayFail     \* may compare_exchange_weak fail spuriously on the target?

ASSUME NoThreadAssumption == NoThread \notin Threads
ASSUME CapacityAssumption == FirstCapacity \in Nat \ {0}
ASSUME BoundAssumption == MaxAllocations \in Nat
ASSUME WeakAssumption == WeakMayFail \in BOOLEAN

VARIABLES
  firstChunk,   \* head of the list of chunks
  currentChunk, \* the chunk that is allocated from
  begin,        \* per chunk: the next slot (ChunkHeader::begin)
  end,          \* per chunk: its capacity (ChunkHeader::end)
  nextChunk,    \* per chunk: its successor (ChunkHeader::nextChunk)
  lock,         \* holder of allocationLock
  pc,           \* where each thread is in allocate()
  chunk,        \* currentChunkGotOuter of each thread
  ptr,          \* ptr of each thread; after allocate(), the offset of its slot
  calls,        \* how many calls of allocate() began
  handed,       \* the slots that were returned to callers
  mode,         \* what the owner does: "use", "iterate", "free" or "gone"
  cursor,       \* position of the owner's walk over the slots
  walked        \* the slots the walk came by

threadVars == <<pc, chunk, ptr, calls, handed>>
headerVars == <<begin, end, nextChunk>>
walkVars == <<mode, cursor, walked>>
vars == <<firstChunk, currentChunk, headerVars, lock, threadVars, walkVars>>

Chunks == 1 .. Len(begin)

Goto(t, label) == pc' = [pc EXCEPT ![t] = label]

Init ==
  /\ firstChunk = 0
  /\ currentChunk = 0
  /\ begin = <<>>
  /\ end = <<>>
  /\ nextChunk = <<>>
  /\ lock = NoThread
  /\ pc = [t \in Threads |-> "idle"]
  /\ chunk = [t \in Threads |-> 0]
  /\ ptr = [t \in Threads |-> 0]
  /\ calls = 0
  /\ handed = {}
  /\ mode = "use"
  /\ cursor = [chunk |-> 0, slot |-> 0]
  /\ walked = {}

-----------------------------------------------------------------------------
(* allocateChunk(n): a chunk that starts at `used' and is linked nowhere.  *)

AllocateChunk(n, used) ==
  /\ begin' = Append(begin, used)
  /\ end' = Append(end, n)

(* The first call creates the first chunk, double-checked under the lock.  *)

CheckFirst(t) ==
  /\ mode = "use"
  /\ pc[t] = "idle"
  /\ calls < MaxAllocations
  /\ calls' = calls + 1
  /\ Goto(t, IF firstChunk = 0 THEN "lockFirst" ELSE "loadCurrent")
  /\ UNCHANGED <<firstChunk, currentChunk, headerVars, lock, chunk, ptr, handed, walkVars>>

LockFirst(t) ==
  /\ pc[t] = "lockFirst"
  /\ lock = NoThread
  /\ IF firstChunk = 0
     THEN /\ AllocateChunk(FirstCapacity, 0)
          /\ nextChunk' = Append(nextChunk, 0)
          /\ lock' = t
          /\ Goto(t, "publishCurrent")
     ELSE /\ Goto(t, "loadCurrent")
          /\ UNCHANGED <<headerVars, lock>>
  /\ UNCHANGED <<firstChunk, currentChunk, chunk, ptr, calls, handed, walkVars>>

PublishCurrent(t) ==
  /\ pc[t] = "publishCurrent"
  /\ currentChunk' = Len(begin)
  /\ Goto(t, "publishFirst")
  /\ UNCHANGED <<firstChunk, headerVars, lock, chunk, ptr, calls, handed, walkVars>>

PublishFirst(t) ==
  /\ pc[t] = "publishFirst"
  /\ firstChunk' = Len(begin)
  /\ lock' = NoThread
  /\ Goto(t, "loadCurrent")
  /\ UNCHANGED <<currentChunk, headerVars, chunk, ptr, calls, handed, walkVars>>

-----------------------------------------------------------------------------
LoadCurrent(t) ==
  /\ pc[t] = "loadCurrent"
  /\ chunk' = [chunk EXCEPT ![t] = currentChunk]
  /\ Goto(t, "fetchAdd")
  /\ UNCHANGED <<firstChunk, currentChunk, headerVars, lock, ptr, calls, handed, walkVars>>

\* curBeginOuter.fetch_add(1): a slot of the chunk, or one past its end.
FetchAdd(t) ==
  LET c == chunk[t]
  IN  /\ pc[t] = "fetchAdd"
      /\ ptr' = [ptr EXCEPT ![t] = begin[c]]
      /\ begin' = [begin EXCEPT ![c] = begin[c] + 1]
      /\ IF begin[c] < end[c]
         THEN handed' = handed \cup {<<c, begin[c]>>} /\ Goto(t, "idle")
         ELSE Goto(t, "putBack") /\ UNCHANGED handed
      /\ UNCHANGED <<firstChunk, currentChunk, end, nextChunk, lock, chunk, calls, walkVars>>

\* compare_exchange_weak(++ptr, end): undone by the last one to overshoot.
PutBack(t) ==
  LET c == chunk[t]
  IN  /\ pc[t] = "putBack"
      /\ \/ /\ begin[c] = ptr[t] + 1
            /\ begin' = [begin EXCEPT ![c] = end[c]]
         \/ /\ begin[c] # ptr[t] + 1 \/ WeakMayFail
            /\ UNCHANGED begin
      /\ Goto(t, "grow")
      /\ UNCHANGED <<firstChunk, currentChunk, end, nextChunk, lock, chunk, ptr, calls,
                     handed, walkVars>>

\* Mutant: the chunk is not looked at again under the lock, and the new one is linked
\* to the chunk this thread saw, not to the current one.
GrowUnchecked(t) ==
  LET c == currentChunk
  IN  /\ pc[t] = "grow"
      /\ lock = NoThread
      /\ AllocateChunk(end[c] * 2, 1)
      /\ nextChunk' = Append([nextChunk EXCEPT ![chunk[t]] = Len(begin) + 1], 0)
      /\ chunk' = [chunk EXCEPT ![t] = Len(begin) + 1]
      /\ ptr' = [ptr EXCEPT ![t] = 0]
      /\ lock' = t
      /\ Goto(t, "publishGrown")
      /\ UNCHANGED <<firstChunk, currentChunk, calls, handed, walkVars>>

\* Mutant: the first slot of the new chunk is not taken before it is published.
GrowSlotFree(t) ==
  LET c == currentChunk
  IN  /\ pc[t] = "grow"
      /\ lock = NoThread
      /\ IF begin[c] < end[c]
         THEN /\ Goto(t, "loadCurrent")
              /\ UNCHANGED <<headerVars, lock, chunk, ptr>>
         ELSE /\ AllocateChunk(end[c] * 2, 0)
              /\ nextChunk' = Append([nextChunk EXCEPT ![c] = Len(begin) + 1], 0)
              /\ chunk' = [chunk EXCEPT ![t] = Len(begin) + 1]
              /\ ptr' = [ptr EXCEPT ![t] = 0]
              /\ lock' = t
              /\ Goto(t, "publishGrown")
      /\ UNCHANGED <<firstChunk, currentChunk, calls, handed, walkVars>>

\* Under the lock: somebody else grew the pool already, or this thread does and
\* takes the first slot of the new chunk before anyone sees it.
Grow(t) ==
  LET c == currentChunk
  IN  /\ pc[t] = "grow"
      /\ lock = NoThread
      /\ IF begin[c] < end[c]
         THEN /\ Goto(t, "loadCurrent")
              /\ UNCHANGED <<headerVars, lock, chunk, ptr>>
         ELSE /\ AllocateChunk(end[c] * 2, 1)
              /\ nextChunk' = Append([nextChunk EXCEPT ![c] = Len(begin) + 1], 0)
              /\ chunk' = [chunk EXCEPT ![t] = Len(begin) + 1]
              /\ ptr' = [ptr EXCEPT ![t] = 0]
              /\ lock' = t
              /\ Goto(t, "publishGrown")
      /\ UNCHANGED <<firstChunk, currentChunk, calls, handed, walkVars>>

PublishGrown(t) ==
  /\ pc[t] = "publishGrown"
  /\ currentChunk' = chunk[t]
  /\ lock' = NoThread
  /\ handed' = handed \cup {<<chunk[t], ptr[t]>>}
  /\ Goto(t, "idle")
  /\ UNCHANGED <<firstChunk, headerVars, chunk, ptr, calls, walkVars>>

-----------------------------------------------------------------------------
(* The owner walks over the slots once no thread allocates: the iterator   *)
(* from begin() to end(), and freeChunks in the destructor.                *)

Quiescent == \A t \in Threads : pc[t] = "idle"

StartWalk(what) ==
  /\ mode = "use"
  /\ Quiescent
  /\ mode' = what
  /\ cursor' = [chunk |-> firstChunk, slot |-> 0]
  /\ walked' = {}
  /\ UNCHANGED <<firstChunk, currentChunk, headerVars, lock, threadVars>>

\* Iterator::operator++: on to the next chunk at begin, if there is one.
Increment ==
  LET c == cursor.chunk
      s == cursor.slot + 1
  IN  IF s = begin[c] /\ nextChunk[c] # 0
      THEN [chunk |-> nextChunk[c], slot |-> 0]
      ELSE [chunk |-> c, slot |-> s]

AtEnd ==
  cursor = [chunk |-> currentChunk,
            slot |-> IF currentChunk = 0 THEN 0 ELSE begin[currentChunk]]

IterateStep ==
  /\ mode = "iterate"
  /\ ~AtEnd
  /\ walked' = walked \cup {<<cursor.chunk, cursor.slot>>}
  /\ cursor' = Increment
  /\ UNCHANGED <<firstChunk, currentChunk, headerVars, lock, threadVars, mode>>

IterateEnd ==
  /\ mode = "iterate"
  /\ AtEnd
  /\ mode' = "use"
  /\ UNCHANGED <<firstChunk, currentChunk, headerVars, lock, threadVars, cursor, walked>>

\* freeChunks: destroy the elements up to begin, then go to the next chunk.
FreeStep ==
  LET c == cursor.chunk
      s == cursor.slot
  IN  /\ mode = "free"
      /\ c # 0
      /\ IF s # begin[c]
         THEN /\ walked' = walked \cup {<<c, s>>}
              /\ cursor' = [chunk |-> c, slot |-> s + 1]
         ELSE /\ cursor' = [chunk |-> nextChunk[c], slot |-> 0]
              /\ UNCHANGED walked
      /\ UNCHANGED <<firstChunk, currentChunk, headerVars, lock, threadVars, mode>>

FreeEnd ==
  /\ mode = "free"
  /\ cursor.chunk = 0
  /\ mode' = "gone"
  /\ UNCHANGED <<firstChunk, currentChunk, headerVars, lock, threadVars, cursor, walked>>

-----------------------------------------------------------------------------
Allocate(t) ==
  \/ LockFirst(t)
  \/ PublishCurrent(t)
  \/ PublishFirst(t)
  \/ LoadCurrent(t)
  \/ FetchAdd(t)
  \/ PutBack(t)
  \/ Grow(t)
  \/ PublishGrown(t)

Walk == IterateStep \/ IterateEnd \/ FreeStep \/ FreeEnd

Next ==
  \/ \E t \in Threads : CheckFirst(t) \/ Allocate(t)
  \/ StartWalk("iterate")
  \/ StartWalk("free")
  \/ Walk

Spec == Init /\ [][Next]_vars

-----------------------------------------------------------------------------
Labels == {"idle", "lockFirst", "publishCurrent", "publishFirst", "loadCurrent",
           "fetchAdd", "putBack", "grow", "publishGrown"}

TypeOK ==
  /\ begin \in Seq(Nat)
  /\ end \in Seq(Nat \ {0})
  /\ nextChunk \in Seq(Nat)
  /\ Len(end) = Len(begin)
  /\ Len(nextChunk) = Len(begin)
  /\ firstChunk \in 0 .. Len(begin)
  /\ currentChunk \in 0 .. Len(begin)
  /\ lock \in Threads \cup {NoThread}
  /\ pc \in [Threads -> Labels]
  /\ chunk \in [Threads -> Nat]
  /\ ptr \in [Threads -> Nat]
  /\ calls \in 0 .. MaxAllocations
  /\ handed \in SUBSET (Nat \X Nat)
  /\ mode \in {"use", "iterate", "free", "gone"}
  /\ cursor \in [chunk : Nat, slot : Nat]
  /\ walked \in SUBSET (Nat \X Nat)

\* No slot is handed out twice, whatever the threads that race for the end of a
\* chunk do to its begin pointer.
SlotsUnique ==
  [][\A t \in Threads : pc[t] # "idle" /\ pc'[t] = "idle"
       => <<chunk'[t], ptr'[t]>> \notin handed]_vars

\* The overshoot of begin beyond end is always undone: when no thread is inside
\* allocate(), the slots below begin are the ones that were handed out.
SlotsHanded(c) == {h[2] : h \in {g \in handed : g[1] = c}}

BeginExact ==
  Quiescent => \A c \in Chunks : SlotsHanded(c) = 0 .. begin[c] - 1

\* The destructor and the iterator never come by a slot that was not handed out, and
\* miss none: at the end of the walk every object was destroyed, or visited.
WalkExact ==
  /\ walked \subseteq handed
  /\ mode = "gone" => walked = handed
  /\ mode = "iterate" /\ AtEnd => walked = handed

=============================================================================
