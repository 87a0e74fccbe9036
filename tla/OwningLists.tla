----------------------------- MODULE OwningLists -----------------------------
(***************************************************************************)
(* The lists that own their elements and are appended to by many threads.  *)
(*                                                                         *)
(* factDB/infra/list/ChunkedList: a list of chunks, each twice as long as  *)
(* the list was.  A thread that appends holds a lock shared: it takes one  *)
(* of the free slots of the last chunk by compare-and-swap, then a place   *)
(* there, and writes.  If no slot is free it gives the lock up, takes it   *)
(* exclusively, looks again, adds a chunk, and starts over.                *)
(***************************************************************************)
EXTENDS Integers, Sequences, FiniteSets, SequencesExt

CONSTANTS
  Threads,  \* threads, who append themselves
  Owners,   \* owning lists
  Nobody,   \* what an element is before its value is moved there
  MinChunk  \* the smallest chunk that is added, 100 in the code

VARIABLES
  pc,      \* per thread: where it is in emplace or push_back, or "idle"
  owner,   \* per thread: the list that it appends to
  sizeVal, \* per list: sizeVal
  chunks,  \* per list: chunks with their elements up to end, and capacity
  empty,   \* per list: emptySlots
  shared,  \* per list: the threads that hold growLock shared
  seen,    \* per thread: curSize
  place    \* per thread: where its element is, <<chunk, index>>

callVars == <<pc, owner, sizeVal>>
chunkVars == <<chunks, empty, shared, seen, place>>

Greater(a, b) == IF a < b THEN b ELSE a
Goto(t, label) == pc' = [pc EXCEPT ![t] = label]
NoOwner == CHOOSE o \in Owners : TRUE
Return(t) == Goto(t, "idle") /\ owner' = [owner EXCEPT ![t] = NoOwner]

CallInit ==
  /\ pc = [t \in Threads |-> "idle"]
  /\ owner = [t \in Threads |-> NoOwner]
  /\ sizeVal = [o \in Owners |-> 0]
ChunkInit ==
  /\ chunks = [o \in Owners |-> <<>>]
  /\ empty = [o \in Owners |-> 0]
  /\ shared = [o \in Owners |-> {}]
  /\ seen = [t \in Threads |-> 0]
  /\ place = [t \in Threads |-> <<0, 0>>]

NewChunk(n) == [capacity |-> n, elements |-> <<>>]
Push(o, n) ==
  /\ chunks' = [chunks EXCEPT ![o] = Append(@, NewChunk(n))]
  /\ empty' = [empty EXCEPT ![o] = @ + n]

-----------------------------------------------------------------------------
\* The lock and the free slots; without one the lock is given up at once.
Look(t, o) ==
  /\ seen' = [seen EXCEPT ![t] = empty[o]]
  /\ shared' = [shared EXCEPT ![o] = IF empty[o] = 0 THEN @ \ {t} ELSE @ \cup {t}]
  /\ Goto(t, IF empty[o] = 0 THEN "grow" ELSE "swap")
  /\ UNCHANGED <<sizeVal, chunks, empty, place>>

EmplaceChunked(t, o) ==
  /\ pc[t] = "idle"
  /\ owner' = [owner EXCEPT ![t] = o]
  /\ Look(t, o)

\* Mutant: a swap that fails is tried with the same number.
CompareStale(t) ==
  LET o == owner[t] IN
  /\ pc[t] = "swap" /\ empty[o] = seen[t]
  /\ empty' = [empty EXCEPT ![o] = @ - 1]
  /\ Goto(t, "count")
  /\ UNCHANGED <<owner, sizeVal, chunks, shared, seen, place>>

\* A swap that fails has seen the new number.
CompareExchange(t) ==
  LET o == owner[t] IN
  /\ pc[t] = "swap"
  /\ \/ /\ empty[o] = seen[t]
        /\ empty' = [empty EXCEPT ![o] = @ - 1]
        /\ Goto(t, "count")
        /\ UNCHANGED <<owner, sizeVal, chunks, shared, seen, place>>
     \/ empty[o] # seen[t] /\ Look(t, o) /\ UNCHANGED owner

\* Mutant: who waited for the exclusive lock does not look again.
GrowBlindly(t) ==
  LET o == owner[t] IN
  /\ pc[t] = "grow" /\ shared[o] = {}
  /\ Push(o, Greater(MinChunk, 2 * sizeVal[o]))
  /\ Goto(t, "again")
  /\ UNCHANGED <<owner, sizeVal, shared, seen, place>>

\* Under the exclusive lock.
Grow(t) ==
  LET o == owner[t] IN
  /\ pc[t] = "grow" /\ shared[o] = {}
  /\ IF empty[o] = 0 THEN Push(o, Greater(MinChunk, 2 * sizeVal[o])) ELSE UNCHANGED <<chunks, empty>>
  /\ Goto(t, "again")
  /\ UNCHANGED <<owner, sizeVal, shared, seen, place>>

LookAgain(t) == pc[t] = "again" /\ Look(t, owner[t]) /\ UNCHANGED owner

Count(t) ==
  /\ pc[t] = "count"
  /\ sizeVal' = [sizeVal EXCEPT ![owner[t]] = @ + 1]
  /\ Goto(t, "claim")
  /\ UNCHANGED <<owner, chunkVars>>

\* The end of the last chunk moves by one.
Claim(t) ==
  LET o == owner[t]
      c == Len(chunks[o]) IN
  /\ pc[t] = "claim"
  /\ chunks' = [chunks EXCEPT ![o][c].elements = Append(@, Nobody)]
  /\ place' = [place EXCEPT ![t] = <<c, Len(chunks[o][c].elements) + 1>>]
  /\ shared' = [shared EXCEPT ![o] = @ \ {t}]
  /\ seen' = [seen EXCEPT ![t] = 0]
  /\ Goto(t, "assign")
  /\ UNCHANGED <<owner, sizeVal, empty>>

\* push_back writes through the iterator, outside of the lock.
AssignChunked(t) ==
  /\ pc[t] = "assign"
  /\ chunks' = [chunks EXCEPT ![owner[t]][place[t][1]].elements[place[t][2]] = t]
  /\ place' = [place EXCEPT ![t] = <<0, 0>>]
  /\ Return(t)
  /\ UNCHANGED <<sizeVal, empty, shared, seen>>

ChunkedStep(t) ==
  CompareExchange(t) \/ Grow(t) \/ LookAgain(t) \/ Count(t) \/ Claim(t) \/ AssignChunked(t)

Quiet(o) == \A t \in Threads : owner[t] = o => pc[t] = "idle"

\* The code asserts that nothing is reserved or appended; bound: once.
Reserve(o, n) ==
  /\ Quiet(o) /\ chunks[o] = <<>>
  /\ Push(o, n)
  /\ UNCHANGED <<callVars, shared, seen, place>>

CompactLastChunk(o) ==
  /\ Quiet(o) /\ empty[o] > 0
  /\ empty' = [empty EXCEPT ![o] = 0]
  /\ UNCHANGED <<callVars, chunks, shared, seen, place>>

-----------------------------------------------------------------------------
(* Iterators over a sequence of chunks [list, chunk, end], where a list    *)
(* that does not own them keeps the end that they had.                     *)

InfosOf(o) == [c \in DOMAIN chunks[o] |->
                 [list |-> o, chunk |-> c, end |-> Len(chunks[o][c].elements)]]
LengthOf(infos) == FoldLeft(LAMBDA n, i : n + i.end, 0, infos)

BeginChunks == [chunk |-> 1, element |-> 1]
EndChunks(infos) ==
  IF infos = <<>> THEN BeginChunks ELSE [chunk |-> Len(infos), element |-> Last(infos).end + 1]
IsLastChunked(infos, it) ==
  infos = <<>> \/ (it.chunk = Len(infos) /\ it.element = Last(infos).end + 1)

\* operator++ stays behind the end of the last chunk; operator-- crosses one bound.
NextChunked(infos, it) ==
  IF it.element = infos[it.chunk].end /\ it.chunk # Len(infos)
  THEN [chunk |-> it.chunk + 1, element |-> 1] ELSE [it EXCEPT !.element = @ + 1]
PreviousChunked(infos, it) ==
  IF it.element = 1 THEN [chunk |-> it.chunk - 1, element |-> infos[it.chunk - 1].end]
  ELSE [it EXCEPT !.element = @ - 1]

\* Behind the end of a chunk there is nothing.
ReadChunked(infos, it) ==
  LET i == infos[it.chunk] IN
  IF it.element \in 1 .. i.end THEN chunks[i.list][i.chunk].elements[it.element] ELSE Nobody

\* operator[]: chunk by chunk.
IndexChunked(o, idx) ==
  LET infos == InfosOf(o)
      before(c) == LengthOf(SubSeq(infos, 1, c - 1))
      c == CHOOSE k \in DOMAIN infos : before(k) <= idx /\ idx < before(k) + infos[k].end
  IN  chunks[o][c].elements[idx - before(c) + 1]

-----------------------------------------------------------------------------
(***************************************************************************)
(* factDB/infra/list/LinkedList: an element is put in front by one atomic  *)
(* exchange and linked to the rest after that, so that a walk goes from    *)
(* the newest element to the oldest, and is cut while a thread is between  *)
(* the two.                                                                *)
(***************************************************************************)
NoNode == 0

VARIABLES
  nodes,  \* the nodes, [value, next, list]; a node is its position
  first,  \* per list: firstEntry
  node,   \* per thread: its node
  old     \* per thread: what it exchanged its node for

linkVars == <<nodes, first, node, old>>

LinkInit ==
  /\ nodes = <<>>
  /\ first = [o \in Owners |-> NoNode]
  /\ node = [t \in Threads |-> NoNode]
  /\ old = [t \in Threads |-> NoNode]

\* The node is made, with next = nullptr, and counted.
EmplaceLinked(t, o) ==
  /\ pc[t] = "idle"
  /\ owner' = [owner EXCEPT ![t] = o]
  /\ nodes' = Append(nodes, [value |-> Nobody, next |-> NoNode, list |-> o])
  /\ node' = [node EXCEPT ![t] = Len(nodes) + 1]
  /\ sizeVal' = [sizeVal EXCEPT ![o] = @ + 1]
  /\ Goto(t, "exchange")
  /\ UNCHANGED <<first, old>>

\* Mutant: read and write are not one step.
ExchangeLate(t) ==
  /\ pc[t] = "exchange"
  /\ \/ old[t] # first[owner[t]] /\ old' = [old EXCEPT ![t] = first[owner[t]]] /\ UNCHANGED <<pc, first>>
     \/ /\ first' = [first EXCEPT ![owner[t]] = node[t]]
        /\ Goto(t, "next") /\ UNCHANGED old
  /\ UNCHANGED <<owner, sizeVal, nodes, node>>

Exchange(t) ==
  /\ pc[t] = "exchange"
  /\ old' = [old EXCEPT ![t] = first[owner[t]]]
  /\ first' = [first EXCEPT ![owner[t]] = node[t]]
  /\ Goto(t, "next")
  /\ UNCHANGED <<owner, sizeVal, nodes, node>>

SetNext(t) ==
  /\ pc[t] = "next"
  /\ nodes' = [nodes EXCEPT ![node[t]].next = old[t]]
  /\ Goto(t, "assign")
  /\ UNCHANGED <<owner, sizeVal, first, node, old>>

AssignLinked(t) ==
  /\ pc[t] = "assign"
  /\ nodes' = [nodes EXCEPT ![node[t]].value = t]
  /\ node' = [node EXCEPT ![t] = NoNode]
  /\ old' = [old EXCEPT ![t] = NoNode]
  /\ Return(t)
  /\ UNCHANGED <<sizeVal, first>>

LinkedStep(t) == Exchange(t) \/ SetNext(t) \/ AssignLinked(t)

-----------------------------------------------------------------------------
\* The nodes from n on, by next.
ChainFrom(n) ==
  LET next[m \in 0 .. Len(nodes)] == IF m = NoNode THEN <<>> ELSE <<m>> \o next[nodes[m].next]
  IN  next[n]

\* operator[]: counted from the newest.
IndexLinked(o, idx) ==
  LET steps == sizeVal[o] - idx - 1
      from[k \in 0 .. steps] == IF k = 0 THEN first[o] ELSE nodes[from[k - 1]].next
  IN  nodes[from[steps]].value

\* The slow iterator starts at the oldest; ++ looks for the node before.
SlowBegin(o) == IF first[o] = NoNode THEN NoNode ELSE Last(ChainFrom(first[o]))
SlowNext(o, n) ==
  IF n = NoNode \/ n = first[o] THEN NoNode
  ELSE CHOOSE m \in ToSet(ChainFrom(first[o])) : nodes[m].next = n

=============================================================================
