---------------------------- MODULE BumpAllocator ----------------------------
(***************************************************************************)
(* factDB/infra/alloc/BumpAllocator: memory is carved off a block from its *)
(* upper end towards its lower one and only released as a whole.  A block  *)
(* ends in a footer with its size and a pointer to the footer of the block *)
(* before it.  allocate() bumps the current byte by compare_exchange and,  *)
(* when the block is full, puts a new block in place under a lock: in two  *)
(* stores, first the current byte, then the end, while others go on        *)
(* bumping.                                                                *)
(*                                                                         *)
(* Addresses are numbers of units, 0 is nullptr.  A step is one access to  *)
(* currentByte or endByte; what only the holder of the lock touches goes   *)
(* with the access next to it.  The owner of the objects moves and         *)
(* destroys them while no thread is in a call, as the tests do.            *)
(***************************************************************************)
EXTENDS Integers

CONSTANTS
  BumpThreads,   \* the threads that call allocate()
  Allocators,    \* the allocators
  None,          \* no thread, no object
  InitialShift,  \* initialBlockSizeShift
  FooterSize,    \* footerSize, in units
  Bases,         \* the addresses that aligned_alloc may return
  Requests,      \* bound: the pairs <<alignment, size>> that are asked for
  MaxCalls       \* bound: calls of allocate()

ASSUME NoneAssumption == None \notin BumpThreads /\ None \notin Allocators
ASSUME ShiftAssumption == InitialShift \in Nat
ASSUME FooterAssumption == FooterSize \in Nat \ {0}
ASSUME BasesAssumption == Bases \subseteq Nat \ {0}
ASSUME RequestsAssumption == Requests \subseteq (Nat \ {0}) \X Nat

VARIABLES
  endByte,     \* per object: the lower end of its block
  currentByte, \* per object: the lowest byte that was handed out
  footer,      \* per object: currentFooter
  shift,       \* per object: currentBlockShift
  slowPathMutex, \* per object: the thread that holds it
  header,      \* per address of a footer: what was stored there
  blocks,      \* memory that was allocated and not yet freed, [base, size]
  regions,     \* what callers hold: the memory, the call that returned it and what it had read
  bumpPc,      \* where each thread is in allocate()
  call,        \* per thread: its object, alignment and size, and what it read
  bumpCalls,   \* how many calls of allocate() began
  releasing    \* the move or the destructor that runs, and its next footer

allocatorVars == <<endByte, currentByte, footer, shift, slowPathMutex>>
memoryVars == <<header, blocks>>
callVars == <<bumpPc, call>>
bumpVars == <<allocatorVars, memoryVars, regions, callVars, bumpCalls, releasing>>

BumpGoto(t, label) == bumpPc' = [bumpPc EXCEPT ![t] = label]
NoCall == [object |-> None, number |-> 0, alignment |-> 1, size |-> 0, current |-> 0, end |-> 0]
Quiet == [object |-> None, source |-> None, footer |-> 0]

BumpInit ==
  /\ endByte = [o \in Allocators |-> 0]
  /\ currentByte = [o \in Allocators |-> 0]
  /\ footer = [o \in Allocators |-> 0]
  /\ shift = [o \in Allocators |-> InitialShift]
  /\ slowPathMutex = [o \in Allocators |-> None]
  /\ header = [f \in {} |-> 0]
  /\ blocks = {}
  /\ regions = {}
  /\ bumpPc = [t \in BumpThreads |-> "idle"]
  /\ call = [t \in BumpThreads |-> NoCall]
  /\ bumpCalls = 0
  /\ releasing = Quiet

-----------------------------------------------------------------------------
(* allocate(): the fast path.                                              *)

\* getAlloc: the highest aligned address with room for size below c.
GetAlloc(c, alignment, size) == IF size > c THEN 0 ELSE ((c - size) \div alignment) * alignment
Prospect(t) == GetAlloc(call[t].current, call[t].alignment, call[t].size)

AllocateRegion(t, o, request) ==
  /\ bumpPc[t] = "idle"
  /\ releasing = Quiet
  /\ bumpCalls < MaxCalls
  /\ bumpCalls' = bumpCalls + 1
  /\ call' = [call EXCEPT ![t] = [NoCall EXCEPT !.object = o, !.number = bumpCalls + 1,
                                                !.alignment = request[1], !.size = request[2]]]
  /\ BumpGoto(t, "loadCurrent")
  /\ UNCHANGED <<allocatorVars, memoryVars, regions, releasing>>

LoadCurrentByte(t) ==
  /\ bumpPc[t] = "loadCurrent"
  /\ call' = [call EXCEPT ![t].current = currentByte[call[t].object]]
  /\ BumpGoto(t, "loadEnd")
  /\ UNCHANGED <<allocatorVars, memoryVars, regions, bumpCalls, releasing>>

\* The block is there and the region does not go below its end.
FitsBlock(current, alignment, size, end) == end # 0 /\ GetAlloc(current, alignment, size) >= end

LoadEnd(t) ==
  LET end == endByte[call[t].object]
  IN  /\ bumpPc[t] = "loadEnd"
      /\ call' = [call EXCEPT ![t].end = end]
      /\ BumpGoto(t, IF FitsBlock(call[t].current, call[t].alignment, call[t].size, end) THEN "bump" ELSE "lock")
      /\ UNCHANGED <<allocatorVars, memoryVars, regions, bumpCalls, releasing>>

\* compare_exchange: the region, or the current byte for another try.
AnySucceeds(t) == TRUE
BumpSucceeds(t) == currentByte[call[t].object] = call[t].current
HandOut(t) ==
  /\ currentByte' = [currentByte EXCEPT ![call[t].object] = Prospect(t)]
  /\ regions' = regions \cup {[object |-> call[t].object, number |-> call[t].number,
                               at |-> Prospect(t), alignment |-> call[t].alignment, size |-> call[t].size,
                               current |-> call[t].current, end |-> call[t].end]}
  /\ call' = [call EXCEPT ![t] = NoCall]
  /\ BumpGoto(t, "idle")

Bump(t) ==
  /\ bumpPc[t] = "bump"
  /\ IF BumpSucceeds(t)
     THEN HandOut(t)
     ELSE /\ call' = [call EXCEPT ![t].current = currentByte[call[t].object]]
          /\ BumpGoto(t, "loadEnd")
          /\ UNCHANGED <<currentByte, regions>>
  /\ UNCHANGED <<endByte, footer, shift, slowPathMutex, memoryVars, bumpCalls, releasing>>

-----------------------------------------------------------------------------
(* allocate(): the slow path, under slowPathMutex.                         *)

Lock(t) ==
  /\ bumpPc[t] = "lock"
  /\ slowPathMutex[call[t].object] = None
  /\ slowPathMutex' = [slowPathMutex EXCEPT ![call[t].object] = t]
  /\ BumpGoto(t, "recheck")
  /\ UNCHANGED <<endByte, currentByte, footer, shift, memoryVars, regions, call, bumpCalls, releasing>>
Unlock(t) == [slowPathMutex EXCEPT ![call[t].object] = None]

\* Somebody else has put a block in place meanwhile: the fast path again.
Recheck(t) ==
  /\ bumpPc[t] = "recheck"
  /\ endByte[call[t].object] # call[t].end
  /\ slowPathMutex' = Unlock(t)
  /\ BumpGoto(t, "loadCurrent")
  /\ UNCHANGED <<endByte, currentByte, footer, shift, memoryVars, regions, call, bumpCalls, releasing>>

\* Each block is larger than the last one, and the first size that has room for the
\* request and a footer.
FirstShift(o, enough) ==
  LET shifts == (shift[o] + 1) .. (shift[o] + 1 + enough)
  IN  {s \in shifts : 2 ^ s >= enough /\ \A r \in shifts : r < s => 2 ^ r < enough}

\* Mutant: there is no room for the footer.
ShiftWithoutFooter(o, size) == FirstShift(o, size)
NextShift(o, size) == FirstShift(o, size + FooterSize)

\* aligned_alloc: any aligned memory that is not in use, below the last block or above it.
Places(alignment, size) ==
  {base \in Bases : /\ base % alignment = 0
                    /\ \A b \in blocks : base + size <= b.base \/ b.base + b.size <= base}

NewBlock(t) ==
  LET o == call[t].object
  IN  /\ bumpPc[t] = "recheck"
      /\ endByte[o] = call[t].end
      /\ \E s \in NextShift(o, call[t].size) : \E base \in Places(call[t].alignment, 2 ^ s) :
           LET f == base + 2 ^ s - FooterSize
           IN  /\ blocks' = blocks \cup {[base |-> base, size |-> 2 ^ s]}
               /\ header' = [x \in DOMAIN header \cup {f} |->
                               IF x = f THEN [shift |-> s, prev |-> footer[o]] ELSE header[x]]
               /\ footer' = [footer EXCEPT ![o] = f]
               /\ shift' = [shift EXCEPT ![o] = s]
               /\ call' = [call EXCEPT ![t].current = f, ![t].end = base]
      /\ BumpGoto(t, "storeCurrent")
      /\ UNCHANGED <<endByte, currentByte, slowPathMutex, regions, bumpCalls, releasing>>

StoreCurrent(t) ==
  /\ bumpPc[t] = "storeCurrent"
  /\ currentByte' = [currentByte EXCEPT ![call[t].object] = call[t].current]
  /\ BumpGoto(t, "storeEnd")
  /\ UNCHANGED <<endByte, footer, shift, slowPathMutex, memoryVars, regions, call, bumpCalls, releasing>>

StoreEnd(t) ==
  /\ bumpPc[t] = "storeEnd"
  /\ endByte' = [endByte EXCEPT ![call[t].object] = call[t].end]
  /\ BumpGoto(t, "bumpNew")
  /\ UNCHANGED <<currentByte, footer, shift, slowPathMutex, memoryVars, regions, call, bumpCalls, releasing>>

\* One try in the new block; then, without the lock, from the beginning.
BumpNew(t) ==
  /\ bumpPc[t] = "bumpNew"
  /\ IF BumpSucceeds(t)
     THEN HandOut(t)
     ELSE BumpGoto(t, "loadCurrent") /\ UNCHANGED <<currentByte, regions, call>>
  /\ slowPathMutex' = Unlock(t)
  /\ UNCHANGED <<endByte, footer, shift, memoryVars, bumpCalls, releasing>>

-----------------------------------------------------------------------------
(* releaseAllMemory(), in the destructor and in the move assignment, frees *)
(* the blocks from the last to the first.  An object that was destroyed or *)
(* moved from is as good as new.                                           *)

Release(o, source) ==
  /\ releasing = Quiet
  /\ \A t \in BumpThreads : bumpPc[t] = "idle"
  /\ releasing' = [object |-> o, source |-> source, footer |-> footer[o]]
  /\ regions' = {r \in regions : r.object # o}
  /\ UNCHANGED <<allocatorVars, memoryVars, callVars, bumpCalls>>

\* The block of a footer, by what the footer says.
BlockAt(f) == [base |-> f + FooterSize - 2 ^ header[f].shift, size |-> 2 ^ header[f].shift]

FreeBlock ==
  /\ releasing.footer # 0
  /\ blocks' = blocks \ {BlockAt(releasing.footer)}
  /\ header' = [f \in DOMAIN header \ {releasing.footer} |-> header[f]]
  /\ releasing' = [releasing EXCEPT !.footer = header[releasing.footer].prev]
  /\ UNCHANGED <<allocatorVars, regions, callVars, bumpCalls>>

\* The fields of the two objects of a move assignment: the object has what
\* the source had, the source has nothing.
MovedKept(field, none) ==
  [field EXCEPT ![releasing.object] = IF releasing.source = None THEN none ELSE field[releasing.source]]
Moved(field, none) ==
  IF releasing.source = None THEN [field EXCEPT ![releasing.object] = none]
  ELSE [field EXCEPT ![releasing.object] = field[releasing.source], ![releasing.source] = none]

Released ==
  /\ releasing # Quiet
  /\ releasing.footer = 0
  /\ endByte' = Moved(endByte, 0)
  /\ currentByte' = Moved(currentByte, 0)
  /\ footer' = Moved(footer, 0)
  /\ shift' = Moved(shift, InitialShift)
  /\ regions' = {[r EXCEPT !.object = IF @ = releasing.source THEN releasing.object ELSE @] : r \in regions}
  /\ releasing' = Quiet
  /\ UNCHANGED <<slowPathMutex, memoryVars, callVars, bumpCalls>>

-----------------------------------------------------------------------------
BumpStep(t) ==
  \/ LoadCurrentByte(t) \/ LoadEnd(t) \/ Bump(t)
  \/ Lock(t) \/ Recheck(t) \/ NewBlock(t) \/ StoreCurrent(t) \/ StoreEnd(t) \/ BumpNew(t)

BumpNext ==
  \/ \E t \in BumpThreads : BumpStep(t)
  \/ \E t \in BumpThreads, o \in Allocators, request \in Requests : AllocateRegion(t, o, request)
  \/ \E o \in Allocators, source \in Allocators \cup {None} : o # source /\ Release(o, source)
  \/ FreeBlock
  \/ Released

BumpSpec == BumpInit /\ [][BumpNext]_bumpVars

-----------------------------------------------------------------------------
(* What callers rely on.                                                   *)

Inside(r) ==
  /\ r.at % r.alignment = 0
  /\ \E b \in blocks : b.base <= r.at /\ r.at + r.size <= b.base + b.size - FooterSize
Apart(r, s) == r.at + r.size <= s.at \/ s.at + s.size <= r.at

\* Every region that a caller holds is aligned and lies in a block that is
\* allocated, between its lower end and its footer: the footers that
\* releaseAllMemory follows are never written over.  (The layout at the head of
\* BumpAllocator.hpp: end <- current, then the footer.)
RegionsInside == \A r \in regions : Inside(r)

\* The current byte and the end that the call had read are of one block.  They are of
\* two when a block that lies above the last one has its current byte stored and not
\* yet its end: the region is then compared with the lower end of the old block.
OneBlock(r) ==
  \E b \in blocks : r.end = b.base /\ r.current \in b.base .. b.base + b.size - FooterSize
Coherent(o) == \A r \in regions : r.object = o => OneBlock(r)

\* As long as no call of an object has compared the current byte of one block with the
\* end of another, what its callers hold is their own: aligned, inside a block and
\* clear of its footer, and apart from every other region of such objects, whoever
\* bumps the current byte or puts a block in place, above or below, between the loads
\* and the compare_exchange of another.
RegionsOwned ==
  \A r \in regions : Coherent(r.object) =>
    /\ Inside(r)
    /\ \A s \in regions : Coherent(s.object) /\ r.number # s.number => Apart(r, s)

\* The footers from one on, back to the first block: the least set that has this one
\* and the previous footer of each of its members.
ChainFrom(f) ==
  {x \in DOMAIN header :
     \A S \in SUBSET DOMAIN header :
       f \in S \cup {0} /\ (\A y \in S : header[y].prev \in S \cup {0}) => x \in S}
ChainOf(o) == ChainFrom(IF o = releasing.object THEN releasing.footer ELSE footer[o])

\* The memory that is allocated is what the chains of the objects lead to, each
\* block by one chain: moving and releasing neither loses nor frees twice.
MemoryExact ==
  /\ blocks = {BlockAt(f) : f \in UNION {ChainOf(o) : o \in Allocators}}
  /\ \A o, p \in Allocators : o # p => ChainOf(o) \cap ChainOf(p) = {}

=============================================================================
