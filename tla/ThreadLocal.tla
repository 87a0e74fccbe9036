----------------------------- MODULE ThreadLocal -----------------------------
(***************************************************************************)
(* factDB/infra/threading/ThreadLocal and LocalState: objects with one     *)
(* instance per thread.  A thread finds its instance by the slot and the   *)
(* version of the object.  The instances of a ThreadLocal belong to their  *)
(* thread; those of an OwningThreadLocal belong to the object, which keeps *)
(* them on a chain.  Whoever comes second, the end of the thread or the    *)
(* destructor of the object, deletes an instance: they agree by the        *)
(* expired flag.  A step is one access to memory that others see.          *)
(*                                                                         *)
(* A pointer to an instance is its address; local variables that are out   *)
(* of scope are Null.  As documented, the owner of an object does not      *)
(* destroy it while it is accessed, and erases orphans or iterates in one  *)
(* thread at a time.                                                       *)
(***************************************************************************)
EXTENDS Integers, Sequences

CONSTANTS
  LocalThreads, \* the threads
  Objects,      \* the variables of type ThreadLocal or OwningThreadLocal
  Addresses,    \* the addresses for instances
  Null,         \* nullptr
  MaxObjects,   \* bound: constructor calls
  MaxStarts     \* bound: thread starts

ASSUME NullAssumption == Null \notin Addresses /\ Null \notin Objects
ASSUME MaxObjectsAssumption == MaxObjects \in Nat

Slots == 0 .. MaxObjects - 1

VARIABLES
  freeSlots,  \* the stack of freed slots, each with its highest version
  nextSlot,   \* the next slot that was never used
  object,     \* per object: its kind ("none" if there is none), slot and version
  head,       \* per object: the head of the chain of instances
  owner,      \* per object: where its owner is in the destructor or eraseOrphans
  cur,        \* per object: the instance its owner looks at
  heap,       \* per address: the instance there, live or not
  localState, \* per thread: its instances by slot; <<>> without a LocalState
  localPc,    \* per thread: where it is in an access or at its end
  arg,        \* per thread: the object it accesses
  new,        \* per thread: the instance it registers
  seen,       \* per thread: the head it read, or the slot at its end
  built,      \* how many objects were constructed
  starts      \* how many threads were started

objectVars == <<freeSlots, nextSlot, object, built>>
ownerVars == <<owner, cur>>
localThreadVars == <<localState, localPc, arg, new, seen, starts>>
localVars == <<objectVars, ownerVars, localThreadVars, head, heap>>

Proceed(t, label) == localPc' = [localPc EXCEPT ![t] = label]
OwnerGoto(o, label) == owner' = [owner EXCEPT ![o] = label]

NoObject == [kind |-> "none", slot |-> 0, version |-> 0, id |-> 0]
NoInstance == [live |-> FALSE, kind |-> "none", version |-> 0, expired |-> FALSE,
               next |-> Null, object |-> 0, start |-> 0]

LocalInit ==
  /\ freeSlots = <<>>
  /\ nextSlot = 0
  /\ object = [o \in Objects |-> NoObject]
  /\ head = [o \in Objects |-> Null]
  /\ owner = [o \in Objects |-> "idle"]
  /\ cur = [o \in Objects |-> Null]
  /\ heap = [a \in Addresses |-> NoInstance]
  /\ localState = [t \in LocalThreads |-> <<>>]
  /\ localPc = [t \in LocalThreads |-> "idle"]
  /\ arg = [t \in LocalThreads |-> Null]
  /\ new = [t \in LocalThreads |-> Null]
  /\ seen = [t \in LocalThreads |-> Null]
  /\ built = 0
  /\ starts = 0

Deleted(a) == [heap EXCEPT ![a] = NoInstance]
Started(t) == localState[t] # <<>>
StartOf(t) == localState[t].start

-----------------------------------------------------------------------------
(* ThreadLocalBase: the slots, under freeSlotsMutex.                       *)

\* Mutant: a slot is reused with the version it had.
SlotWithOldVersion ==
  IF freeSlots = <<>> THEN [slot |-> nextSlot, version |-> 1]
  ELSE [slot |-> freeSlots[Len(freeSlots)].slot,
        version |-> freeSlots[Len(freeSlots)].version]

NewSlot ==
  IF freeSlots = <<>> THEN [slot |-> nextSlot, version |-> 1]
  ELSE [slot |-> freeSlots[Len(freeSlots)].slot,
        version |-> freeSlots[Len(freeSlots)].version + 1]

Construct(o, kind) ==
  /\ object[o].kind = "none"
  /\ built < MaxObjects
  /\ built' = built + 1
  /\ object' = [object EXCEPT ![o] = [kind |-> kind, slot |-> NewSlot.slot,
                                      version |-> NewSlot.version, id |-> built']]
  /\ IF freeSlots = <<>>
     THEN nextSlot' = nextSlot + 1 /\ UNCHANGED freeSlots
     ELSE freeSlots' = SubSeq(freeSlots, 1, Len(freeSlots) - 1) /\ UNCHANGED nextSlot
  /\ head' = [head EXCEPT ![o] = Null]
  /\ UNCHANGED <<ownerVars, localThreadVars, heap>>

\* ~ThreadLocalBase, the last step of both destructors.
FreeSlot(o) ==
  /\ freeSlots' = Append(freeSlots, [slot |-> object[o].slot, version |-> object[o].version])
  /\ object' = [object EXCEPT ![o] = NoObject]
  /\ UNCHANGED <<nextSlot, built>>

\* ThreadLocal::swap exchanges two objects of the kind that threads own.
Swap(o, p) ==
  /\ o # p
  /\ \A q \in {o, p} :
       object[q].kind = "Thread" /\ \A t \in LocalThreads : arg[t] # q
  /\ object' = [object EXCEPT ![o] = object[p], ![p] = object[o]]
  /\ UNCHANGED <<freeSlots, nextSlot, built, ownerVars, localThreadVars, head, heap>>

-----------------------------------------------------------------------------
(* LocalState: the life of a thread.                                       *)

StartThread(t) ==
  /\ localPc[t] = "idle" /\ ~Started(t)
  /\ starts < MaxStarts
  /\ starts' = starts + 1
  /\ localState' = [localState EXCEPT ![t] =
                      [start |-> starts', at |-> [s \in Slots |-> Null]]]
  /\ UNCHANGED <<objectVars, ownerVars, localPc, arg, new, seen, head, heap>>

EndThread(t) ==
  /\ localPc[t] = "idle" /\ Started(t)
  /\ Proceed(t, "end")
  /\ seen' = [seen EXCEPT ![t] = 0]
  /\ UNCHANGED <<objectVars, ownerVars, localState, arg, new, starts, head, heap>>

Ending(t) == localState[t].at[seen[t]]
NextSlot(t) == seen' = [seen EXCEPT ![t] = @ + 1]

\* An empty slot, an instance of the thread, or one whose object is gone.
EndInstance(t) ==
  /\ localPc[t] = "end" /\ seen[t] \in Slots
  /\ IF Ending(t) = Null THEN NextSlot(t) /\ UNCHANGED <<localPc, heap>>
     ELSE IF heap[Ending(t)].kind = "Thread" \/ heap[Ending(t)].expired
          THEN NextSlot(t) /\ heap' = Deleted(Ending(t)) /\ UNCHANGED localPc
          ELSE Proceed(t, "mark") /\ UNCHANGED <<seen, heap>>
  /\ UNCHANGED <<objectVars, ownerVars, localState, arg, new, starts, head>>

\* Mutant: the flag is set without a look at what it was.
MarkBlindly(t) ==
  /\ localPc[t] = "mark"
  /\ heap' = [heap EXCEPT ![Ending(t)].expired = TRUE]
  /\ NextSlot(t)
  /\ Proceed(t, "end")
  /\ UNCHANGED <<objectVars, ownerVars, localState, arg, new, starts, head>>

\* test_and_set: the object may have marked the instance after the test.
MarkInstance(t) ==
  /\ localPc[t] = "mark"
  /\ heap' = IF heap[Ending(t)].expired THEN Deleted(Ending(t))
             ELSE [heap EXCEPT ![Ending(t)].expired = TRUE]
  /\ NextSlot(t)
  /\ Proceed(t, "end")
  /\ UNCHANGED <<objectVars, ownerVars, localState, arg, new, starts, head>>

FinishThread(t) ==
  /\ localPc[t] = "end" /\ seen[t] \notin Slots
  /\ localState' = [localState EXCEPT ![t] = <<>>]
  /\ Proceed(t, "idle")
  /\ seen' = [seen EXCEPT ![t] = Null]
  /\ UNCHANGED <<objectVars, ownerVars, arg, new, starts, head, heap>>

-----------------------------------------------------------------------------
(* access(): find the instance of the thread, or create and register it.   *)

HasStateInThread(t, o) ==
  LET a == localState[t].at[object[o].slot]
  IN  a # Null /\ heap[a].version = object[o].version

Create(t, o) ==
  /\ localPc[t] = "idle" /\ Started(t)
  /\ object[o].kind # "none" /\ owner[o] \notin {"destroy", "destroyMark"}
  /\ ~HasStateInThread(t, o)
  /\ \E a \in Addresses :
       /\ ~heap[a].live
       /\ heap' = [heap EXCEPT ![a] =
                     [live |-> TRUE, kind |-> object[o].kind, version |-> object[o].version,
                      expired |-> FALSE, next |-> Null, object |-> object[o].id,
                      start |-> StartOf(t)]]
       /\ new' = [new EXCEPT ![t] = a]
  /\ arg' = [arg EXCEPT ![t] = o]
  /\ Proceed(t, "register")
  /\ UNCHANGED <<objectVars, ownerVars, localState, seen, starts, head>>

\* Mutant: what was in the slot is overwritten.
KeepLeftover(t) == heap

\* Whatever is in the slot belongs to an object that is gone.
DeleteLeftover(t) ==
  LET a == localState[t].at[object[arg[t]].slot]
  IN  IF a = Null THEN heap ELSE Deleted(a)

Return(t) ==
  /\ Proceed(t, "idle")
  /\ arg' = [arg EXCEPT ![t] = Null]
  /\ new' = [new EXCEPT ![t] = Null]

Register(t) ==
  /\ localPc[t] = "register"
  /\ heap' = DeleteLeftover(t)
  /\ localState' = [localState EXCEPT ![t].at[object[arg[t]].slot] = new[t]]
  /\ IF object[arg[t]].kind = "Object" THEN Proceed(t, "load") /\ UNCHANGED <<arg, new>>
     ELSE Return(t)
  /\ UNCHANGED <<objectVars, ownerVars, seen, starts, head>>

LoadHead(t) ==
  /\ localPc[t] = "load"
  /\ seen' = [seen EXCEPT ![t] = head[arg[t]]]
  /\ Proceed(t, "push")
  /\ UNCHANGED <<objectVars, ownerVars, localState, arg, new, starts, head, heap>>

\* compare_exchange_weak; when it fails spuriously nothing changes.
Push(t) ==
  /\ localPc[t] = "push"
  /\ heap' = [heap EXCEPT ![new[t]].next = seen[t]]
  /\ IF head[arg[t]] = seen[t]
     THEN /\ head' = [head EXCEPT ![arg[t]] = new[t]]
          /\ seen' = [seen EXCEPT ![t] = Null]
          /\ Return(t)
     ELSE /\ seen' = [seen EXCEPT ![t] = head[arg[t]]]
          /\ UNCHANGED <<head, localPc, arg, new>>
  /\ UNCHANGED <<objectVars, ownerVars, localState, starts>>

-----------------------------------------------------------------------------
(* The owner of an object: destructor and eraseOrphans.                    *)

NotAccessed(o) == \A t \in LocalThreads : arg[t] # o

Destroy(o) ==
  /\ owner[o] = "idle" /\ object[o].kind # "none"
  /\ NotAccessed(o)
  /\ IF object[o].kind = "Thread" THEN FreeSlot(o) /\ UNCHANGED ownerVars
     ELSE /\ OwnerGoto(o, "destroy")
          /\ cur' = [cur EXCEPT ![o] = head[o]]
          /\ UNCHANGED objectVars
  /\ UNCHANGED <<localThreadVars, head, heap>>

\* The next pointer is read before the flag is touched; head keeps it for the
\* marking step, the chain is gone anyway.
DestroyInstance(o) ==
  /\ owner[o] = "destroy" /\ cur[o] # Null
  /\ head' = [head EXCEPT ![o] = heap[cur[o]].next]
  /\ IF heap[cur[o]].expired
     THEN heap' = Deleted(cur[o]) /\ cur' = [cur EXCEPT ![o] = head'[o]] /\ UNCHANGED owner
     ELSE OwnerGoto(o, "destroyMark") /\ UNCHANGED <<heap, cur>>
  /\ UNCHANGED <<objectVars, localThreadVars>>

\* Mutant: the next pointer is read after the flag was set.
DestroyMarkReadsNext(o) ==
  /\ owner[o] = "destroyMark"
  /\ IF heap[cur[o]].expired THEN heap' = Deleted(cur[o]) /\ cur' = [cur EXCEPT ![o] = head[o]]
     ELSE heap' = [heap EXCEPT ![cur[o]].expired = TRUE] /\ UNCHANGED cur
  /\ OwnerGoto(o, "destroy")
  /\ UNCHANGED <<objectVars, localThreadVars, head>>

DestroyMark(o) ==
  /\ owner[o] = "destroyMark"
  /\ heap' = IF heap[cur[o]].expired THEN Deleted(cur[o])
             ELSE [heap EXCEPT ![cur[o]].expired = TRUE]
  /\ cur' = [cur EXCEPT ![o] = head[o]]
  /\ OwnerGoto(o, "destroy")
  /\ UNCHANGED <<objectVars, localThreadVars, head>>

FinishDestroy(o) ==
  /\ owner[o] = "destroy" /\ cur[o] = Null
  /\ FreeSlot(o)
  /\ OwnerGoto(o, "idle")
  /\ UNCHANGED <<cur, localThreadVars, head, heap>>

EraseOrphans(o) ==
  /\ owner[o] = "idle" /\ object[o].kind = "Object"
  /\ OwnerGoto(o, "erase")
  /\ UNCHANGED <<objectVars, localThreadVars, cur, head, heap>>

EraseLoad(o) ==
  /\ owner[o] = "erase"
  /\ cur' = [cur EXCEPT ![o] = head[o]]
  /\ OwnerGoto(o, IF head[o] = Null THEN "idle" ELSE "check")
  /\ UNCHANGED <<objectVars, localThreadVars, head, heap>>

\* Mutant: the head is stored, whatever was pushed meanwhile.
EraseHeadByStore(o) ==
  /\ head' = [head EXCEPT ![o] = heap[cur[o]].next]
  /\ heap' = Deleted(cur[o])

\* compare_exchange_weak; the owner starts again in both cases.
EraseHead(o) ==
  IF head[o] = cur[o]
  THEN head' = [head EXCEPT ![o] = heap[cur[o]].next] /\ heap' = Deleted(cur[o])
  ELSE UNCHANGED <<head, heap>>

\* The predicate is up to the caller.
EraseCheck(o) ==
  /\ owner[o] = "check"
  /\ \/ /\ heap[cur[o]].expired /\ EraseHead(o)
        /\ OwnerGoto(o, "erase")
        /\ cur' = [cur EXCEPT ![o] = Null]
     \/ OwnerGoto(o, "walk") /\ UNCHANGED <<head, heap, cur>>
  /\ UNCHANGED <<objectVars, localThreadVars>>

EraseWalk(o) ==
  /\ owner[o] = "walk"
  /\ LET next == heap[cur[o]].next
     IN  \/ /\ next = Null
            /\ OwnerGoto(o, "idle")
            /\ cur' = [cur EXCEPT ![o] = Null]
            /\ UNCHANGED heap
         \/ /\ next # Null /\ heap[next].expired
            /\ heap' = [Deleted(next) EXCEPT ![cur[o]].next = heap[next].next]
            /\ UNCHANGED ownerVars
         \/ /\ next # Null
            /\ cur' = [cur EXCEPT ![o] = next]
            /\ UNCHANGED <<heap, owner>>
  /\ UNCHANGED <<objectVars, localThreadVars, head>>

\* doForEachThreadState and the iterators, by the owner.
Iterate(o) ==
  /\ owner[o] = "idle" /\ object[o].kind = "Object"
  /\ OwnerGoto(o, "iterate")
  /\ cur' = [cur EXCEPT ![o] = head[o]]
  /\ UNCHANGED <<objectVars, localThreadVars, head, heap>>

IterateNext(o) ==
  /\ owner[o] = "iterate"
  /\ IF cur[o] = Null THEN OwnerGoto(o, "idle") /\ UNCHANGED cur
     ELSE cur' = [cur EXCEPT ![o] = heap[cur[o]].next] /\ UNCHANGED owner
  /\ UNCHANGED <<objectVars, localThreadVars, head, heap>>

-----------------------------------------------------------------------------
ThreadStep(t) ==
  \/ EndInstance(t) \/ MarkInstance(t) \/ FinishThread(t)
  \/ Register(t) \/ LoadHead(t) \/ Push(t)

OwnerStep(o) ==
  \/ DestroyInstance(o) \/ DestroyMark(o) \/ FinishDestroy(o)
  \/ EraseLoad(o) \/ EraseCheck(o) \/ EraseWalk(o) \/ IterateNext(o)

LocalNext ==
  \/ \E t \in LocalThreads : StartThread(t) \/ EndThread(t) \/ ThreadStep(t)
  \/ \E t \in LocalThreads, o \in Objects : Create(t, o)
  \/ \E o \in Objects : Destroy(o) \/ EraseOrphans(o) \/ Iterate(o) \/ OwnerStep(o)
  \/ \E o \in Objects, kind \in {"Thread", "Object"} : Construct(o, kind)
  \/ \E o, p \in Objects : Swap(o, p)

LocalSpec == LocalInit /\ [][LocalNext]_localVars

-----------------------------------------------------------------------------
\* A thread that finds an instance of an object finds the one it created itself,
\* in this life, for this very object: never one of an earlier object with the
\* same slot.
Private ==
  \A t \in LocalThreads, o \in Objects :
    Started(t) /\ localPc[t] = "idle" /\ object[o].kind # "none" /\ HasStateInThread(t, o) =>
      LET a == localState[t].at[object[o].slot]
      IN  heap[a].live /\ heap[a].start = StartOf(t) /\ heap[a].object = object[o].id

InDestructor(o) == owner[o] \in {"destroy", "destroyMark"}

\* The addresses that one comes by from first along next: the least set that
\* has first and the next of each of its members.
Reach(first, next) ==
  {a \in Addresses :
     \A S \in SUBSET Addresses :
       /\ first \in S \cup {Null}
       /\ \A b \in S : next[b] \in S \cup {Null}
       => a \in S}

\* The instances that can be reached from the head of an object.
Chain(o) == Reach(head[o], [a \in Addresses |-> heap[a].next])

\* The instances that thread t still has in its slots.
Held(t) ==
  IF Started(t)
  THEN {localState[t].at[s] :
          s \in {s \in Slots : localPc[t] \in {"end", "mark"} => s >= seen[t]}} \ {Null}
  ELSE {}

Registering(t) == {new[t]} \ {Null}
LookedAt(o) == {cur[o]} \ {Null}
InstancesOf(o) == {a \in Addresses : heap[a].live /\ heap[a].object = object[o].id}

\* Whatever a thread or an owner still follows is live and is what it was when
\* the pointer was taken: nothing is used or deleted after it was deleted, not
\* even when a new instance has got the address.
NoDangling ==
  /\ \A t \in LocalThreads : \A a \in Held(t) \cup Registering(t) :
       heap[a].live /\ heap[a].start = StartOf(t)
  /\ \A o \in Objects : object[o].kind = "Object" =>
       Chain(o) \cup LookedAt(o) \subseteq InstancesOf(o)

\* Unless its object is in the destructor, an instance is on the chain from its
\* push to its deletion: no push and no erase loses another thread's instance,
\* so an iteration sees all of them.
ChainExact ==
  \A o \in Objects : object[o].kind = "Object" /\ ~InDestructor(o) =>
    Chain(o) = InstancesOf(o) \ UNION {Registering(t) : t \in LocalThreads}

\* Every instance has someone who will delete it: the thread that holds it, the
\* thread that is about to register it, or its object.
NoLeak ==
  \A a \in Addresses : heap[a].live =>
    \/ \E t \in LocalThreads : a \in Held(t) \cup Registering(t)
    \/ \E o \in Objects : object[o].kind = "Object" /\ a \in Chain(o) \cup LookedAt(o)

\* An instance is deleted once, by the one of the two that comes second: while anyone can
\* reach it, it is there, and as long as it is there, someone can reach it.
InstancesOwned == NoDangling /\ NoLeak

=============================================================================
