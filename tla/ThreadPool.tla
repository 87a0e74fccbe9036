----------------------------- MODULE ThreadPool -----------------------------
(***************************************************************************)
(* factDB/infra/threading/ThreadPool.hpp: a fixed set of workers, two      *)
(* std::barriers and an atomic cursor from which the workers and the       *)
(* calling thread claim chunks of grainSize indices.                       *)
(*                                                                         *)
(* A step of a thread is one access to the state the threads share.  The   *)
(* loop body is abstracted to `runs', which counts how often it was called *)
(* for an index since the latest call began.  size_t is a natural number:  *)
(* the cursor can pass the end of the range by one grain per thread only,  *)
(* far from 2^64 for the grain sizes the code generator emits.             *)
(***************************************************************************)
EXTENDS Integers

CONSTANTS
  Workers,    \* the threads the constructor starts
  Main,       \* the thread that owns the pool and calls parallelFor
  MaxIndex,   \* the largest end of a range
  MaxGrain,   \* the largest grain size
  MaxCalls    \* bound: how many calls are made before the destructor

ASSUME MainAssumption == Main \notin Workers
ASSUME BoundsAssumption ==
  /\ MaxIndex \in Nat
  /\ MaxGrain \in Nat \ {0}
  /\ MaxCalls \in Nat

Threads == Workers \cup {Main}
Index == 0 .. MaxIndex - 1

VARIABLES
  pc,           \* where each thread is
  startBarrier, \* the threads blocked in startBarrier
  endBarrier,   \* the threads blocked in endBarrier
  workCursor,   \* the next index nobody claimed
  currentTask,  \* the task descriptor: first index, size and grain of the range
  begin,        \* the cursor value each thread fetched last
  shutdown,     \* set by the destructor
  runs,         \* how often the body ran for an index in the latest call
  calls         \* how many calls were published

poolVars == <<pc, startBarrier, endBarrier, workCursor, currentTask, begin,
          shutdown, runs, calls>>

Tasks == [first : 0 .. MaxIndex, end : 0 .. MaxIndex, grainSize : 1 .. MaxGrain]

Goto(t, label) == pc' = [pc EXCEPT ![t] = label]

PoolInit ==
  /\ pc = [t \in Threads |-> IF t = Main THEN "idle" ELSE "arriveStart"]
  /\ startBarrier = {}
  /\ endBarrier = {}
  /\ workCursor = 0
  /\ currentTask = [first |-> 0, end |-> 0, grainSize |-> 1]
  /\ begin = [t \in Threads |-> 0]
  /\ shutdown = FALSE
  /\ runs = [i \in Index |-> 0]
  /\ calls = 0

-----------------------------------------------------------------------------
(* std::barrier with one participant per thread: the last one to arrive    *)
(* releases all that wait, the others block until then.                    *)

Arrived(barrier, t) ==
  IF barrier \cup {t} = Threads THEN {} ELSE barrier \cup {t}

ArriveStart(t) ==
  /\ pc[t] = "arriveStart"
  /\ startBarrier' = Arrived(startBarrier, t)
  /\ Goto(t, "waitStart")
  /\ UNCHANGED <<endBarrier, workCursor, currentTask, begin, shutdown, runs, calls>>

\* Mutant: the caller does not wait for the workers.
ArriveEndWithoutCaller(t) ==
  /\ pc[t] = "arriveEnd"
  /\ IF t = Main
     THEN Goto(t, "idle") /\ UNCHANGED endBarrier
     ELSE endBarrier' = Arrived(endBarrier, t) /\ Goto(t, "waitEnd")
  /\ UNCHANGED <<startBarrier, workCursor, currentTask, begin, shutdown, runs, calls>>

ArriveEnd(t) ==
  /\ pc[t] = "arriveEnd"
  /\ endBarrier' = Arrived(endBarrier, t)
  /\ Goto(t, "waitEnd")
  /\ UNCHANGED <<startBarrier, workCursor, currentTask, begin, shutdown, runs, calls>>

\* The caller comes back from parallelFor, a worker loops.
LeaveEnd(t) ==
  /\ pc[t] = "waitEnd"
  /\ t \notin endBarrier
  /\ Goto(t, IF t = Main THEN "idle" ELSE "arriveStart")
  /\ UNCHANGED <<startBarrier, endBarrier, workCursor, currentTask, begin,
                 shutdown, runs, calls>>

\* The caller knows whether it woke the workers for a task or for the exit.
LeaveStart(t) ==
  /\ pc[t] = "waitStart"
  /\ t \notin startBarrier
  /\ Goto(t, IF t = Main THEN IF shutdown THEN "join" ELSE "claim" ELSE "check")
  /\ UNCHANGED <<startBarrier, endBarrier, workCursor, currentTask, begin,
                 shutdown, runs, calls>>

CheckShutdown(t) ==
  /\ pc[t] = "check"
  /\ Goto(t, IF shutdown THEN "exited" ELSE "claim")
  /\ UNCHANGED <<startBarrier, endBarrier, workCursor, currentTask, begin,
                 shutdown, runs, calls>>

-----------------------------------------------------------------------------
(* processWork: the atomic fetch_add, the test against the end of the      *)
(* task, and the call of the body on the claimed chunk.                    *)

Claim(t) ==
  /\ pc[t] = "claim"
  /\ begin' = [begin EXCEPT ![t] = workCursor]
  /\ workCursor' = workCursor + currentTask.grainSize
  /\ Goto(t, "test")
  /\ UNCHANGED <<startBarrier, endBarrier, currentTask, shutdown, runs, calls>>

TestEnd(t) ==
  /\ pc[t] = "test"
  /\ Goto(t, IF begin[t] >= currentTask.end THEN "arriveEnd" ELSE "run")
  /\ UNCHANGED <<startBarrier, endBarrier, workCursor, currentTask, begin,
                 shutdown, runs, calls>>

\* min(begin + grainSize, end) ends the chunk.
InChunk(t, k) ==
  /\ begin[t] <= k
  /\ k < begin[t] + currentTask.grainSize
  /\ k < currentTask.end

\* The lambda of the BlockedRange overload shifts the chunk by range.begin().
RunChunk(t) ==
  /\ pc[t] = "run"
  /\ runs' = [i \in Index |->
                IF InChunk(t, i - currentTask.first) THEN runs[i] + 1 ELSE runs[i]]
  /\ Goto(t, "claim")
  /\ UNCHANGED <<startBarrier, endBarrier, workCursor, currentTask, begin, shutdown, calls>>

-----------------------------------------------------------------------------
(* The caller: parallelFor over [first, last), which returns at once on an *)
(* empty range and throws on a grain size of 0, and the destructor.        *)

ParallelForCall(first, last, grain) ==
  /\ pc[Main] = "idle"
  /\ calls < MaxCalls
  /\ first < last
  /\ grain # 0
  /\ currentTask' = [first |-> first, end |-> last - first, grainSize |-> grain]
  /\ runs' = [i \in Index |-> 0]
  /\ calls' = calls + 1
  /\ Goto(Main, "reset")
  /\ UNCHANGED <<startBarrier, endBarrier, workCursor, begin, shutdown>>

\* Mutant: the cursor of the previous call is kept.
ResetCursorForgotten ==
  /\ pc[Main] = "reset"
  /\ Goto(Main, "arriveStart")
  /\ UNCHANGED <<startBarrier, endBarrier, workCursor, currentTask, begin,
                 shutdown, runs, calls>>

ResetCursor ==
  /\ pc[Main] = "reset"
  /\ workCursor' = 0
  /\ Goto(Main, "arriveStart")
  /\ UNCHANGED <<startBarrier, endBarrier, currentTask, begin, shutdown, runs, calls>>

\* Mutant: the destructor joins the workers without waking them.
DestroyWithoutWake ==
  /\ pc[Main] = "idle"
  /\ shutdown' = TRUE
  /\ Goto(Main, "join")
  /\ UNCHANGED <<startBarrier, endBarrier, workCursor, currentTask, begin, runs, calls>>

DestroyPool ==
  /\ pc[Main] = "idle"
  /\ shutdown' = TRUE
  /\ Goto(Main, "arriveStart")
  /\ UNCHANGED <<startBarrier, endBarrier, workCursor, currentTask, begin, runs, calls>>

Join ==
  /\ pc[Main] = "join"
  /\ \A w \in Workers : pc[w] = "exited"
  /\ Goto(Main, "gone")
  /\ UNCHANGED <<startBarrier, endBarrier, workCursor, currentTask, begin,
                 shutdown, runs, calls>>

-----------------------------------------------------------------------------
Step(t) ==
  \/ ArriveStart(t)
  \/ LeaveStart(t)
  \/ CheckShutdown(t)
  \/ Claim(t)
  \/ TestEnd(t)
  \/ RunChunk(t)
  \/ ArriveEnd(t)
  \/ LeaveEnd(t)

Owner ==
  \/ \E first, last \in 0 .. MaxIndex, grain \in 0 .. MaxGrain :
       ParallelForCall(first, last, grain)
  \/ DestroyPool

PoolNext ==
  \/ \E t \in Threads : Step(t)
  \/ ResetCursor
  \/ Join
  \/ Owner

\* The operating system runs every thread that can run; nobody forces the owner
\* to call parallelFor or to destroy the pool.
Fairness ==
  /\ \A t \in Threads : WF_poolVars(Step(t))
  /\ WF_poolVars(ResetCursor)
  /\ WF_poolVars(Join)

PoolSpec == PoolInit /\ [][PoolNext]_poolVars

FairSpec == PoolSpec /\ Fairness

-----------------------------------------------------------------------------
Labels == {"idle", "reset", "arriveStart", "waitStart", "check", "claim", "test",
           "run", "arriveEnd", "waitEnd", "join", "exited", "gone"}

TypeOK ==
  /\ pc \in [Threads -> Labels]
  /\ startBarrier \in SUBSET Threads
  /\ endBarrier \in SUBSET Threads
  /\ workCursor \in Nat
  /\ currentTask \in Tasks
  /\ currentTask.first + currentTask.end <= MaxIndex
  /\ begin \in [Threads -> Nat]
  /\ shutdown \in BOOLEAN
  /\ runs \in [Index -> Nat]
  /\ calls \in 0 .. MaxCalls

\* The range of the latest call, in the caller's indices.
Bound == currentTask.first .. currentTask.first + currentTask.end - 1

\* The owner is inside parallelFor.
InCall ==
  \/ pc[Main] \in {"reset", "claim", "test", "run", "arriveEnd", "waitEnd"}
  \/ /\ pc[Main] \in {"arriveStart", "waitStart"}
     /\ ~shutdown

\* The body is a reference to the caller's std::function and to its stack frame: no
\* worker holds a chunk, or is about to claim one, once the call is over.
NoWorkOutsideCall ==
  \A w \in Workers : pc[w] \in {"claim", "test", "run"} => InCall

\* The pool implements the abstract parallel loop: whatever the interleaving, every
\* index of a range is executed once, and the owner is back from parallelFor only
\* when all of them are ("Blocks until all chunks are complete").
PF == INSTANCE ParallelFor WITH
        active <- InCall,
        bound <- Bound

Refines == PF!Spec

\* A call of parallelFor comes back, and the destructor gets all workers to exit:
\* nobody is left behind in a barrier.
OwnerReturns ==
  /\ InCall ~> ~InCall
  /\ shutdown ~> pc[Main] = "gone"

=============================================================================
